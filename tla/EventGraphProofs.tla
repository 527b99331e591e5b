------------------------- MODULE EventGraphProofs -------------------------
(***************************************************************************)
(* Proofs about EventGraph, for any number of events, producers, workers   *)
(* and waiters and any capacity of the control pipe: the types, and that   *)
(* no thread touches an event that was freed.                              *)
(*                                                                         *)
(* The argument: an event has at most two references.  The one of the      *)
(* queue moves from the producer that adds the event to the queue and from *)
(* there to the worker that claims it; the other one belongs to the        *)
(* requester.  refs_before_release counts exactly these two, so it becomes *)
(* 0 once, in the step of the only thread that still holds a reference,    *)
(* and that thread alone goes through crtx_free_event.                     *)
(***************************************************************************)
EXTENDS EventGraph, TLAPS

(* The event is known to its creator only: it was not queued yet, or it is *)
(* dropped because the graph has no task.                                  *)
PrivatePCs == {"p_keep", "p_refs", "p_add", "p_dropresp", "p_droprel"}

(* The producer holds the reference of the queue.                          *)
AddingPCs == {"p_add", "p_dropresp", "p_droprel"}

(* The worker holds the reference of the queue.                            *)
HandlingPCs == {"w_handle", "w_derefresp", "w_derefrel"}

(* The requester holds its own reference.                                  *)
RequestPCs == {"p_refs", "p_add", "p_trigger", "p_dropresp", "p_droprel",
               "p_unlock", "p_wait", "p_waiting", "p_read", "p_deref"}

(* Only a requester gets there.                                            *)
AskingPCs == {"p_keep", "p_wait", "p_waiting", "p_read", "p_deref"}

Queued(e) == \E i \in DOMAIN equeue : equeue[i] = e

HeldByQueue(e) ==
    \/ Queued(e)
    \/ \E p \in Producers : cur[p] = e /\ pc[p] \in AddingPCs
    \/ \E w \in Workers : cur[w] = e /\ pc[w] \in HandlingPCs

HeldByRequester(e) ==
    \E p \in Producers : cur[p] = e /\ req[p] /\ pc[p] \in RequestPCs

---------------------------------------------------------------------------
(* The inductive invariant.                                                *)

(* Every thread is at a step of its own program; nobody flushes.           *)
Programs ==
    /\ \A p \in Producers : pc[p] \in ProducerPCs \cup FreePCs
    /\ \A w \in Workers : pc[w] \in WorkerPCs \cup FreePCs
    /\ \A u \in Waiters : pc[u] \in WaiterPCs
    /\ pc[Flusher] = "x_idle"
    /\ qmutex = NoThread

(* Who has a valid event pointer.                                          *)
Pointers ==
    /\ \A p \in Producers : pc[p] # "p_idle" => cur[p] \in Events
    /\ \A w \in Workers : cur[w] = NoEvent <=> pc[w] \in {"w_idle", "w_claim"}
    /\ \A u \in Waiters \cup {Flusher} : cur[u] = NoEvent
    /\ \A p \in Producers : pc[p] \in AskingPCs => req[p]

(* Only events that were created are referred to.                          *)
Created ==
    /\ \A t \in Threads : cur[t] # NoEvent => life[cur[t]] # "unborn"
    /\ \A i \in DOMAIN equeue : life[equeue[i]] # "unborn"

(* An event has one creator, and is in one place at a time: with the       *)
(* producer that creates it, in the queue, or with one worker.             *)
Exclusive ==
    /\ \A p \in Producers : pc[p] \in PrivatePCs =>
          /\ \A t \in Threads \ {p} : cur[t] # cur[p]
          /\ ~Queued(cur[p])
    /\ \A p, q \in Producers :
          p # q /\ pc[p] # "p_idle" /\ pc[q] # "p_idle" => cur[p] # cur[q]
    /\ \A v, w \in Workers : v # w /\ cur[v] # NoEvent => cur[v] # cur[w]
    /\ \A w \in Workers : ~Queued(cur[w])
    /\ \A i, j \in DOMAIN equeue : i # j => equeue[i] # equeue[j]

(* refs_before_release counts the two references.                          *)
Counted ==
    \A e \in Events :
        rel[e] = (IF HeldByQueue(e) THEN 1 ELSE 0)
                 + (IF HeldByRequester(e) THEN 1 ELSE 0)

(* A thread in crtx_free_event is alone with an event without references.  *)
Freeing ==
    \A t \in Threads : pc[t] \in FreePCs =>
        /\ cur[t] \in Events
        /\ rel[cur[t]] = 0
        /\ life[cur[t]] = "live"
        /\ \A u \in Threads \ {t} : pc[u] \in FreePCs => cur[u] # cur[t]

(* What is referenced, or not yet shared, is allocated.                    *)
Allocated ==
    /\ \A e \in Events : HeldByQueue(e) \/ HeldByRequester(e)
                             => life[e] = "live"
    /\ \A p \in Producers : pc[p] \in {"p_keep", "p_refs"}
                             => life[cur[p]] = "live"

(* The claimed list holds the events of the workers.                       *)
Claiming ==
    \A e \in Events : e \in claimed <=> \E w \in Workers : cur[w] = e

(* Everything but the types.                                               *)
Shape ==
    /\ Programs /\ Pointers /\ Created /\ Exclusive /\ Counted /\ Freeing
    /\ Allocated /\ Claiming

IInv == TypeOK /\ Shape

---------------------------------------------------------------------------
(* Sequences.                                                              *)

(* Without(q, i) is q without one element (crtx_dll_unlink in              *)
(* crtx_claim_next_event_of_graph).                                        *)
LEMMA WithoutSeq ==
    ASSUME NEW S, NEW q \in Seq(S), NEW i \in DOMAIN q
    PROVE  /\ Without(q, i) \in Seq(S)
           /\ Len(Without(q, i)) = Len(q) - 1
           /\ DOMAIN Without(q, i) = 1..(Len(q) - 1)
           /\ \A j \in 1..(Len(q) - 1) :
                 Without(q, i)[j] = IF j < i THEN q[j] ELSE q[j + 1]
<1> DEFINE r == Without(q, i)
<1>1. Len(q) \in Nat /\ DOMAIN q = 1..Len(q)
  OBVIOUS
<1>2. Len(q) - 1 \in Nat
  BY <1>1
<1>3. DOMAIN r = 1..(Len(q) - 1)
  BY DEF Without
<1>4. \A j \in 1..(Len(q) - 1) : r[j] = IF j < i THEN q[j] ELSE q[j + 1]
  BY DEF Without
<1>5. \A j \in 1..(Len(q) - 1) : r[j] \in S
  BY <1>1, <1>4
<1>6. r \in [1..(Len(q) - 1) -> S]
  BY <1>5 DEF Without
<1>7. r \in Seq(S)
  BY <1>2, <1>6
<1>8. Len(r) = Len(q) - 1
  BY <1>2, <1>3, <1>7
<1> QED
  BY <1>3, <1>4, <1>7, <1>8

---------------------------------------------------------------------------
(* Setting the counter of one event to a natural number.                   *)
LEMMA CounterSet ==
    ASSUME NEW f \in [Events -> Nat], NEW e, NEW n, e \in Events => n \in Nat
    PROVE  [f EXCEPT ![e] = n] \in [Events -> Nat]
OBVIOUS

(* The steps of a thread t to l, where others may be woken up, keep the    *)
(* type of pc.                                                             *)
LEMMA GotoTypes ==
    ASSUME TypeOK, NEW t \in Threads, NEW e, NEW l \in PCs,
           \/ Goto(t, l) \/ GotoWakeResponse(t, l, e)
           \/ GotoWakeRelease(t, l, e) \/ GotoSignalQueue(t, l)
    PROVE  pc' \in [Threads -> PCs]
<1>0. "p_wait" \in PCs /\ "f_check" \in PCs /\ "e_check" \in PCs
  BY DEF PCs, FreePCs, ProducerPCs, WaiterPCs
<1>1. pc \in [Threads -> PCs]
  BY DEF TypeOK
<1>2. CASE Goto(t, l)
  BY <1>1, <1>2 DEF Goto
<1>3. CASE GotoWakeResponse(t, l, e)
  BY <1>0, <1>1, <1>3 DEF GotoWakeResponse
<1>4. CASE GotoWakeRelease(t, l, e)
  BY <1>0, <1>1, <1>4 DEF GotoWakeRelease
<1>5. CASE GotoSignalQueue(t, l)
  BY <1>0, <1>1, <1>5 DEF GotoSignalQueue, Goto
<1> QED
  BY <1>2, <1>3, <1>4, <1>5

(* crtx_dereference_event_release continues at a step of its caller.       *)
LEMMA AfterReleaseType ==
    \A t : AfterRelease(t) \in {"w_unlink", "x_unlink", "p_unlock", "p_idle"}
BY DEF AfterRelease

(* Every step of Next keeps the types.                                     *)
LEMMA TypeStep == TypeOK /\ Pointers /\ [Next]_vars => TypeOK'
<1> SUFFICES ASSUME TypeOK, Pointers, [Next]_vars PROVE TypeOK'
  OBVIOUS
<1> USE DistinctThreads, NoEventIsNoEvent, PipeCapAssumption
<1>pcs. /\ FreePCs \subseteq PCs /\ ProducerPCs \subseteq PCs
        /\ WorkerPCs \subseteq PCs /\ WaiterPCs \subseteq PCs
  BY DEF PCs
<1>thr. Producers \subseteq Threads /\ Workers \subseteq Threads
        /\ Waiters \subseteq Threads
  BY DEF Threads
<1>1. ASSUME NEW p \in Producers, NEW e \in Events, NEW r \in BOOLEAN,
             CreateEvent(p, e, r)
      PROVE  TypeOK'
  <2>1. pc' \in [Threads -> PCs]
    BY <1>1, <1>pcs, <1>thr, GotoTypes DEF CreateEvent, ProducerPCs
  <2> QED
    BY <1>1, <1>pcs, <1>thr, <2>1 DEF TypeOK, CreateEvent, graphVars
<1>2. ASSUME NEW p \in Producers, ProducerStep(p) PROVE TypeOK'
  <2>1. CASE KeepReference(p)
    <3>1. pc' \in [Threads -> PCs]
      BY <1>pcs, <1>thr, <2>1, GotoTypes DEF KeepReference, ProducerPCs
    <3>2. rel' \in [Events -> Nat]
      <4>1. rel \in [Events -> Nat]
        BY DEF TypeOK
      <4>2. rel' = [rel EXCEPT ![cur[p]] = rel[cur[p]] + 1]
        BY <2>1 DEF KeepReference
      <4>3. cur[p] \in Events => rel[cur[p]] + 1 \in Nat
        BY <4>1
      <4> QED
        BY <4>1, <4>2, <4>3, CounterSet
    <3> QED
      BY <2>1, <3>1, <3>2 DEF TypeOK, KeepReference, graphVars
  <2>2. CASE AddReferences(p)
    <3>1. pc' \in [Threads -> PCs]
      BY <1>pcs, <1>thr, <2>2, GotoTypes DEF AddReferences, ProducerPCs
    <3>2. rel \in [Events -> Nat] /\ resp \in [Events -> Nat]
      BY DEF TypeOK
    <3>3. rel' \in [Events -> Nat]
      <4>1. rel' = [rel EXCEPT ![cur[p]] = rel[cur[p]] + 1]
        BY <2>2 DEF AddReferences
      <4>2. cur[p] \in Events => rel[cur[p]] + 1 \in Nat
        BY <3>2
      <4> QED
        BY <3>2, <4>1, <4>2, CounterSet
    <3>4. resp' \in [Events -> Nat]
      <4>1. \/ resp' = resp
            \/ resp' = [resp EXCEPT ![cur[p]] = resp[cur[p]] + 1]
        BY <2>2 DEF AddReferences
      <4>2. cur[p] \in Events => resp[cur[p]] + 1 \in Nat
        BY <3>2
      <4> QED
        BY <3>2, <4>1, <4>2, CounterSet
    <3> QED
      BY <2>2, <3>1, <3>3, <3>4 DEF TypeOK, AddReferences, graphVars
  <2>3. CASE Enqueue(p)
    <3>1. pc' \in [Threads -> PCs]
      BY <1>pcs, <1>thr, <2>3, GotoTypes DEF Enqueue, ProducerPCs
    <3>2. equeue' \in Seq(Events)
      <4>1. equeue \in Seq(Events)
        BY DEF TypeOK
      <4>2. equeue' = Append(equeue, cur[p])
        BY <2>3 DEF Enqueue
      <4>3. cur[p] \in Events
        BY <1>thr, <2>3 DEF Enqueue, Pointers
      <4> QED
        BY <4>1, <4>2, <4>3
    <3> QED
      BY <1>thr, <2>3, <3>1, <3>2 DEF TypeOK, Enqueue, evVars
  <2>4. CASE Drop(p)
    BY <1>pcs, <1>thr, <2>4, GotoTypes DEF TypeOK, Drop, evVars, graphVars, ProducerPCs
  <2>5. CASE TriggerLoop(p)
    <3>1. pc' \in [Threads -> PCs]
      BY <1>pcs, <1>thr, <2>5, GotoTypes DEF TriggerLoop, ProducerPCs
    <3>2. pipe' \in 0..PipeCap
      <4>1. pipe \in 0..PipeCap
        BY DEF TypeOK
      <4>2. pipe < PipeCap /\ pipe' = pipe + 1
        BY <2>5 DEF TriggerLoop
      <4> QED
        BY <4>1, <4>2
    <3> QED
      BY <2>5, <3>1, <3>2 DEF TypeOK, TriggerLoop, evVars
  <2>6. CASE TriggerThread(p)
    <3>1. pc' \in [Threads -> PCs]
      <4>1. CASE Goto(p, "p_unlock")
        BY <1>pcs, <1>thr, <4>1, GotoTypes DEF ProducerPCs
      <4>2. CASE \E w \in Workers : pc' = [pc EXCEPT ![p] = "p_unlock", ![w] = "w_claim"]
        <5>1. PICK w \in Workers : pc' = [pc EXCEPT ![p] = "p_unlock", ![w] = "w_claim"]
          BY <4>2
        <5>2. "p_unlock" \in PCs /\ "w_claim" \in PCs
          BY <1>pcs DEF ProducerPCs, WorkerPCs
        <5>3. pc \in [Threads -> PCs]
          BY DEF TypeOK
        <5> QED
          BY <5>1, <5>2, <5>3
      <4> QED
        BY <2>6, <4>1, <4>2 DEF TriggerThread
    <3> QED
      BY <1>thr, <2>6, <3>1 DEF TypeOK, TriggerThread, evVars, graphVars
  <2>7. CASE UnlockGraph(p)
    <3>1. pc' \in [Threads -> PCs]
      BY <1>pcs, <1>thr, <2>7, GotoTypes DEF UnlockGraph, ProducerPCs
    <3> QED
      BY <1>thr, <2>7, <3>1 DEF TypeOK, UnlockGraph, evVars, graphVars
  <2>8. CASE WaitOnEvent(p)
    BY <1>pcs, <1>thr, <2>8, GotoTypes
       DEF TypeOK, WaitOnEvent, evVars, graphVars, ProducerPCs
  <2>9. CASE ReadResponse(p)
    BY <1>pcs, <1>thr, <2>9, GotoTypes
       DEF TypeOK, ReadResponse, evVars, graphVars, ProducerPCs
  <2> QED
    BY <1>2, <2>1, <2>2, <2>3, <2>4, <2>5, <2>6, <2>7, <2>8, <2>9
       DEF ProducerStep
<1>3. ASSUME NEW w \in Workers, WorkerStep(w) PROVE TypeOK'
  <2>1. CASE ReadRequest(w)
    <3>1. pc' \in [Threads -> PCs]
      BY <1>pcs, <1>thr, <2>1, GotoTypes DEF ReadRequest, WorkerPCs
    <3>2. pipe' \in 0..PipeCap
      <4>1. pipe \in 0..PipeCap
        BY DEF TypeOK
      <4>2. pipe > 0 /\ pipe' = pipe - 1
        BY <2>1 DEF ReadRequest
      <4> QED
        BY <4>1, <4>2
    <3> QED
      BY <2>1, <3>1, <3>2 DEF TypeOK, ReadRequest, evVars
  <2>2. CASE ClaimNextEvent(w)
    <3>1. PICK i \in DOMAIN equeue :
             /\ cur' = [cur EXCEPT ![w] = equeue[i]]
             /\ claimed' = claimed \cup {equeue[i]}
             /\ equeue' = Without(equeue, i)
      BY <2>2 DEF ClaimNextEvent
    <3>2. equeue' \in Seq(Events) /\ equeue[i] \in Events
      BY <3>1, WithoutSeq DEF TypeOK
    <3> QED
      BY <1>pcs, <1>thr, <2>2, <3>1, <3>2, GotoTypes
         DEF TypeOK, ClaimNextEvent, evVars, WorkerPCs
  <2>3. CASE LeaveGraph(w)
    BY <1>pcs, <1>thr, <2>3, GotoTypes
       DEF TypeOK, LeaveGraph, evVars, graphVars, WorkerPCs
  <2>4. CASE TraverseGraph(w)
    BY <1>pcs, <1>thr, <2>4, GotoTypes
       DEF TypeOK, TraverseGraph, evVars, graphVars, WorkerPCs
  <2>5. CASE UnlinkClaimed(w)
    <3>1. pc' \in [Threads -> PCs]
      BY <1>pcs, <1>thr, <2>5, GotoTypes DEF UnlinkClaimed, WorkerPCs
    <3> QED
      BY <1>thr, <2>5, <3>1 DEF TypeOK, UnlinkClaimed, evVars
  <2> QED
    BY <1>3, <2>1, <2>2, <2>3, <2>4, <2>5 DEF WorkerStep
<1>4. ASSUME NEW t \in Producers \cup Workers, ReleaseStep(t) PROVE TypeOK'
  <2>0. AfterRelease(t) \in PCs
    BY AfterReleaseType DEF PCs, ProducerPCs, WorkerPCs, FlusherPCs
  <2>1. CASE DereferenceResponse(t)
    <3>1. pc' \in [Threads -> PCs]
      BY <1>pcs, <1>thr, <2>1, GotoTypes DEF DereferenceResponse, ProducerPCs, WorkerPCs
    <3>2. resp' \in [Events -> Nat]
      <4> DEFINE n == IF resp[cur[t]] > 0 THEN resp[cur[t]] - 1 ELSE 0
      <4>1. resp \in [Events -> Nat]
        BY DEF TypeOK
      <4>2. resp' = [resp EXCEPT ![cur[t]] = n]
        BY <2>1 DEF DereferenceResponse
      <4>3. cur[t] \in Events => n \in Nat
        BY <4>1
      <4> HIDE DEF n
      <4> QED
        BY <4>1, <4>2, <4>3, CounterSet
    <3> QED
      BY <2>1, <3>1, <3>2 DEF TypeOK, DereferenceResponse, graphVars
  <2>2. CASE DereferenceRelease(t)
    <3>1. pc' \in [Threads -> PCs]
      BY <1>pcs, <1>thr, <2>0, <2>2, GotoTypes DEF DereferenceRelease, FreePCs
    <3>2. rel' \in [Events -> Nat]
      <4> DEFINE n == IF rel[cur[t]] > 0 THEN rel[cur[t]] - 1 ELSE 0
      <4>1. rel \in [Events -> Nat]
        BY DEF TypeOK
      <4>2. rel' = [rel EXCEPT ![cur[t]] = n]
        BY <2>2 DEF DereferenceRelease
      <4>3. cur[t] \in Events => n \in Nat
        BY <4>1
      <4> HIDE DEF n
      <4> QED
        BY <4>1, <4>2, <4>3, CounterSet
    <3> QED
      BY <2>2, <3>1, <3>2 DEF TypeOK, DereferenceRelease, graphVars
  <2>3. CASE FreeClaim(t)
    BY <1>pcs, <1>thr, <2>0, <2>3, GotoTypes DEF TypeOK, FreeClaim, graphVars, FreePCs
  <2>4. CASE FreeInvalidate(t)
    BY <1>pcs, <1>thr, <2>4, GotoTypes DEF TypeOK, FreeInvalidate, graphVars, FreePCs
  <2>5. CASE FreeCheck(t)
    BY <1>pcs, <1>thr, <2>5, GotoTypes DEF TypeOK, FreeCheck, evVars, graphVars, FreePCs
  <2>6. CASE FreeMemory(t)
    BY <1>pcs, <1>thr, <2>0, <2>6, GotoTypes DEF TypeOK, FreeMemory, graphVars
  <2> QED
    BY <1>4, <2>1, <2>2, <2>3, <2>4, <2>5, <2>6 DEF ReleaseStep
<1>5. ASSUME NEW u \in Waiters, StartWaiting(u) \/ CheckEmpty(u) PROVE TypeOK'
  BY <1>5, <1>pcs, <1>thr, GotoTypes
     DEF TypeOK, StartWaiting, CheckEmpty, evVars, graphVars, WaiterPCs
<1>6. CASE AddTask
  BY <1>6 DEF TypeOK, AddTask, evVars
<1>7. CASE UNCHANGED vars
  BY <1>7 DEF TypeOK, vars
<1> QED
  BY <1>1, <1>2, <1>3, <1>4, <1>5, <1>6, <1>7 DEF Next

---------------------------------------------------------------------------
(* Shape is preserved.                                                     *)

(* The step does not change what Shape tells apart about thread u.         *)
Same(u) ==
    /\ pc'[u] \in PrivatePCs <=> pc[u] \in PrivatePCs
    /\ pc'[u] \in AddingPCs <=> pc[u] \in AddingPCs
    /\ pc'[u] \in HandlingPCs <=> pc[u] \in HandlingPCs
    /\ pc'[u] \in RequestPCs <=> pc[u] \in RequestPCs
    /\ pc'[u] \in FreePCs <=> pc[u] \in FreePCs
    /\ pc'[u] \in {"w_idle", "w_claim"} <=> pc[u] \in {"w_idle", "w_claim"}
    /\ pc'[u] \in {"p_keep", "p_refs"} <=> pc[u] \in {"p_keep", "p_refs"}
    /\ pc'[u] = "p_idle" <=> pc[u] = "p_idle"
    /\ pc'[u] \in AskingPCs => pc[u] \in AskingPCs \/ req[u]

(* u stays, or is woken up by another thread.                              *)
Woken(u) ==
    \/ pc'[u] = pc[u]
    \/ pc[u] = "p_waiting" /\ pc'[u] = "p_wait"
    \/ pc[u] = "f_wait" /\ pc'[u] = "f_check"
    \/ pc[u] = "e_wait" /\ pc'[u] = "e_check"
    \/ pc[u] = "w_idle" /\ pc'[u] = "w_claim"

(* t goes to l; the others stay or are woken up.                           *)
Moves(t, l) ==
    /\ pc'[t] = l
    /\ \A u \in Threads \ {t} : Woken(u)

(* Waking up a thread does not change what Shape tells apart, and leaves   *)
(* it in its own program.                                                  *)
LEMMA WokenSame ==
    ASSUME NEW u, Woken(u)
    PROVE  /\ Same(u)
           /\ pc[u] \in ProducerPCs \cup FreePCs => pc'[u] \in ProducerPCs \cup FreePCs
           /\ pc[u] \in WorkerPCs \cup FreePCs => pc'[u] \in WorkerPCs \cup FreePCs
           /\ pc[u] \in WaiterPCs => pc'[u] \in WaiterPCs
           /\ pc[u] = "x_idle" => pc'[u] = "x_idle"
BY DEF Woken, Same, PrivatePCs, AddingPCs, HandlingPCs, RequestPCs, FreePCs,
       AskingPCs, ProducerPCs, WorkerPCs, WaiterPCs

(* The four ways a thread of the producers or workers continues.           *)
LEMMA GotoMoves ==
    ASSUME TypeOK, NEW t \in Producers \cup Workers, NEW e, NEW l,
           \/ Goto(t, l) \/ GotoWakeResponse(t, l, e)
           \/ GotoWakeRelease(t, l, e) \/ GotoSignalQueue(t, l)
    PROVE  Moves(t, l)
<1>0. t \in Threads /\ t \notin Waiters
  BY DistinctThreads DEF Threads
<1>1. pc \in [Threads -> PCs] /\ Waiters \subseteq Threads
  BY DEF TypeOK, Threads
<1>2. CASE Goto(t, l)
  BY <1>0, <1>1, <1>2 DEF Goto, Moves, Woken
<1>3. CASE GotoWakeResponse(t, l, e)
  BY <1>0, <1>1, <1>3 DEF GotoWakeResponse, Moves, Woken
<1>4. CASE GotoWakeRelease(t, l, e)
  BY <1>0, <1>1, <1>4 DEF GotoWakeRelease, Moves, Woken
<1>5. CASE GotoSignalQueue(t, l)
  BY <1>0, <1>1, <1>5 DEF GotoSignalQueue, Goto, Moves, Woken
<1> QED
  BY <1>2, <1>3, <1>4, <1>5

(* The others stay in their programs when t goes to a step of its own.     *)
LEMMA MovesPrograms ==
    ASSUME Programs, NEW t \in Producers \cup Workers, NEW l, Moves(t, l),
           t \in Producers => l \in ProducerPCs \cup FreePCs,
           t \in Workers => l \in WorkerPCs \cup FreePCs,
           qmutex' = qmutex
    PROVE  Programs' /\ \A u \in Threads \ {t} : Same(u)
<1>1. t \in Threads /\ Flusher \in Threads \ {t} /\ t \notin Waiters
  BY DistinctThreads DEF Threads
<1>2. Producers \subseteq Threads /\ Workers \subseteq Threads /\ Waiters \subseteq Threads
  BY DEF Threads
<1>3. \A u \in Threads \ {t} : Woken(u)
  BY DEF Moves
<1>4. pc'[t] = l
  BY DEF Moves
<1>5. \A u \in Threads \ {t} : Same(u)
  BY <1>3, WokenSame
<1>6. \A p \in Producers : pc'[p] \in ProducerPCs \cup FreePCs
  BY <1>2, <1>3, <1>4, WokenSame DEF Programs
<1>7. \A w \in Workers : pc'[w] \in WorkerPCs \cup FreePCs
  BY <1>2, <1>3, <1>4, WokenSame DEF Programs
<1>8. \A u \in Waiters : pc'[u] \in WaiterPCs
  BY <1>1, <1>2, <1>3, WokenSame DEF Programs
<1>9. pc'[Flusher] = "x_idle"
  BY <1>1, <1>3, WokenSame DEF Programs
<1> QED
  BY <1>5, <1>6, <1>7, <1>8, <1>9 DEF Programs

(* A step that changes nothing of what Shape tells apart.                  *)
LEMMA SilentStep ==
    ASSUME Shape, Programs', \A u \in Threads : Same(u),
           UNCHANGED <<life, rel, equeue, claimed, cur, req>>
    PROVE  Shape'
<1>0. Producers \subseteq Threads /\ Workers \subseteq Threads /\ Waiters \subseteq Threads
  BY DEF Threads
<1>1. Pointers'
  BY <1>0 DEF Shape, Pointers, Same
<1>2. Created'
  BY DEF Shape, Created
<1>3. Exclusive'
  BY <1>0 DEF Shape, Exclusive, Same, Queued
<1>4. \A e : HeldByQueue(e)' <=> HeldByQueue(e)
  BY <1>0 DEF Same, HeldByQueue, Queued
<1>5. \A e : HeldByRequester(e)' <=> HeldByRequester(e)
  BY <1>0 DEF Same, HeldByRequester
<1>6. Counted'
  BY <1>4, <1>5 DEF Shape, Counted
<1>7. Freeing'
  BY DEF Shape, Freeing, Same
<1>8. Allocated'
  BY <1>0, <1>4, <1>5 DEF Shape, Allocated, Same
<1>9. Claiming'
  BY DEF Shape, Claiming
<1> QED
  BY <1>1, <1>2, <1>3, <1>6, <1>7, <1>8, <1>9 DEF Shape

(* A step of t to l where t, too, keeps what Shape tells apart.            *)
LEMMA SilentMove ==
    ASSUME Shape, NEW t \in Producers \cup Workers, NEW l, Moves(t, l),
           t \in Producers => l \in ProducerPCs \cup FreePCs,
           t \in Workers => l \in WorkerPCs \cup FreePCs,
           Same(t),
           UNCHANGED <<life, rel, equeue, claimed, cur, req, qmutex>>
    PROVE  Shape'
<1>1. Programs' /\ \A u \in Threads \ {t} : Same(u)
  BY MovesPrograms DEF Shape
<1>2. \A u \in Threads : Same(u)
  BY <1>1
<1> QED
  BY <1>1, <1>2, SilentStep

(* The steps of a producer that only move its program counter.             *)
LEMMA ProducerSilent ==
    ASSUME IInv, NEW p \in Producers,
           \/ Drop(p) \/ TriggerLoop(p) \/ TriggerThread(p)
           \/ (UnlockGraph(p) /\ req[p])
           \/ WaitOnEvent(p) \/ ReadResponse(p)
    PROVE  Shape'
<1> USE DEF IInv
<1>0. p \notin Workers /\ p \in Threads
  BY DistinctThreads DEF Threads
<1>1. CASE Drop(p)
  <2>1. Moves(p, "p_dropresp") /\ pc[p] = "p_add"
    BY <1>1, GotoMoves DEF Drop
  <2>2. Same(p)
    BY <2>1 DEF Moves, Same, PrivatePCs, AddingPCs, HandlingPCs, RequestPCs,
       FreePCs, AskingPCs
  <2> QED
    BY <1>0, <1>1, <2>1, <2>2, SilentMove DEF Drop, evVars, graphVars, ProducerPCs
<1>2. CASE TriggerLoop(p)
  <2>1. Moves(p, "p_unlock") /\ pc[p] = "p_trigger"
    BY <1>2, GotoMoves DEF TriggerLoop
  <2>2. Same(p)
    BY <2>1 DEF Moves, Same, PrivatePCs, AddingPCs, HandlingPCs, RequestPCs,
       FreePCs, AskingPCs
  <2> QED
    BY <1>0, <1>2, <2>1, <2>2, SilentMove DEF TriggerLoop, evVars, ProducerPCs
<1>3. CASE TriggerThread(p)
  <2>1. Moves(p, "p_unlock") /\ pc[p] = "p_trigger"
    <3>1. CASE Goto(p, "p_unlock")
      BY <1>3, <3>1, GotoMoves DEF TriggerThread
    <3>2. ASSUME NEW w \in Workers, pc[w] = "w_idle",
                 pc' = [pc EXCEPT ![p] = "p_unlock", ![w] = "w_claim"]
          PROVE  Moves(p, "p_unlock")
      BY <1>0, <3>2 DEF Moves, Woken, TypeOK, Threads
    <3> QED
      BY <1>3, <3>1, <3>2 DEF TriggerThread
  <2>2. Same(p)
    BY <2>1 DEF Moves, Same, PrivatePCs, AddingPCs, HandlingPCs, RequestPCs,
       FreePCs, AskingPCs
  <2> QED
    BY <1>0, <1>3, <2>1, <2>2, SilentMove
       DEF TriggerThread, evVars, graphVars, ProducerPCs
<1>4. CASE UnlockGraph(p) /\ req[p]
  <2>1. Moves(p, "p_wait") /\ pc[p] = "p_unlock"
    BY <1>4, GotoMoves DEF UnlockGraph
  <2>2. Same(p)
    BY <1>4, <2>1 DEF Moves, Same, PrivatePCs, AddingPCs, HandlingPCs, RequestPCs,
       FreePCs, AskingPCs
  <2> QED
    BY <1>0, <1>4, <2>1, <2>2, SilentMove
       DEF UnlockGraph, evVars, graphVars, ProducerPCs
<1>5. CASE WaitOnEvent(p)
  <2>1. PICK l \in {"p_waiting", "p_read"} : Moves(p, l) /\ pc[p] = "p_wait"
    BY <1>5, GotoMoves DEF WaitOnEvent
  <2>2. Same(p)
    BY <2>1 DEF Moves, Same, PrivatePCs, AddingPCs, HandlingPCs, RequestPCs,
       FreePCs, AskingPCs
  <2> QED
    BY <1>0, <1>5, <2>1, <2>2, SilentMove
       DEF WaitOnEvent, evVars, graphVars, ProducerPCs
<1>6. CASE ReadResponse(p)
  <2>1. Moves(p, "p_deref") /\ pc[p] = "p_read"
    BY <1>6, GotoMoves DEF ReadResponse
  <2>2. Same(p)
    BY <2>1 DEF Moves, Same, PrivatePCs, AddingPCs, HandlingPCs, RequestPCs,
       FreePCs, AskingPCs
  <2> QED
    BY <1>0, <1>6, <2>1, <2>2, SilentMove
       DEF ReadResponse, evVars, graphVars, ProducerPCs
<1> QED
  BY <1>1, <1>2, <1>3, <1>4, <1>5, <1>6

(* The steps of a worker that only move its program counter.               *)
LEMMA WorkerSilent ==
    ASSUME IInv, NEW w \in Workers,
           ReadRequest(w) \/ LeaveGraph(w) \/ TraverseGraph(w)
    PROVE  Shape'
<1> USE DEF IInv
<1>0. w \notin Producers /\ w \in Threads
  BY DistinctThreads DEF Threads
<1>1. CASE ReadRequest(w)
  <2>1. Moves(w, "w_claim") /\ pc[w] = "w_idle"
    BY <1>1, GotoMoves DEF ReadRequest
  <2>2. Same(w)
    BY <2>1 DEF Moves, Same, PrivatePCs, AddingPCs, HandlingPCs, RequestPCs,
       FreePCs, AskingPCs
  <2> QED
    BY <1>0, <1>1, <2>1, <2>2, SilentMove DEF ReadRequest, evVars, WorkerPCs
<1>2. CASE LeaveGraph(w)
  <2>1. Moves(w, "w_idle") /\ pc[w] = "w_claim"
    BY <1>2, GotoMoves DEF LeaveGraph
  <2>2. Same(w)
    BY <2>1 DEF Moves, Same, PrivatePCs, AddingPCs, HandlingPCs, RequestPCs,
       FreePCs, AskingPCs
  <2> QED
    BY <1>0, <1>2, <2>1, <2>2, SilentMove
       DEF LeaveGraph, evVars, graphVars, WorkerPCs
<1>3. CASE TraverseGraph(w)
  <2>1. Moves(w, "w_derefresp") /\ pc[w] = "w_handle"
    BY <1>3, GotoMoves DEF TraverseGraph
  <2>2. Same(w)
    BY <2>1 DEF Moves, Same, PrivatePCs, AddingPCs, HandlingPCs, RequestPCs,
       FreePCs, AskingPCs
  <2> QED
    BY <1>0, <1>3, <2>1, <2>2, SilentMove
       DEF TraverseGraph, evVars, graphVars, WorkerPCs
<1> QED
  BY <1>1, <1>2, <1>3

(* crtx_dereference_event_response and the steps of crtx_free_event up to  *)
(* the free.                                                               *)
LEMMA ReleaseSilent ==
    ASSUME IInv, NEW t \in Producers \cup Workers,
           \/ DereferenceResponse(t)
           \/ (FreeClaim(t) /\ ~rip[cur[t]])
           \/ FreeInvalidate(t) \/ FreeCheck(t)
    PROVE  Shape'
<1> USE DEF IInv
<1>0. /\ t \in Threads
      /\ t \in Producers => t \notin Workers
      /\ t \in Producers => pc[t] \in ProducerPCs \cup FreePCs
      /\ t \in Workers => pc[t] \in WorkerPCs \cup FreePCs
  BY DistinctThreads DEF Threads, Shape, Programs
<1>1. CASE DereferenceResponse(t)
  <2>1. CASE t \in Workers
    <3>1. Moves(t, "w_derefrel") /\ pc[t] = "w_derefresp"
      BY <1>0, <1>1, <2>1, GotoMoves
         DEF DereferenceResponse, WorkerPCs, FreePCs
    <3>2. Same(t)
      BY <3>1 DEF Moves, Same, PrivatePCs, AddingPCs, HandlingPCs, RequestPCs,
         FreePCs, AskingPCs
    <3> QED
      BY <1>0, <1>1, <2>1, <3>1, <3>2, SilentMove
         DEF DereferenceResponse, graphVars, WorkerPCs
  <2>2. CASE t \in Producers
    <3>1. Moves(t, "p_droprel") /\ pc[t] = "p_dropresp"
      BY <1>0, <1>1, <2>2, GotoMoves
         DEF DereferenceResponse, ProducerPCs, FreePCs
    <3>2. Same(t)
      BY <3>1 DEF Moves, Same, PrivatePCs, AddingPCs, HandlingPCs, RequestPCs,
         FreePCs, AskingPCs
    <3> QED
      BY <1>0, <1>1, <2>2, <3>1, <3>2, SilentMove
         DEF DereferenceResponse, graphVars, ProducerPCs
  <2> QED
    BY <2>1, <2>2
<1>2. CASE FreeClaim(t) /\ ~rip[cur[t]]
  <2>1. Moves(t, "f_inval") /\ pc[t] = "f_cas"
    BY <1>2, GotoMoves DEF FreeClaim
  <2>2. Same(t)
    BY <2>1 DEF Moves, Same, PrivatePCs, AddingPCs, HandlingPCs, RequestPCs,
       FreePCs, AskingPCs
  <2> QED
    BY <1>2, <2>1, <2>2, SilentMove DEF FreeClaim, graphVars, FreePCs
<1>3. CASE FreeInvalidate(t)
  <2>1. Moves(t, "f_check") /\ pc[t] = "f_inval"
    BY <1>3, GotoMoves DEF FreeInvalidate
  <2>2. Same(t)
    BY <2>1 DEF Moves, Same, PrivatePCs, AddingPCs, HandlingPCs, RequestPCs,
       FreePCs, AskingPCs
  <2> QED
    BY <1>3, <2>1, <2>2, SilentMove DEF FreeInvalidate, graphVars, FreePCs
<1>4. CASE FreeCheck(t)
  <2>1. PICK l \in {"f_wait", "f_free"} : Moves(t, l) /\ pc[t] = "f_check"
    BY <1>4, GotoMoves DEF FreeCheck
  <2>2. Same(t)
    BY <2>1 DEF Moves, Same, PrivatePCs, AddingPCs, HandlingPCs, RequestPCs,
       FreePCs, AskingPCs
  <2> QED
    BY <1>4, <2>1, <2>2, SilentMove DEF FreeCheck, evVars, graphVars, FreePCs
<1> QED
  BY <1>1, <1>2, <1>3, <1>4

(* crtx_wait_on_graph_empty.                                               *)
LEMMA WaiterSilent ==
    ASSUME IInv, NEW u \in Waiters, StartWaiting(u) \/ CheckEmpty(u)
    PROVE  Shape'
<1> USE DEF IInv
<1>0. /\ u \in Threads \ {Flusher} /\ u \notin Producers /\ u \notin Workers
      /\ Flusher \in Threads /\ pc[u] \in WaiterPCs
      /\ Producers \subseteq Threads /\ Workers \subseteq Threads
      /\ Waiters \subseteq Threads
  BY DistinctThreads DEF Threads, Shape, Programs
<1>1. PICK l \in WaiterPCs : pc' = [pc EXCEPT ![u] = l]
  BY DEF StartWaiting, CheckEmpty, Goto, WaiterPCs
<1>2. \A v \in Threads : pc'[v] = IF v = u THEN l ELSE pc[v]
  BY <1>1 DEF TypeOK
<1>3. UNCHANGED <<life, rel, equeue, claimed, cur, req, qmutex>>
  BY DEF StartWaiting, CheckEmpty, evVars, graphVars
<1>4. Programs'
  BY <1>0, <1>1, <1>2, <1>3 DEF Shape, Programs
<1>5. Same(u)
  BY <1>0, <1>1, <1>2 DEF Same, PrivatePCs, AddingPCs, HandlingPCs,
     RequestPCs, FreePCs, AskingPCs, WaiterPCs
<1>6. \A v \in Threads : Same(v)
  BY <1>2, <1>5 DEF Same
<1> QED
  BY <1>3, <1>4, <1>6, SilentStep

---------------------------------------------------------------------------
(* The steps that move a reference, or free the event.                     *)

(* A step of t concerns no event but its own.                              *)
LEMMA HeldOthers ==
    ASSUME NEW t \in Threads, \A u \in Threads \ {t} : Same(u),
           UNCHANGED <<equeue, cur, req>>
    PROVE  \A e : e # cur[t] =>
              /\ HeldByQueue(e)' <=> HeldByQueue(e)
              /\ HeldByRequester(e)' <=> HeldByRequester(e)
BY DEF Same, HeldByQueue, HeldByRequester, Queued, Threads

(* The event of a producer before it is queued: nobody else holds it.      *)
LEMMA PrivateEvent ==
    ASSUME IInv, NEW p \in Producers, pc[p] \in PrivatePCs
    PROVE  /\ cur[p] \in Events /\ life[cur[p]] = "live"
           /\ ~Queued(cur[p])
           /\ \A t \in Threads \ {p} : cur[t] # cur[p]
           /\ HeldByQueue(cur[p]) <=> pc[p] \in AddingPCs
           /\ HeldByRequester(cur[p]) <=> req[p] /\ pc[p] \in RequestPCs
<1> USE DEF IInv
<1>1. cur[p] \in Events
  BY DEF Shape, Pointers, PrivatePCs
<1>2. ~Queued(cur[p]) /\ \A t \in Threads \ {p} : cur[t] # cur[p]
  BY DEF Shape, Exclusive
<1>3. Workers \subseteq Threads \ {p} /\ Producers \subseteq Threads
  BY DistinctThreads DEF Threads
<1>4. HeldByQueue(cur[p]) <=> pc[p] \in AddingPCs
  BY <1>2, <1>3 DEF HeldByQueue
<1>5. HeldByRequester(cur[p]) <=> req[p] /\ pc[p] \in RequestPCs
  BY <1>2, <1>3 DEF HeldByRequester
<1>6. life[cur[p]] = "live"
  BY <1>1, <1>4 DEF Shape, Allocated, PrivatePCs, AddingPCs
<1> QED
  BY <1>1, <1>2, <1>4, <1>5, <1>6

(* crtx_create_event.                                                      *)
LEMMA CreateShape ==
    ASSUME IInv, NEW p \in Producers, NEW e \in Events, NEW r \in BOOLEAN,
           CreateEvent(p, e, r)
    PROVE  Shape'
<1> USE DEF IInv
<1>0. p \in Threads /\ p \notin Workers /\ p \notin Waiters \cup {Flusher}
      /\ Producers \subseteq Threads /\ Workers \subseteq Threads
      /\ Waiters \cup {Flusher} \subseteq Threads
  BY DistinctThreads DEF Threads
<1>1. PICK l \in {"p_keep", "p_refs"} :
         Moves(p, l) /\ l = IF r THEN "p_keep" ELSE "p_refs"
  BY GotoMoves DEF CreateEvent
<1>2. pc[p] = "p_idle" /\ life[e] = "unborn"
  BY DEF CreateEvent
<1>3. /\ life' = [life EXCEPT ![e] = "live"]
      /\ cur' = [cur EXCEPT ![p] = e]
      /\ req' = [req EXCEPT ![p] = r]
      /\ UNCHANGED <<rel, equeue, claimed, qmutex>>
  BY DEF CreateEvent, graphVars
<1>4. Programs' /\ \A u \in Threads \ {p} : Same(u)
  BY <1>0, <1>1, <1>3, MovesPrograms DEF Shape, ProducerPCs
<1>5. pc'[p] = l /\ cur'[p] = e /\ req'[p] = r /\ life'[e] = "live"
  BY <1>0, <1>1, <1>3 DEF Moves, TypeOK
<1>6. /\ \A u \in Threads \ {p} : cur'[u] = cur[u] /\ cur[u] # e
      /\ \A q \in Producers \ {p} : req'[q] = req[q]
      /\ \A f \in Events \ {e} : life'[f] = life[f]
  BY <1>0, <1>2, <1>3, NoEventIsNoEvent DEF TypeOK, Shape, Created
<1>7. ~Queued(e) /\ \A f : Queued(f)' <=> Queued(f)
  BY <1>2, <1>3 DEF Queued, Shape, Created
<1>8. Pointers'
  BY <1>0, <1>1, <1>4, <1>5, <1>6, NoEventIsNoEvent
     DEF Shape, Pointers, Same, AskingPCs
<1>9. Created'
  <2>1. \A t \in Threads : cur'[t] # NoEvent => life'[cur'[t]] # "unborn"
    BY <1>5, <1>6 DEF Shape, Created, TypeOK
  <2>2. \A i \in DOMAIN equeue : equeue[i] \in Events
    BY DEF TypeOK
  <2>3. \A i \in DOMAIN equeue' : life'[equeue'[i]] # "unborn"
    BY <1>3, <1>5, <1>6, <2>2 DEF Shape, Created
  <2> QED
    BY <2>1, <2>3 DEF Created
<1>10. Exclusive'
  <2>1. \A q \in Producers : pc'[q] \in PrivatePCs =>
           (\A t \in Threads \ {q} : cur'[t] # cur'[q]) /\ ~Queued(cur[q])'
    BY <1>0, <1>4, <1>5, <1>6, <1>7 DEF Shape, Exclusive, Same
  <2>2. \A q, s \in Producers :
           q # s /\ pc'[q] # "p_idle" /\ pc'[s] # "p_idle" => cur'[q] # cur'[s]
    BY <1>0, <1>4, <1>5, <1>6 DEF Shape, Exclusive, Same
  <2>3. \A v, w \in Workers : v # w /\ cur'[v] # NoEvent => cur'[v] # cur'[w]
    BY <1>0, <1>6 DEF Shape, Exclusive
  <2>4. \A w \in Workers : ~Queued(cur[w])'
    BY <1>0, <1>6, <1>7 DEF Shape, Exclusive
  <2>5. \A i, j \in DOMAIN equeue' : i # j => equeue'[i] # equeue'[j]
    BY <1>3 DEF Shape, Exclusive
  <2> QED
    BY <2>1, <2>2, <2>3, <2>4, <2>5 DEF Exclusive
<1>11. \A f : HeldByQueue(f)' <=> HeldByQueue(f)
  BY <1>0, <1>1, <1>2, <1>4, <1>5, <1>6, <1>7 DEF Same, HeldByQueue, AddingPCs
<1>12. /\ \A f : f # e => (HeldByRequester(f)' <=> HeldByRequester(f))
       /\ ~HeldByRequester(e)
       /\ ~HeldByRequester(e)'
  <2>1. ~HeldByRequester(e)
    BY <1>0, <1>2, <1>6 DEF HeldByRequester, RequestPCs
  <2>2. ~HeldByRequester(e)'
    BY <1>0, <1>1, <1>5, <1>6 DEF HeldByRequester, RequestPCs
  <2>3. \A f : f # e => (HeldByRequester(f)' <=> HeldByRequester(f))
    BY <1>0, <1>2, <1>4, <1>5, <1>6 DEF HeldByRequester, RequestPCs, Same
  <2> QED
    BY <2>1, <2>2, <2>3
<1>13. Counted'
  BY <1>3, <1>11, <1>12 DEF Shape, Counted
<1>14. Freeing'
  BY <1>0, <1>1, <1>3, <1>4, <1>5, <1>6 DEF Shape, Freeing, Same, FreePCs
<1>15. Allocated'
  BY <1>0, <1>4, <1>5, <1>6, <1>11, <1>12 DEF Shape, Allocated, Same, Pointers
<1>16. Claiming'
  BY <1>0, <1>3, <1>6 DEF Shape, Claiming
<1> QED
  BY <1>4, <1>8, <1>9, <1>10, <1>13, <1>14, <1>15, <1>16 DEF Shape

(* The two references a producer takes before the event is shared.         *)
LEMMA ReferenceShape ==
    ASSUME IInv, NEW p \in Producers, KeepReference(p) \/ AddReferences(p)
    PROVE  Shape'
<1> USE DEF IInv
<1>0. p \in Threads /\ p \notin Workers
      /\ Producers \subseteq Threads /\ Workers \subseteq Threads
      /\ Waiters \cup {Flusher} \subseteq Threads
  BY DistinctThreads DEF Threads
<1>1. PICK l \in {"p_refs", "p_add"} :
         Moves(p, l) /\ pc[p] = IF l = "p_refs" THEN "p_keep" ELSE "p_refs"
  BY GotoMoves DEF KeepReference, AddReferences
<1>2. /\ rel' = [rel EXCEPT ![cur[p]] = rel[cur[p]] + 1]
      /\ UNCHANGED <<life, equeue, claimed, cur, req, qmutex>>
  BY DEF KeepReference, AddReferences, graphVars
<1>3. Programs' /\ \A u \in Threads \ {p} : Same(u)
  BY <1>0, <1>1, <1>2, MovesPrograms DEF Shape, ProducerPCs
<1>4. pc'[p] = l
  BY <1>1 DEF Moves
<1>5. /\ cur[p] \in Events /\ life[cur[p]] = "live"
      /\ ~Queued(cur[p])
      /\ \A t \in Threads \ {p} : cur[t] # cur[p]
      /\ ~HeldByQueue(cur[p])
      /\ HeldByRequester(cur[p]) <=> req[p] /\ pc[p] \in RequestPCs
  BY <1>1, PrivateEvent DEF PrivatePCs, AddingPCs
<1>6. \A e : e # cur[p] =>
              /\ HeldByQueue(e)' <=> HeldByQueue(e)
              /\ HeldByRequester(e)' <=> HeldByRequester(e)
  BY <1>0, <1>2, <1>3, HeldOthers
<1>7. HeldByQueue(cur[p])' <=> l = "p_add"
  BY <1>0, <1>2, <1>4, <1>5 DEF HeldByQueue, Queued, AddingPCs
<1>8. HeldByRequester(cur[p])' <=> req[p]
  BY <1>0, <1>2, <1>4, <1>5 DEF HeldByRequester, RequestPCs
<1>9. HeldByRequester(cur[p]) <=> req[p] /\ l = "p_add"
  BY <1>1, <1>5 DEF RequestPCs
<1>10. l = "p_refs" => req[p]
  BY <1>1 DEF Shape, Pointers, AskingPCs
<1>11. Pointers'
  BY <1>0, <1>1, <1>2, <1>3, <1>4, <1>5 DEF Shape, Pointers, Same, AskingPCs
<1>12. Created'
  BY <1>2 DEF Shape, Created
<1>13. Exclusive'
  BY <1>0, <1>1, <1>2, <1>3, <1>4, <1>5 DEF Shape, Exclusive, Same, Queued
<1>14. Counted'
  <2>1. rel[cur[p]] \in Nat /\ rel'[cur[p]] = rel[cur[p]] + 1
        /\ \A e \in Events \ {cur[p]} : rel'[e] = rel[e]
    BY <1>2, <1>5 DEF TypeOK
  <2>2. rel[cur[p]] = IF req[p] /\ l = "p_add" THEN 1 ELSE 0
    BY <1>5, <1>9 DEF Shape, Counted
  <2>3. rel'[cur[p]] = (IF HeldByQueue(cur[p])' THEN 1 ELSE 0)
                       + (IF HeldByRequester(cur[p])' THEN 1 ELSE 0)
    BY <1>7, <1>8, <1>10, <2>1, <2>2
  <2>4. \A e \in Events \ {cur[p]} :
           rel'[e] = (IF HeldByQueue(e)' THEN 1 ELSE 0)
                     + (IF HeldByRequester(e)' THEN 1 ELSE 0)
    BY <1>6, <2>1 DEF Shape, Counted
  <2> QED
    BY <1>2, <1>5, <2>3, <2>4 DEF Counted
<1>15. Freeing'
  BY <1>0, <1>1, <1>2, <1>3, <1>4, <1>5 DEF Shape, Freeing, Same, FreePCs, TypeOK
<1>16. Allocated'
  BY <1>0, <1>1, <1>2, <1>3, <1>4, <1>5, <1>6 DEF Shape, Allocated, Same
<1>17. Claiming'
  BY <1>2 DEF Shape, Claiming
<1> QED
  BY <1>3, <1>11, <1>12, <1>13, <1>14, <1>15, <1>16, <1>17 DEF Shape

(* crtx_add_event: the reference of the queue moves into the queue.        *)
LEMMA EnqueueShape ==
    ASSUME IInv, NEW p \in Producers, Enqueue(p)
    PROVE  Shape'
<1> USE DEF IInv
<1>0. p \in Threads /\ p \notin Workers
      /\ Producers \subseteq Threads /\ Workers \subseteq Threads
      /\ Waiters \cup {Flusher} \subseteq Threads
  BY DistinctThreads DEF Threads
<1>1. Moves(p, "p_trigger") /\ pc[p] = "p_add"
  BY GotoMoves DEF Enqueue
<1>2. /\ equeue' = Append(equeue, cur[p])
      /\ UNCHANGED <<life, rel, claimed, cur, req, qmutex>>
  BY DEF Enqueue, evVars
<1>3. Programs' /\ \A u \in Threads \ {p} : Same(u)
  BY <1>0, <1>1, <1>2, MovesPrograms DEF Shape, ProducerPCs
<1>4. pc'[p] = "p_trigger"
  BY <1>1 DEF Moves
<1>5. /\ cur[p] \in Events /\ life[cur[p]] = "live"
      /\ ~Queued(cur[p])
      /\ \A t \in Threads \ {p} : cur[t] # cur[p]
      /\ HeldByQueue(cur[p])
      /\ HeldByRequester(cur[p]) <=> req[p]
  BY <1>1, PrivateEvent DEF PrivatePCs, AddingPCs, RequestPCs
<1>6. /\ Len(equeue) \in Nat /\ DOMAIN equeue = 1..Len(equeue)
      /\ DOMAIN equeue' = 1..(Len(equeue) + 1)
      /\ \A i \in DOMAIN equeue : equeue'[i] = equeue[i]
      /\ equeue'[Len(equeue) + 1] = cur[p]
  <2>1. equeue \in Seq(Events)
    BY DEF TypeOK
  <2> QED
    BY <1>2, <1>5, <2>1
<1>7. \A i \in DOMAIN equeue' :
         i \in DOMAIN equeue \/ (i = Len(equeue) + 1 /\ equeue'[i] = cur[p])
  BY <1>6
<1>8. \A e : Queued(e)' <=> Queued(e) \/ e = cur[p]
  <2>1. Len(equeue) + 1 \in DOMAIN equeue' /\ DOMAIN equeue \subseteq DOMAIN equeue'
    BY <1>6
  <2> QED
    BY <1>6, <1>7, <2>1 DEF Queued
<1>9. \A e : HeldByQueue(e)' <=> HeldByQueue(e)
  <2>1. \A e : e # cur[p] => (HeldByQueue(e)' <=> HeldByQueue(e))
    BY <1>0, <1>1, <1>2, <1>3, <1>8 DEF HeldByQueue, Same
  <2>2. HeldByQueue(cur[p])'
    BY <1>2, <1>8 DEF HeldByQueue
  <2> QED
    BY <1>2, <1>5, <2>1, <2>2
<1>10. \A e : HeldByRequester(e)' <=> HeldByRequester(e)
  BY <1>0, <1>1, <1>2, <1>3, <1>4 DEF HeldByRequester, Same, RequestPCs
<1>11. Pointers'
  BY <1>0, <1>1, <1>2, <1>3, <1>4, <1>5 DEF Shape, Pointers, Same, AskingPCs
<1>12. Created'
  BY <1>2, <1>5, <1>6, <1>7 DEF Shape, Created
<1>13. Exclusive'
  <2>1. \A q \in Producers : pc'[q] \in PrivatePCs =>
           (\A t \in Threads \ {q} : cur'[t] # cur'[q]) /\ ~Queued(cur[q])'
    BY <1>0, <1>2, <1>3, <1>4, <1>5, <1>8 DEF Shape, Exclusive, Same, PrivatePCs
  <2>2. \A q, s \in Producers :
           q # s /\ pc'[q] # "p_idle" /\ pc'[s] # "p_idle" => cur'[q] # cur'[s]
    BY <1>0, <1>2, <1>3, <1>4, <1>5 DEF Shape, Exclusive, Same
  <2>3. \A v, w \in Workers : v # w /\ cur'[v] # NoEvent => cur'[v] # cur'[w]
    BY <1>2 DEF Shape, Exclusive
  <2>4. \A w \in Workers : ~Queued(cur[w])'
    BY <1>0, <1>2, <1>5, <1>8 DEF Shape, Exclusive
  <2>5. \A i, j \in DOMAIN equeue' : i # j => equeue'[i] # equeue'[j]
    <3>1. \A i \in DOMAIN equeue : equeue[i] # cur[p]
      BY <1>5 DEF Queued
    <3> QED
      BY <1>6, <1>7, <3>1 DEF Shape, Exclusive
  <2> QED
    BY <2>1, <2>2, <2>3, <2>4, <2>5 DEF Exclusive
<1>14. Counted'
  BY <1>2, <1>9, <1>10 DEF Shape, Counted
<1>15. Freeing'
  BY <1>1, <1>2, <1>3, <1>4 DEF Shape, Freeing, Same, FreePCs
<1>16. Allocated'
  BY <1>0, <1>2, <1>3, <1>4, <1>9, <1>10 DEF Shape, Allocated, Same
<1>17. Claiming'
  BY <1>2 DEF Shape, Claiming
<1> QED
  BY <1>3, <1>11, <1>12, <1>13, <1>14, <1>15, <1>16, <1>17 DEF Shape

(* crtx_claim_next_event_of_graph: the reference moves to the worker.      *)
LEMMA ClaimShape ==
    ASSUME IInv, NEW w \in Workers, ClaimNextEvent(w)
    PROVE  Shape'
<1> USE DEF IInv
<1>0. w \in Threads /\ w \notin Producers /\ w \notin Waiters \cup {Flusher}
      /\ Producers \subseteq Threads /\ Workers \subseteq Threads
      /\ Waiters \cup {Flusher} \subseteq Threads
  BY DistinctThreads DEF Threads
<1>1. Moves(w, "w_handle") /\ pc[w] = "w_claim"
  BY GotoMoves DEF ClaimNextEvent
<1>2. PICK i \in DOMAIN equeue :
         /\ cur' = [cur EXCEPT ![w] = equeue[i]]
         /\ claimed' = claimed \cup {equeue[i]}
         /\ equeue' = Without(equeue, i)
  BY DEF ClaimNextEvent
<1>ev. PICK e : e = equeue[i]
  OBVIOUS
<1>3. UNCHANGED <<life, rel, req, qmutex>>
  BY DEF ClaimNextEvent, evVars
<1>4. Programs' /\ \A u \in Threads \ {w} : Same(u)
  BY <1>0, <1>1, <1>3, MovesPrograms DEF Shape, WorkerPCs
<1>5. pc'[w] = "w_handle"
  BY <1>1 DEF Moves
<1>6. /\ e \in Events /\ e # NoEvent /\ cur'[w] = e
      /\ \A u \in Threads \ {w} : cur'[u] = cur[u]
      /\ cur[w] = NoEvent
  BY <1>0, <1>1, <1>2, <1>ev, NoEventIsNoEvent DEF TypeOK, Shape, Pointers
<1>7. equeue \in Seq(Events) /\ Len(equeue) \in Nat
      /\ DOMAIN equeue = 1..Len(equeue)
  BY DEF TypeOK
<1>8. /\ DOMAIN equeue' = 1..(Len(equeue) - 1)
      /\ \A j \in 1..(Len(equeue) - 1) :
            equeue'[j] = IF j < i THEN equeue[j] ELSE equeue[j + 1]
  BY <1>2, <1>7, WithoutSeq
<1>9. \A j, k \in DOMAIN equeue : j # k => equeue[j] # equeue[k]
  BY DEF Shape, Exclusive
<1>10. \A f : Queued(f)' <=> Queued(f) /\ f # e
  <2>1. ASSUME NEW f, Queued(f)' PROVE Queued(f) /\ f # e
    <3>1. PICK j \in 1..(Len(equeue) - 1) : equeue'[j] = f
      BY <1>8, <2>1 DEF Queued
    <3>2. PICK k \in DOMAIN equeue : equeue[k] = f /\ k # i
      <4>1. CASE j < i
        BY <1>7, <1>8, <3>1, <4>1
      <4>2. CASE ~(j < i)
        BY <1>7, <1>8, <3>1, <4>2
      <4> QED
        BY <4>1, <4>2
    <3> QED
      BY <1>9, <1>ev, <3>2 DEF Queued
  <2>2. ASSUME NEW f, Queued(f), f # e PROVE Queued(f)'
    <3>1. PICK k \in 1..Len(equeue) : equeue[k] = f /\ k # i
      BY <1>7, <1>ev, <2>2 DEF Queued
    <3>2. \E j \in 1..(Len(equeue) - 1) : equeue'[j] = f
      <4>1. CASE k < i
        BY <1>7, <1>8, <3>1, <4>1
      <4>2. CASE k > i
        <5>1. k - 1 \in 1..(Len(equeue) - 1) /\ ~(k - 1 < i) /\ (k - 1) + 1 = k
          BY <1>7, <3>1, <4>2
        <5> QED
          BY <1>8, <3>1, <5>1
      <4> QED
        BY <1>7, <3>1, <4>1, <4>2
    <3> QED
      BY <1>8, <3>2 DEF Queued
  <2> QED
    BY <2>1, <2>2
<1>11. Queued(e)
  BY <1>ev DEF Queued
<1>12. \A u \in Workers : cur[u] # e
  BY <1>11 DEF Shape, Exclusive
<1>13. \A p \in Producers : pc[p] \in PrivatePCs => cur[p] # e
  BY <1>11 DEF Shape, Exclusive
<1>14. \A f : HeldByQueue(f)' <=> HeldByQueue(f)
  <2>1. \A f : f # e => (HeldByQueue(f)' <=> HeldByQueue(f))
    BY <1>0, <1>1, <1>4, <1>5, <1>6, <1>10 DEF HeldByQueue, Same, HandlingPCs
  <2>2. HeldByQueue(e)'
    BY <1>5, <1>6 DEF HeldByQueue, HandlingPCs
  <2>3. HeldByQueue(e)
    BY <1>11 DEF HeldByQueue
  <2> QED
    BY <2>1, <2>2, <2>3
<1>15. \A f : HeldByRequester(f)' <=> HeldByRequester(f)
  BY <1>0, <1>3, <1>4, <1>6 DEF HeldByRequester, Same
<1>16. Pointers'
  BY <1>0, <1>3, <1>4, <1>5, <1>6 DEF Shape, Pointers, Same
<1>17. Created'
  <2>1. life[e] # "unborn"
    BY <1>11 DEF Shape, Created, Queued
  <2>2. \A t \in Threads : cur'[t] # NoEvent => life'[cur'[t]] # "unborn"
    BY <1>3, <1>6, <2>1 DEF Shape, Created
  <2>3. \A j \in DOMAIN equeue' : Queued(equeue'[j])
    BY <1>10 DEF Queued
  <2>4. \A f : Queued(f) => life[f] # "unborn"
    BY DEF Shape, Created, Queued
  <2> QED
    BY <1>3, <2>2, <2>3, <2>4 DEF Created
<1>18. Exclusive'
  <2>1. \A q \in Producers : pc'[q] \in PrivatePCs =>
           (\A t \in Threads \ {q} : cur'[t] # cur'[q]) /\ ~Queued(cur[q])'
    BY <1>0, <1>4, <1>6, <1>10, <1>13 DEF Shape, Exclusive, Same
  <2>2. \A q, s \in Producers :
           q # s /\ pc'[q] # "p_idle" /\ pc'[s] # "p_idle" => cur'[q] # cur'[s]
    BY <1>0, <1>4, <1>6 DEF Shape, Exclusive, Same
  <2>3. \A u, v \in Workers : u # v /\ cur'[u] # NoEvent => cur'[u] # cur'[v]
    BY <1>0, <1>6, <1>12 DEF Shape, Exclusive
  <2>4. \A u \in Workers : ~Queued(cur[u])'
    BY <1>0, <1>6, <1>10 DEF Shape, Exclusive
  <2>5. \A j, k \in DOMAIN equeue' : j # k => equeue'[j] # equeue'[k]
    <3>1. SUFFICES ASSUME NEW j \in 1..(Len(equeue) - 1),
                          NEW k \in 1..(Len(equeue) - 1), j # k
                   PROVE  equeue'[j] # equeue'[k]
      BY <1>8
    <3> DEFINE a == IF j < i THEN j ELSE j + 1
               b == IF k < i THEN k ELSE k + 1
    <3>2. a \in DOMAIN equeue /\ b \in DOMAIN equeue /\ a # b
      BY <1>7, <3>1
    <3>3. equeue'[j] = equeue[a] /\ equeue'[k] = equeue[b]
      BY <1>8
    <3> QED
      BY <1>9, <3>2, <3>3
  <2> QED
    BY <2>1, <2>2, <2>3, <2>4, <2>5 DEF Exclusive
<1>19. Counted'
  BY <1>3, <1>14, <1>15 DEF Shape, Counted
<1>20. Freeing'
  BY <1>0, <1>3, <1>4, <1>5, <1>6 DEF Shape, Freeing, Same, FreePCs
<1>21. Allocated'
  BY <1>0, <1>3, <1>4, <1>6, <1>14, <1>15 DEF Shape, Allocated, Same
<1>22. Claiming'
  <2>1. claimed' = claimed \cup {e}
    BY <1>2, <1>ev
  <2>2. cur[w] \notin Events
    BY <1>6, NoEventIsNoEvent
  <2> QED
    BY <1>0, <1>6, <2>1, <2>2 DEF Shape, Claiming
<1> QED
  BY <1>4, <1>16, <1>17, <1>18, <1>19, <1>20, <1>21, <1>22 DEF Shape

(* A thread lets go of its event: the end of crtx_process_one_event, and   *)
(* crtx_add_event for a producer that keeps no reference.                  *)
LEMMA ForgetShape ==
    ASSUME IInv, NEW t \in Producers \cup Workers, NEW l, Moves(t, l),
           cur' = [cur EXCEPT ![t] = NoEvent],
           UNCHANGED <<life, rel, equeue, req, qmutex>>,
           \/ /\ t \in Producers /\ ~req[t] /\ pc[t] = "p_unlock"
              /\ l = "p_idle" /\ claimed' = claimed
           \/ /\ t \in Workers /\ pc[t] = "w_unlink"
              /\ l = "w_claim" /\ claimed' = claimed \ {cur[t]}
    PROVE  Shape'
<1> USE DEF IInv
<1>0. t \in Threads /\ t \notin Waiters \cup {Flusher}
      /\ (t \in Producers => t \notin Workers)
      /\ Producers \subseteq Threads /\ Workers \subseteq Threads
      /\ Waiters \cup {Flusher} \subseteq Threads
  BY DistinctThreads DEF Threads
<1>1. Programs' /\ \A u \in Threads \ {t} : Same(u)
  BY <1>0, MovesPrograms DEF Shape, ProducerPCs, WorkerPCs
<1>2. pc'[t] = l
  BY DEF Moves
<1>3. cur'[t] = NoEvent /\ \A u \in Threads \ {t} : cur'[u] = cur[u]
  BY <1>0 DEF TypeOK
<1>4. \A f : Queued(f)' <=> Queued(f)
  BY DEF Queued
<1>5. ~Queued(NoEvent)
  BY NoEventIsNoEvent DEF Queued, TypeOK
<1>6. \A f \in Events : HeldByQueue(f)' <=> HeldByQueue(f)
  BY <1>0, <1>1, <1>2, <1>3, <1>4, NoEventIsNoEvent
     DEF HeldByQueue, Same, AddingPCs, HandlingPCs
<1>7. \A f \in Events : HeldByRequester(f)' <=> HeldByRequester(f)
  BY <1>0, <1>1, <1>2, <1>3, NoEventIsNoEvent DEF HeldByRequester, Same
<1>8. Pointers'
  BY <1>0, <1>1, <1>2, <1>3 DEF Shape, Pointers, Same, AskingPCs
<1>9. Created'
  BY <1>3 DEF Shape, Created
<1>10. Exclusive'
  <2>1. \A q \in Producers : pc'[q] \in PrivatePCs =>
           (\A u \in Threads \ {q} : cur'[u] # cur'[q]) /\ ~Queued(cur[q])'
    <3>1. \A q \in Producers : pc[q] \in PrivatePCs => cur[q] # NoEvent
      BY NoEventIsNoEvent DEF Shape, Pointers, PrivatePCs
    <3> QED
      BY <1>0, <1>1, <1>2, <1>3, <1>4, <3>1 DEF Shape, Exclusive, Same, PrivatePCs
  <2>2. \A q, s \in Producers :
           q # s /\ pc'[q] # "p_idle" /\ pc'[s] # "p_idle" => cur'[q] # cur'[s]
    BY <1>0, <1>1, <1>2, <1>3 DEF Shape, Exclusive, Same
  <2>3. \A v, w \in Workers : v # w /\ cur'[v] # NoEvent => cur'[v] # cur'[w]
    BY <1>0, <1>3 DEF Shape, Exclusive
  <2>4. \A w \in Workers : ~Queued(cur[w])'
    BY <1>0, <1>3, <1>4, <1>5 DEF Shape, Exclusive
  <2>5. \A i, j \in DOMAIN equeue' : i # j => equeue'[i] # equeue'[j]
    BY DEF Shape, Exclusive
  <2> QED
    BY <2>1, <2>2, <2>3, <2>4, <2>5 DEF Exclusive
<1>11. Counted'
  BY <1>6, <1>7 DEF Shape, Counted
<1>12. Freeing'
  BY <1>0, <1>1, <1>2, <1>3 DEF Shape, Freeing, Same, FreePCs
<1>13. Allocated'
  BY <1>0, <1>1, <1>2, <1>3, <1>6, <1>7 DEF Shape, Allocated, Same
<1>14. Claiming'
  <2>1. CASE t \in Producers
    BY <1>0, <1>3, <2>1 DEF Shape, Claiming
  <2>2. CASE t \in Workers
    <3>1. \A v \in Workers \ {t} : cur[v] # cur[t] \/ cur[v] = NoEvent
      BY <2>2 DEF Shape, Exclusive
    <3> QED
      BY <1>0, <1>3, <2>2, <3>1, NoEventIsNoEvent DEF Shape, Claiming
  <2> QED
    BY <2>1, <2>2
<1> QED
  BY <1>1, <1>8, <1>9, <1>10, <1>11, <1>12, <1>13, <1>14 DEF Shape

(* crtx_dereference_event_release: one of the two references is dropped.   *)
LEMMA DereferenceShape ==
    ASSUME IInv, NEW t \in Producers \cup Workers, DereferenceRelease(t)
    PROVE  Shape'
<1> USE DEF IInv
<1>0. t \in Threads /\ t \notin Waiters \cup {Flusher}
      /\ (t \in Producers => t \notin Workers)
      /\ Producers \subseteq Threads /\ Workers \subseteq Threads
      /\ Waiters \cup {Flusher} \subseteq Threads
  BY DistinctThreads DEF Threads
<1>pc. \/ t \in Workers /\ pc[t] = "w_derefrel"
       \/ t \in Producers /\ pc[t] = "p_droprel"
       \/ t \in Producers /\ pc[t] = "p_deref" /\ req[t]
  BY <1>0 DEF DereferenceRelease, Shape, Programs, Pointers, ProducerPCs,
     WorkerPCs, FreePCs, AskingPCs
<1>ev. PICK e \in Events : e = cur[t] /\ e # NoEvent
  <2>1. cur[t] \in Events
    BY <1>0, <1>pc DEF Shape, Pointers, TypeOK
  <2> QED
    BY <2>1, NoEventIsNoEvent
<1>un. UNCHANGED <<life, equeue, claimed, cur, req, qmutex>>
  BY DEF DereferenceRelease, graphVars
<1>ot. \A f : f # e => cur[t] # f
  BY <1>ev
<1>1. (HeldByQueue(e) \/ HeldByRequester(e)) /\ life[e] = "live"
  <2>1. HeldByQueue(e) \/ HeldByRequester(e)
    BY <1>0, <1>pc, <1>ev DEF HeldByQueue, HeldByRequester, AddingPCs,
       HandlingPCs, RequestPCs
  <2> QED
    BY <2>1 DEF Shape, Allocated
<1>2. rel[e] = (IF HeldByQueue(e) THEN 1 ELSE 0)
               + (IF HeldByRequester(e) THEN 1 ELSE 0)
  BY DEF Shape, Counted
<1>3. rel[e] > 0 /\ rel[e] - 1 \in Nat
  BY <1>1, <1>2
<1>4. PICK n \in Nat : n = rel[e] - 1
  BY <1>3
<1>5. /\ rel' = [rel EXCEPT ![e] = n]
      /\ Goto(t, IF n = 0 THEN "f_cas" ELSE AfterRelease(t))
  BY <1>ev, <1>3, <1>4 DEF DereferenceRelease
<1>6. PICK l : /\ l = IF n = 0 THEN "f_cas" ELSE AfterRelease(t)
               /\ Moves(t, l)
  BY <1>5, GotoMoves
<1>7. AfterRelease(t) = IF t \in Workers THEN "w_unlink"
                        ELSE IF pc[t] = "p_droprel" THEN "p_unlock"
                        ELSE "p_idle"
  BY <1>0, <1>pc DEF AfterRelease
<1>8. Programs' /\ \A u \in Threads \ {t} : Same(u)
  BY <1>0, <1>6, <1>7, <1>un, MovesPrograms
     DEF Shape, ProducerPCs, WorkerPCs, FreePCs
<1>9. pc'[t] = l
  BY <1>6 DEF Moves
<1>10. \A f : f # e => /\ HeldByQueue(f)' <=> HeldByQueue(f)
                       /\ HeldByRequester(f)' <=> HeldByRequester(f)
  BY <1>0, <1>8, <1>un, <1>ev, HeldOthers
<1>11. n = (IF HeldByQueue(e)' THEN 1 ELSE 0)
           + (IF HeldByRequester(e)' THEN 1 ELSE 0)
  <2>1. CASE t \in Workers /\ pc[t] = "w_derefrel"
    <3>1. HeldByQueue(e)
      BY <1>ev, <2>1 DEF HeldByQueue, HandlingPCs
    <3>2. ~Queued(e) /\ \A w \in Workers \ {t} : cur[w] # e
      BY <1>ev, <2>1 DEF Shape, Exclusive
    <3>3. \A p \in Producers : pc[p] \in AddingPCs => cur[p] # e
      BY <1>0, <1>ev, <2>1 DEF Shape, Exclusive, AddingPCs, PrivatePCs
    <3>4. l \notin HandlingPCs
      BY <1>6, <1>7, <2>1 DEF HandlingPCs
    <3>5. ~HeldByQueue(e)'
      <4>1. ~Queued(e)'
        BY <1>un, <3>2 DEF Queued
      <4> QED
        BY <1>0, <1>8, <1>9, <1>un, <2>1, <3>2, <3>3, <3>4, <4>1
           DEF HeldByQueue, Same
    <3>6. HeldByRequester(e)' <=> HeldByRequester(e)
      BY <1>0, <1>8, <1>un, <2>1 DEF HeldByRequester, Same
    <3> QED
      BY <1>2, <1>4, <3>1, <3>5, <3>6
  <2>2. CASE t \in Producers /\ pc[t] = "p_droprel"
    <3>1. /\ ~Queued(e) /\ \A u \in Threads \ {t} : cur[u] # e
          /\ HeldByQueue(e)
          /\ HeldByRequester(e) <=> req[t]
      BY <1>ev, <2>2, PrivateEvent DEF PrivatePCs, AddingPCs, RequestPCs
    <3>2. ~HeldByQueue(e)'
      <4>1. l \notin AddingPCs
        BY <1>0, <1>6, <1>7, <2>2 DEF AddingPCs
      <4>2. ~Queued(e)'
        BY <1>un, <3>1 DEF Queued
      <4> QED
        BY <1>0, <1>9, <1>un, <2>2, <3>1, <4>1, <4>2 DEF HeldByQueue
    <3>3. n = IF req[t] THEN 1 ELSE 0
      BY <1>2, <1>4, <3>1
    <3>4. HeldByRequester(e)' <=> req[t]
      <4>1. req[t] => l = "p_unlock"
        BY <1>0, <1>6, <1>7, <2>2, <3>3
      <4> QED
        BY <1>0, <1>9, <1>un, <1>ev, <2>2, <3>1, <4>1
           DEF HeldByRequester, RequestPCs
    <3> QED
      BY <3>2, <3>3, <3>4
  <2>3. CASE t \in Producers /\ pc[t] = "p_deref" /\ req[t]
    <3>1. HeldByRequester(e)
      BY <1>ev, <2>3 DEF HeldByRequester, RequestPCs
    <3>2. \A p \in Producers \ {t} : pc[p] # "p_idle" => cur[p] # e
      BY <1>ev, <2>3 DEF Shape, Exclusive
    <3>3. l \notin RequestPCs /\ l \notin AddingPCs
      BY <1>0, <1>6, <1>7, <2>3 DEF RequestPCs, AddingPCs
    <3>4. ~HeldByRequester(e)'
      BY <1>0, <1>8, <1>9, <1>un, <3>2, <3>3
         DEF HeldByRequester, Same, RequestPCs
    <3>5. HeldByQueue(e)' <=> HeldByQueue(e)
      <4>1. Queued(e)' <=> Queued(e)
        BY <1>un DEF Queued
      <4>2. pc[t] \notin AddingPCs
        BY <2>3 DEF AddingPCs
      <4> QED
        BY <1>0, <1>8, <1>9, <1>un, <2>3, <3>3, <4>1, <4>2
           DEF HeldByQueue, Same
    <3> QED
      BY <1>2, <1>4, <3>1, <3>4, <3>5
  <2> QED
    BY <1>pc, <2>1, <2>2, <2>3
<1>12. Pointers'
  BY <1>0, <1>6, <1>7, <1>8, <1>9, <1>un, <1>ev, <1>pc
     DEF Shape, Pointers, Same, AskingPCs
<1>13. Created'
  BY <1>un DEF Shape, Created
<1>14. Exclusive'
  <2>1. l \notin PrivatePCs /\ (t \in Producers => pc[t] # "p_idle")
    BY <1>0, <1>6, <1>7, <1>pc DEF PrivatePCs
  <2> QED
    BY <1>0, <1>8, <1>9, <1>un, <2>1 DEF Shape, Exclusive, Same, Queued
<1>15. rel'[e] = n /\ \A f \in Events \ {e} : rel'[f] = rel[f]
  BY <1>5 DEF TypeOK
<1>16. Counted'
  BY <1>10, <1>11, <1>15 DEF Shape, Counted
<1>17. Freeing'
  <2>1. \A u \in Threads : pc[u] \in FreePCs => cur[u] # e
    BY <1>3 DEF Shape, Freeing
  <2>2. \A u \in Threads \ {t} : pc'[u] \in FreePCs =>
           /\ cur[u] \in Events /\ rel'[cur[u]] = 0 /\ life[cur[u]] = "live"
           /\ cur[u] # e
    BY <1>8, <1>15, <2>1 DEF Shape, Freeing, Same
  <2>3. l \in FreePCs => n = 0
    BY <1>6, <1>7 DEF FreePCs
  <2>4. \A u, v \in Threads \ {t} : pc'[u] \in FreePCs /\ pc'[v] \in FreePCs /\ u # v
           => cur[u] # cur[v]
    BY <1>8 DEF Shape, Freeing, Same
  <2> QED
    BY <1>1, <1>9, <1>15, <1>un, <1>ev, <2>2, <2>3, <2>4 DEF Freeing
<1>18. Allocated'
  <2>1. \A f \in Events : HeldByQueue(f)' \/ HeldByRequester(f)' => life'[f] = "live"
    BY <1>1, <1>10, <1>un DEF Shape, Allocated
  <2>2. l \notin {"p_keep", "p_refs"}
    BY <1>6, <1>7
  <2> QED
    BY <1>0, <1>8, <1>9, <1>un, <2>1, <2>2 DEF Shape, Allocated, Same
<1>19. Claiming'
  BY <1>un DEF Shape, Claiming
<1> QED
  BY <1>8, <1>12, <1>13, <1>14, <1>16, <1>17, <1>18, <1>19 DEF Shape

(* A thread leaves crtx_free_event, with the event freed or not.           *)
LEMMA LeaveFreeShape ==
    ASSUME IInv, NEW t \in Producers \cup Workers, pc[t] \in FreePCs,
           Moves(t, AfterRelease(t)),
           UNCHANGED <<rel, equeue, claimed, cur, req, qmutex>>,
           life' = life \/ life' = [life EXCEPT ![cur[t]] = "freed"]
    PROVE  Shape'
<1> USE DEF IInv
<1>0. t \in Threads /\ t \notin Waiters \cup {Flusher}
      /\ (t \in Producers => t \notin Workers)
      /\ Producers \subseteq Threads /\ Workers \subseteq Threads
      /\ Waiters \cup {Flusher} \subseteq Threads
  BY DistinctThreads DEF Threads
<1>1. PICK l : /\ l = AfterRelease(t)
               /\ l = IF t \in Workers THEN "w_unlink"
                      ELSE IF req[t] THEN "p_idle" ELSE "p_unlock"
  BY <1>0 DEF AfterRelease, FreePCs
<1>2. Programs' /\ \A u \in Threads \ {t} : Same(u)
  BY <1>0, <1>1, MovesPrograms DEF Shape, ProducerPCs, WorkerPCs
<1>3. pc'[t] = l
  BY <1>1 DEF Moves
<1>ev. PICK e \in Events :
          e = cur[t] /\ rel[e] = 0
          /\ \A u \in Threads \ {t} : pc[u] \in FreePCs => cur[u] # e
  BY <1>0 DEF Shape, Freeing
<1>4. ~HeldByQueue(e) /\ ~HeldByRequester(e)
  BY <1>ev DEF Shape, Counted
<1>5. \A f : f # e => /\ HeldByQueue(f)' <=> HeldByQueue(f)
                      /\ HeldByRequester(f)' <=> HeldByRequester(f)
  BY <1>0, <1>2, <1>ev, HeldOthers
<1>6. ~HeldByQueue(e)' /\ ~HeldByRequester(e)'
  <2>1. l \notin AddingPCs /\ l \notin HandlingPCs
        /\ (t \in Producers /\ req[t] => l \notin RequestPCs)
    BY <1>0, <1>1 DEF AddingPCs, HandlingPCs, RequestPCs
  <2>2. Queued(e)' <=> Queued(e)
    BY DEF Queued
  <2> QED
    BY <1>0, <1>2, <1>3, <1>4, <2>1, <2>2 DEF HeldByQueue, HeldByRequester, Same
<1>7. \A f \in Events : (life'[f] = life[f] \/ (f = e /\ life'[f] = "freed"))
  BY <1>ev DEF TypeOK
<1>8. Pointers'
  BY <1>0, <1>1, <1>2, <1>3, <1>ev, NoEventIsNoEvent
     DEF Shape, Pointers, Same, AskingPCs, FreePCs
<1>9. Created'
  <2>1. \A u \in Threads : cur[u] # NoEvent => cur[u] \in Events
    BY DEF TypeOK
  <2>2. \A i \in DOMAIN equeue : equeue[i] \in Events
    BY DEF TypeOK
  <2> QED
    BY <1>7, <2>1, <2>2 DEF Shape, Created
<1>10. Exclusive'
  <2>1. l \notin PrivatePCs /\ (t \in Producers => pc[t] # "p_idle")
    BY <1>0, <1>1 DEF PrivatePCs, FreePCs
  <2> QED
    BY <1>0, <1>2, <1>3, <2>1 DEF Shape, Exclusive, Same, Queued
<1>11. Counted'
  BY <1>4, <1>5, <1>6 DEF Shape, Counted
<1>12. Freeing'
  <2>1. l \notin FreePCs
    BY <1>1 DEF FreePCs
  <2> QED
    BY <1>2, <1>3, <1>7, <1>ev, <2>1 DEF Shape, Freeing, Same
<1>13. Allocated'
  <2>1. \A p \in Producers : pc'[p] \in {"p_keep", "p_refs"} =>
           pc[p] \in {"p_keep", "p_refs"} /\ p # t
    BY <1>0, <1>1, <1>2, <1>3 DEF Same
  <2>2. \A p \in Producers : pc[p] \in {"p_keep", "p_refs"} /\ p # t =>
           cur[p] \in Events /\ cur[p] # e
    BY <1>0, <1>ev DEF Shape, Exclusive, Pointers, PrivatePCs
  <2> QED
    BY <1>5, <1>6, <1>7, <2>1, <2>2 DEF Shape, Allocated
<1>14. Claiming'
  BY DEF Shape, Claiming
<1> QED
  BY <1>2, <1>8, <1>9, <1>10, <1>11, <1>12, <1>13, <1>14 DEF Shape

(* Every step of Next preserves Shape.                                     *)
LEMMA ShapeStep == IInv /\ [Next]_vars => Shape'
<1> SUFFICES ASSUME IInv, [Next]_vars PROVE Shape'
  OBVIOUS
<1>1. ASSUME NEW p \in Producers, NEW e \in Events, NEW r \in BOOLEAN,
             CreateEvent(p, e, r)
      PROVE  Shape'
  BY <1>1, CreateShape
<1>2. ASSUME NEW p \in Producers, ProducerStep(p) PROVE Shape'
  <2>1. CASE UnlockGraph(p) /\ ~req[p]
    <3>1. Moves(p, "p_idle")
      BY <2>1, GotoMoves DEF UnlockGraph, IInv
    <3> QED
      BY <2>1, <3>1, ForgetShape DEF UnlockGraph, evVars, graphVars
  <2> QED
    BY <1>2, <2>1, ProducerSilent, ReferenceShape, EnqueueShape DEF ProducerStep
<1>3. ASSUME NEW w \in Workers, WorkerStep(w) PROVE Shape'
  <2>1. CASE UnlinkClaimed(w)
    <3>1. Moves(w, "w_claim")
      BY <2>1, GotoMoves DEF UnlinkClaimed, IInv
    <3> QED
      BY <2>1, <3>1, ForgetShape DEF UnlinkClaimed, evVars
  <2> QED
    BY <1>3, <2>1, WorkerSilent, ClaimShape DEF WorkerStep
<1>4. ASSUME NEW t \in Producers \cup Workers, ReleaseStep(t) PROVE Shape'
  <2>1. CASE FreeClaim(t) /\ rip[cur[t]]
    <3>1. Moves(t, AfterRelease(t))
      BY <2>1, GotoMoves DEF FreeClaim, IInv
    <3> QED
      BY <2>1, <3>1, LeaveFreeShape DEF FreeClaim, graphVars, FreePCs
  <2>2. CASE FreeMemory(t)
    <3>1. Moves(t, AfterRelease(t))
      BY <2>2, GotoMoves DEF FreeMemory, IInv
    <3> QED
      BY <2>2, <3>1, LeaveFreeShape DEF FreeMemory, graphVars, FreePCs
  <2>3. CASE FreeClaim(t) /\ ~rip[cur[t]]
    BY <2>3, ReleaseSilent
  <2>4. CASE DereferenceResponse(t)
    BY <2>4, ReleaseSilent
  <2>5. CASE FreeInvalidate(t)
    BY <2>5, ReleaseSilent
  <2>6. CASE FreeCheck(t)
    BY <2>6, ReleaseSilent
  <2>7. CASE DereferenceRelease(t)
    BY <2>7, DereferenceShape
  <2> QED
    BY <1>4, <2>1, <2>2, <2>3, <2>4, <2>5, <2>6, <2>7 DEF ReleaseStep
<1>5. ASSUME NEW u \in Waiters, StartWaiting(u) \/ CheckEmpty(u) PROVE Shape'
  BY <1>5, WaiterSilent
<1>6. CASE AddTask \/ UNCHANGED vars
  <2>1. UNCHANGED <<life, rel, equeue, claimed, cur, req, qmutex, pc>>
    BY <1>6 DEF AddTask, evVars, vars
  <2>2. Programs' /\ \A u \in Threads : Same(u)
    BY <2>1 DEF IInv, Shape, Programs, Same
  <2> QED
    BY <2>1, <2>2, SilentStep DEF IInv
<1> QED
  BY <1>1, <1>2, <1>3, <1>4, <1>5, <1>6 DEF Next

---------------------------------------------------------------------------
(* Initially.                                                              *)

LEMMA InitPCs ==
    ASSUME Init
    PROVE  /\ pc \in [Threads -> PCs]
           /\ \A p \in Producers : pc[p] = "p_idle"
           /\ \A w \in Workers : pc[w] = "w_idle"
           /\ \A u \in Waiters : pc[u] = "e_idle"
           /\ pc[Flusher] = "x_idle"
<1>1. /\ Producers \subseteq Threads /\ Workers \subseteq Threads
      /\ Waiters \subseteq Threads /\ Flusher \in Threads
      /\ Threads = Producers \cup Workers \cup Waiters \cup {Flusher}
  BY DEF Threads
<1>2. \A p \in Producers : pc[p] = "p_idle"
  BY <1>1, DistinctThreads DEF Init
<1>3. \A w \in Workers : pc[w] = "w_idle"
  BY <1>1, DistinctThreads DEF Init
<1>4. \A u \in Waiters : pc[u] = "e_idle"
  BY <1>1, DistinctThreads DEF Init
<1>5. pc[Flusher] = "x_idle"
  BY <1>1, DistinctThreads DEF Init
<1> DEFINE F(t) == CASE t \in Producers -> "p_idle"
                     [] t \in Workers   -> "w_idle"
                     [] t \in Waiters   -> "e_idle"
                     [] t = Flusher     -> "x_idle"
<1>6. pc = [t \in Threads |-> F(t)]
  BY DEF Init
<1> HIDE DEF F
<1>7. \A t \in Threads : pc[t] \in PCs
  BY <1>1, <1>2, <1>3, <1>4, <1>5
     DEF PCs, ProducerPCs, WorkerPCs, WaiterPCs, FlusherPCs
<1> QED
  BY <1>2, <1>3, <1>4, <1>5, <1>6, <1>7

LEMMA InitIInv == Init => IInv
<1> SUFFICES ASSUME Init PROVE IInv
  OBVIOUS
<1>1. TypeOK
  <2>1. pc \in [Threads -> PCs]
    BY InitPCs
  <2>2. /\ life \in [Events -> {"unborn", "live", "freed"}]
        /\ rel \in [Events -> Nat]
        /\ resp \in [Events -> Nat]
    BY DEF Init
  <2>3. /\ rip \in [Events -> BOOLEAN]
        /\ err \in [Events -> BOOLEAN]
        /\ handled \in [Events -> BOOLEAN]
        /\ req \in [Producers -> BOOLEAN]
        /\ tasks \in BOOLEAN
    BY DEF Init
  <2>4. /\ equeue \in Seq(Events)
        /\ claimed \in SUBSET Events
        /\ mode \in {"eloop", "thread"}
        /\ gmutex \in Producers \cup {NoThread}
        /\ qmutex \in {Flusher, NoThread}
        /\ cur \in [Threads -> Events \cup {NoEvent}]
    BY DEF Init
  <2>5. pipe \in 0..PipeCap
    BY PipeCapAssumption DEF Init
  <2> QED
    BY <2>1, <2>2, <2>3, <2>4, <2>5 DEF TypeOK
<1>2. \A t \in Threads : cur[t] = NoEvent
  BY DEF Init
<1>3. /\ Producers \subseteq Threads /\ Workers \subseteq Threads
      /\ Waiters \subseteq Threads /\ Flusher \in Threads
      /\ Threads = Producers \cup Workers \cup Waiters \cup {Flusher}
  BY DEF Threads
<1>4. DOMAIN equeue = {} /\ claimed = {} /\ qmutex = NoThread
  BY DEF Init
<1>5. \A e \in Events : ~HeldByQueue(e) /\ ~HeldByRequester(e)
  BY <1>2, <1>3, <1>4, NoEventIsNoEvent
     DEF HeldByQueue, HeldByRequester, Queued
<1>6. Programs
  BY <1>4, InitPCs DEF Programs, ProducerPCs, WorkerPCs, WaiterPCs
<1>7. Pointers
  BY <1>2, <1>3, InitPCs DEF Pointers, AskingPCs
<1>8. Created
  BY <1>2, <1>4 DEF Created
<1>9. Exclusive
  BY <1>2, <1>3, <1>4, InitPCs DEF Exclusive, Queued, PrivatePCs
<1>10. Counted
  <2>1. \A e \in Events : rel[e] = 0
    BY DEF Init
  <2> QED
    BY <1>5, <2>1 DEF Counted
<1>11. Freeing
  <2>1. \A t \in Threads : pc[t] \notin FreePCs
    BY <1>3, InitPCs DEF FreePCs
  <2> QED
    BY <2>1 DEF Freeing
<1>12. Allocated
  BY <1>5, InitPCs DEF Allocated
<1>13. Claiming
  BY <1>2, <1>3, <1>4, NoEventIsNoEvent DEF Claiming
<1> QED
  BY <1>1, <1>6, <1>7, <1>8, <1>9, <1>10, <1>11, <1>12, <1>13 DEF IInv, Shape

---------------------------------------------------------------------------
(* The theorems.                                                           *)

(* IInv holds in every state that producers, workers and waiters reach     *)
(* with crtx_create_event, crtx_add_event, crtx_process_one_event,         *)
(* crtx_wait_on_event and crtx_dereference_event_release.                  *)
THEOREM Invariance == Spec => []IInv
<1>1. IInv /\ [Next]_vars => IInv'
  BY TypeStep, ShapeStep DEF IInv, Shape
<1> QED
  BY <1>1, InitIInv, PTL DEF Spec

(* The reference counters never go below 0, the control pipe never holds   *)
(* more requests than it has room for, and every pointer is an event.      *)
THEOREM TypeCorrect == Spec => []TypeOK
<1>1. IInv => TypeOK
  BY DEF IInv
<1> QED
  BY <1>1, Invariance, PTL

(* No thread touches an event after crtx_free_event released it, however   *)
(* many threads add, process and wait for events.                          *)
THEOREM EventsAreSafe == Spec => []NoUseAfterFree
<1>1. IInv => NoUseAfterFree
  <2> SUFFICES ASSUME IInv, NEW t \in Threads, pc[t] \in TouchPCs
               PROVE  life[cur[t]] = "live"
    BY DEF NoUseAfterFree
  <2> USE DEF IInv
  <2>1. CASE pc[t] \in FreePCs
    BY <2>1 DEF Shape, Freeing
  <2>2. CASE t \in Producers /\ pc[t] \notin FreePCs
    <3>1. cur[t] \in Events /\ pc[t] \in ProducerPCs
      BY <2>2 DEF Shape, Pointers, Programs, TouchPCs, FreePCs
    <3>2. CASE pc[t] \in PrivatePCs
      BY <2>2, <3>2, PrivateEvent
    <3>3. CASE pc[t] \notin PrivatePCs
      <4>1. pc[t] \in AskingPCs /\ pc[t] \in RequestPCs
        BY <2>2, <3>1, <3>3
           DEF TouchPCs, ProducerPCs, AskingPCs, RequestPCs, PrivatePCs
      <4>2. HeldByRequester(cur[t])
        BY <2>2, <4>1 DEF HeldByRequester, Shape, Pointers
      <4> QED
        BY <3>1, <4>2 DEF Shape, Allocated
    <3> QED
      BY <3>2, <3>3
  <2>3. CASE t \in Workers /\ pc[t] \notin FreePCs
    <3>1. pc[t] \in HandlingPCs
      BY <2>3 DEF Shape, Programs, TouchPCs, WorkerPCs, HandlingPCs, FreePCs
    <3>2. cur[t] \in Events
      BY <2>3, <3>1 DEF Shape, Pointers, HandlingPCs, TypeOK, Threads
    <3>3. HeldByQueue(cur[t])
      BY <2>3, <3>1 DEF HeldByQueue
    <3> QED
      BY <3>2, <3>3 DEF Shape, Allocated
  <2>4. CASE t \in Waiters \cup {Flusher}
    BY <2>4 DEF Shape, Programs, WaiterPCs, TouchPCs, FreePCs
  <2> QED
    BY <2>1, <2>2, <2>3, <2>4 DEF Threads
<1> QED
  BY <1>1, Invariance, PTL

(* The two lists of a graph: queued events are allocated, and an event is  *)
(* in the claimed list exactly while one worker processes it.              *)
THEOREM QueueIsOwned == Spec => []QueueOwnership
<1>1. IInv => QueueOwnership
  <2> SUFFICES ASSUME IInv PROVE QueueOwnership
    OBVIOUS
  <2> USE DEF IInv
  <2>1. \A i \in DOMAIN equeue : life[equeue[i]] = "live"
    <3>1. \A i \in DOMAIN equeue : equeue[i] \in Events
      BY DEF TypeOK
    <3> QED
      BY <3>1 DEF Shape, Allocated, HeldByQueue, Queued
  <2>2. \A w \in Workers : pc[w] \notin {"w_idle", "w_claim"} <=> cur[w] \in Events
    BY NoEventIsNoEvent DEF Shape, Pointers, TypeOK, Threads
  <2>3. claimed \subseteq Events
    BY DEF TypeOK
  <2>4. claimed = {cur[w] : w \in {x \in Workers :
                     pc[x] \notin {"w_idle", "w_claim"}}}
    BY <2>2, <2>3 DEF Shape, Claiming
  <2>5. \A v, w \in Workers : (v # w /\ cur[v] # NoEvent) => cur[v] # cur[w]
    BY DEF Shape, Exclusive
  <2> QED
    BY <2>1, <2>4, <2>5 DEF QueueOwnership
<1> QED
  BY <1>1, Invariance, PTL

=============================================================================
