------------------------ MODULE EventResponseProofs ------------------------
(***************************************************************************)
(* Proofs about EventGraph, continued: a requester gets its response after *)
(* the handlers have finished, and a graph delivers its events as          *)
(* EventDelivery describes.                                                *)
(*                                                                         *)
(* The argument: from the moment a producer takes the references of the    *)
(* queue until the worker that handled the event drops the first of them,  *)
(* refs_before_response is not 0.  An event is marked invalid only by the  *)
(* thread that frees it, which is alone with it (IInv), so no event in the *)
(* queue is invalid and the first valid one is the first.                  *)
(***************************************************************************)
EXTENDS EventGraphProofs, SequenceTheorems

(* Before the worker has dropped the reference for the response.           *)
BusyPCs == {"w_handle", "w_derefresp"}

(* Before the handlers have run.                                           *)
BeforePCs == {"w_idle", "w_claim", "w_handle"}

(* Before the event is in the queue or dropped.                            *)
FreshPCs == {"p_keep", "p_refs", "p_add"}

QueuedPart ==
    \A e \in Events : Queued(e) => resp[e] > 0 /\ ~err[e] /\ ~handled[e]

ProducerPart ==
    \A p \in Producers :
        /\ pc[p] = "p_add" => resp[cur[p]] > 0
        /\ pc[p] \in FreshPCs => ~err[cur[p]]
        /\ pc[p] \in PrivatePCs => ~handled[cur[p]]

WorkerPart ==
    \A w \in Workers :
        /\ pc[w] \in BusyPCs => resp[cur[w]] > 0
        /\ pc[w] \notin BeforePCs => handled[cur[w]]
        /\ pc[w] = "w_handle" => ~handled[cur[w]]

UnbornPart == \A e \in Events : life[e] = "unborn" => ~err[e] /\ ~handled[e]

ReaderPart ==
    \A p \in Producers : pc[p] = "p_read" /\ ~err[cur[p]] =>
        handled[cur[p]] \/ (cur[p] \notin claimed /\ ~Queued(cur[p]))

(* What is added to IInv.                                                  *)
Answering == QueuedPart /\ ProducerPart /\ WorkerPart /\ UnbornPart /\ ReaderPart

---------------------------------------------------------------------------
(* Steps that change nothing of what Answering tells apart.                *)

(* Thread u comes to no place that Answering says something about.         *)
Less(u) ==
    /\ pc'[u] = "p_add" => pc[u] = "p_add"
    /\ pc'[u] \in FreshPCs => pc[u] \in FreshPCs
    /\ pc'[u] \in PrivatePCs => pc[u] \in PrivatePCs
    /\ pc'[u] \in BusyPCs => pc[u] \in BusyPCs
    /\ pc'[u] \notin BeforePCs => pc[u] \notin BeforePCs
    /\ pc'[u] = "w_handle" => pc[u] = "w_handle"
    /\ pc'[u] = "p_read" => pc[u] = "p_read"

(* Nor does a thread that is woken up.                                     *)
LEMMA WokenLess == ASSUME NEW u \in Producers \cup Workers, Woken(u), Programs PROVE Less(u)
BY DistinctThreads
   DEF Woken, Less, Programs, FreshPCs, PrivatePCs, BusyPCs, BeforePCs, ProducerPCs, WorkerPCs,
       FreePCs

LEMMA OthersLess ==
    ASSUME IInv, NEW t, NEW l, Moves(t, l)
    PROVE  \A u \in (Producers \cup Workers) \ {t} : Less(u)
<1>1. \A u \in (Producers \cup Workers) \ {t} : Woken(u)
  BY DEF Moves, Threads
<1> QED
  BY <1>1, WokenLess DEF IInv, Shape

LEMMA QuietStep ==
    ASSUME Answering, \A u \in Producers \cup Workers : Less(u),
           UNCHANGED <<resp, err, handled, equeue, claimed, cur>>,
           \A e \in Events : life'[e] = "unborn" => life[e] = "unborn"
    PROVE  Answering'
<1>1. \A e : Queued(e)' <=> Queued(e)
  BY DEF Queued
<1>2. QueuedPart'
  BY <1>1 DEF Answering, QueuedPart
<1>3. ProducerPart'
  BY DEF Answering, ProducerPart, Less
<1>4. WorkerPart'
  BY DEF Answering, WorkerPart, Less
<1>5. UnbornPart'
  BY DEF Answering, UnbornPart
<1>6. ReaderPart'
  BY <1>1 DEF Answering, ReaderPart, Less
<1> QED
  BY <1>2, <1>3, <1>4, <1>5, <1>6 DEF Answering

(* The same for a step of t to l.                                          *)
LEMMA QuietMove ==
    ASSUME IInv, Answering, NEW t, NEW l, Moves(t, l),
           t \in Producers \cup Workers => Less(t),
           UNCHANGED <<resp, err, handled, equeue, claimed, cur>>,
           \A e \in Events : life'[e] = "unborn" => life[e] = "unborn"
    PROVE  Answering'
BY OthersLess, QuietStep

LEMMA ProducerQuiet ==
    ASSUME IInv, Answering, NEW p \in Producers,
           \/ KeepReference(p) \/ Drop(p) \/ TriggerLoop(p) \/ TriggerThread(p)
           \/ (UnlockGraph(p) /\ req[p]) \/ ReadResponse(p)
    PROVE  Answering'
<1>0. p \in Threads /\ p \notin Workers
  BY DistinctThreads DEF Threads
<1>1. PICK l \in {"p_refs", "p_dropresp", "p_unlock", "p_wait", "p_deref"} :
         /\ Moves(p, l)
         /\ l = "p_refs" => pc[p] = "p_keep"
         /\ l = "p_dropresp" => pc[p] = "p_add"
         /\ pc[p] \in ProducerPCs
  <2>1. CASE KeepReference(p)
    BY <2>1, GotoMoves DEF KeepReference, ProducerPCs, IInv
  <2>2. CASE Drop(p)
    BY <2>2, GotoMoves DEF Drop, ProducerPCs, IInv
  <2>3. CASE TriggerLoop(p)
    BY <2>3, GotoMoves DEF TriggerLoop, ProducerPCs, IInv
  <2>4. CASE TriggerThread(p)
    <3>1. CASE Goto(p, "p_unlock")
      BY <2>4, <3>1, GotoMoves DEF TriggerThread, ProducerPCs, IInv
    <3>2. ASSUME NEW w \in Workers, pc[w] = "w_idle",
                 pc' = [pc EXCEPT ![p] = "p_unlock", ![w] = "w_claim"]
          PROVE  Moves(p, "p_unlock")
      BY <1>0, <3>2 DEF Moves, Woken, TypeOK, Threads, IInv
    <3> QED
      BY <2>4, <3>1, <3>2 DEF TriggerThread, ProducerPCs
  <2>5. CASE UnlockGraph(p) /\ req[p]
    BY <2>5, GotoMoves DEF UnlockGraph, ProducerPCs, IInv
  <2>6. CASE ReadResponse(p)
    BY <2>6, GotoMoves DEF ReadResponse, ProducerPCs, IInv
  <2> QED
    BY <2>1, <2>2, <2>3, <2>4, <2>5, <2>6
<1>2. Less(p)
  BY <1>1 DEF Moves, Less, FreshPCs, PrivatePCs, BusyPCs, BeforePCs, ProducerPCs
<1>3. UNCHANGED <<resp, err, handled, equeue, claimed, cur, life>>
  BY DEF KeepReference, Drop, TriggerLoop, TriggerThread, UnlockGraph, ReadResponse, evVars,
     graphVars
<1> QED
  BY <1>1, <1>2, <1>3, QuietMove

LEMMA WorkerQuiet ==
    ASSUME IInv, Answering, NEW w \in Workers, ReadRequest(w) \/ LeaveGraph(w)
    PROVE  Answering'
<1>1. PICK l \in {"w_idle", "w_claim"} : Moves(w, l)
  BY GotoMoves DEF ReadRequest, LeaveGraph, IInv
<1>2. Less(w)
  BY <1>1 DEF Moves, Less, FreshPCs, PrivatePCs, BusyPCs, BeforePCs
<1>3. UNCHANGED <<resp, err, handled, equeue, claimed, cur, life>>
  BY DEF ReadRequest, LeaveGraph, evVars, graphVars
<1> QED
  BY <1>1, <1>2, <1>3, QuietMove

LEMMA ReleaseQuiet ==
    ASSUME IInv, Answering, NEW t \in Producers \cup Workers,
           DereferenceRelease(t) \/ FreeClaim(t) \/ FreeCheck(t) \/ FreeMemory(t)
    PROVE  Answering'
<1>0. t \in Threads /\ (t \in Workers => t \notin Producers)
  BY DistinctThreads DEF Threads
<1>1. pc[t] \in FreePCs \cup {"w_derefrel", "p_droprel", "p_deref", "x_deref"}
  BY DEF DereferenceRelease, FreeClaim, FreeCheck, FreeMemory, FreePCs
<1>2. PICK l : Moves(t, l) /\ l \in FreePCs \cup {AfterRelease(t)}
  BY GotoMoves DEF DereferenceRelease, FreeClaim, FreeCheck, FreeMemory, FreePCs, IInv
<1>3. AfterRelease(t) \in {"w_unlink", "p_unlock", "p_idle", "x_unlink"}
  BY AfterReleaseType
<1>4. Less(t)
  BY <1>1, <1>2, <1>3 DEF Moves, Less, FreshPCs, PrivatePCs, BusyPCs, BeforePCs, FreePCs
<1>5. UNCHANGED <<resp, err, handled, equeue, claimed, cur>>
  BY DEF DereferenceRelease, FreeClaim, FreeCheck, FreeMemory, evVars, graphVars
<1>6. \A e \in Events : life'[e] = "unborn" => life[e] = "unborn"
  BY DEF DereferenceRelease, FreeClaim, FreeCheck, FreeMemory, evVars, IInv, TypeOK
<1> QED
  BY <1>2, <1>4, <1>5, <1>6, QuietMove

LEMMA OtherQuiet ==
    ASSUME IInv, Answering,
           \/ \E u \in Waiters : StartWaiting(u) \/ CheckEmpty(u)
           \/ AddTask \/ UNCHANGED vars
    PROVE  Answering'
<1>1. \A v \in Producers \cup Workers : pc'[v] = pc[v]
  <2>1. CASE \E u \in Waiters : StartWaiting(u) \/ CheckEmpty(u)
    BY <2>1, DistinctThreads DEF StartWaiting, CheckEmpty, Goto, IInv, TypeOK, Threads
  <2>2. CASE AddTask \/ UNCHANGED vars
    BY <2>2 DEF AddTask, vars
  <2> QED
    BY <2>1, <2>2
<1>2. \A v \in Producers \cup Workers : Less(v)
  BY <1>1 DEF Less
<1>3. UNCHANGED <<resp, err, handled, equeue, claimed, cur, life>>
  BY DEF StartWaiting, CheckEmpty, AddTask, evVars, graphVars, vars
<1> QED
  BY <1>2, <1>3, QuietStep

---------------------------------------------------------------------------
(* Steps that change something Answering tells apart.                      *)

(* The threads of the program that take part.                              *)
LEMMA TwoKinds ==
    /\ Producers \subseteq Threads /\ Workers \subseteq Threads
    /\ \A p \in Producers, w \in Workers : p # w
BY DistinctThreads DEF Threads

(* crtx_create_event: the event comes without an error.                    *)
LEMMA CreateAnswer ==
    ASSUME IInv, Answering, NEW p \in Producers, NEW e \in Events, NEW r \in BOOLEAN,
           CreateEvent(p, e, r)
    PROVE  Answering'
<1>1. PICK l \in {"p_keep", "p_refs"} : Moves(p, l)
  BY GotoMoves DEF CreateEvent, IInv
<1>2. \A u \in (Producers \cup Workers) \ {p} : Less(u)
  BY <1>1, OthersLess
<1>3. cur' = [cur EXCEPT ![p] = e] /\ cur \in [Threads -> Events \cup {NoEvent}]
  BY DEF CreateEvent, IInv, TypeOK
<1>4. pc'[p] \in {"p_keep", "p_refs"} /\ cur'[p] = e
  BY <1>1, <1>3, TwoKinds DEF Moves
<1>5. \A u \in (Producers \cup Workers) \ {p} : cur'[u] = cur[u]
  BY <1>3, TwoKinds
<1>6. UNCHANGED <<resp, err, handled, equeue, claimed>> /\ life' = [life EXCEPT ![e] = "live"]
  BY DEF CreateEvent, graphVars
<1>7. ~err[e] /\ ~handled[e]
  BY DEF CreateEvent, Answering, UnbornPart
<1>8. \A f : Queued(f)' <=> Queued(f)
  BY <1>6 DEF Queued
<1>9. QueuedPart'
  BY <1>6, <1>8 DEF Answering, QueuedPart
<1>10. ProducerPart'
  BY <1>2, <1>4, <1>5, <1>6, <1>7 DEF Answering, ProducerPart, Less
<1>11. WorkerPart'
  BY <1>2, <1>5, <1>6, TwoKinds DEF Answering, WorkerPart, Less
<1>12. UnbornPart'
  BY <1>6 DEF Answering, UnbornPart, IInv, TypeOK
<1>13. ReaderPart'
  BY <1>2, <1>4, <1>5, <1>6, <1>8 DEF Answering, ReaderPart, Less
<1> QED
  BY <1>9, <1>10, <1>11, <1>12, <1>13 DEF Answering

(* The two references of the queue: the event has no error, so the counter *)
(* for the response is raised, too.                                        *)
LEMMA ReferenceAnswer ==
    ASSUME IInv, Answering, NEW p \in Producers, AddReferences(p)
    PROVE  Answering'
<1>1. Moves(p, "p_add") /\ pc[p] = "p_refs"
  BY GotoMoves DEF AddReferences, IInv
<1>2. \A u \in (Producers \cup Workers) \ {p} : Less(u)
  BY <1>1, OthersLess
<1>3. cur[p] \in Events /\ ~err[cur[p]] /\ ~handled[cur[p]]
  BY <1>1 DEF IInv, Shape, Pointers, Answering, ProducerPart, FreshPCs, PrivatePCs
<1>4. resp' = [resp EXCEPT ![cur[p]] = resp[cur[p]] + 1] /\ resp \in [Events -> Nat]
  BY <1>3 DEF AddReferences, IInv, TypeOK
<1>5. UNCHANGED <<err, handled, equeue, claimed, cur, life>>
  BY DEF AddReferences, graphVars
<1>6. resp'[cur[p]] > 0 /\ \A e \in Events : resp[e] > 0 => resp'[e] > 0
  BY <1>3, <1>4
<1>7. \A e : Queued(e)' <=> Queued(e)
  BY <1>5 DEF Queued
<1>8. QueuedPart'
  BY <1>5, <1>6, <1>7 DEF Answering, QueuedPart
<1>9. ProducerPart'
  <2>1. \A q \in Producers : pc[q] = "p_add" => cur[q] \in Events
    BY DEF IInv, Shape, Pointers
  <2> QED
    BY <1>1, <1>2, <1>3, <1>5, <1>6, <2>1 DEF Answering, ProducerPart, Less, Moves
<1>10. WorkerPart'
  <2>1. \A w \in Workers : pc[w] \in BusyPCs => cur[w] \in Events
    BY NoEventIsNoEvent, TwoKinds DEF IInv, Shape, Pointers, BusyPCs, TypeOK
  <2> QED
    BY <1>2, <1>5, <1>6, <2>1, TwoKinds DEF Answering, WorkerPart, Less
<1>11. UnbornPart'
  BY <1>5 DEF Answering, UnbornPart
<1>12. ReaderPart'
  BY <1>1, <1>2, <1>5, <1>7 DEF Answering, ReaderPart, Less, Moves
<1> QED
  BY <1>8, <1>9, <1>10, <1>11, <1>12 DEF Answering

(* crtx_add_event appends an event that is known to the producer only.     *)
LEMMA EnqueueAnswer ==
    ASSUME IInv, Answering, NEW p \in Producers, Enqueue(p)
    PROVE  Answering'
<1>1. Moves(p, "p_trigger") /\ pc[p] = "p_add"
  BY GotoMoves DEF Enqueue, IInv
<1>2. \A u \in (Producers \cup Workers) \ {p} : Less(u)
  BY <1>1, OthersLess
<1>3. cur[p] \in Events /\ resp[cur[p]] > 0 /\ ~err[cur[p]] /\ ~handled[cur[p]]
  BY <1>1 DEF IInv, Shape, Pointers, Answering, ProducerPart, FreshPCs, PrivatePCs
<1>4. UNCHANGED <<resp, err, handled, claimed, cur, life>> /\ equeue' = Append(equeue, cur[p])
  BY DEF Enqueue, evVars
<1>5. \A e \in Events : Queued(e)' => Queued(e) \/ e = cur[p]
  BY <1>3, <1>4 DEF Queued, IInv, TypeOK
<1>6. \A u \in (Producers \cup Workers) \ {p} : cur[u] # cur[p]
  BY <1>1, TwoKinds DEF IInv, Shape, Exclusive, PrivatePCs
<1>7. QueuedPart'
  BY <1>3, <1>4, <1>5 DEF Answering, QueuedPart
<1>8. ProducerPart'
  BY <1>1, <1>2, <1>4 DEF Answering, ProducerPart, Less, Moves, FreshPCs, PrivatePCs
<1>9. WorkerPart'
  BY <1>2, <1>4, TwoKinds DEF Answering, WorkerPart, Less
<1>10. UnbornPart'
  BY <1>4 DEF Answering, UnbornPart
<1>11. ReaderPart'
  <2>1. \A q \in Producers : pc[q] = "p_read" => cur[q] \in Events
    BY DEF IInv, Shape, Pointers
  <2> QED
    BY <1>1, <1>2, <1>4, <1>5, <1>6, <2>1 DEF Answering, ReaderPart, Less, Moves
<1> QED
  BY <1>7, <1>8, <1>9, <1>10, <1>11 DEF Answering

(* A thread forgets its event: the end of crtx_add_event without a request *)
(* and the end of crtx_process_one_event.                                  *)
LEMMA ForgetAnswer ==
    ASSUME IInv, Answering, NEW t, NEW l, Moves(t, l),
           (t \in Producers /\ l = "p_idle") \/ (t \in Workers /\ l = "w_claim"),
           cur' = [cur EXCEPT ![t] = NoEvent], claimed' \subseteq claimed,
           UNCHANGED <<resp, err, handled, equeue, life>>
    PROVE  Answering'
<1>1. \A u \in (Producers \cup Workers) \ {t} : Less(u) /\ cur'[u] = cur[u]
  BY OthersLess, TwoKinds DEF IInv, TypeOK
<1>2. pc'[t] = l
  BY DEF Moves
<1>3. \A e : Queued(e)' <=> Queued(e)
  BY DEF Queued
<1>4. QueuedPart'
  BY <1>3 DEF Answering, QueuedPart
<1>5. ProducerPart'
  BY <1>1, <1>2, TwoKinds DEF Answering, ProducerPart, Less, FreshPCs, PrivatePCs
<1>6. WorkerPart'
  BY <1>1, <1>2, TwoKinds DEF Answering, WorkerPart, Less, BusyPCs, BeforePCs
<1>7. UnbornPart'
  BY DEF Answering, UnbornPart
<1>8. ReaderPart'
  BY <1>1, <1>2, <1>3, TwoKinds DEF Answering, ReaderPart, Less
<1> QED
  BY <1>4, <1>5, <1>6, <1>7, <1>8 DEF Answering

(* crtx_wait_on_event returns for a counter of 0 only when the event is    *)
(* neither queued nor with a worker that has still to handle it.           *)
LEMMA WaitAnswer ==
    ASSUME IInv, Answering, NEW p \in Producers, WaitOnEvent(p)
    PROVE  Answering'
<1>1. pc[p] = "p_wait" /\ Moves(p, IF resp[cur[p]] > 0 THEN "p_waiting" ELSE "p_read")
  BY GotoMoves DEF WaitOnEvent, IInv
<1>2. UNCHANGED <<resp, err, handled, equeue, claimed, cur, life>>
  BY DEF WaitOnEvent, evVars, graphVars
<1>3. CASE resp[cur[p]] > 0
  <2>1. Less(p)
    BY <1>1, <1>3 DEF Moves, Less, FreshPCs, PrivatePCs, BusyPCs, BeforePCs
  <2> QED
    BY <1>1, <1>2, <2>1, QuietMove
<1>4. CASE ~(resp[cur[p]] > 0)
  <2>1. \A u \in (Producers \cup Workers) \ {p} : Less(u)
    BY <1>1, OthersLess
  <2>2. \A e : Queued(e)' <=> Queued(e)
    BY <1>2 DEF Queued
  <2>3. cur[p] \in Events /\ pc'[p] = "p_read"
    BY <1>1, <1>4 DEF IInv, Shape, Pointers, Moves
  <2>4. ~Queued(cur[p])
    BY <1>4, <2>3 DEF Answering, QueuedPart
  <2>5. cur[p] \in claimed => handled[cur[p]]
    <3>1. SUFFICES ASSUME NEW w \in Workers, cur[w] = cur[p] PROVE handled[cur[w]]
      BY <2>3 DEF IInv, Shape, Claiming
    <3>2. pc[w] \notin BusyPCs
      BY <1>4, <3>1 DEF Answering, WorkerPart
    <3>3. pc[w] \notin {"w_idle", "w_claim"}
      BY <2>3, <3>1, NoEventIsNoEvent DEF IInv, Shape, Pointers
    <3> QED
      BY <3>2, <3>3 DEF Answering, WorkerPart, BusyPCs, BeforePCs
  <2>6. QueuedPart'
    BY <1>2, <2>2 DEF Answering, QueuedPart
  <2>7. ProducerPart'
    BY <1>2, <2>1, <2>3 DEF Answering, ProducerPart, Less, FreshPCs, PrivatePCs
  <2>8. WorkerPart'
    BY <1>2, <2>1, TwoKinds DEF Answering, WorkerPart, Less
  <2>9. UnbornPart'
    BY <1>2 DEF Answering, UnbornPart
  <2>10. ReaderPart'
    BY <1>2, <2>1, <2>2, <2>3, <2>4, <2>5 DEF Answering, ReaderPart, Less
  <2> QED
    BY <2>6, <2>7, <2>8, <2>9, <2>10 DEF Answering
<1> QED
  BY <1>3, <1>4

(* No event in the queue is invalid, so the first valid one is the first.  *)
LEMMA FirstIsFirst ==
    ASSUME IInv, Answering, NEW i \in DOMAIN equeue, FirstValid(i)
    PROVE  i = 1
<1>1. \A j \in DOMAIN equeue : equeue[j] \in Events /\ Queued(equeue[j])
  BY DEF IInv, TypeOK, Queued
<1>2. \A j \in DOMAIN equeue : ~err[equeue[j]]
  BY <1>1 DEF Answering, QueuedPart
<1>3. DOMAIN equeue = 1..Len(equeue) /\ Len(equeue) \in Nat
  BY DEF IInv, TypeOK
<1> QED
  BY <1>2, <1>3 DEF FirstValid

(* crtx_claim_next_event_of_graph.                                         *)
LEMMA ClaimAnswer ==
    ASSUME IInv, Answering, NEW w \in Workers, ClaimNextEvent(w)
    PROVE  Answering'
<1>1. Moves(w, "w_handle")
  BY GotoMoves DEF ClaimNextEvent, IInv
<1>2. PICK i \in DOMAIN equeue :
         /\ cur' = [cur EXCEPT ![w] = equeue[i]]
         /\ claimed' = claimed \cup {equeue[i]}
         /\ equeue' = Without(equeue, i)
  BY DEF ClaimNextEvent
<1>3. UNCHANGED <<resp, err, handled, life>>
  BY DEF ClaimNextEvent, evVars
<1>4. equeue[i] \in Events /\ Queued(equeue[i])
  BY DEF IInv, TypeOK, Queued
<1>5. resp[equeue[i]] > 0 /\ ~handled[equeue[i]]
  BY <1>4 DEF Answering, QueuedPart
<1>6. \A u \in (Producers \cup Workers) \ {w} : Less(u) /\ cur'[u] = cur[u]
  BY <1>1, <1>2, OthersLess, TwoKinds DEF IInv, TypeOK
<1>7. cur'[w] = equeue[i] /\ pc'[w] = "w_handle"
  BY <1>1, <1>2, TwoKinds DEF IInv, TypeOK, Moves
<1>8. \A e : Queued(e)' => Queued(e)
  <2>1. equeue \in Seq(Events) /\ Len(equeue) \in Nat /\ DOMAIN equeue = 1..Len(equeue)
    BY DEF IInv, TypeOK
  <2>2. /\ DOMAIN equeue' = 1..(Len(equeue) - 1)
        /\ \A j \in 1..(Len(equeue) - 1) :
              equeue'[j] = IF j < i THEN equeue[j] ELSE equeue[j + 1]
    BY <1>2, <2>1, WithoutSeq
  <2>3. ASSUME NEW e, NEW j \in 1..(Len(equeue) - 1), equeue'[j] = e
        PROVE  Queued(e)
    <3>1. j \in DOMAIN equeue /\ j + 1 \in DOMAIN equeue
      BY <2>1
    <3>2. e = equeue[j] \/ e = equeue[j + 1]
      BY <2>2, <2>3
    <3> QED
      BY <3>1, <3>2 DEF Queued
  <2> QED
    BY <2>2, <2>3 DEF Queued
<1>9. QueuedPart'
  BY <1>3, <1>8 DEF Answering, QueuedPart
<1>10. ProducerPart'
  BY <1>3, <1>6, TwoKinds DEF Answering, ProducerPart, Less
<1>11. WorkerPart'
  BY <1>3, <1>5, <1>6, <1>7, TwoKinds DEF Answering, WorkerPart, Less, BusyPCs, BeforePCs
<1>12. UnbornPart'
  BY <1>3 DEF Answering, UnbornPart
<1>13. ReaderPart'
  BY <1>2, <1>3, <1>4, <1>5, <1>6, <1>8, TwoKinds DEF Answering, ReaderPart, Less
<1> QED
  BY <1>9, <1>10, <1>11, <1>12, <1>13 DEF Answering

(* traverse_graph_r: only this worker has the event.                       *)
LEMMA TraverseAnswer ==
    ASSUME IInv, Answering, NEW w \in Workers, TraverseGraph(w)
    PROVE  Answering'
<1>1. Moves(w, "w_derefresp") /\ pc[w] = "w_handle"
  BY GotoMoves DEF TraverseGraph, IInv
<1>2. UNCHANGED <<resp, err, life, equeue, claimed, cur>>
  BY DEF TraverseGraph, evVars, graphVars
<1>3. \A u \in (Producers \cup Workers) \ {w} : Less(u)
  BY <1>1, OthersLess
<1>4. cur[w] \in Events /\ life[cur[w]] # "unborn"
  BY <1>1, TwoKinds, NoEventIsNoEvent DEF IInv, TypeOK, Shape, Pointers, Created
<1>5. handled'[cur[w]] /\ \A e : e # cur[w] => handled'[e] = handled[e]
  BY <1>4 DEF TraverseGraph, IInv, TypeOK
<1>6. \A e : Queued(e)' <=> Queued(e)
  BY <1>2 DEF Queued
<1>7. QueuedPart'
  BY <1>2, <1>5, <1>6 DEF Answering, QueuedPart, IInv, Shape, Exclusive
<1>8. ProducerPart'
  <2>1. \A p \in Producers : pc[p] \in PrivatePCs => cur[w] # cur[p]
    BY TwoKinds DEF IInv, Shape, Exclusive
  <2> QED
    BY <1>2, <1>3, <1>5, <2>1, TwoKinds DEF Answering, ProducerPart, Less
<1>9. WorkerPart'
  <2>1. \A v \in Workers \ {w} : cur[v] # cur[w]
    BY <1>4, NoEventIsNoEvent DEF IInv, Shape, Exclusive
  <2>2. ASSUME NEW v \in Workers \ {w}
        PROVE  /\ pc'[v] \in BusyPCs => resp'[cur'[v]] > 0
               /\ pc'[v] \notin BeforePCs => handled'[cur'[v]]
               /\ pc'[v] = "w_handle" => ~handled'[cur'[v]]
    BY <1>2, <1>3, <1>5, <2>1 DEF Answering, WorkerPart, Less
  <2>3. pc'[w] = "w_derefresp" /\ resp[cur[w]] > 0
    BY <1>1 DEF Moves, Answering, WorkerPart, BusyPCs
  <2> QED
    BY <1>2, <1>5, <2>2, <2>3 DEF WorkerPart, BusyPCs, BeforePCs
<1>10. UnbornPart'
  BY <1>2, <1>4, <1>5 DEF Answering, UnbornPart
<1>11. ReaderPart'
  BY <1>2, <1>3, <1>5, <1>6, TwoKinds DEF Answering, ReaderPart, Less
<1> QED
  BY <1>7, <1>8, <1>9, <1>10, <1>11 DEF Answering

(* crtx_dereference_event_response: the only thread with a claim on the    *)
(* counter drops it.                                                       *)
LEMMA DereferenceAnswer ==
    ASSUME IInv, Answering, NEW t \in Producers \cup Workers, DereferenceResponse(t)
    PROVE  Answering'
<1>1. \/ t \in Workers /\ pc[t] = "w_derefresp" /\ Moves(t, "w_derefrel")
      \/ t \in Producers /\ pc[t] = "p_dropresp" /\ Moves(t, "p_droprel")
  <2>1. PICK l \in {"w_derefrel", "p_droprel"} :
           Moves(t, l) /\ (l = "w_derefrel" <=> t \in Workers)
    BY GotoMoves DEF DereferenceResponse, IInv
  <2>2. pc[t] = "w_derefresp" <=> t \in Workers
    BY TwoKinds DEF DereferenceResponse, IInv, Shape, Programs, ProducerPCs, WorkerPCs, FreePCs
  <2> QED
    BY <2>1, <2>2 DEF DereferenceResponse
<1>2. UNCHANGED <<err, handled, life, equeue, claimed, cur>>
  BY DEF DereferenceResponse, graphVars
<1>3. \A u \in (Producers \cup Workers) \ {t} : Less(u)
  BY <1>1, OthersLess
<1>4. \A e : e # cur[t] => resp'[e] = resp[e]
  BY DEF DereferenceResponse, IInv, TypeOK
<1>5. cur[t] \in Events /\ ~Queued(cur[t])
  BY <1>1, TwoKinds, NoEventIsNoEvent DEF IInv, TypeOK, Shape, Pointers, Exclusive, PrivatePCs
<1>6. \A u \in (Producers \cup Workers) \ {t} :
         pc[u] \in PrivatePCs \cup BusyPCs => cur[u] # cur[t]
  <2>1. \A p \in Producers \ {t} : pc[p] \in PrivatePCs => cur[t] # cur[p]
    BY TwoKinds DEF IInv, Shape, Exclusive
  <2>2. \A w \in Workers \ {t} : t \in Producers => cur[w] # cur[t]
    BY <1>1, TwoKinds DEF IInv, Shape, Exclusive, PrivatePCs
  <2>3. \A w \in Workers \ {t} : t \in Workers => cur[w] # cur[t]
    BY <1>5, NoEventIsNoEvent DEF IInv, Shape, Exclusive
  <2>4. \A p \in Producers : pc[p] \notin BusyPCs
    BY DEF IInv, Shape, Programs, ProducerPCs, FreePCs, BusyPCs
  <2>5. \A w \in Workers : pc[w] \notin PrivatePCs
    BY DEF IInv, Shape, Programs, WorkerPCs, FreePCs, PrivatePCs
  <2> QED
    BY <2>1, <2>2, <2>3, <2>4
<1>7. \A e : Queued(e)' <=> Queued(e)
  BY <1>2 DEF Queued
<1>8. QueuedPart'
  BY <1>2, <1>4, <1>5, <1>7 DEF Answering, QueuedPart
<1>9. ProducerPart'
  <2>1. t \in Producers => pc[t] \in PrivatePCs /\ pc'[t] = "p_droprel"
    BY <1>1, TwoKinds DEF Moves, PrivatePCs
  <2> QED
    BY <1>2, <1>3, <1>4, <1>6, <2>1
       DEF Answering, ProducerPart, Less, FreshPCs, PrivatePCs
<1>10. WorkerPart'
  <2>1. t \in Workers => pc[t] \notin BeforePCs /\ pc'[t] = "w_derefrel"
    BY <1>1, TwoKinds DEF Moves, BeforePCs
  <2> QED
    BY <1>2, <1>3, <1>4, <1>6, <2>1
       DEF Answering, WorkerPart, Less, BusyPCs
<1>11. UnbornPart'
  BY <1>2 DEF Answering, UnbornPart
<1>12. ReaderPart'
  BY <1>1, <1>2, <1>3, <1>7, TwoKinds DEF Answering, ReaderPart, Less, Moves
<1> QED
  BY <1>8, <1>9, <1>10, <1>11, <1>12 DEF Answering

(* crtx_invalidate_event in crtx_free_event: nobody else refers to it.     *)
LEMMA InvalidateAnswer ==
    ASSUME IInv, Answering, NEW t \in Producers \cup Workers, FreeInvalidate(t)
    PROVE  Answering'
<1>1. Moves(t, "f_check") /\ pc[t] = "f_inval"
  BY GotoMoves DEF FreeInvalidate, IInv
<1>2. UNCHANGED <<handled, life, equeue, claimed, cur>>
  BY DEF FreeInvalidate, graphVars
<1>3. \A u \in (Producers \cup Workers) \ {t} : Less(u)
  BY <1>1, OthersLess
<1>4. \A e : e # cur[t] => resp'[e] = resp[e] /\ err'[e] = err[e]
  BY DEF FreeInvalidate, IInv, TypeOK
<1>5. /\ cur[t] \in Events /\ rel[cur[t]] = 0 /\ life[cur[t]] = "live"
      /\ \A e \in Events : err[e] => err'[e]
  BY <1>1, TwoKinds DEF IInv, Shape, Freeing, FreePCs, FreeInvalidate, TypeOK
<1>6. ~HeldByQueue(cur[t])
  BY <1>5 DEF IInv, Shape, Counted
<1>7. \A p \in Producers : pc[p] \in FreshPCs => cur[p] # cur[t]
  BY <1>1, TwoKinds DEF IInv, Shape, Exclusive, FreshPCs, PrivatePCs
<1>8. \A w \in Workers : pc[w] \in BusyPCs => cur[w] # cur[t]
  BY <1>6 DEF HeldByQueue, HandlingPCs, BusyPCs
<1>9. Less(t)
  BY <1>1 DEF Moves, Less, FreshPCs, PrivatePCs, BusyPCs, BeforePCs
<1>10. \A e : Queued(e)' <=> Queued(e)
  BY <1>2 DEF Queued
<1>11. QueuedPart'
  BY <1>2, <1>4, <1>6, <1>10 DEF Answering, QueuedPart, HeldByQueue
<1>12. ProducerPart'
  BY <1>2, <1>3, <1>4, <1>7, <1>9 DEF Answering, ProducerPart, Less, FreshPCs
<1>13. WorkerPart'
  BY <1>2, <1>3, <1>4, <1>8, <1>9 DEF Answering, WorkerPart, Less
<1>14. UnbornPart'
  BY <1>2, <1>4, <1>5 DEF Answering, UnbornPart
<1>15. ReaderPart'
  <2>1. \A p \in Producers : pc[p] = "p_read" => cur[p] \in Events
    BY DEF IInv, Shape, Pointers
  <2> QED
    BY <1>2, <1>3, <1>5, <1>9, <1>10, <2>1 DEF Answering, ReaderPart, Less
<1> QED
  BY <1>11, <1>12, <1>13, <1>14, <1>15 DEF Answering

---------------------------------------------------------------------------
(* Every step keeps Answering.                                             *)
LEMMA AnsweringStep == IInv /\ Answering /\ [Next]_vars => Answering'
<1> SUFFICES ASSUME IInv, Answering, [Next]_vars PROVE Answering'
  OBVIOUS
<1>1. ASSUME NEW p \in Producers, ProducerStep(p) PROVE Answering'
  <2>1. CASE UnlockGraph(p) /\ ~req[p]
    <3>1. Moves(p, "p_idle")
      BY <2>1, GotoMoves DEF UnlockGraph, IInv
    <3> QED
      BY <2>1, <3>1, ForgetAnswer DEF UnlockGraph, evVars, graphVars
  <2> QED
    BY <1>1, <2>1, ProducerQuiet, ReferenceAnswer, EnqueueAnswer, WaitAnswer DEF ProducerStep
<1>2. ASSUME NEW w \in Workers, WorkerStep(w) PROVE Answering'
  <2>1. CASE UnlinkClaimed(w)
    <3>1. Moves(w, "w_claim")
      BY <2>1, GotoMoves DEF UnlinkClaimed, IInv
    <3> QED
      BY <2>1, <3>1, ForgetAnswer DEF UnlinkClaimed, evVars
  <2> QED
    BY <1>2, <2>1, WorkerQuiet, ClaimAnswer, TraverseAnswer DEF WorkerStep
<1>3. ASSUME NEW t \in Producers \cup Workers, ReleaseStep(t) PROVE Answering'
  BY <1>3, ReleaseQuiet, DereferenceAnswer, InvalidateAnswer DEF ReleaseStep
<1> QED
  BY <1>1, <1>2, <1>3, CreateAnswer, OtherQuiet DEF Next

LEMMA InitAnswering == Init => Answering
<1> SUFFICES ASSUME Init PROVE Answering
  OBVIOUS
<1>1. \A p \in Producers : pc[p] = "p_idle"
  BY InitPCs
<1>2. \A w \in Workers : pc[w] = "w_idle"
  BY InitPCs
<1>3. \A e : ~Queued(e)
  BY DEF Init, Queued
<1> QED
  BY <1>1, <1>2, <1>3
     DEF Init, Answering, QueuedPart, ProducerPart, WorkerPart, UnbornPart, ReaderPart,
         FreshPCs, PrivatePCs, BusyPCs, BeforePCs

(* The inductive invariant of EventGraphProofs and what is added to it     *)
(* here hold throughout.                                                   *)
THEOREM AnsweringInvariance == Spec => [](IInv /\ Answering)
<1>1. Init => IInv /\ Answering
  BY InitIInv, InitAnswering
<1>2. IInv /\ Answering /\ [Next]_vars => (IInv /\ Answering)'
  <2>1. IInv /\ [Next]_vars => TypeOK'
    BY TypeStep DEF IInv, Shape
  <2> QED
    BY <2>1, ShapeStep, AnsweringStep DEF IInv
<1> QED
  BY <1>1, <1>2, PTL DEF Spec

(* A requester that returns from crtx_wait_on_event without an error finds *)
(* the handlers done, or an event that the graph did not accept.           *)
THEOREM ResponsesAreComplete == Spec => []ResponseAfterHandling
<1>1. Answering => ResponseAfterHandling
  BY DEF Answering, ReaderPart, ResponseAfterHandling, Queued
<1> QED
  BY <1>1, AnsweringInvariance, PTL

---------------------------------------------------------------------------
(* The graph implements EventDelivery.                                     *)

Fates == [e \in Events |-> Fate(e)]

(* Nothing happens that a client can see.                                  *)
LEMMA SameFates ==
    ASSUME UNCHANGED <<equeue, claimed, handled, life>>
    PROVE  UNCHANGED <<equeue, Fates>>
BY DEF Fates, Fate

(* One event gets on.                                                      *)
LEMMA OneFate ==
    ASSUME NEW e \in Events, NEW f, Fate(e)' = f,
           \A g \in Events \ {e} : Fate(g)' = Fate(g)
    PROVE  Fates' = [Fates EXCEPT ![e] = f]
BY DEF Fates

(* Where an event is, when its fate is the given one.                      *)
LEMMA FateIs ==
    ASSUME NEW e \in Events, life[e] = "live"
    PROVE  /\ handled[e] => Fate(e) = "handled"
           /\ ~handled[e] /\ e \in claimed => Fate(e) = "taken"
           /\ ~handled[e] /\ e \notin claimed /\ Queued(e) => Fate(e) = "waiting"
           /\ ~handled[e] /\ e \notin claimed /\ ~Queued(e) => Fate(e) = "made"
BY DEF Fate, Queued

(* crtx_create_event makes an event.                                       *)
LEMMA CreateMakes ==
    ASSUME IInv, Answering, NEW p \in Producers, NEW e \in Events, NEW r \in BOOLEAN,
           CreateEvent(p, e, r)
    PROVE  Delivery!Make(e)
<1>1. /\ life[e] = "unborn" /\ life' = [life EXCEPT ![e] = "live"]
      /\ UNCHANGED <<handled, equeue, claimed>> /\ life \in [Events -> {"unborn", "live", "freed"}]
  BY DEF CreateEvent, graphVars, IInv, TypeOK
<1>2. ~handled[e]
  BY <1>1 DEF Answering, UnbornPart
<1>3. e \notin claimed
  BY <1>1, TwoKinds, NoEventIsNoEvent DEF IInv, Shape, Claiming, Created
<1>4. ~(\E i \in DOMAIN equeue : equeue[i] = e)
  BY <1>1 DEF IInv, Shape, Created
<1>5. Fate(e) = "unborn" /\ Fate(e)' = "made"
  BY <1>1, <1>2, <1>3, <1>4 DEF Fate
<1>6. \A g \in Events \ {e} : Fate(g)' = Fate(g)
  BY <1>1 DEF Fate
<1>7. Fates' = [Fates EXCEPT ![e] = "made"]
  BY <1>5, <1>6, OneFate
<1> QED
  BY <1>1, <1>5, <1>7 DEF Delivery!Make, Fates

(* crtx_add_event accepts it.                                              *)
LEMMA EnqueueAccepts ==
    ASSUME IInv, Answering, NEW p \in Producers, Enqueue(p)
    PROVE  cur[p] \in Events /\ Delivery!Accept(cur[p])
<1>0. PICK e \in Events : e = cur[p]
  BY DEF Enqueue, IInv, Shape, Pointers
<1>1. /\ pc[p] = "p_add" /\ ~Queued(e)
      /\ UNCHANGED <<handled, claimed, life>> /\ equeue' = Append(equeue, e)
  BY <1>0 DEF Enqueue, evVars, IInv, Shape, Exclusive, PrivatePCs
<1>2. ~handled[e] /\ life[e] = "live"
  BY <1>0, <1>1 DEF Answering, ProducerPart, PrivatePCs, IInv, Shape, Allocated, HeldByQueue, AddingPCs
<1>3. e \notin claimed
  BY <1>0, <1>1, TwoKinds DEF IInv, Shape, Claiming, Exclusive, PrivatePCs
<1>4. Fate(e) = "made"
  BY <1>1, <1>2, <1>3, FateIs
<1>5. \A g \in Events : Queued(g)' <=> Queued(g) \/ g = e
  <2>1. /\ equeue \in Seq(Events) /\ Len(equeue) \in Nat /\ DOMAIN equeue = 1..Len(equeue)
        /\ DOMAIN equeue' = 1..(Len(equeue) + 1)
        /\ equeue'[Len(equeue) + 1] = e
        /\ \A i \in 1..Len(equeue) : equeue'[i] = equeue[i]
    BY <1>1 DEF IInv, TypeOK
  <2>2. \A i \in DOMAIN equeue' : i \in DOMAIN equeue \/ i = Len(equeue) + 1
    BY <2>1
  <2>3. DOMAIN equeue \subseteq DOMAIN equeue' /\ Len(equeue) + 1 \in DOMAIN equeue'
    BY <2>1
  <2> QED
    BY <2>1, <2>2, <2>3 DEF Queued
<1>6. Fate(e)' = "waiting"
  BY <1>1, <1>2, <1>3, <1>5 DEF Fate, Queued
<1>7. \A g \in Events \ {e} : Fate(g)' = Fate(g)
  BY <1>1, <1>5 DEF Fate, Queued
<1>8. Fates' = [Fates EXCEPT ![e] = "waiting"]
  BY <1>1, <1>6, <1>7, OneFate
<1> QED
  BY <1>0, <1>1, <1>4, <1>8 DEF Delivery!Accept, Fates

(* crtx_claim_next_event_of_graph takes the first.                         *)
LEMMA ClaimTakes ==
    ASSUME IInv, Answering, NEW w \in Workers, ClaimNextEvent(w)
    PROVE  Delivery!Take
<1>1. PICK i \in DOMAIN equeue :
         /\ FirstValid(i)
         /\ claimed' = claimed \cup {equeue[i]}
         /\ equeue' = Without(equeue, i)
  BY DEF ClaimNextEvent
<1>2. i = 1
  BY <1>1, FirstIsFirst
<1>0. PICK e \in Events : e = equeue[1]
  BY <1>1, <1>2 DEF IInv, TypeOK
<1>3. /\ equeue \in Seq(Events) /\ equeue # <<>> /\ e = Head(equeue)
      /\ Queued(e) /\ Len(equeue) \in Nat /\ DOMAIN equeue = 1..Len(equeue)
  BY <1>0, <1>1, <1>2 DEF IInv, TypeOK, Queued
<1>4. UNCHANGED <<handled, life>>
  BY DEF ClaimNextEvent, evVars
<1>5. /\ equeue' \in Seq(Events) /\ Len(equeue') = Len(equeue) - 1
      /\ DOMAIN equeue' = 1..(Len(equeue) - 1)
      /\ \A j \in 1..(Len(equeue) - 1) : equeue'[j] = equeue[j + 1]
  <2>1. /\ equeue' \in Seq(Events) /\ Len(equeue') = Len(equeue) - 1
        /\ DOMAIN equeue' = 1..(Len(equeue) - 1)
        /\ \A j \in 1..(Len(equeue) - 1) :
              equeue'[j] = IF j < i THEN equeue[j] ELSE equeue[j + 1]
    BY <1>1, <1>3, WithoutSeq
  <2>2. \A j \in 1..(Len(equeue) - 1) : ~(j < i)
    BY <1>2, <1>3
  <2> QED
    BY <2>1, <2>2
<1>6. equeue' = Tail(equeue)
  BY <1>3, <1>5
<1>7. ~handled[e] /\ life[e] = "live" /\ e \notin claimed
  BY <1>3 DEF Answering, QueuedPart, IInv, Shape, Allocated, HeldByQueue, Claiming, Exclusive
<1>8. Fate(e) = "waiting"
  BY <1>3, <1>7, FateIs
<1>9. Fate(e)' = "taken"
  BY <1>0, <1>1, <1>2, <1>4, <1>7 DEF Fate
<1>10. \A g \in Events \ {e} : Queued(g)' <=> Queued(g)
  <2>1. ASSUME NEW g \in Events \ {e}, Queued(g) PROVE Queued(g)'
    <3>1. PICK j \in DOMAIN equeue : equeue[j] = g
      BY <2>1 DEF Queued
    <3>2. j - 1 \in DOMAIN equeue' /\ equeue'[j - 1] = g
      BY <1>0, <1>3, <1>5, <3>1
    <3> QED
      BY <3>2 DEF Queued
  <2>2. ASSUME NEW g \in Events \ {e}, Queued(g)' PROVE Queued(g)
    <3>1. PICK j \in DOMAIN equeue' : equeue'[j] = g
      BY <2>2 DEF Queued
    <3>2. j + 1 \in DOMAIN equeue /\ equeue[j + 1] = g
      BY <1>0, <1>3, <1>5, <3>1
    <3> QED
      BY <3>2 DEF Queued
  <2> QED
    BY <2>1, <2>2
<1>11. \A g \in Events \ {e} : Fate(g)' = Fate(g)
  BY <1>0, <1>1, <1>2, <1>4, <1>10 DEF Fate, Queued
<1>12. Fates' = [Fates EXCEPT ![e] = "taken"]
  BY <1>3, <1>9, <1>11, OneFate
<1> QED
  BY <1>3, <1>6, <1>8, <1>12 DEF Delivery!Take, Fates

(* traverse_graph_r handles it.                                            *)
LEMMA TraverseHandles ==
    ASSUME IInv, Answering, NEW w \in Workers, TraverseGraph(w)
    PROVE  cur[w] \in Events /\ Delivery!Handle(cur[w])
<1>0. PICK e \in Events : e = cur[w]
  BY TwoKinds, NoEventIsNoEvent DEF TraverseGraph, IInv, TypeOK, Shape, Pointers
<1>1. /\ pc[w] = "w_handle" /\ UNCHANGED <<equeue, claimed, life>>
      /\ handled' = [handled EXCEPT ![e] = TRUE]
  BY <1>0 DEF TraverseGraph, evVars, graphVars
<1>3. ~handled[e] /\ life[e] = "live" /\ e \in claimed
  BY <1>0, <1>1
     DEF Answering, WorkerPart, IInv, Shape, Allocated, HeldByQueue, HandlingPCs, Claiming
<1>4. Fate(e) = "taken"
  BY <1>3, FateIs
<1>5. Fate(e)' = "handled"
  BY <1>1, <1>3 DEF Fate, IInv, TypeOK
<1>6. \A g \in Events \ {e} : Fate(g)' = Fate(g)
  BY <1>1 DEF Fate, IInv, TypeOK
<1>7. Fates' = [Fates EXCEPT ![e] = "handled"]
  BY <1>5, <1>6, OneFate
<1> QED
  BY <1>0, <1>1, <1>4, <1>7 DEF Delivery!Handle, Fates

(* crtx_free_event releases an event that was handled or not accepted.     *)
LEMMA FreeReleases ==
    ASSUME IInv, Answering, NEW t \in Producers \cup Workers, FreeMemory(t)
    PROVE  cur[t] \in Events /\ Delivery!Release(cur[t])
<1>0. PICK e \in Events : e = cur[t]
  BY TwoKinds DEF FreeMemory, IInv, Shape, Freeing, FreePCs
<1>1. pc[t] = "f_free" /\ UNCHANGED <<equeue, claimed, handled>>
      /\ life' = [life EXCEPT ![e] = "freed"]
  BY <1>0 DEF FreeMemory, graphVars
<1>2. rel[e] = 0 /\ life[e] = "live"
  BY <1>0, <1>1, TwoKinds DEF IInv, Shape, Freeing, FreePCs
<1>3. ~HeldByQueue(e)
  BY <1>2 DEF IInv, Shape, Counted
<1>4. e \in claimed => handled[e]
  <2>1. SUFFICES ASSUME NEW w \in Workers, cur[w] = e PROVE handled[cur[w]]
    BY <1>2 DEF IInv, Shape, Claiming
  <2>2. pc[w] \notin {"w_idle", "w_claim"}
    BY <1>2, <2>1, NoEventIsNoEvent DEF IInv, Shape, Pointers
  <2>3. pc[w] \notin HandlingPCs
    BY <1>3, <2>1 DEF HeldByQueue
  <2> QED
    BY <2>2, <2>3 DEF Answering, WorkerPart, BeforePCs, HandlingPCs
<1>5. Fate(e) \in {"made", "handled"}
  BY <1>2, <1>3, <1>4, FateIs DEF HeldByQueue
<1>6. Fate(e)' = "released"
  BY <1>1, <1>2 DEF Fate, IInv, TypeOK
<1>7. \A g \in Events \ {e} : Fate(g)' = Fate(g)
  BY <1>1 DEF Fate, IInv, TypeOK
<1>8. Fates' = [Fates EXCEPT ![e] = "released"]
  BY <1>6, <1>7, OneFate
<1> QED
  BY <1>0, <1>1, <1>5, <1>8 DEF Delivery!Release, Fates

(* The worker takes an event off the claimed list that it has handled.     *)
LEMMA UnlinkUnseen ==
    ASSUME IInv, Answering, NEW w \in Workers, UnlinkClaimed(w)
    PROVE  UNCHANGED <<equeue, Fates>>
<1>1. pc[w] = "w_unlink" /\ UNCHANGED <<equeue, handled, life>> /\ claimed' = claimed \ {cur[w]}
  BY DEF UnlinkClaimed, evVars
<1>2. handled[cur[w]]
  BY <1>1 DEF Answering, WorkerPart, BeforePCs
<1>3. \A g \in Events : Fate(g)' = Fate(g)
  BY <1>1, <1>2 DEF Fate
<1> QED
  BY <1>1, <1>3 DEF Fates

(* However its steps are split between threads, a graph takes its events   *)
(* in the order they were accepted, hands each to the handlers at most     *)
(* once and releases none that waits or is being handled.                  *)
THEOREM GraphDelivers == Spec => DeliversEvents
<1>1. Init => Delivery!Init
  <2> SUFFICES ASSUME Init PROVE Delivery!Init
    OBVIOUS
  <2>1. \A e \in Events : Fate(e) = "unborn"
    BY DEF Init, Fate
  <2>2. equeue = <<>>
    BY DEF Init
  <2> QED
    BY <2>1, <2>2 DEF Delivery!Init
<1>2. IInv /\ Answering /\ [Next]_vars => [Delivery!Next]_(Delivery!deliveryVars)
  <2> SUFFICES ASSUME IInv, Answering, [Next]_vars
               PROVE  Delivery!Next \/ UNCHANGED <<equeue, Fates>>
    BY DEF Delivery!deliveryVars, Fates
  <2>1. ASSUME NEW p \in Producers, ProducerStep(p)
        PROVE  Delivery!Next \/ UNCHANGED <<equeue, Fates>>
    <3>1. CASE Enqueue(p)
      BY <3>1, EnqueueAccepts DEF Delivery!Next
    <3>2. CASE ~Enqueue(p)
      <4>1. UNCHANGED <<equeue, claimed, handled, life>>
        BY <2>1, <3>2 DEF ProducerStep, KeepReference, AddReferences, Drop, TriggerLoop,
           TriggerThread, UnlockGraph, WaitOnEvent, ReadResponse, evVars, graphVars
      <4> QED
        BY <4>1, SameFates
    <3> QED
      BY <3>1, <3>2
  <2>2. ASSUME NEW w \in Workers, WorkerStep(w)
        PROVE  Delivery!Next \/ UNCHANGED <<equeue, Fates>>
    <3>1. CASE ReadRequest(w) \/ LeaveGraph(w)
      <4>1. UNCHANGED <<equeue, claimed, handled, life>>
        BY <3>1 DEF ReadRequest, LeaveGraph, evVars, graphVars
      <4> QED
        BY <4>1, SameFates
    <3>2. CASE ClaimNextEvent(w) \/ TraverseGraph(w)
      BY <3>2, ClaimTakes, TraverseHandles DEF Delivery!Next
    <3> QED
      BY <2>2, <3>1, <3>2, UnlinkUnseen DEF WorkerStep
  <2>3. ASSUME NEW t \in Producers \cup Workers, ReleaseStep(t)
        PROVE  Delivery!Next \/ UNCHANGED <<equeue, Fates>>
    <3>1. CASE FreeMemory(t)
      BY <3>1, FreeReleases DEF Delivery!Next
    <3>2. CASE ~FreeMemory(t)
      <4>1. UNCHANGED <<equeue, claimed, handled, life>>
        BY <2>3, <3>2 DEF ReleaseStep, DereferenceResponse, DereferenceRelease, FreeClaim,
           FreeInvalidate, FreeCheck, evVars, graphVars
      <4> QED
        BY <4>1, SameFates
    <3> QED
      BY <3>1, <3>2
  <2>4. ASSUME NEW p \in Producers, NEW e \in Events, NEW r \in BOOLEAN, CreateEvent(p, e, r)
        PROVE  Delivery!Next
    BY <2>4, CreateMakes DEF Delivery!Next
  <2>5. CASE AddTask \/ UNCHANGED vars \/ \E u \in Waiters : StartWaiting(u) \/ CheckEmpty(u)
    <3>1. UNCHANGED <<equeue, claimed, handled, life>>
      BY <2>5 DEF AddTask, StartWaiting, CheckEmpty, vars, evVars, graphVars
    <3> QED
      BY <3>1, SameFates
  <2> QED
    BY <2>1, <2>2, <2>3, <2>4, <2>5 DEF Next
<1> QED
  BY <1>1, <1>2, AnsweringInvariance, PTL DEF Spec, DeliversEvents, Delivery!Spec

=============================================================================
