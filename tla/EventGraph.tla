---------------------------- MODULE EventGraph ----------------------------
(***************************************************************************)
(* Events and event graphs of libcortex (src/core.c).                      *)
(*                                                                         *)
(* An event carries two reference counters: refs_before_response (waiters  *)
(* in crtx_wait_on_event are released when it reaches 0) and               *)
(* refs_before_release (the event is freed when it reaches 0).  A graph    *)
(* has a queue of pending events (equeue) and a list of claimed ones.      *)
(*                                                                         *)
(*   producers  crtx_create_event, crtx_add_event; a requester also keeps  *)
(*              a reference of its own, waits for the response, reads it   *)
(*              and drops the reference (nf_queue.c, sdbus_remote_ctrl.c)  *)
(*   workers    crtx_process_one_event, run by the event loop thread       *)
(*              (evloop_ctrl_pipe_handler) or by threads of the pool       *)
(*              (process_graph_tmain)                                      *)
(*   waiters    crtx_wait_on_graph_empty                                   *)
(*   flusher    crtx_flush_events, only in SpecFlush                       *)
(*                                                                         *)
(* One action is one critical section of event->mutex or of                *)
(* graph->queue_mutex, or one access outside of any.  graph->mutex and,    *)
(* for the flusher, graph->queue_mutex are held over several steps.        *)
(***************************************************************************)
EXTENDS Naturals, Sequences, FiniteSets

CONSTANTS
    Events,      \* events that can be created
    Producers,   \* threads that create and add events
    Workers,     \* threads that can process the graph
    Waiters,     \* threads in crtx_wait_on_graph_empty
    LoopThread,  \* the worker that runs the event loop
    Flusher,     \* the thread that calls crtx_flush_events (crtx_finish)
    NoEvent,     \* the null event pointer
    NoThread,    \* owner of a mutex that is not locked
    PipeCap      \* capacity of the control pipe, in requests

Threads == Producers \cup Workers \cup Waiters \cup {Flusher}

ASSUME DistinctThreads ==
    /\ Producers \cap Workers = {}
    /\ Producers \cap Waiters = {}
    /\ Workers \cap Waiters = {}
    /\ Flusher \notin Producers \cup Workers \cup Waiters
    /\ NoThread \notin Threads
    /\ LoopThread \in Workers

ASSUME NoEventIsNoEvent == NoEvent \notin Events

ASSUME PipeCapAssumption == PipeCap \in Nat \ {0}

VARIABLES
    life,     \* "unborn", "live" or "freed": the memory of an event
    rel,      \* event->refs_before_release
    resp,     \* event->refs_before_response
    rip,      \* event->release_in_progress
    err,      \* event->error
    handled,  \* the tasks of the graph ran for this event, to the end
    equeue,   \* graph->equeue
    claimed,  \* graph->claimed
    tasks,    \* graph->tasks # 0
    mode,     \* crtx_get_mode(graph->mode)
    pipe,     \* requests for this graph in the control pipe
    gmutex,   \* owner of graph->mutex
    qmutex,   \* owner of graph->queue_mutex when held over several steps
    pc,       \* next step of a thread
    cur,      \* the event a thread works on
    req       \* the producer keeps a reference and waits for the response

vars == <<life, rel, resp, rip, err, handled, equeue, claimed, tasks, mode,
          pipe, gmutex, qmutex, pc, cur, req>>

evVars    == <<life, rel, resp, rip, err>>
graphVars == <<equeue, claimed, tasks, mode, pipe>>

FreePCs == {"f_cas", "f_inval", "f_check", "f_wait", "f_free"}

ProducerPCs ==
    {"p_idle", "p_keep", "p_refs", "p_add", "p_trigger", "p_dropresp",
     "p_droprel", "p_unlock", "p_wait", "p_waiting", "p_read", "p_deref"}

WorkerPCs ==
    {"w_idle", "w_claim", "w_handle", "w_derefresp", "w_derefrel", "w_unlink"}

WaiterPCs == {"e_idle", "e_check", "e_wait"}

FlusherPCs == {"x_idle", "x_next", "x_inval", "x_deref", "x_unlink", "x_done"}

PCs == FreePCs \cup ProducerPCs \cup WorkerPCs \cup WaiterPCs \cup FlusherPCs

TypeOK ==
    /\ life \in [Events -> {"unborn", "live", "freed"}]
    /\ rel \in [Events -> Nat]
    /\ resp \in [Events -> Nat]
    /\ rip \in [Events -> BOOLEAN]
    /\ err \in [Events -> BOOLEAN]
    /\ handled \in [Events -> BOOLEAN]
    /\ equeue \in Seq(Events)
    /\ claimed \in SUBSET Events
    /\ tasks \in BOOLEAN
    /\ mode \in {"eloop", "thread"}
    /\ pipe \in 0..PipeCap
    /\ gmutex \in Producers \cup {NoThread}
    /\ qmutex \in {Flusher, NoThread}
    /\ pc \in [Threads -> PCs]
    /\ cur \in [Threads -> Events \cup {NoEvent}]
    /\ req \in [Producers -> BOOLEAN]

(* crtx_create_graph and calloc: every field is zero; threads not started. *)
Init ==
    /\ life = [e \in Events |-> "unborn"]
    /\ rel = [e \in Events |-> 0]
    /\ resp = [e \in Events |-> 0]
    /\ rip = [e \in Events |-> FALSE]
    /\ err = [e \in Events |-> FALSE]
    /\ handled = [e \in Events |-> FALSE]
    /\ equeue = <<>>
    /\ claimed = {}
    /\ tasks = FALSE
    /\ mode \in {"eloop", "thread"}
    /\ pipe = 0
    /\ gmutex = NoThread
    /\ qmutex = NoThread
    /\ pc = [t \in Threads |->
                CASE t \in Producers -> "p_idle"
                  [] t \in Workers   -> "w_idle"
                  [] t \in Waiters   -> "e_idle"
                  [] t = Flusher     -> "x_idle"]
    /\ cur = [t \in Threads |-> NoEvent]
    /\ req = [p \in Producers |-> FALSE]

---------------------------------------------------------------------------
(* Program counters and condition variables.                               *)

Goto(t, l) == pc' = [pc EXCEPT ![t] = l]

(* t continues at l; every thread that waits for the response of e wakes   *)
(* up to test the counter again (pthread_cond_broadcast(response_cond)).   *)
GotoWakeResponse(t, l, e) ==
    pc' = [u \in Threads |->
              IF u = t THEN l
              ELSE IF pc[u] = "p_waiting" /\ cur[u] = e THEN "p_wait"
              ELSE pc[u]]

(* pthread_cond_broadcast(release_cond).                                   *)
GotoWakeRelease(t, l, e) ==
    pc' = [u \in Threads |->
              IF u = t THEN l
              ELSE IF pc[u] = "f_wait" /\ cur[u] = e THEN "f_check"
              ELSE pc[u]]

(* pthread_cond_signal(queue_cond): one waiter, if there is any.           *)
GotoSignalQueue(t, l) ==
    \/ \E u \in Waiters :
          /\ pc[u] = "e_wait"
          /\ pc' = [pc EXCEPT ![t] = l, ![u] = "e_check"]
    \/ /\ \A u \in Waiters : pc[u] # "e_wait"
       /\ Goto(t, l)

---------------------------------------------------------------------------
(* Configuration of the graph.                                             *)

(* crtx_add_task on a graph without tasks.                                 *)
AddTask ==
    /\ ~tasks
    /\ tasks' = TRUE
    /\ UNCHANGED <<evVars, handled, equeue, claimed, mode, pipe, gmutex,
                   qmutex, pc, cur, req>>

---------------------------------------------------------------------------
(* Producers.                                                              *)

(* crtx_create_event.  A requester goes on to reference the event.         *)
CreateEvent(p, e, r) ==
    /\ pc[p] = "p_idle"
    /\ life[e] = "unborn"
    /\ life' = [life EXCEPT ![e] = "live"]
    /\ cur' = [cur EXCEPT ![p] = e]
    /\ req' = [req EXCEPT ![p] = r]
    /\ Goto(p, IF r THEN "p_keep" ELSE "p_refs")
    /\ UNCHANGED <<rel, resp, rip, err, handled, graphVars, gmutex, qmutex>>

(* The requester's own crtx_reference_event_release.                       *)
KeepReference(p) ==
    /\ pc[p] = "p_keep"
    /\ rel' = [rel EXCEPT ![cur[p]] = @ + 1]
    /\ Goto(p, "p_refs")
    /\ UNCHANGED <<life, resp, rip, err, handled, graphVars, gmutex, qmutex,
                   cur, req>>

(* Faulty variants: the queue takes no reference for the release, or none  *)
(* for the response.                                                       *)
AddReferencesNoRelease(p) ==
    /\ pc[p] = "p_refs"
    /\ resp' = [resp EXCEPT ![cur[p]] = @ + 1]
    /\ Goto(p, "p_add")
    /\ UNCHANGED <<life, rel, rip, err, handled, graphVars, gmutex, qmutex,
                   cur, req>>

AddReferencesNoResponse(p) ==
    /\ pc[p] = "p_refs"
    /\ rel' = [rel EXCEPT ![cur[p]] = @ + 1]
    /\ Goto(p, "p_add")
    /\ UNCHANGED <<life, resp, rip, err, handled, graphVars, gmutex, qmutex,
                   cur, req>>

(* crtx_add_event: the two references of the queue.  No other thread knows *)
(* the event yet, so both are taken in one step.                           *)
AddReferences(p) ==
    /\ pc[p] = "p_refs"
    /\ rel' = [rel EXCEPT ![cur[p]] = @ + 1]
    /\ resp' = IF err[cur[p]] THEN resp ELSE [resp EXCEPT ![cur[p]] = @ + 1]
    /\ Goto(p, "p_add")
    /\ UNCHANGED <<life, rip, err, handled, graphVars, gmutex, qmutex, cur,
                   req>>

(* crtx_add_event: graph->mutex taken, the graph has tasks, the event is   *)
(* appended and queue_cond signalled under queue_mutex.                    *)
Enqueue(p) ==
    /\ pc[p] = "p_add"
    /\ gmutex = NoThread
    /\ tasks
    /\ qmutex = NoThread
    /\ gmutex' = p
    /\ equeue' = Append(equeue, cur[p])
    /\ GotoSignalQueue(p, "p_trigger")
    /\ UNCHANGED <<evVars, handled, claimed, tasks, mode, pipe, qmutex, cur,
                   req>>

(* Faulty variant: the references of a dropped event are not returned.     *)
DropWithoutDereference(p) ==
    /\ pc[p] = "p_add"
    /\ gmutex = NoThread
    /\ ~tasks
    /\ gmutex' = p
    /\ Goto(p, "p_unlock")
    /\ UNCHANGED <<evVars, handled, graphVars, qmutex, cur, req>>

(* crtx_add_event: graph->mutex taken, the graph has no task.              *)
Drop(p) ==
    /\ pc[p] = "p_add"
    /\ gmutex = NoThread
    /\ ~tasks
    /\ gmutex' = p
    /\ Goto(p, "p_dropresp")
    /\ UNCHANGED <<evVars, handled, graphVars, qmutex, cur, req>>

(* crtx_add_event in loop mode: crtx_evloop_queue_graph writes a request   *)
(* to the control pipe; the write blocks while the pipe is full.           *)
TriggerLoop(p) ==
    /\ pc[p] = "p_trigger"
    /\ mode = "eloop"
    /\ pipe < PipeCap
    /\ pipe' = pipe + 1
    /\ Goto(p, "p_unlock")
    /\ UNCHANGED <<evVars, handled, equeue, claimed, tasks, mode, gmutex,
                   qmutex, cur, req>>

(* crtx_add_event in thread mode: one more thread of the pool runs         *)
(* process_graph_tmain.  Workers bounds the pool: when all of them already *)
(* process the graph no further one is started.                            *)
TriggerThread(p) ==
    /\ pc[p] = "p_trigger"
    /\ mode = "thread"
    /\ \/ \E w \in Workers :
             /\ pc[w] = "w_idle"
             /\ pc' = [pc EXCEPT ![p] = "p_unlock", ![w] = "w_claim"]
       \/ /\ \A w \in Workers : pc[w] # "w_idle"
          /\ Goto(p, "p_unlock")
    /\ UNCHANGED <<evVars, handled, graphVars, gmutex, qmutex, cur, req>>

(* End of crtx_add_event: graph->mutex is released.                        *)
UnlockGraph(p) ==
    /\ pc[p] = "p_unlock"
    /\ gmutex' = NoThread
    /\ IF req[p]
       THEN /\ Goto(p, "p_wait")
            /\ UNCHANGED cur
       ELSE /\ Goto(p, "p_idle")
            /\ cur' = [cur EXCEPT ![p] = NoEvent]
    /\ UNCHANGED <<evVars, handled, graphVars, qmutex, req>>

(* crtx_wait_on_event: test the counter under event->mutex, sleep or go on.*)
WaitOnEvent(p) ==
    /\ pc[p] = "p_wait"
    /\ Goto(p, IF resp[cur[p]] > 0 THEN "p_waiting" ELSE "p_read")
    /\ UNCHANGED <<evVars, handled, graphVars, gmutex, qmutex, cur, req>>

(* crtx_wait_on_event returns event->error, read after the unlock, and the *)
(* requester evaluates event->response.                                    *)
ReadResponse(p) ==
    /\ pc[p] = "p_read"
    /\ Goto(p, "p_deref")
    /\ UNCHANGED <<evVars, handled, graphVars, gmutex, qmutex, cur, req>>

---------------------------------------------------------------------------
(* Dropping references and releasing an event, for any thread.             *)

(* Where the caller of crtx_dereference_event_release continues.           *)
AfterRelease(t) ==
    IF t \in Workers THEN "w_unlink"
    ELSE IF t = Flusher THEN "x_unlink"
    ELSE IF pc[t] = "p_droprel" THEN "p_unlock"
    ELSE IF pc[t] = "p_deref" THEN "p_idle"
    ELSE IF req[t] THEN "p_idle" ELSE "p_unlock"

(* crtx_dereference_event_response, by a worker or in the drop path of     *)
(* crtx_add_event.                                                         *)
DereferenceResponse(t) ==
    /\ pc[t] \in {"w_derefresp", "p_dropresp"}
    /\ LET e == cur[t]
           n == IF resp[e] > 0 THEN resp[e] - 1 ELSE 0
           next == IF t \in Workers THEN "w_derefrel" ELSE "p_droprel"
       IN  /\ resp' = [resp EXCEPT ![e] = n]
           /\ IF n = 0 THEN GotoWakeResponse(t, next, e) ELSE Goto(t, next)
    /\ UNCHANGED <<life, rel, rip, err, handled, graphVars, gmutex, qmutex,
                   cur, req>>

(* crtx_dereference_event_release: the counter; the last one goes on to    *)
(* crtx_free_event after event->mutex was unlocked.                        *)
DereferenceRelease(t) ==
    /\ pc[t] \in {"w_derefrel", "p_droprel", "p_deref", "x_deref"}
    /\ LET e == cur[t]
           n == IF rel[e] > 0 THEN rel[e] - 1 ELSE 0
       IN  /\ rel' = [rel EXCEPT ![e] = n]
           /\ Goto(t, IF n = 0 THEN "f_cas" ELSE AfterRelease(t))
    /\ UNCHANGED <<life, resp, rip, err, handled, graphVars, gmutex, qmutex,
                   cur, req>>

(* crtx_free_event: compare-and-swap of release_in_progress; a second      *)
(* caller only wakes up the first one.                                     *)
FreeClaim(t) ==
    /\ pc[t] = "f_cas"
    /\ IF rip[cur[t]]
       THEN /\ GotoWakeRelease(t, AfterRelease(t), cur[t])
            /\ UNCHANGED rip
       ELSE /\ rip' = [rip EXCEPT ![cur[t]] = TRUE]
            /\ Goto(t, "f_inval")
    /\ UNCHANGED <<life, rel, resp, err, handled, graphVars, gmutex, qmutex,
                   cur, req>>

(* crtx_invalidate_event in crtx_free_event.                               *)
FreeInvalidate(t) ==
    /\ pc[t] = "f_inval"
    /\ err' = [err EXCEPT ![cur[t]] = TRUE]
    /\ resp' = [resp EXCEPT ![cur[t]] = 0]
    /\ GotoWakeResponse(t, "f_check", cur[t])
    /\ UNCHANGED <<life, rel, rip, handled, graphVars, gmutex, qmutex, cur,
                   req>>

(* crtx_free_event: wait until refs_before_release is 0.                   *)
FreeCheck(t) ==
    /\ pc[t] = "f_check"
    /\ Goto(t, IF rel[cur[t]] > 0 THEN "f_wait" ELSE "f_free")
    /\ UNCHANGED <<evVars, handled, graphVars, gmutex, qmutex, cur, req>>

(* crtx_free_event: cb_before_release, the data and the event are freed.   *)
FreeMemory(t) ==
    /\ pc[t] = "f_free"
    /\ life' = [life EXCEPT ![cur[t]] = "freed"]
    /\ Goto(t, AfterRelease(t))
    /\ UNCHANGED <<rel, resp, rip, err, handled, graphVars, gmutex, qmutex,
                   cur, req>>

---------------------------------------------------------------------------
(* Workers: crtx_process_one_event in a loop.                              *)

(* evloop_ctrl_pipe_handler: the loop thread reads one request.            *)
ReadRequest(w) ==
    /\ w = LoopThread
    /\ mode = "eloop"
    /\ pc[w] = "w_idle"
    /\ pipe > 0
    /\ pipe' = pipe - 1
    /\ Goto(w, "w_claim")
    /\ UNCHANGED <<evVars, handled, equeue, claimed, tasks, mode, gmutex,
                   qmutex, cur, req>>

(* Faulty variant: any event without an error, not the first.              *)
AnyValid(i) == ~err[equeue[i]]

(* Position i of the queue has its first event without an error.           *)
FirstValid(i) ==
    /\ ~err[equeue[i]]
    /\ \A j \in DOMAIN equeue : j < i => err[equeue[j]]

(* q without its element at position i.                                    *)
Without(q, i) ==
    [j \in 1..(Len(q) - 1) |-> IF j < i THEN q[j] ELSE q[j + 1]]

(* Faulty variant: the claimed event stays in the queue.                   *)
ClaimWithoutUnlink(w) ==
    /\ pc[w] = "w_claim"
    /\ qmutex = NoThread
    /\ \E i \in DOMAIN equeue :
          /\ FirstValid(i)
          /\ cur' = [cur EXCEPT ![w] = equeue[i]]
          /\ claimed' = claimed \cup {equeue[i]}
    /\ Goto(w, "w_handle")
    /\ UNCHANGED <<evVars, handled, equeue, tasks, mode, pipe, gmutex, qmutex,
                   req>>

(* Faulty variant: it is not tested whether the search found an event.     *)
ClaimUnchecked(w) ==
    /\ pc[w] = "w_claim"
    /\ qmutex = NoThread
    /\ \/ \E i \in DOMAIN equeue :
             /\ FirstValid(i)
             /\ cur' = [cur EXCEPT ![w] = equeue[i]]
             /\ claimed' = claimed \cup {equeue[i]}
             /\ equeue' = Without(equeue, i)
       \/ /\ \A i \in DOMAIN equeue : err[equeue[i]]
          /\ cur' = [cur EXCEPT ![w] = NoEvent]
          /\ claimed' = claimed \cup {NoEvent}
          /\ UNCHANGED equeue
    /\ Goto(w, "w_handle")
    /\ UNCHANGED <<evVars, handled, tasks, mode, pipe, gmutex, qmutex, req>>

(* crtx_claim_next_event_of_graph.                                         *)
ClaimNextEvent(w) ==
    /\ pc[w] = "w_claim"
    /\ qmutex = NoThread
    /\ \E i \in DOMAIN equeue :
          /\ FirstValid(i)
          /\ cur' = [cur EXCEPT ![w] = equeue[i]]
          /\ claimed' = claimed \cup {equeue[i]}
          /\ equeue' = Without(equeue, i)
    /\ Goto(w, "w_handle")
    /\ UNCHANGED <<evVars, handled, tasks, mode, pipe, gmutex, qmutex, req>>

(* Nothing to claim, -EAGAIN: the loop thread leaves the graph.  A thread  *)
(* of the pool polls again, which changes nothing.                         *)
LeaveGraph(w) ==
    /\ pc[w] = "w_claim"
    /\ mode = "eloop"
    /\ qmutex = NoThread
    /\ \A i \in DOMAIN equeue : err[equeue[i]]
    /\ Goto(w, "w_idle")
    /\ UNCHANGED <<evVars, handled, graphVars, gmutex, qmutex, cur, req>>

(* traverse_graph_r: the handlers read the event and may set a response.   *)
TraverseGraph(w) ==
    /\ pc[w] = "w_handle"
    /\ handled' = [handled EXCEPT ![cur[w]] = TRUE]
    /\ Goto(w, "w_derefresp")
    /\ UNCHANGED <<evVars, graphVars, gmutex, qmutex, cur, req>>

(* Faulty variant: the last event is taken off without a signal.           *)
UnlinkWithoutSignal(w) ==
    /\ pc[w] = "w_unlink"
    /\ qmutex = NoThread
    /\ claimed' = claimed \ {cur[w]}
    /\ cur' = [cur EXCEPT ![w] = NoEvent]
    /\ Goto(w, "w_claim")
    /\ UNCHANGED <<evVars, handled, equeue, tasks, mode, pipe, gmutex, qmutex,
                   req>>

(* End of crtx_process_one_event: the entry leaves the claimed list, and   *)
(* an empty graph is signalled.                                            *)
UnlinkClaimed(w) ==
    /\ pc[w] = "w_unlink"
    /\ qmutex = NoThread
    /\ claimed' = claimed \ {cur[w]}
    /\ cur' = [cur EXCEPT ![w] = NoEvent]
    /\ IF equeue = <<>> /\ claimed' = {}
       THEN GotoSignalQueue(w, "w_claim")
       ELSE Goto(w, "w_claim")
    /\ UNCHANGED <<evVars, handled, equeue, tasks, mode, pipe, gmutex, qmutex,
                   req>>

---------------------------------------------------------------------------
(* Waiters: crtx_wait_on_graph_empty.                                      *)

StartWaiting(u) ==
    /\ pc[u] = "e_idle"
    /\ Goto(u, "e_check")
    /\ UNCHANGED <<evVars, handled, graphVars, gmutex, qmutex, cur, req>>

(* Test both lists under queue_mutex: sleep or return.                     *)
CheckEmpty(u) ==
    /\ pc[u] = "e_check"
    /\ qmutex = NoThread
    /\ Goto(u, IF equeue # <<>> \/ claimed # {} THEN "e_wait" ELSE "e_idle")
    /\ UNCHANGED <<evVars, handled, graphVars, gmutex, qmutex, cur, req>>

---------------------------------------------------------------------------
(* The flusher: crtx_flush_events, called by crtx_finish while workers may *)
(* still run, and by crtx_shutdown_after_fork.                             *)

FlushStart ==
    /\ pc[Flusher] = "x_idle"
    /\ qmutex = NoThread
    /\ qmutex' = Flusher
    /\ Goto(Flusher, "x_next")
    /\ UNCHANGED <<evVars, handled, graphVars, gmutex, cur, req>>

(* The next entry of equeue, then of claimed; or unlock.                   *)
FlushNext ==
    /\ pc[Flusher] = "x_next"
    /\ \/ /\ equeue # <<>>
          /\ cur' = [cur EXCEPT ![Flusher] = Head(equeue)]
          /\ Goto(Flusher, "x_inval")
          /\ UNCHANGED qmutex
       \/ /\ equeue = <<>>
          /\ \E e \in claimed : cur' = [cur EXCEPT ![Flusher] = e]
          /\ Goto(Flusher, "x_inval")
          /\ UNCHANGED qmutex
       \/ /\ equeue = <<>> /\ claimed = {}
          /\ qmutex' = NoThread
          /\ Goto(Flusher, "x_done")
          /\ UNCHANGED cur
    /\ UNCHANGED <<evVars, handled, graphVars, gmutex, req>>

(* crtx_invalidate_event; the crtx_dereference_event_response that follows *)
(* finds the counter at 0, and no reference is taken on an invalid event.  *)
FlushInvalidate ==
    /\ pc[Flusher] = "x_inval"
    /\ err' = [err EXCEPT ![cur[Flusher]] = TRUE]
    /\ resp' = [resp EXCEPT ![cur[Flusher]] = 0]
    /\ GotoWakeResponse(Flusher, "x_deref", cur[Flusher])
    /\ UNCHANGED <<life, rel, rip, handled, graphVars, gmutex, qmutex, cur,
                   req>>

FlushUnlink ==
    /\ pc[Flusher] = "x_unlink"
    /\ equeue' = SelectSeq(equeue, LAMBDA e : e # cur[Flusher])
    /\ claimed' = claimed \ {cur[Flusher]}
    /\ Goto(Flusher, "x_next")
    /\ UNCHANGED <<evVars, handled, tasks, mode, pipe, gmutex, qmutex, cur,
                   req>>

---------------------------------------------------------------------------
ProducerStep(p) ==
    \/ KeepReference(p) \/ AddReferences(p) \/ Enqueue(p) \/ Drop(p)
    \/ TriggerLoop(p) \/ TriggerThread(p) \/ UnlockGraph(p)
    \/ WaitOnEvent(p) \/ ReadResponse(p)

WorkerStep(w) ==
    \/ ReadRequest(w) \/ ClaimNextEvent(w) \/ LeaveGraph(w)
    \/ TraverseGraph(w) \/ UnlinkClaimed(w)

ReleaseStep(t) ==
    \/ DereferenceResponse(t) \/ DereferenceRelease(t)
    \/ FreeClaim(t) \/ FreeInvalidate(t) \/ FreeCheck(t) \/ FreeMemory(t)

(* Normal operation.                                                       *)
Next ==
    \/ AddTask
    \/ \E p \in Producers, e \in Events, r \in BOOLEAN : CreateEvent(p, e, r)
    \/ \E p \in Producers : ProducerStep(p)
    \/ \E w \in Workers : WorkerStep(w)
    \/ \E t \in Producers \cup Workers : ReleaseStep(t)
    \/ \E u \in Waiters : StartWaiting(u) \/ CheckEmpty(u)

(* Every thread that runs is scheduled again; creating events, adding a    *)
(* task and starting to wait are up to the application.                    *)
Fairness ==
    /\ \A p \in Producers : WF_vars(ProducerStep(p) \/ ReleaseStep(p))
    /\ \A w \in Workers : WF_vars(WorkerStep(w) \/ ReleaseStep(w))
    /\ \A u \in Waiters : WF_vars(CheckEmpty(u))

Spec == Init /\ [][Next]_vars

FairSpec == Spec /\ Fairness

(* crtx_finish flushes the graph while the other threads go on.            *)
NextFlush ==
    \/ Next
    \/ FlushStart \/ FlushNext \/ FlushInvalidate \/ FlushUnlink
    \/ ReleaseStep(Flusher)

SpecFlush == Init /\ [][NextFlush]_vars

---------------------------------------------------------------------------
(* Properties.                                                             *)

(* The program counters at which the next step of a thread dereferences    *)
(* its event pointer.                                                      *)
TouchPCs ==
    FreePCs \cup
    {"p_keep", "p_refs", "p_add", "p_dropresp", "p_droprel", "p_wait",
     "p_waiting", "p_read", "p_deref", "w_handle", "w_derefresp",
     "w_derefrel", "x_inval", "x_deref"}

(* No thread ever touches an event that is not allocated: not the handlers *)
(* in traverse_graph_r, not crtx_wait_on_event after its unlock, not the   *)
(* compare-and-swap in crtx_free_event.                                    *)
NoUseAfterFree ==
    \A t \in Threads : pc[t] \in TouchPCs => life[cur[t]] = "live"

(* core.c on crtx_free_event: "wait until all references are gone": when   *)
(* the memory of an event is released, no other thread works on it.        *)
FreedWithoutReferences ==
    \A t, u \in Threads :
        t # u /\ pc[t] = "f_free" /\ cur[u] = cur[t] => pc[u] \notin TouchPCs

(* A queued event was not released, and every claimed one has exactly one  *)
(* worker that will take it off the list: claimed is what the workers      *)
(* hold between crtx_claim_next_event_of_graph and the final unlink.       *)
QueueOwnership ==
    /\ \A i \in DOMAIN equeue : life[equeue[i]] = "live"
    /\ claimed = {cur[w] : w \in {x \in Workers :
                     pc[x] \notin {"w_idle", "w_claim"}}}
    /\ \A v, w \in Workers :
          (v # w /\ cur[v] # NoEvent) => cur[v] # cur[w]

(* A requester that returns from crtx_wait_on_event without an error does  *)
(* so after the handlers have finished, unless its event was dropped       *)
(* because the graph had no task when it was added.                        *)
ResponseAfterHandling ==
    \A p \in Producers :
        (pc[p] = "p_read" /\ ~err[cur[p]]) =>
            \/ handled[cur[p]]
            \/ /\ cur[p] \notin claimed
               /\ \A i \in DOMAIN equeue : equeue[i] # cur[p]

(* Every event that was created is released in the end, whoever holds the  *)
(* last reference.                                                         *)
CreatedIsReleased ==
    \A e \in Events : life[e] = "live" ~> life[e] = "freed"

(* crtx_wait_on_graph_empty returns, given that finitely many events are   *)
(* added and at most one thread waits.                                     *)
WaiterReturns ==
    \A u \in Waiters : pc[u] # "e_idle" ~> pc[u] = "e_idle"

---------------------------------------------------------------------------
(* The graph as its clients see it.                                        *)

Fate(e) ==
    IF life[e] = "unborn" THEN "unborn"
    ELSE IF life[e] = "freed" THEN "released"
    ELSE IF handled[e] THEN "handled"
    ELSE IF e \in claimed THEN "taken"
    ELSE IF \E i \in DOMAIN equeue : equeue[i] = e THEN "waiting"
    ELSE "made"

Delivery ==
    INSTANCE EventDelivery WITH order <- equeue, fate <- [e \in Events |-> Fate(e)]

(* crtx_add_event and crtx_process_graph deliver the events as described   *)
(* by EventDelivery: in order, each once, and none is released while it    *)
(* waits or is handled, although every step is split between threads.      *)
DeliversEvents == Delivery!Spec

=============================================================================
