----------------------------- MODULE Listener -----------------------------
(***************************************************************************)
(* The life cycle of listeners (src/core.c): crtx_start_listener,          *)
(* crtx_stop_listener, crtx_shutdown_listener and the part of              *)
(* crtx_process_one_event that completes a shutdown which was delayed by   *)
(* pending events.                                                         *)
(*                                                                         *)
(* Callers are application threads; the loop thread runs the callbacks of  *)
(* the file descriptors and processes the listeners' graphs, and its       *)
(* handlers may stop or shut down a listener too.  state_mutex of a        *)
(* listener and queue_mutex of its graph are modelled by their owners, so  *)
(* the order in which the functions take them is visible.                  *)
(***************************************************************************)
EXTENDS Naturals, FiniteSets

CONSTANTS
    Listeners,
    Callers,      \* application threads
    Loop,         \* the event loop thread
    NoThread,     \* owner of an unlocked mutex
    NoListener,
    Deps,         \* pairs <<d, l>>: d is registered as depending on l
    Modes,        \* Modes[l]: what crtx_get_mode may return when l is started
    MayFail,      \* listeners whose start_listener callback can fail
    MayBreak,     \* listeners whose descriptor can report an error
    StateGraph,   \* listeners with state_graph = graph
    FreeAfter,    \* listeners with free_after_event set
    HandlerCalls, \* listeners whose handlers stop or shut them down
    Repeat,       \* crtx_shutdown_listener may be called more than once
    MaxEvents,    \* bound: events a listener's source produces
    MaxStarts     \* bound: calls of crtx_start_listener per listener

Threads == Callers \cup {Loop}

ASSUME ListenerAssumptions ==
    /\ Deps \subseteq Listeners \X Listeners
    /\ Modes \in [Listeners -> SUBSET {"thread", "eloop", "none"}]
    /\ MayFail \subseteq Listeners
    /\ MayBreak \subseteq Listeners
    /\ StateGraph \subseteq Listeners
    /\ FreeAfter \subseteq Listeners
    /\ HandlerCalls \subseteq Listeners
    /\ Repeat \in BOOLEAN
    /\ Loop \notin Callers
    /\ NoThread \notin Threads
    /\ NoListener \notin Listeners
    /\ MaxEvents \in Nat
    /\ MaxStarts \in Nat \ {0}

(* enum crtx_listener_state; PAUSED and UNKNOWN are never assigned.        *)
STARTING == 1
STARTED == 2
STOPPING == 4
STOPPED == 5
SHUTTING_DOWN == 6
SHUTDOWN == 7

States == {STARTING, STARTED, STOPPING, STOPPED, SHUTTING_DOWN, SHUTDOWN}

VARIABLES
    state,    \* listener->state
    sm,       \* owner of listener->state_mutex
    qm,       \* owner of listener->graph->queue_mutex
    queued,   \* number of events in graph->equeue
    claimed,  \* number of events in graph->claimed
    graph,    \* listener->graph is allocated
    active,   \* default_el_cb is enabled: the loop watches the descriptor
    fd,       \* the file descriptor is open
    inlist,   \* the listener is in crtx_root->listeners
    thread,   \* eloop_thread: "none", "running" or "finished"
    orphan,   \* a running thread that eloop_thread does not point to any more
    rev,      \* registered dependencies that were not removed yet
    interned, \* number of calls of shutdown_listener_intern
    produced, \* events produced by the listener's source so far
    starts,   \* calls of crtx_start_listener so far
    released, \* crtx_shutdown_listener was called
    pc,
    op,       \* the API function a thread executes
    on,       \* the listener it was called for
    cb        \* the listener whose event the loop thread processes

vars == <<state, sm, qm, queued, claimed, graph, active, fd, inlist, thread,
          orphan, rev, interned, produced, starts, released, pc, op, on, cb>>

queueVars  == <<qm, queued, claimed>>
sourceVars == <<active, fd, inlist, thread, orphan, rev>>
boundVars  == <<produced, starts, released>>

OpPCs == {"start_lock", "start_cb", "start_event", "stop_lock", "stop_deps",
          "stop_cb", "stop_join", "stop_done", "stop_event", "sd_lock",
          "sd_queue", "sd_remove", "sd_unlist", "sd_check", "sd_delay",
          "sd_intern"}

LoopPCs == {"idle", "handle", "unlink", "check", "unlock"}

TypeOK ==
    /\ state \in [Listeners -> States]
    /\ sm \in [Listeners -> Threads \cup {NoThread}]
    /\ qm \in [Listeners -> Threads \cup {NoThread}]
    /\ queued \in [Listeners -> Nat]
    /\ claimed \in [Listeners -> {0, 1}]
    /\ graph \in [Listeners -> BOOLEAN]
    /\ active \in [Listeners -> BOOLEAN]
    /\ fd \in [Listeners -> BOOLEAN]
    /\ inlist \in [Listeners -> BOOLEAN]
    /\ thread \in [Listeners -> {"none", "running", "finished"}]
    /\ orphan \in [Listeners -> BOOLEAN]
    /\ rev \subseteq Deps
    /\ interned \in [Listeners -> Nat]
    /\ produced \in [Listeners -> 0..MaxEvents]
    /\ starts \in [Listeners -> 0..MaxStarts]
    /\ released \in [Listeners -> BOOLEAN]
    /\ pc \in [Threads -> OpPCs \cup LoopPCs]
    /\ op \in [Threads -> {"none", "start", "stop", "shutdown"}]
    /\ on \in [Threads -> Listeners \cup {NoListener}]
    /\ cb \in Listeners \cup {NoListener}

(* crtx_setup_listener: STOPPED, a graph of its own, in the global list.   *)
Init ==
    /\ state = [l \in Listeners |-> STOPPED]
    /\ sm = [l \in Listeners |-> NoThread]
    /\ qm = [l \in Listeners |-> NoThread]
    /\ queued = [l \in Listeners |-> 0]
    /\ claimed = [l \in Listeners |-> 0]
    /\ graph = [l \in Listeners |-> TRUE]
    /\ active = [l \in Listeners |-> FALSE]
    /\ fd = [l \in Listeners |-> TRUE]
    /\ inlist = [l \in Listeners |-> TRUE]
    /\ thread = [l \in Listeners |-> "none"]
    /\ orphan = [l \in Listeners |-> FALSE]
    /\ rev = Deps
    /\ interned = [l \in Listeners |-> 0]
    /\ produced = [l \in Listeners |-> 0]
    /\ starts = [l \in Listeners |-> 0]
    /\ released = [l \in Listeners |-> FALSE]
    /\ pc = [t \in Threads |-> "idle"]
    /\ op = [t \in Threads |-> "none"]
    /\ on = [t \in Threads |-> NoListener]
    /\ cb = NoListener

---------------------------------------------------------------------------
Goto(t, p) == pc' = [pc EXCEPT ![t] = p]

(* Where thread t goes on after an API function: a handler returns into    *)
(* crtx_process_one_event, the call for free_after_event ends it.          *)
Return(t) ==
    /\ op' = [op EXCEPT ![t] = "none"]
    /\ on' = [on EXCEPT ![t] = NoListener]
    /\ Goto(t, IF t = Loop /\ cb # NoListener THEN "unlink" ELSE "idle")

Lock(m, l, t) == m[l] = NoThread /\ m' = [m EXCEPT ![l] = t]
Unlock(m, l)  == m' = [m EXCEPT ![l] = NoThread]

(* The graph of l has pending events.                                      *)
Pending(l) == queued[l] + claimed[l] > 0

Inactive(s) == s \in {STOPPED, SHUTTING_DOWN, SHUTDOWN}

(* shutdown_listener_intern: crtx_free_graph, then free_cb.                *)
Intern(l) ==
    /\ graph' = [graph EXCEPT ![l] = FALSE]
    /\ interned' = [interned EXCEPT ![l] = @ + 1]

---------------------------------------------------------------------------
(* Calls, by the contract of the API: a listener is not started when it is *)
(* or is being released, nor released while another thread starts it, and  *)
(* one that releases itself after its event is started once.               *)

Starting(l) == \E u \in Threads : op[u] = "start" /\ on[u] = l

StartBound(l) == IF l \in FreeAfter THEN 1 ELSE MaxStarts

CallStart(t, l) ==
    /\ t \in Callers
    /\ pc[t] = "idle"
    /\ ~released[l] /\ starts[l] < StartBound(l)
    /\ starts' = [starts EXCEPT ![l] = @ + 1]
    /\ op' = [op EXCEPT ![t] = "start"]
    /\ on' = [on EXCEPT ![t] = l]
    /\ Goto(t, "start_lock")
    /\ UNCHANGED <<state, sm, queueVars, graph, sourceVars, interned, produced,
                   released, cb>>

(* By an application thread, or by a handler that the loop thread runs for *)
(* an event of the same listener.                                          *)
CallStop(t, l) ==
    /\ \/ t \in Callers /\ pc[t] = "idle"
       \/ t = Loop /\ pc[t] = "handle" /\ cb = l /\ l \in HandlerCalls
    /\ state[l] # STOPPED /\ ~released[l]
    /\ op' = [op EXCEPT ![t] = "stop"]
    /\ on' = [on EXCEPT ![t] = l]
    /\ Goto(t, "stop_lock")
    /\ UNCHANGED <<state, sm, queueVars, graph, sourceVars, interned,
                   boundVars, cb>>

CallShutdown(t, l) ==
    /\ \/ t \in Callers /\ pc[t] = "idle"
       \/ t = Loop /\ pc[t] = "handle" /\ cb = l /\ l \in HandlerCalls
    /\ graph[l] /\ ~Starting(l)
    /\ ~released[l] \/ Repeat
    /\ released' = [released EXCEPT ![l] = TRUE]
    /\ op' = [op EXCEPT ![t] = "shutdown"]
    /\ on' = [on EXCEPT ![t] = l]
    /\ Goto(t, "stop_lock")
    /\ UNCHANGED <<state, sm, queueVars, graph, sourceVars, interned, produced,
                   starts, cb>>

(* crtx_default_el_error_cb: the loop found an error on the descriptor.    *)
ErrorCallback(l) ==
    /\ pc[Loop] = "idle"
    /\ l \in MayBreak
    /\ active[l]
    /\ released' = [released EXCEPT ![l] = TRUE]
    /\ op' = [op EXCEPT ![Loop] = "shutdown"]
    /\ on' = [on EXCEPT ![Loop] = l]
    /\ Goto(Loop, "stop_lock")
    /\ UNCHANGED <<state, sm, queueVars, graph, sourceVars, interned, produced,
                   starts, cb>>

---------------------------------------------------------------------------
(* crtx_start_listener.                                                    *)

StartLock(t) ==
    LET l == on[t] IN
    /\ pc[t] = "start_lock"
    /\ sm[l] = NoThread
    /\ IF state[l] = STARTED
       THEN /\ Return(t)
            /\ UNCHANGED <<state, sm>>
       ELSE /\ sm' = [sm EXCEPT ![l] = t]
            /\ state' = [state EXCEPT ![l] = STARTING]
            /\ Goto(t, "start_cb")
            /\ UNCHANGED <<op, on>>
    /\ UNCHANGED <<queueVars, graph, sourceVars, interned, boundVars, cb>>

(* The start_listener callback fails: STOPPED.                             *)
StartFails(t) ==
    LET l == on[t] IN
    /\ pc[t] = "start_cb"
    /\ l \in MayFail
    /\ state' = [state EXCEPT ![l] = STOPPED]
    /\ Goto(t, "start_event")
    /\ UNCHANGED <<sm, queueVars, graph, sourceVars, interned, boundVars, op,
                   on, cb>>

(* The listener's thread is started, its descriptor enabled in the loop,   *)
(* or neither (CRTX_NO_PROCESSING_MODE); the start_listener callback may   *)
(* have changed the mode.  evloop_fd.fd is never null after                *)
(* crtx_init_listener_base, so the -EINVAL branches are never taken.  A    *)
(* start after a refused stop overwrites eloop_thread.                     *)
StartSucceeds(t) ==
    LET l == on[t] IN
    /\ pc[t] = "start_cb"
    /\ state' = [state EXCEPT ![l] = STARTED]
    /\ \/ /\ "thread" \in Modes[l]
          /\ orphan' = [orphan EXCEPT ![l] = @ \/ thread[l] = "running"]
          /\ thread' = [thread EXCEPT ![l] = "running"]
          /\ UNCHANGED active
       \/ /\ "eloop" \in Modes[l]
          /\ active' = [active EXCEPT ![l] = TRUE]
          /\ UNCHANGED <<thread, orphan>>
       \/ /\ "none" \in Modes[l]
          /\ UNCHANGED <<active, thread, orphan>>
    /\ Goto(t, "start_event")
    /\ UNCHANGED <<sm, queueVars, graph, fd, inlist, rev, interned, boundVars,
                   op, on, cb>>

(* crtx_add_event of the state event, if requested, and the final unlock.  *)
(* The event goes through the queue_mutex of the graph while state_mutex   *)
(* is held.                                                                *)
StateEvent(t) ==
    LET l == on[t] IN
    /\ IF l \in StateGraph
       THEN /\ qm[l] = NoThread
            /\ queued' = [queued EXCEPT ![l] = @ + 1]
       ELSE UNCHANGED queued
    /\ Unlock(sm, l)
    /\ UNCHANGED <<qm, claimed>>

StartEvent(t) ==
    /\ pc[t] = "start_event"
    /\ StateEvent(t)
    /\ Return(t)
    /\ UNCHANGED <<state, graph, sourceVars, interned, boundVars, cb>>

---------------------------------------------------------------------------
(* crtx_stop_listener, alone or at the begin of crtx_shutdown_listener.    *)

AfterStop(t) ==
    IF op[t] = "shutdown"
    THEN Goto(t, "sd_lock") /\ UNCHANGED <<op, on>>
    ELSE Return(t)

StopLock(t) ==
    LET l == on[t] IN
    /\ pc[t] = "stop_lock"
    /\ sm[l] = NoThread
    /\ IF Inactive(state[l])
       THEN /\ AfterStop(t)
            /\ UNCHANGED <<state, sm>>
       ELSE /\ sm' = [sm EXCEPT ![l] = t]
            /\ state' = [state EXCEPT ![l] = STOPPING]
            /\ Goto(t, "stop_deps")
            /\ UNCHANGED <<op, on>>
    /\ UNCHANGED <<queueVars, graph, sourceVars, interned, boundVars, cb>>

(* Faulty variant: a refused stop keeps state_mutex locked.                *)
StopDependenciesLeaky(t) ==
    LET l == on[t] IN
    /\ pc[t] = "stop_deps"
    /\ IF \E d \in Listeners : <<d, l>> \in rev /\ ~Inactive(state[d])
       THEN /\ AfterStop(t)
            /\ UNCHANGED <<sm, rev>>
       ELSE /\ rev' = {r \in rev : r[1] # l}
            /\ Goto(t, "stop_cb")
            /\ UNCHANGED <<sm, op, on>>
    /\ UNCHANGED <<state, queueVars, graph, active, fd, inlist, thread,
                   orphan, interned, boundVars, cb>>

(* A listener that depends on this one still runs: refuse, the state stays *)
(* STOPPING.  Otherwise deregister at the listeners this one depends on.   *)
StopDependencies(t) ==
    LET l == on[t] IN
    /\ pc[t] = "stop_deps"
    /\ IF \E d \in Listeners : <<d, l>> \in rev /\ ~Inactive(state[d])
       THEN /\ Unlock(sm, l)
            /\ AfterStop(t)
            /\ UNCHANGED rev
       ELSE /\ rev' = {r \in rev : r[1] # l}
            /\ Goto(t, "stop_cb")
            /\ UNCHANGED <<sm, op, on>>
    /\ UNCHANGED <<state, queueVars, graph, active, fd, inlist, thread,
                   orphan, interned, boundVars, cb>>

(* Faulty variant: the thread of the listener is not waited for.           *)
StopCallbacksNoJoin(t) ==
    LET l == on[t] IN
    /\ pc[t] = "stop_cb"
    /\ active' = [active EXCEPT ![l] = FALSE]
    /\ Goto(t, "stop_done")
    /\ UNCHANGED <<state, sm, queueVars, graph, fd, inlist, thread, orphan,
                   rev, interned, boundVars, op, on, cb>>

(* crtx_evloop_disable_cb; crtx_threads_stop and the stop_listener         *)
(* callback make the listener's thread end.                                *)
StopCallbacks(t) ==
    LET l == on[t] IN
    /\ pc[t] = "stop_cb"
    /\ active' = [active EXCEPT ![l] = FALSE]
    /\ Goto(t, IF thread[l] = "none" THEN "stop_done" ELSE "stop_join")
    /\ UNCHANGED <<state, sm, queueVars, graph, fd, inlist, thread, orphan,
                   rev, interned, boundVars, op, on, cb>>

(* crtx_wait_on_signal(finished), crtx_dereference_signal.                 *)
StopJoin(t) ==
    LET l == on[t] IN
    /\ pc[t] = "stop_join"
    /\ thread[l] = "finished"
    /\ thread' = [thread EXCEPT ![l] = "none"]
    /\ Goto(t, "stop_done")
    /\ UNCHANGED <<state, sm, queueVars, graph, active, fd, inlist, orphan,
                   rev, interned, boundVars, op, on, cb>>

StopDone(t) ==
    LET l == on[t] IN
    /\ pc[t] = "stop_done"
    /\ state' = [state EXCEPT ![l] = STOPPED]
    /\ Goto(t, "stop_event")
    /\ UNCHANGED <<sm, queueVars, graph, sourceVars, interned, boundVars, op,
                   on, cb>>

StopEvent(t) ==
    /\ pc[t] = "stop_event"
    /\ StateEvent(t)
    /\ AfterStop(t)
    /\ UNCHANGED <<state, graph, sourceVars, interned, boundVars, cb>>

---------------------------------------------------------------------------
(* crtx_shutdown_listener after its call of crtx_stop_listener.            *)

ShutdownLock(t) ==
    LET l == on[t] IN
    /\ pc[t] = "sd_lock"
    /\ sm[l] = NoThread
    /\ \/ /\ state[l] \notin {STOPPED, SHUTDOWN}
          /\ Return(t)
          /\ UNCHANGED <<state, sm>>
       \/ /\ state[l] = SHUTDOWN /\ ~graph[l]
          /\ Return(t)
          /\ UNCHANGED <<state, sm>>
       \/ /\ state[l] = SHUTDOWN /\ graph[l]
          /\ sm' = [sm EXCEPT ![l] = t]
          /\ Goto(t, "sd_queue")
          /\ UNCHANGED <<state, op, on>>
       \/ /\ state[l] = STOPPED
          /\ state' = [state EXCEPT ![l] = SHUTTING_DOWN]
          /\ Goto(t, "sd_remove")
          /\ UNCHANGED <<sm, op, on>>
    /\ UNCHANGED <<queueVars, graph, sourceVars, interned, boundVars, cb>>

(* The state was SHUTDOWN already: queue_mutex is taken as well.  With     *)
(* nothing pending the shutdown is completed here, and the function        *)
(* returns with both mutexes locked.                                       *)
ShutdownAgain(t) ==
    LET l == on[t] IN
    /\ pc[t] = "sd_queue"
    /\ qm[l] = NoThread
    /\ IF Pending(l)
       THEN /\ Unlock(sm, l)
            /\ UNCHANGED <<qm, graph, interned>>
       ELSE /\ qm' = [qm EXCEPT ![l] = t]
            /\ Intern(l)
            /\ UNCHANGED sm
    /\ Return(t)
    /\ UNCHANGED <<state, queued, claimed, sourceVars, boundVars, cb>>

(* The callbacks are removed from the loop; the listener's shutdown        *)
(* callback or the default closes the descriptor.                          *)
ShutdownRemove(t) ==
    LET l == on[t] IN
    /\ pc[t] = "sd_remove"
    /\ active' = [active EXCEPT ![l] = FALSE]
    /\ fd' = [fd EXCEPT ![l] = FALSE]
    /\ Goto(t, "sd_unlist")
    /\ UNCHANGED <<state, sm, queueVars, graph, inlist, thread, orphan, rev,
                   interned, boundVars, op, on, cb>>

ShutdownUnlist(t) ==
    LET l == on[t] IN
    /\ pc[t] = "sd_unlist"
    /\ inlist' = [inlist EXCEPT ![l] = FALSE]
    /\ Goto(t, "sd_check")
    /\ UNCHANGED <<state, sm, queueVars, graph, active, fd, thread, orphan,
                   rev, interned, boundVars, op, on, cb>>

(* Test for pending events under queue_mutex, which is unlocked again.     *)
ShutdownCheck(t) ==
    LET l == on[t] IN
    /\ pc[t] = "sd_check"
    /\ qm[l] = NoThread
    /\ Goto(t, IF Pending(l) THEN "sd_delay" ELSE "sd_intern")
    /\ UNCHANGED <<state, sm, queueVars, graph, sourceVars, interned,
                   boundVars, op, on, cb>>

(* Delayed: state = SHUTDOWN without state_mutex, and an unlock of         *)
(* state_mutex, which this thread does not hold.  Unlocking a default      *)
(* mutex of another thread is undefined: it has no effect or it unlocks.   *)
ShutdownDelay(t) ==
    LET l == on[t] IN
    /\ pc[t] = "sd_delay"
    /\ state' = [state EXCEPT ![l] = SHUTDOWN]
    /\ Unlock(sm, l) \/ UNCHANGED sm
    /\ Return(t)
    /\ UNCHANGED <<queueVars, graph, sourceVars, interned, boundVars, cb>>

ShutdownIntern(t) ==
    /\ pc[t] = "sd_intern"
    /\ Intern(on[t])
    /\ Return(t)
    /\ UNCHANGED <<state, sm, queueVars, sourceVars, boundVars, cb>>

---------------------------------------------------------------------------
(* Sources of events: the loop runs the callback of the descriptor, or the *)
(* listener's own thread does; crtx_add_event appends under queue_mutex.   *)

Produce(l) ==
    /\ produced[l] < MaxEvents
    /\ qm[l] = NoThread
    /\ produced' = [produced EXCEPT ![l] = @ + 1]
    /\ queued' = [queued EXCEPT ![l] = @ + 1]
    /\ UNCHANGED <<state, sm, qm, claimed, graph, sourceVars, interned, starts,
                   released, pc, op, on, cb>>

LoopCallback(l) == pc[Loop] = "idle" /\ active[l] /\ Produce(l)

ThreadCallback(l) == (thread[l] = "running" \/ orphan[l]) /\ Produce(l)

(* The thread of the listener ends: after crtx_threads_stop, or by itself. *)
ThreadEnds(l) ==
    /\ thread[l] = "running"
    /\ thread' = [thread EXCEPT ![l] = "finished"]
    /\ UNCHANGED <<state, sm, queueVars, graph, active, fd, inlist, orphan,
                   rev, interned, boundVars, pc, op, on, cb>>

---------------------------------------------------------------------------
(* crtx_process_one_event on the loop thread.  The control pipe handler    *)
(* looks the graph up once and then processes events until there are none, *)
(* also when the graph was freed meanwhile.                                *)

(* Faulty variant: an event is claimed from an empty queue.                *)
ClaimUnchecked(l) ==
    /\ pc[Loop] = "idle"
    /\ qm[l] = NoThread
    /\ queued' = [queued EXCEPT ![l] = @ - 1]
    /\ claimed' = [claimed EXCEPT ![l] = 1]
    /\ cb' = l
    /\ Goto(Loop, "handle")
    /\ UNCHANGED <<state, sm, qm, graph, sourceVars, interned, boundVars, op,
                   on>>

ClaimEvent(l) ==
    /\ pc[Loop] = "idle"
    /\ queued[l] > 0
    /\ qm[l] = NoThread
    /\ queued' = [queued EXCEPT ![l] = @ - 1]
    /\ claimed' = [claimed EXCEPT ![l] = 1]
    /\ cb' = l
    /\ Goto(Loop, "handle")
    /\ UNCHANGED <<state, sm, qm, graph, sourceVars, interned, boundVars, op,
                   on>>

(* The handlers of the event ran without calling into the life cycle.      *)
HandlerReturns ==
    /\ pc[Loop] = "handle"
    /\ Goto(Loop, "unlink")
    /\ UNCHANGED <<state, sm, queueVars, graph, sourceVars, interned,
                   boundVars, op, on, cb>>

(* queue_mutex is locked and the event leaves the claimed list.            *)
UnlinkEvent ==
    /\ pc[Loop] = "unlink"
    /\ Lock(qm, cb, Loop)
    /\ claimed' = [claimed EXCEPT ![cb] = 0]
    /\ Goto(Loop, "check")
    /\ UNCHANGED <<state, sm, queued, graph, sourceVars, interned, boundVars,
                   op, on, cb>>

(* Faulty variant: a shutdown in progress counts as a delayed one.         *)
CheckShutdownTooEarly ==
    /\ pc[Loop] = "check"
    /\ sm[cb] = NoThread
    /\ IF ~Pending(cb) /\ state[cb] \in {SHUTTING_DOWN, SHUTDOWN}
       THEN /\ sm' = [sm EXCEPT ![cb] = Loop]
            /\ Intern(cb)
       ELSE UNCHANGED <<sm, graph, interned>>
    /\ Goto(Loop, "unlock")
    /\ UNCHANGED <<state, queueVars, sourceVars, boundVars, op, on, cb>>

(* With queue_mutex held, state_mutex is locked: the last pending event of *)
(* a listener in SHUTDOWN completes the shutdown, state_mutex stays locked.*)
CheckShutdown ==
    /\ pc[Loop] = "check"
    /\ sm[cb] = NoThread
    /\ IF ~Pending(cb) /\ state[cb] = SHUTDOWN
       THEN /\ sm' = [sm EXCEPT ![cb] = Loop]
            /\ Intern(cb)
       ELSE UNCHANGED <<sm, graph, interned>>
    /\ Goto(Loop, "unlock")
    /\ UNCHANGED <<state, queueVars, sourceVars, boundVars, op, on, cb>>

(* queue_mutex is unlocked; with free_after_event the listener is shut     *)
(* down by the loop thread.  CheckShutdown may have freed the graph, which *)
(* holds the mutex and the pointer to the listener: then the unlock has an *)
(* effect or none, and what is read may lead to the shutdown or not.       *)
UnlockQueue ==
    /\ pc[Loop] = "unlock"
    /\ Unlock(qm, cb) \/ (~graph[cb] /\ UNCHANGED qm)
    /\ \/ /\ cb \in FreeAfter
          /\ released' = [released EXCEPT ![cb] = TRUE]
          /\ op' = [op EXCEPT ![Loop] = "shutdown"]
          /\ on' = [on EXCEPT ![Loop] = cb]
          /\ Goto(Loop, "stop_lock")
       \/ /\ cb \notin FreeAfter \/ ~graph[cb]
          /\ Goto(Loop, "idle")
          /\ UNCHANGED <<released, op, on>>
    /\ cb' = NoListener
    /\ UNCHANGED <<state, sm, queued, claimed, graph, sourceVars, interned,
                   produced, starts>>

---------------------------------------------------------------------------
Step(t) ==
    \/ StartLock(t) \/ StartFails(t) \/ StartSucceeds(t) \/ StartEvent(t)
    \/ StopLock(t) \/ StopDependencies(t) \/ StopCallbacks(t) \/ StopJoin(t)
    \/ StopDone(t) \/ StopEvent(t)
    \/ ShutdownLock(t) \/ ShutdownAgain(t) \/ ShutdownRemove(t)
    \/ ShutdownUnlist(t) \/ ShutdownCheck(t) \/ ShutdownDelay(t)
    \/ ShutdownIntern(t)

LoopStep ==
    \/ \E l \in Listeners : ClaimEvent(l)
    \/ HandlerReturns \/ UnlinkEvent \/ CheckShutdown \/ UnlockQueue

Next ==
    \/ \E t \in Threads, l \in Listeners :
          CallStart(t, l) \/ CallStop(t, l) \/ CallShutdown(t, l)
    \/ \E t \in Threads : Step(t)
    \/ \E l \in Listeners :
          \/ LoopCallback(l) \/ ThreadCallback(l) \/ ThreadEnds(l)
          \/ ErrorCallback(l)
    \/ LoopStep

Spec == Init /\ [][Next]_vars

(* Every thread is scheduled, the loop thread processes what is queued and *)
(* a listener's thread ends when it was told to.                           *)
FairSpec ==
    /\ Spec
    /\ \A t \in Threads : WF_vars(Step(t))
    /\ WF_vars(LoopStep)
    /\ \A l \in Listeners : WF_vars(ThreadEnds(l))

---------------------------------------------------------------------------
(* Properties.                                                             *)

(* shutdown_listener_intern runs at most once per listener, although three *)
(* places call it: it frees the graph and hands the listener to free_cb.   *)
InternedOnce == \A l \in Listeners : interned[l] <= 1

(* A listener that is stopped or released is quiet: the loop does not      *)
(* watch its descriptor and no thread of it was left behind.               *)
StoppedIsQuiet ==
    \A l \in Listeners :
        Inactive(state[l]) => ~active[l] /\ thread[l] = "none" /\ ~orphan[l]

(* Apart from the mutexes of a listener whose shutdown was completed, no   *)
(* thread holds a mutex between two calls of the API, although the         *)
(* functions have a dozen exits.                                           *)
NoLockLeaked ==
    \A t \in Threads, l \in Listeners :
        pc[t] = "idle" /\ (sm[l] = t \/ qm[l] = t) => interned[l] > 0

(* core.c: "if the listener shutdown is delayed due to pending events,     *)
(* this function will be called after the last event was processed".       *)
DelayedShutdownCompletes ==
    \A l \in Listeners : state[l] = SHUTDOWN ~> interned[l] > 0

(* core.c: "schedule a stop event if requested": a stop that is not        *)
(* refused is carried through to STOPPED and to the end of the function.   *)
StopCompletes ==
    \A t \in Threads :
        pc[t] = "stop_cb" ~>
            pc[t] \notin {"stop_cb", "stop_join", "stop_done", "stop_event"}

=============================================================================
