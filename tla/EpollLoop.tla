----------------------------- MODULE EpollLoop -----------------------------
(***************************************************************************)
(* The event loop (src/evloop.c) on top of epoll (src/epoll.c).            *)
(*                                                                         *)
(* An evloop_fd has a list of callbacks, each for its own kinds of events; *)
(* the kernel is told the union of what the active ones want.  The loop    *)
(* thread processes the events epoll_wait returned, then the timeouts,     *)
(* then sleeps.  A handler may change callbacks and timeouts and may enter *)
(* the loop again (crtx_loop_onetime, used by sdbus.c): the frames of the  *)
(* nested calls of evloop_start_intern form a stack and share the events   *)
(* epoll_wait returned last.  Another thread stops the loop, asks it to    *)
(* phase out, or writes requests to the control pipe.                      *)
(*                                                                         *)
(* The lists are sequences: unlinking an element clears its next pointer,  *)
(* so an iteration that stands on an unlinked element ends there.          *)
(***************************************************************************)
EXTENDS Integers, Sequences, FiniteSets, SequencesExt

CONSTANTS
    Fds, Cbs, NoFd, NoCb,
    CtrlFd, CtrlCb,  \* the control pipe and its callback
    FdOf,            \* FdOf[c]: el_cb->fd_entry
    Flags,           \* Flags[c]: el_cb->crtx_event_flags
    Default,         \* the callbacks that are listener->default_el_cb
    max_n_events,    \* option of the epoll listener
    FreesInUse,      \* the application frees a listener while one of the
                     \* loops goes through its callbacks
    PipeCap,         \* capacity of the control pipe, in requests
    MaxTime,         \* bound on the clock
    MaxOps,          \* bound on the operations of handlers
    MaxDepth,        \* bound on the nesting of loops
    MaxArrivals      \* bound on what happens on the descriptors and on the
                     \* requests of the other thread

EventKinds == {"in", "out", "err", "timeout"}

ASSUME EpollAssumptions ==
    /\ IsFiniteSet(Fds) /\ IsFiniteSet(Cbs)
    /\ FdOf \in [Cbs -> Fds] /\ Flags \in [Cbs -> SUBSET EventKinds]
    /\ CtrlFd \in Fds /\ CtrlCb \in Cbs /\ FdOf[CtrlCb] = CtrlFd
    /\ \A c \in Cbs : FdOf[c] = CtrlFd => c = CtrlCb
    /\ Flags[CtrlCb] = {"in"} /\ Default \subseteq Cbs
    /\ NoFd \notin Fds /\ NoCb \notin Cbs
    /\ FreesInUse \in BOOLEAN
    /\ max_n_events \in Nat /\ PipeCap \in Nat /\ MaxTime \in Nat \ {0}
    /\ MaxOps \in Nat /\ MaxDepth \in Nat
    /\ MaxArrivals \in Nat

VARIABLES
    callbacks,       \* evloop_fd->callbacks
    active,          \* el_cb->active
    timeout,         \* el_cb->timeout, 0 when cleared
    timeout_enabled,
    evloop,          \* evloop_fd->evloop is set
    fds,             \* evloop->fds
    fd_added,
    open,            \* the file descriptor is open
    released,        \* the memory of the evloop_fd was freed
    mask,            \* kernel: what epoll watches a descriptor for
    ready,           \* kernel: the conditions of a descriptor
    pipe,            \* requests in the control pipe
    stop,            \* epl->stop
    phase_out,       \* evloop->phase_out
    batch,           \* epl->events from cur_event_idx to n_rdy_events
    stack,           \* frames of evloop_start_intern, innermost last
    now,             \* CRTX_DEFAULT_CLOCK
    ops,             \* operations so far
    apc,             \* the other thread: "idle" or inside evloop_stop
    arrivals         \* events on the descriptors so far

vars == <<callbacks, active, timeout, timeout_enabled, evloop, fds, fd_added,
          open, released, mask, ready, pipe, stop, phase_out, batch, stack, now,
          ops, apc, arrivals>>

fdVars   == <<callbacks, active, evloop, fds, fd_added, open, released, mask>>
timeVars == <<timeout, timeout_enabled>>
loopVars == <<stop, phase_out, batch, stack>>
appVars  == <<apc, arrivals>>

Never == MaxTime + 2

FramePCs == {"events", "dispatch", "handler", "timeouts", "wait"}

Frames == [pc : FramePCs, onetime : BOOLEAN, loop : 1..2, processed : BOOLEAN,
           fd : Fds \cup {NoFd}, cb : Cbs \cup {NoCb},
           triggered : SUBSET EventKinds, clock : 0..Never]

TypeOK ==
    /\ callbacks \in [Fds -> Seq(Cbs)]
    /\ active \in [Cbs -> BOOLEAN]
    /\ timeout \in [Cbs -> 0..MaxTime]
    /\ timeout_enabled \in [Cbs -> BOOLEAN]
    /\ evloop \in [Fds -> BOOLEAN]
    /\ fds \in Seq(Fds)
    /\ fd_added \in [Fds -> BOOLEAN]
    /\ open \in [Fds -> BOOLEAN]
    /\ released \in [Fds -> BOOLEAN]
    /\ mask \in [Fds -> SUBSET EventKinds]
    /\ ready \in [Fds -> SUBSET {"in", "out", "err"}]
    /\ pipe \in 0..PipeCap
    /\ stop \in BOOLEAN /\ phase_out \in BOOLEAN
    /\ \A i \in DOMAIN batch : batch[i].fd \in Fds
    /\ \A i \in DOMAIN stack : stack[i] \in Frames
    /\ now \in 1..MaxTime
    /\ ops \in 0..MaxOps
    /\ apc \in {"idle", "stop_write", "stopped"}
    /\ arrivals \in 0..MaxArrivals

(* What the kernel is told of the flags of a callback                      *)
(* (crtx_event_flags2epoll_flags).                                         *)
Polled(c) == Flags[c] \ {"timeout", "err"}

(* crtx_evloop_create enabled the control pipe.  On the other descriptors  *)
(* no callback was enabled yet, and only the default one is marked active  *)
(* (crtx_evloop_init_listener), or some were; some have a timeout          *)
(* (crtx_listener_add_fd).                                                 *)
Init ==
    /\ callbacks = [f \in Fds |-> SetToSeq({c \in Cbs : FdOf[c] = f})]
    /\ \E bound \in SUBSET Fds, started \in SUBSET Cbs :
          /\ CtrlFd \in bound /\ CtrlCb \in started
          /\ \A c \in Cbs :
                FdOf[c] \notin bound => (c \in started <=> c \in Default)
          /\ evloop = [f \in Fds |-> f \in bound]
          /\ active = [c \in Cbs |-> c \in started]
          /\ mask = [f \in Fds |->
                        UNION {Polled(c) : c \in {d \in started :
                                             FdOf[d] = f /\ f \in bound}}]
          /\ fd_added = [f \in Fds |-> mask[f] # {}]
          /\ fds = SetToSeq({f \in Fds : mask[f] # {}})
    /\ \E timed \in SUBSET {c \in Cbs : "timeout" \in Flags[c]} :
          /\ timeout = [c \in Cbs |-> IF c \in timed THEN 1 ELSE 0]
          /\ timeout_enabled = [c \in Cbs |-> c \in timed]
    /\ open = [f \in Fds |-> TRUE]
    /\ released = [f \in Fds |-> FALSE]
    /\ ready = [f \in Fds |-> {}]
    /\ pipe = 0
    /\ stop = FALSE /\ phase_out = FALSE
    /\ batch = <<>> /\ stack = <<>>
    /\ now = 1
    /\ ops = 0
    /\ apc = "idle" /\ arrivals = 0

---------------------------------------------------------------------------
(* Lists and frames.                                                       *)

First(s, none) == IF s = <<>> THEN none ELSE s[1]

(* x->ll.next; an element that was unlinked has none.                      *)
NextIn(s, x, none) ==
    IF \E i \in 1..(Len(s) - 1) : s[i] = x
    THEN s[1 + CHOOSE i \in 1..(Len(s) - 1) : s[i] = x]
    ELSE none

(* crtx_ll_unlink; a list has no element twice.                            *)
Unlink(s, x) ==
    IF x \in ToSet(s) THEN RemoveAt(s, CHOOSE i \in DOMAIN s : s[i] = x) ELSE s

Top == stack[Len(stack)]

At(l) == stack # <<>> /\ Top.pc = l

SetTop(frame) == stack' = [stack EXCEPT ![Len(stack)] = frame]

Return == stack' = SubSeq(stack, 1, Len(stack) - 1)

---------------------------------------------------------------------------
(* crtx_epoll_manage_fd for f, with the new activity act and callbacks cbs.*)

Wanted(f, act, cbs) ==
    UNION {Polled(c) : c \in {d \in ToSet(cbs[f]) : act[d]}}

(* Faulty variant: fd_added is not reset when the descriptor is deleted.   *)
ManageFdKeepsAdded(f, act, cbs, opn) ==
    LET events == Wanted(f, act, cbs) IN
    \/ /\ events # {} /\ fd_added[f]
       /\ mask' = IF stop \/ mask[f] = {} THEN mask
                  ELSE [mask EXCEPT ![f] = events]
       /\ UNCHANGED <<fds, fd_added>>
    \/ /\ events # {} /\ ~fd_added[f]
       /\ LET added == opn[f] /\ mask[f] = {} IN
             /\ mask' = IF added THEN [mask EXCEPT ![f] = events] ELSE mask
             /\ fd_added' = [fd_added EXCEPT ![f] = added]
       /\ fds' = IF f \in ToSet(fds) THEN fds ELSE Append(fds, f)
    \/ /\ events = {}
       /\ fds' = Unlink(fds, f)
       /\ mask' = IF stop /\ opn[f] THEN mask ELSE [mask EXCEPT ![f] = {}]
       /\ UNCHANGED fd_added

ManageFd(f, act, cbs, opn) ==
    LET events == Wanted(f, act, cbs) IN
    \/ /\ events # {} /\ fd_added[f]
       /\ mask' = IF stop \/ mask[f] = {} THEN mask
                  ELSE [mask EXCEPT ![f] = events]
       /\ UNCHANGED <<fds, fd_added>>
    \/ /\ events # {} /\ ~fd_added[f]
       /\ LET added == opn[f] /\ mask[f] = {} IN
             /\ mask' = IF added THEN [mask EXCEPT ![f] = events] ELSE mask
             /\ fd_added' = [fd_added EXCEPT ![f] = added]
       /\ fds' = IF f \in ToSet(fds) THEN fds ELSE Append(fds, f)
    \/ /\ events = {}
       /\ fds' = Unlink(fds, f)
       /\ mask' = IF stop /\ opn[f] THEN mask ELSE [mask EXCEPT ![f] = {}]
       /\ fd_added' = [fd_added EXCEPT ![f] = FALSE]

(* evloop->mod_fd, once the entry belongs to an event loop.                *)
ModFd(f, act, cbs, opn) ==
    IF evloop[f] THEN ManageFd(f, act, cbs, opn)
    ELSE UNCHANGED <<fds, fd_added, mask>>

---------------------------------------------------------------------------
(* Operations of a handler; before and between loops the thread may call   *)
(* them too, which a handler subsumes.                                     *)

Operation ==
    /\ At("handler")
    /\ ops < MaxOps
    /\ ops' = ops + 1
    /\ UNCHANGED <<ready, now, appVars>>

(* The entry is in use by an iteration of one of the nested loops.         *)
InUse(f) == \E i \in DOMAIN stack : stack[i].fd = f

Linked(c) == c \in ToSet(callbacks[FdOf[c]]) /\ c # CtrlCb

crtx_evloop_enable_cb(c) ==
    /\ Operation /\ Linked(c)
    /\ active' = [active EXCEPT ![c] = TRUE]
    /\ evloop' = [evloop EXCEPT ![FdOf[c]] = TRUE]
    /\ ManageFd(FdOf[c], active', callbacks, open)
    /\ UNCHANGED <<callbacks, open, released, timeVars, pipe, loopVars>>

crtx_evloop_disable_cb(c) ==
    /\ Operation /\ Linked(c)
    /\ active[c]
    /\ active' = [active EXCEPT ![c] = FALSE]
    /\ ModFd(FdOf[c], active', callbacks, open)
    /\ UNCHANGED <<callbacks, evloop, open, released, timeVars, pipe, loopVars>>

crtx_evloop_remove_cb(c) ==
    /\ Operation /\ Linked(c)
    /\ callbacks' = [callbacks EXCEPT ![FdOf[c]] = Unlink(@, c)]
    /\ IF active[c]
       THEN /\ active' = [active EXCEPT ![c] = FALSE]
            /\ ModFd(FdOf[c], active', callbacks, open)
       ELSE UNCHANGED <<active, fds, fd_added, mask>>
    /\ UNCHANGED <<evloop, open, released, timeVars, pipe, loopVars>>

(* The descriptor was closed, which also takes it out of the epoll set,    *)
(* and crtx_evloop_handle_fd_closed is called (mqtt.c).                    *)
crtx_evloop_handle_fd_closed(f) ==
    /\ Operation /\ f # CtrlFd /\ open[f]
    /\ open' = [open EXCEPT ![f] = FALSE]
    /\ active' = [c \in Cbs |->
                    active[c] /\ c \notin ToSet(callbacks[f])]
    /\ ModFd(f, active', callbacks, open')
    /\ UNCHANGED <<callbacks, evloop, released, timeVars, pipe, loopVars>>

(* crtx_evloop_update_default_fd with a new descriptor, for an entry with  *)
(* one callback: the old descriptor is deleted and the new one added.      *)
crtx_evloop_update_default_fd(c) ==
    LET f == FdOf[c] IN
    /\ Operation /\ Linked(c)
    /\ callbacks[f] = <<c>>
    /\ active' = [active EXCEPT ![c] = TRUE]
    /\ evloop' = [evloop EXCEPT ![f] = TRUE]
    /\ open' = [open EXCEPT ![f] = TRUE]
    /\ LET events == Wanted(f, active', callbacks) IN
          /\ mask' = [mask EXCEPT ![f] = events]
          /\ fd_added' = [fd_added EXCEPT ![f] = events # {}]
          /\ fds' = IF events = {} THEN Unlink(fds, f)
                    ELSE Append(Unlink(fds, f), f)
    /\ UNCHANGED <<callbacks, released, timeVars, pipe, loopVars>>

(* crtx_shutdown_listener for the listener of f, also by a callback of f   *)
(* itself (crtx_default_el_error_cb): the callbacks are removed and the    *)
(* descriptor is closed.                                                   *)
Shutdown(f) ==
    /\ callbacks' = [callbacks EXCEPT ![f] = <<>>]
    /\ open' = [open EXCEPT ![f] = FALSE]
    /\ active' = [c \in Cbs |-> active[c] /\ FdOf[c] # f]
    /\ ModFd(f, active', callbacks', open')
    /\ UNCHANGED <<evloop, timeVars, pipe, loopVars>>

crtx_shutdown_listener(f) ==
    /\ Operation /\ f # CtrlFd /\ ~released[f]
    /\ Shutdown(f)
    /\ UNCHANGED released

(* The listener of f is shut down and its memory, with the callbacks, is   *)
(* freed.  The loop does not notice when it, or an outer loop, stands on   *)
(* one of these callbacks: only FreesInUse allows that.                    *)
ReleaseListener(f) ==
    /\ Operation /\ f # CtrlFd /\ ~released[f]
    /\ InUse(f) => FreesInUse
    /\ released' = [released EXCEPT ![f] = TRUE]
    /\ Shutdown(f)

(* crtx_evloop_set_timeout_rel.                                            *)
crtx_evloop_set_timeout_rel(c, d) ==
    /\ Operation /\ Linked(c)
    /\ now + d < MaxTime
    /\ timeout' = [timeout EXCEPT ![c] = now + d]
    /\ timeout_enabled' = [timeout_enabled EXCEPT ![c] = TRUE]
    /\ UNCHANGED <<fdVars, pipe, loopVars>>

crtx_evloop_disable_timeout(c) ==
    /\ Operation /\ Linked(c) /\ timeout_enabled[c]
    /\ timeout_enabled' = [timeout_enabled EXCEPT ![c] = FALSE]
    /\ UNCHANGED <<fdVars, timeout, pipe, loopVars>>

(* crtx_init_shutdown in a handler: phase_out; stopping the listeners is   *)
(* what disable_cb does.                                                   *)
HandlerInitShutdown ==
    /\ Operation /\ ~phase_out
    /\ phase_out' = TRUE
    /\ UNCHANGED <<fdVars, timeVars, pipe, stop, batch, stack>>

---------------------------------------------------------------------------
(* evloop_start_intern: entry.  With phase_out or stop it returns at once. *)

Frame(onetime) ==
    [pc |-> "events", onetime |-> onetime, loop |-> IF onetime THEN 2 ELSE 1,
     processed |-> FALSE, fd |-> NoFd, cb |-> NoCb, triggered |-> {},
     clock |-> 0]

StartLoop(onetime) ==
    /\ stack # <<>> => At("handler") /\ onetime /\ Len(stack) < MaxDepth
    /\ ~phase_out /\ ~stop
    /\ stack' = Append(stack, Frame(onetime))
    /\ UNCHANGED <<fdVars, timeVars, ready, pipe, stop, phase_out, batch, now,
                   ops, appVars>>

(* The next event that epoll_wait returned.                                *)
NextEvent ==
    /\ At("events") /\ batch # <<>>
    /\ batch' = Tail(batch)
    /\ SetTop([Top EXCEPT !.pc = "dispatch", !.processed = TRUE,
                          !.fd = batch[1].fd,
                          !.cb = First(callbacks[batch[1].fd], NoCb),
                          !.triggered = batch[1].events])
    /\ UNCHANGED <<fdVars, timeVars, ready, pipe, stop, phase_out, now, ops,
                   appVars>>

(* No more events: take the time and go through the timeouts.              *)
EventsDone ==
    /\ At("events") /\ batch = <<>>
    /\ SetTop([Top EXCEPT !.pc = "timeouts", !.clock = now,
                          !.triggered = {"timeout"},
                          !.fd = First(fds, NoFd),
                          !.cb = IF fds = <<>> THEN NoCb
                                 ELSE First(callbacks[fds[1]], NoCb)])
    /\ UNCHANGED <<fdVars, timeVars, ready, pipe, stop, phase_out, batch, now,
                   ops, appVars>>

(* el_cb = el_cb->ll.next.                                                 *)
Advance(pc) ==
    SetTop([Top EXCEPT !.pc = pc,
                       !.cb = NextIn(callbacks[Top.fd], Top.cb, NoCb)])

(* crtx_evloop_callback runs the handler if it is interested.  The error   *)
(* path does not ask whether the callback is active.                       *)
Runs(c, triggered) ==
    /\ active[c] \/ "err" \in triggered
    /\ Flags[c] = {} \/ Flags[c] \cap triggered # {}

(* A callback of the descriptor: run it or skip it, or the list ends.  The *)
(* handler of the control pipe reads one request.                          *)
Dispatch ==
    /\ At("dispatch")
    /\ \/ /\ Top.cb = NoCb
          /\ SetTop([Top EXCEPT !.pc = "events", !.fd = NoFd,
                                 !.triggered = {}])
          /\ UNCHANGED pipe
       \/ /\ Top.cb # NoCb /\ ~Runs(Top.cb, Top.triggered)
          /\ Advance("dispatch")
          /\ UNCHANGED pipe
       \/ /\ Top.cb # NoCb /\ Runs(Top.cb, Top.triggered)
          /\ SetTop([Top EXCEPT !.pc = "handler"])
          /\ pipe' = IF Top.cb = CtrlCb THEN pipe - 1 ELSE pipe
    /\ UNCHANGED <<fdVars, timeVars, ready, stop, phase_out, batch, now, ops,
                   appVars>>

(* The handler has consumed what it was called for, and returns.           *)
HandlerReturns ==
    /\ At("handler")
    /\ Advance(IF Top.triggered = {"timeout"} THEN "timeouts" ELSE "dispatch")
    /\ ready' = [ready EXCEPT ![Top.fd] = @ \ Top.triggered]
    /\ UNCHANGED <<fdVars, timeVars, pipe, stop, phase_out, batch, now, ops,
                   appVars>>

---------------------------------------------------------------------------
(* Timeouts.                                                               *)

Due(c, clock) == timeout[c] # 0 /\ timeout[c] < clock

(* One callback in the nested iteration over the descriptors.              *)
ScanTimeout ==
    /\ At("timeouts") /\ Top.fd # NoFd
    /\ \/ /\ Top.cb = NoCb
          /\ LET f == NextIn(fds, Top.fd, NoFd) IN
                SetTop([Top EXCEPT !.fd = f,
                                   !.cb = IF f = NoFd THEN NoCb
                                          ELSE First(callbacks[f], NoCb)])
          /\ UNCHANGED timeVars
       \/ /\ Top.cb # NoCb /\ ~Due(Top.cb, Top.clock)
          /\ Advance("timeouts")
          /\ UNCHANGED timeVars
       \/ /\ Top.cb # NoCb /\ Due(Top.cb, Top.clock)
          /\ timeout' = [timeout EXCEPT ![Top.cb] = 0]
          /\ timeout_enabled' = [timeout_enabled EXCEPT ![Top.cb] = FALSE]
          /\ IF Runs(Top.cb, {"timeout"})
             THEN SetTop([Top EXCEPT !.pc = "handler", !.processed = TRUE])
             ELSE SetTop([Top EXCEPT
                     !.processed = @ \/ active[Top.cb],
                     !.cb = NextIn(callbacks[Top.fd], Top.cb, NoCb)])
    /\ UNCHANGED <<fdVars, ready, pipe, stop, phase_out, batch, now, ops,
                   appVars>>

(* Faulty variant: a timeout in the past is not waited for.                *)
NextTimeoutFutureOnly ==
    LET cbs == {c \in Cbs : /\ timeout_enabled[c] /\ timeout[c] > now
                            /\ \E f \in ToSet(fds) : c \in ToSet(callbacks[f])}
    IN  IF cbs = {} THEN Never
        ELSE CHOOSE t \in {timeout[c] : c \in cbs} :
                \A c \in cbs : t <= timeout[c]

(* When epoll_wait shall return: at the next enabled timeout, but not      *)
(* before the next tick of the clock, which saturates at MaxTime.          *)
NextTimeout ==
    LET cbs == {c \in Cbs : /\ timeout_enabled[c]
                            /\ \E f \in ToSet(fds) : c \in ToSet(callbacks[f])}
        at(c) == IF timeout[c] > now \/ now = MaxTime THEN timeout[c]
                 ELSE now + 1
    IN  IF cbs = {} THEN Never
        ELSE CHOOSE t \in {at(c) : c \in cbs} : \A c \in cbs : t <= at(c)

(* Faulty variant: a onetime loop goes on until it processed something.    *)
TimeoutsDoneEndless ==
    /\ At("timeouts") /\ Top.fd = NoFd
    /\ IF stop \/ (Top.onetime /\ Top.processed)
       THEN Return
       ELSE SetTop([Top EXCEPT !.pc = "wait", !.triggered = {},
                               !.clock = IF phase_out THEN now
                                         ELSE NextTimeout])
    /\ UNCHANGED <<fdVars, timeVars, ready, pipe, stop, phase_out, batch, now,
                   ops, appVars>>

(* A onetime loop that processed something, or that was in epoll_wait      *)
(* already, returns, and so does one that was stopped.  Otherwise the time *)
(* to sleep is calculated and epoll_wait is called.                        *)
TimeoutsDone ==
    /\ At("timeouts") /\ Top.fd = NoFd
    /\ IF stop \/ (Top.onetime /\ (Top.processed \/ Top.loop = 1))
       THEN Return
       ELSE SetTop([Top EXCEPT !.pc = "wait", !.triggered = {},
                               !.clock = IF phase_out THEN now
                                         ELSE NextTimeout])
    /\ UNCHANGED <<fdVars, timeVars, ready, pipe, stop, phase_out, batch, now,
                   ops, appVars>>

---------------------------------------------------------------------------
(* epoll_wait.                                                             *)

(* What epoll reports of f: the level-triggered conditions it watches, and *)
(* errors always.                                                          *)
Reported(f) ==
    IF mask[f] = {} THEN {}
    ELSE IF f = CtrlFd THEN (IF pipe > 0 THEN {"in"} ELSE {})
    ELSE ready[f] \cap (mask[f] \cup {"err"})

(* Faulty variant: several events per call by default.                     *)
BatchSizeTwo == IF max_n_events < 1 THEN 2 ELSE max_n_events

(* crtx_setup_epoll_listener: at least one event is returned per call.     *)
BatchSize == IF max_n_events < 1 THEN 1 ELSE max_n_events

(* epoll_wait returns with events or because of the timeout; the loop ends *)
(* when it was stopped, or with phase_out and no more events.              *)
EpollWait ==
    /\ At("wait")
    /\ LET rdy == {f \in Fds : Reported(f) # {}} IN
          \/ /\ rdy # {}
             /\ \E s \in UNION {[1..n -> rdy] : n \in 1..BatchSize} :
                   /\ IsInjective(s)
                   /\ Len(s) = BatchSize \/ ToSet(s) = rdy
                   /\ batch' = [i \in DOMAIN s |->
                                   [fd |-> s[i], events |-> Reported(s[i])]]
          \/ /\ rdy = {} /\ Top.clock <= now
             /\ batch' = <<>>
    /\ IF stop \/ (batch' = <<>> /\ phase_out)
       THEN Return
       ELSE SetTop([Top EXCEPT !.pc = "events", !.processed = FALSE,
                               !.clock = 0,
                               !.loop = IF Top.onetime THEN @ - 1 ELSE @])
    /\ UNCHANGED <<fdVars, timeVars, ready, pipe, stop, phase_out, now, ops,
                   appVars>>

---------------------------------------------------------------------------
(* Another thread and the environment.                                     *)

(* evloop_stop: the flag, then a request that wakes the loop up.           *)
StopFlag ==
    /\ apc = "idle" /\ stack # <<>>
    /\ stop' = TRUE
    /\ apc' = "stop_write"
    /\ UNCHANGED <<fdVars, timeVars, ready, pipe, phase_out, batch, stack, now,
                   ops, arrivals>>

(* Faulty variant: the request is left out.                                *)
StopWithoutWrite ==
    /\ apc = "stop_write"
    /\ apc' = "stopped"
    /\ UNCHANGED <<fdVars, timeVars, ready, pipe, loopVars, now, ops, arrivals>>

StopWrite ==
    /\ apc = "stop_write" /\ pipe < PipeCap
    /\ pipe' = pipe + 1
    /\ apc' = "stopped"
    /\ UNCHANGED <<fdVars, timeVars, ready, loopVars, now, ops, arrivals>>

(* crtx_init_shutdown by another thread: only the flag.                    *)
InitShutdown ==
    /\ apc = "idle" /\ stack # <<>> /\ ~phase_out
    /\ phase_out' = TRUE
    /\ UNCHANGED <<fdVars, timeVars, ready, pipe, stop, batch, stack, now, ops,
                   appVars>>

(* crtx_evloop_queue_graph or crtx_evloop_trigger_callback.                *)
QueueRequest ==
    /\ apc = "idle" /\ arrivals < MaxArrivals /\ pipe < PipeCap
    /\ pipe' = pipe + 1
    /\ arrivals' = arrivals + 1
    /\ UNCHANGED <<fdVars, timeVars, ready, loopVars, now, ops, apc>>

BecomesReady(f, k) ==
    /\ f # CtrlFd /\ open[f] /\ k \notin ready[f]
    /\ arrivals < MaxArrivals
    /\ arrivals' = arrivals + 1
    /\ ready' = [ready EXCEPT ![f] = @ \cup {k}]
    /\ UNCHANGED <<fdVars, timeVars, pipe, loopVars, now, ops, apc>>

(* Time passes in the kernel, in handlers and between the two readings of  *)
(* the clock; elsewhere it makes no difference.                            *)
Tick ==
    /\ now < MaxTime
    /\ At("wait") \/ At("handler") \/ At("timeouts")
    /\ now' = now + 1
    /\ UNCHANGED <<fdVars, timeVars, ready, pipe, loopVars, ops, appVars>>

---------------------------------------------------------------------------
LoopStep ==
    \/ NextEvent \/ EventsDone \/ Dispatch \/ HandlerReturns \/ ScanTimeout
    \/ TimeoutsDone \/ EpollWait

Next ==
    \/ \E c \in Cbs :
          \/ crtx_evloop_enable_cb(c) \/ crtx_evloop_disable_cb(c)
          \/ crtx_evloop_remove_cb(c) \/ crtx_evloop_update_default_fd(c)
          \/ crtx_evloop_disable_timeout(c)
          \/ \E d \in {0, 1} : crtx_evloop_set_timeout_rel(c, d)
    \/ \E f \in Fds : crtx_evloop_handle_fd_closed(f)
                       \/ crtx_shutdown_listener(f) \/ ReleaseListener(f)
    \/ HandlerInitShutdown
    \/ \E onetime \in BOOLEAN : StartLoop(onetime)
    \/ LoopStep
    \/ StopFlag \/ StopWrite \/ InitShutdown \/ QueueRequest
    \/ \E f \in Fds, k \in {"in", "out", "err"} : BecomesReady(f, k)
    \/ Tick

Spec == Init /\ [][Next]_vars

(* The loop thread and the other thread are scheduled, handlers return and *)
(* time passes.                                                            *)
FairSpec == Spec /\ WF_vars(LoopStep) /\ WF_vars(StopWrite) /\ SF_vars(Tick)

---------------------------------------------------------------------------
(* Properties.                                                             *)

(* Until the loop is stopped, the kernel watches every open descriptor for *)
(* exactly what its active callbacks want, whatever sequence of enable,    *)
(* disable, remove, close and update led there; fd_added says whether it   *)
(* does, and evloop->fds, which the timeouts are taken from, has it once.  *)
(* A descriptor of which no callback was ever enabled is not watched.      *)
WatchedAsWanted ==
    /\ IsInjective(fds)
    /\ ~stop => \A f \in Fds :
          /\ open[f] => mask[f] = IF evloop[f] THEN Wanted(f, active, callbacks)
                                  ELSE {}
          /\ fd_added[f] <=> mask[f] # {}
          /\ fd_added[f] => f \in ToSet(fds)

(* An entry that is freed while no loop goes through its callbacks is      *)
(* never followed later, neither in the events that epoll_wait returned,   *)
(* to whichever of the nested loops, nor in the list of timeouts.  That    *)
(* the application frees nothing a loop stands on is its duty, not shown   *)
(* here: epoll.c goes on with el_cb->ll.next (FreesInUse).  Of a loop that *)
(* is being stopped the property is not true: events that a nested loop    *)
(* leaves behind are processed by the outer one.                           *)
NoStaleEntry ==
    /\ ~stop =>
          /\ \A i \in DOMAIN batch : ~released[batch[i].fd]
          /\ \A i \in DOMAIN stack :
                stack[i].fd # NoFd => ~released[stack[i].fd]
    /\ \A f \in ToSet(fds) : ~released[f]

(* A stopped loop ends, also when it sleeps in epoll_wait without a        *)
(* timeout while another thread stops it, and with it all nested loops.    *)
StopEndsLoop == stop ~> stack = <<>>

(* The loop does not sleep through a timeout: while a loop runs, a timeout *)
(* that is enabled on a watched descriptor is cleared when it is due, or   *)
(* it is disabled, or the descriptor is not watched any more.              *)
TimeoutExpires ==
    \A c \in Cbs :
        (stack # <<>> /\ timeout_enabled[c] /\ FdOf[c] \in ToSet(fds)) ~>
            \/ ~timeout_enabled[c]
            \/ FdOf[c] \notin ToSet(fds) \/ c \notin ToSet(callbacks[FdOf[c]])
            \/ stack = <<>>

(* evloop.h on phase_out: "if set, keep processing events but shutdown if  *)
(* no more events available".                                              *)
PhaseOutEndsLoop == phase_out ~> stack = <<>>

=============================================================================
