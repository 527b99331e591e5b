------------------------------- MODULE Timer -------------------------------
(***************************************************************************)
(* Timer listeners (src/timer.c): the listener around a timerfd, the       *)
(* oneshot timers that free themselves through the self pipe, and the      *)
(* retry timers that start a stopped listener again.                       *)
(*                                                                         *)
(* Target is a listener that stops by itself (as the mqtt listener does    *)
(* when its connection is lost) and then asks for a oneshot timer that     *)
(* starts it (crtx_timer_retry_listener_os); Retry is a periodic           *)
(* crtx_timer_retry_listener.  Every timer is armed with a valid time that *)
(* is not zero, which would disarm it.                                     *)
(***************************************************************************)
EXTENDS Naturals, Sequences, FiniteSets

CONSTANTS
    AppTimers,   \* timers of the application
    Oneshots,    \* memory for oneshot timers
    Retry,       \* the retry timer
    MaxTimerEvents, \* bound: events of a timer that are not processed yet
    MaxStartFails,  \* bound: failing starts of the target
    EarlyRearms     \* a timer is set to expire once while its handler runs

ASSUME TimerAssumption ==
    /\ Retry \notin AppTimers \cup Oneshots
    /\ AppTimers \cap Oneshots = {}
    /\ MaxTimerEvents \in Nat
    /\ MaxStartFails \in Nat
    /\ EarlyRearms \in BOOLEAN

VARIABLES
    tm,       \* the timers: allocated, STARTED, timerfd armed, expired
    tevents,  \* events in the graphs of the timers
    selfq,    \* oneshots that the self pipe will free
    calls,    \* how often the callback of a oneshot was called
    handled,  \* timers whose handler has called back and not returned
    halted,   \* timers that the application stopped or did not start
    target,   \* the target is STARTED
    fails     \* starts of the target that failed

timerVars == <<tm, tevents, selfq, calls, handled, halted, target, fails>>

Timers == AppTimers \cup Oneshots \cup {Retry}

NoTimer == [mem |-> FALSE, on |-> FALSE, armed |-> "off", expired |-> FALSE]

TimerInit ==
    /\ tm = [t \in Timers |->
               IF t \in Oneshots THEN NoTimer ELSE [NoTimer EXCEPT !.mem = TRUE]]
    /\ tevents = [t \in Timers |-> 0]
    /\ selfq = <<>>
    /\ calls = [t \in Oneshots |-> 0]
    /\ handled = {}
    /\ halted = AppTimers \cup {Retry}
    /\ target = FALSE
    /\ fails = 0

(* crtx_setup_timer_listener with crtx_start_listener and update_listener: *)
(* timerfd_settime() forgets an expiration that was not read.              *)
Armed(mode) == [mem |-> TRUE, on |-> TRUE, armed |-> mode, expired |-> FALSE]

(* crtx_timer_get_listener, crtx_timer_rearm: a running timer is set up    *)
(* again, which makes it STOPPED, and starts with the new times.           *)
SetTimer(t, mode) ==
    /\ t \in handled /\ mode = "once" => EarlyRearms
    /\ tm' = [tm EXCEPT ![t] = Armed(mode)]
    /\ halted' = halted \ {t}
    /\ UNCHANGED <<tevents, selfq, calls, handled, target, fails>>

(* crtx_timer_retry_listener and its start.                                *)
StartRetry ==
    /\ ~tm[Retry].on
    /\ SetTimer(Retry, "cyclic")

StopTimer(t) ==
    /\ tm[t].on
    /\ tm' = [tm EXCEPT ![t].on = FALSE]
    /\ halted' = halted \cup {t}
    /\ UNCHANGED <<tevents, selfq, calls, handled, target, fails>>

(* crtx_start_listener of the target: its start callback may fail, which   *)
(* leaves the target STOPPED; a started one stays as it is.                *)
StartTarget ==
    \/ /\ target' = TRUE
       /\ UNCHANGED fails
    \/ /\ ~target
       /\ fails < MaxStartFails
       /\ fails' = fails + 1
       /\ UNCHANGED target

(* Faulty variant: a oneshot timer with an interval.                       *)
OneshotModeCyclic == "cyclic"

(* crtx_timer_oneshot: newtimer.it_interval stays zero.                    *)
OneshotMode == "once"

(* The target stops, and crtx_timer_retry_listener_os asks for a oneshot.  *)
TargetStops ==
    /\ target
    /\ target' = FALSE
    /\ \/ \E t \in Oneshots :
             /\ ~tm[t].mem
             /\ tm' = [tm EXCEPT ![t] = Armed(OneshotMode)]
       \/ UNCHANGED tm
    /\ UNCHANGED <<tevents, selfq, calls, handled, halted, fails>>

(* The application starts the target.                                      *)
TargetStarts ==
    /\ ~target
    /\ StartTarget
    /\ UNCHANGED <<tm, tevents, selfq, calls, handled, halted>>

(* The timerfd becomes readable.                                           *)
TimerExpires(t) ==
    /\ tm[t].armed # "off"
    /\ ~tm[t].expired
    /\ tm' = [tm EXCEPT ![t].expired = TRUE,
                        ![t].armed = IF @ = "once" THEN "off" ELSE @]
    /\ UNCHANGED <<tevents, selfq, calls, handled, halted, target, fails>>

(* Faulty variant: the oneshot is not handed to the self pipe.             *)
FreeLaterNever(t) == selfq

(* timer_oneshot_event_handler: the listener cannot be freed here.         *)
FreeLater(t) == Append(selfq, t)

(* timer_fd_event_handler reads the expirations and calls back: the        *)
(* direct_callback of a oneshot, which starts the target, or an event for  *)
(* the graph of the timer.                                                 *)
TimerHandler(t) ==
    /\ t \notin handled
    /\ tm[t].on
    /\ tm[t].expired
    /\ tm' = [tm EXCEPT ![t].expired = FALSE]
    /\ handled' = handled \cup {t}
    /\ IF t \in Oneshots
       THEN /\ calls' = [calls EXCEPT ![t] = @ + 1]
            /\ selfq' = FreeLater(t)
            /\ StartTarget
            /\ UNCHANGED tevents
       ELSE /\ tevents[t] < MaxTimerEvents
            /\ tevents' = [tevents EXCEPT ![t] = @ + 1]
            /\ UNCHANGED <<calls, selfq, target, fails>>
    /\ UNCHANGED halted

(* Faulty variant: a timer without an interval is not stopped.             *)
AfterExpiryOn(l) == l

(* The end of timer_fd_event_handler: without an interval, which is the    *)
(* one in newtimer now, the listener is stopped.                           *)
AfterExpiry(l) == [l EXCEPT !.on = l.on /\ l.armed = "cyclic"]

(* timer_fd_event_handler goes on after the callback or crtx_add_event,    *)
(* during which the handler of the timer's event may have run.             *)
HandlerEnds(t) ==
    /\ t \in handled
    /\ handled' = handled \ {t}
    /\ tm' = [tm EXCEPT ![t] = AfterExpiry(@)]
    /\ UNCHANGED <<tevents, selfq, calls, halted, target, fails>>

(* The graph of a timer: retry_listener_task starts a stopped target.      *)
TimerTask(t) ==
    /\ tevents[t] > 0
    /\ tevents' = [tevents EXCEPT ![t] = @ - 1]
    /\ IF t = Retry /\ ~target THEN StartTarget ELSE UNCHANGED <<target, fails>>
    /\ UNCHANGED <<tm, selfq, calls, handled, halted>>

(* crtx_selfpipe_cb_free_lstnr, crtx_shutdown_listener, oneshot_free_cb:   *)
(* by the thread of the loop, after it has returned from the handler.      *)
FreeOneshot ==
    /\ selfq # <<>>
    /\ Head(selfq) \notin handled
    /\ selfq' = Tail(selfq)
    /\ tm' = [tm EXCEPT ![Head(selfq)] = NoTimer]
    /\ calls' = [calls EXCEPT ![Head(selfq)] = 0]
    /\ UNCHANGED <<tevents, handled, halted, target, fails>>

TimerNext ==
    \/ TargetStops \/ TargetStarts \/ FreeOneshot
    \/ \E t \in Timers : TimerExpires(t) \/ TimerHandler(t) \/ HandlerEnds(t) \/ TimerTask(t)
    \/ \E t \in AppTimers \cup {Retry} : StopTimer(t)
    \/ \E t \in AppTimers, mode \in {"once", "cyclic"} : SetTimer(t, mode)
    \/ StartRetry

(* Time goes on, and the event loop runs.                                  *)
TimerFairness ==
    /\ WF_timerVars(FreeOneshot)
    /\ \A t \in Timers : /\ WF_timerVars(TimerExpires(t))
                         /\ WF_timerVars(TimerHandler(t))
                         /\ WF_timerVars(HandlerEnds(t))
                         /\ WF_timerVars(TimerTask(t))

TimerSpec == TimerInit /\ [][TimerNext]_timerVars /\ TimerFairness

---------------------------------------------------------------------------
(* Properties.                                                             *)

TimerTypeOK ==
    /\ tm \in [Timers -> [mem : BOOLEAN, on : BOOLEAN, armed : {"off", "once", "cyclic"},
                          expired : BOOLEAN]]
    /\ tevents \in [Timers -> 0..MaxTimerEvents]
    /\ selfq \in Seq(Oneshots)
    /\ handled \subseteq Timers
    /\ halted \subseteq Timers
    /\ target \in BOOLEAN
    /\ fails \in 0..MaxStartFails

(* timer.c, timer_oneshot_event_handler: a oneshot calls its function at   *)
(* most once before its memory is freed, and the self pipe never gets one  *)
(* that is freed, or one twice.                                            *)
OneshotOnce ==
    /\ \A t \in Oneshots : calls[t] <= 1
    /\ \A i \in DOMAIN selfq : tm[selfq[i]].mem
    /\ \A i, j \in DOMAIN selfq : selfq[i] = selfq[j] => i = j

(* timer.c, timer_fd_event_handler: whatever the order of arming,          *)
(* expiring, reading and stopping, a timer that counts as started will     *)
(* fire, has fired, or is in its handler.                                  *)
StartedTimerFires ==
    \A t \in Timers : tm[t].on => tm[t].armed # "off" \/ tm[t].expired \/ t \in handled

(* timer.c, crtx_timer_rearm: the handler of an earlier expiration, which  *)
(* stops a timer without an interval, does not stop a timer that was armed *)
(* again: one that is armed is watched unless the application stopped it.  *)
ArmedTimerIsWatched ==
    \A t \in Timers : tm[t].armed # "off" => tm[t].on \/ t \in halted

(* timer.c: every oneshot timer is freed in the end.                       *)
OneshotIsFreed == \A t \in Oneshots : tm[t].mem ~> ~tm[t].mem

(* timer.c, retry_listener_task: a target that stopped, or whose start     *)
(* failed a number of times, is started again as long as the periodic      *)
(* retry timer is not stopped.                                             *)
TargetIsRetried == ~target ~> (target \/ ~tm[Retry].on)

(* timer.c: no timer is lost and no oneshot is used after its end.         *)
TimersFire == TimerTypeOK /\ OneshotOnce /\ StartedTimerFires /\ ArmedTimerIsWatched

=============================================================================
