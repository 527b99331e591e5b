------------------------------- MODULE Fork -------------------------------
(***************************************************************************)
(* Child processes: the fork listener (src/fork.c), the child handlers of  *)
(* src/signals.c, and what the child does with the library it inherited    *)
(* (crtx_shutdown_after_fork, crtx_init_shutdown and the second half of    *)
(* crtx_loop in src/core.c).                                               *)
(*                                                                         *)
(* crtx_start_listener registers a child handler and triggers do_fork      *)
(* through the control pipe of the event loop; a trigger is not taken back *)
(* when the listener is stopped.  SIGCHLD reaches sigchild_event_handler   *)
(* as an event (chld counts those under way); signals may be merged.       *)
(***************************************************************************)
EXTENDS Naturals, FiniteSets

CONSTANTS
    Forks,       \* fork listeners
    Pids,        \* process ids of children; 0 is "no child"
    Fds,         \* file descriptors the parent watches with epoll
    MaxChld,     \* bound: SIGCHLD events under way
    Threaded,    \* the event loop runs in a thread of its own
    EarlyStops   \* the application may stop a listener before do_fork ran

ASSUME ForkAssumption ==
    /\ Pids \subseteq Nat \ {0}
    /\ Forks \cap Pids = {}
    /\ MaxChld \in Nat
    /\ Threaded \in BOOLEAN
    /\ EarlyStops \in BOOLEAN

VARIABLES
    flst,      \* the fork listeners in the parent
    handlers,  \* sigchld_cbs: the listeners whose fork_sigchld_cb is called
    chld,      \* SIGCHLD events on their way to sigchild_event_handler
    kid,       \* the children
    watched,   \* the epoll instance that parent and children share
    reports    \* events CHILD_STOPPED or CHILD_KILLED, by listener and pid

forkVars == <<flst, handlers, chld, kid, watched, reports>>

NoKid == [st |-> "unused", of |-> {}, term |-> FALSE, stage |-> "none",
          pids |-> [f \in Forks |-> 0], close |-> FALSE]

ForkInit ==
    /\ flst = [f \in Forks |->
                 [on |-> FALSE, trig |-> 0, pid |-> 0, stopped |-> FALSE, fresh |-> FALSE]]
    /\ handlers = {}
    /\ chld = 0
    /\ kid = [p \in Pids |-> NoKid]
    /\ watched = Fds
    /\ reports = {}

---------------------------------------------------------------------------
(* The parent.                                                             *)

(* Faulty variant: CRTX_FORK_CHILD_STOPPED of an earlier child stays.      *)
ClearedKeepsFlag(l) == [l EXCEPT !.pid = 0, !.fresh = FALSE]

(* The last assignments of start_listener.                                 *)
Cleared(l) == [l EXCEPT !.pid = 0, !.stopped = FALSE, !.fresh = FALSE]

(* The application runs in the thread of the event loop: while it is in    *)
(* start_listener the loop does nothing else.                              *)
LoopIsFree == Threaded \/ \A f \in Forks : ~flst[f].fresh

(* start_listener: the handler is registered, do_fork triggered, and then  *)
(* pid and flag are cleared, in another thread perhaps too late.           *)
StartFork(f) ==
    /\ ~flst[f].on
    /\ \A g \in Forks : ~flst[g].fresh
    /\ flst[f].trig < 2
    /\ \E p \in Pids : kid[p].st = "unused"
    /\ flst' = [flst EXCEPT ![f].on = TRUE, ![f].trig = @ + 1, ![f].fresh = TRUE]
    /\ handlers' = handlers \cup {f}
    /\ UNCHANGED <<chld, kid, watched, reports>>

StartForkEnds(f) ==
    /\ flst[f].fresh
    /\ flst' = [flst EXCEPT ![f] = Cleared(@)]
    /\ UNCHANGED <<handlers, chld, kid, watched, reports>>

(* Faulty variant: the child keeps the process ids of its siblings.        *)
ChildPidsInherited == [f \in Forks |-> flst[f].pid]

(* do_fork in the child: the fork listeners forget their children.         *)
ChildPids == [f \in Forks |-> 0]

(* do_fork: the parent learns the pid, the child starts with its copy of   *)
(* the listeners.  fork() may fail; then the listener has no child.        *)
DoFork(f) ==
    /\ flst[f].trig > 0
    /\ LoopIsFree
    /\ \/ \E p \in Pids :
             /\ kid[p].st = "unused"
             /\ kid' = [kid EXCEPT ![p] = [NoKid EXCEPT !.st = "running", !.of = {f},
                                               !.stage = "forked", !.pids = ChildPids]]
             /\ flst' = [flst EXCEPT ![f].trig = @ - 1, ![f].pid = p]
       \/ /\ flst' = [flst EXCEPT ![f].trig = @ - 1, ![f].pid = 0]
          /\ UNCHANGED kid
    /\ UNCHANGED <<handlers, chld, watched, reports>>

(* stop_listener of fork.c: the child is asked to end and the handler is   *)
(* removed, with the last one the SIGCHLD listener.                        *)
StopFork(f) ==
    /\ flst[f].on
    /\ LoopIsFree
    /\ flst[f].trig > 0 => EarlyStops
    /\ kid' = [p \in Pids |->
                 IF p = flst[f].pid /\ ~flst[f].stopped THEN [kid[p] EXCEPT !.term = TRUE]
                 ELSE kid[p]]
    /\ flst' = [flst EXCEPT ![f].on = FALSE]
    /\ handlers' = handlers \ {f}
    /\ UNCHANGED <<chld, watched, reports>>

(* A child ends, by itself or because of SIGTERM.  Without a handler the   *)
(* parent gets no event; one that is under way may stand for this too.     *)
ChildEnds(p) ==
    /\ kid[p].st = "running"
    /\ kid' = [kid EXCEPT ![p].st = "zombie"]
    /\ IF handlers = {} THEN UNCHANGED chld
       ELSE chld' \in {chld, chld + 1} \cap 1..MaxChld
    /\ UNCHANGED <<flst, handlers, watched, reports>>

(* Faulty variant: waitpid() is called once for a signal.                  *)
ReapedOne(zombies) == {{p} : p \in zombies}

(* The loop around waitpid(WNOHANG): all zombies, whichever they are.      *)
Reaped(zombies) == {zombies}

(* sigchild_event_handler and, for every child that is reaped,             *)
(* fork_sigchld_cb of every handler: the listener of the child is stopped  *)
(* and an event is added to its graph.                                     *)
SigchldHandler ==
    /\ chld > 0
    /\ LoopIsFree
    /\ chld' = chld - 1
    /\ LET zombies == {p \in Pids : kid[p].st = "zombie"}
       IN  IF handlers = {} \/ zombies = {}
           THEN UNCHANGED <<flst, handlers, kid, reports>>
           ELSE \E R \in Reaped(zombies) :
                   LET hit == {f \in handlers : flst[f].pid \in R}
                   IN  /\ kid' = [p \in Pids |-> IF p \in R THEN [kid[p] EXCEPT !.st = "reaped"]
                                                 ELSE kid[p]]
                       /\ flst' = [f \in Forks |->
                             IF f \in hit THEN [flst[f] EXCEPT !.stopped = TRUE, !.on = FALSE]
                             ELSE flst[f]]
                       /\ handlers' = handlers \ hit
                       /\ reports' = reports \cup {<<f, flst[f].pid>> : f \in hit}
    /\ UNCHANGED watched

---------------------------------------------------------------------------
(* A child whose listener has reinit_immediately unset.                    *)

(* Faulty variant: after_fork_close is set when the callbacks are off.     *)
ForkCloseLate(p) == kid[p].close

(* crtx_shutdown_after_fork: after_fork_close is set first, so disabling   *)
(* the callbacks of the listeners does not call epoll_ctl.                 *)
ForkClose(p) == TRUE

ChildClosesLoop(p) ==
    /\ kid[p].st = "running"
    /\ kid[p].stage = "forked"
    /\ watched' = IF ForkClose(p) THEN watched ELSE {}
    /\ kid' = [kid EXCEPT ![p].stage = "closing", ![p].close = TRUE]
    /\ UNCHANGED <<flst, handlers, chld, reports>>

(* crtx_init_shutdown in the child: the listeners are stopped, the fork    *)
(* listeners among them.                                                   *)
ChildStopsListeners(p) ==
    /\ kid[p].st = "running"
    /\ kid[p].stage = "closing"
    /\ kid' = [q \in Pids |->
                 IF q = p THEN [kid[p] EXCEPT !.stage = "finishing"]
                 ELSE IF \E f \in Forks : kid[p].pids[f] = q /\ ~flst[f].stopped
                 THEN [kid[q] EXCEPT !.term = TRUE, !.of = @ \cup {p}]
                 ELSE kid[q]]
    /\ UNCHANGED <<flst, handlers, chld, watched, reports>>

(* crtx_loop: crtx_finish, crtx_init, reinit_cb and the loop again; the    *)
(* child now runs the application's code.                                  *)
ChildReinits(p) ==
    /\ kid[p].st = "running"
    /\ kid[p].stage = "finishing"
    /\ kid' = [kid EXCEPT ![p].stage = "app"]
    /\ UNCHANGED <<flst, handlers, chld, watched, reports>>

(* A process id that was waited for may be used again.  The old value in   *)
(* a stopped listener is never read and dropped here.                      *)
PidReuse(p) ==
    /\ kid[p].st = "reaped"
    /\ \A f \in Forks : flst[f].pid = p => ~flst[f].on
    /\ kid' = [kid EXCEPT ![p] = NoKid]
    /\ reports' = {r \in reports : r[2] # p}
    /\ flst' = [f \in Forks |-> IF flst[f].pid = p THEN [flst[f] EXCEPT !.pid = 0] ELSE flst[f]]
    /\ UNCHANGED <<handlers, chld, watched>>

ForkNext ==
    \/ SigchldHandler
    \/ \E f \in Forks : StartFork(f) \/ StartForkEnds(f) \/ DoFork(f) \/ StopFork(f)
    \/ \E p \in Pids : \/ ChildEnds(p) \/ ChildClosesLoop(p) \/ ChildStopsListeners(p)
                       \/ ChildReinits(p) \/ PidReuse(p)

(* start_listener ends, and the event loop of the parent keeps running:    *)
(* between two calls of the application it gets to its other events.       *)
ForkFairness ==
    /\ SF_forkVars(SigchldHandler)
    /\ \A f \in Forks : WF_forkVars(StartForkEnds(f))

ForkSpec == ForkInit /\ [][ForkNext]_forkVars /\ ForkFairness

---------------------------------------------------------------------------
(* Properties.                                                             *)

ForkTypeOK ==
    /\ flst \in [Forks -> [on : BOOLEAN, trig : 0..2, pid : Pids \cup {0},
                           stopped : BOOLEAN, fresh : BOOLEAN]]
    /\ handlers \subseteq Forks
    /\ chld \in 0..MaxChld
    /\ \A p \in Pids : kid[p].st \in {"unused", "running", "zombie", "reaped"}
    /\ watched \subseteq Fds
    /\ reports \subseteq Forks \X Pids

(* fork.c, do_fork ("We must not send the terminate signal to the children *)
(* of our parent"), and epoll.c ("it would remove the file handle for the  *)
(* parent process as well"): while a child takes down the listeners it     *)
(* inherited, the parent keeps its watched file descriptors and no sibling *)
(* gets a signal.                                                          *)
ChildLeavesFamilyAlone ==
    /\ watched = Fds
    /\ \A p \in Pids : kid[p].of \cap Pids = {}

(* fork.c, stop_listener: a listener that was stopped has no child left    *)
(* that nobody asked to end.                                               *)
StoppedHasNoChild ==
    \A p \in Pids :
        (kid[p].st = "running" /\ ~kid[p].term) =>
            \E f \in kid[p].of \cap Forks : flst[f].on /\ flst[f].pid = p

(* fork.c, fork_sigchld_cb, and signals.c, sigchild_event_handler: the end *)
(* of a child is reported to the graph of its listener, unless it is       *)
(* stopped, also if several children end and their signals are merged.     *)
EndIsReported ==
    \A f \in Forks, p \in Pids :
        (f \in handlers /\ ~flst[f].fresh /\ flst[f].pid = p /\ kid[p].st = "zombie")
            ~> (<<f, p>> \in reports \/ ~flst[f].on)

(* fork.c: no child is left over, and none harms its family.               *)
ChildrenAreKept == ForkTypeOK /\ ChildLeavesFamilyAlone /\ StoppedHasNoChild

=============================================================================
