----------------------------- MODULE MCServices -----------------------------
(***************************************************************************)
(* The listeners and helpers around the core, for TLC.  Each runs on its   *)
(* own: a behaviour exercises one of them (part) and the others keep their *)
(* initial state, in which none of their fair actions is enabled.          *)
(***************************************************************************)
EXTENDS Root, Timer, WriteQueue, StateMachine, Sdbus, Signals, Fork, Popen, TLC

VARIABLE part   \* the component of this behaviour

serviceVars ==
    <<rootVars, timerVars, wqVars, smVars, sdbusVars, sigVars, forkVars, popenVars>>

(* Init of a component that is not exercised is one state.                 *)
ServicesInit ==
    /\ part \in {"root", "timer", "writequeue", "sm", "sdbus", "signals", "fork", "popen"}
    /\ RootInit
    /\ TimerInit
    /\ WriteQueueInit
    /\ StateMachineInit
    /\ SdbusInit
    /\ SignalsInit /\ (part # "signals" => disp = [s \in Sigs |-> "dfl"])
    /\ ForkInit
    /\ PopenInit

(* The other components keep their state.                                  *)
Only(p) ==
    /\ part = p
    /\ IF p = "root" THEN TRUE ELSE UNCHANGED rootVars
    /\ IF p = "timer" THEN TRUE ELSE UNCHANGED timerVars
    /\ IF p = "writequeue" THEN TRUE ELSE UNCHANGED wqVars
    /\ IF p = "sm" THEN TRUE ELSE UNCHANGED smVars
    /\ IF p = "sdbus" THEN TRUE ELSE UNCHANGED sdbusVars
    /\ IF p = "signals" THEN TRUE ELSE UNCHANGED sigVars
    /\ IF p = "fork" THEN TRUE ELSE UNCHANGED forkVars
    /\ IF p = "popen" THEN TRUE ELSE UNCHANGED popenVars

ServicesNext ==
    /\ \/ Only("root") /\ RootNext
       \/ Only("timer") /\ TimerNext
       \/ Only("writequeue") /\ WriteQueueNext
       \/ Only("sm") /\ StateMachineNext
       \/ Only("sdbus") /\ SdbusNext
       \/ Only("signals") /\ SignalsNext
       \/ Only("fork") /\ ForkNext
       \/ Only("popen") /\ PopenNext
    /\ UNCHANGED part

ServicesSpec ==
    /\ ServicesInit /\ [][ServicesNext]_<<serviceVars, part>>
    /\ RootFairness
    /\ TimerFairness
    /\ WriteQueueFairness
    /\ StateMachineFairness
    /\ SdbusFairness
    /\ SignalsFairness
    /\ ForkFairness
    /\ PopenFairness

(* File 3 has the plugin name of file 2.                                   *)
MCPluginName == [f \in PluginFiles |-> IF f = 3 THEN 2 ELSE f]

MCSigsOf ==
    [l \in SigLstnrs |-> CASE l = "std" -> {"TERM"}
                           [] l = "app" -> {"TERM", "CHLD"}
                           [] OTHER -> {"CHLD"}]

(* signals.c, fork.c and popen.c: a caught signal ends the loop, and the   *)
(* end of every child reaches its listener.                                *)
EndsAreReported == CaughtSignalEndsLoop /\ EndIsReported /\ ResultIsReported

(* sdbus.c: calls return, and received messages do not wait for others.    *)
BusCallsEnd == CallReturns /\ ReadIsProcessed

(* What was handed to the event loop is done: functions in the self pipe,  *)
(* items of a write queue, oneshot and retry timers, and the release of a  *)
(* state machine.                                                          *)
QueuedWorkIsDone ==
    /\ QueuedIsCalled /\ AddedIsSent
    /\ OneshotIsFreed /\ TargetIsRetried
    /\ ReleaseIsCalled

=============================================================================
