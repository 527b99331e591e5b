------------------------------- MODULE Sdbus -------------------------------
(***************************************************************************)
(* The D-Bus listener (src/sdbus.c) on top of sd-bus.  The event loop      *)
(* calls fd_event_handler, which calls sd_bus_process until nothing is     *)
(* left and then asks the bus for its timeout; worker threads call         *)
(* crtx_sdbus_call, which sends a message, triggers the handler and waits  *)
(* for the callback.  The lock of the listener's source (sbLoop.pc =       *)
(* "callback" is its time inside a callback) keeps the bus consistent;     *)
(* crtx_sdbus_get_objects does not take it.                                *)
(*                                                                         *)
(* sd-bus is external: sd_bus_process handles one thing per call, first    *)
(* the calls that are due, then unsent messages, then received ones; the   *)
(* bus reads all that its socket holds when its own queue is empty; its    *)
(* timeout is "now" while messages are queued.                             *)
(***************************************************************************)
EXTENDS Naturals, Sequences, FiniteSets

CONSTANTS
    Callers,    \* threads that call crtx_sdbus_call
    Objects,    \* the calls of crtx_sdbus_get_objects
    Signal,     \* a message that is not a reply
    MaxPerRun,  \* process_max_per_run, 0 for no limit
    MaxUnderWay,  \* bound: calls under way at the same time
    MaxMsgs,    \* bound: messages from the bus under way
    MaxFails,   \* how often sd_bus_process fails
    Quits       \* crtx_sdbus_get_objects may be left by crtx_init_shutdown

ASSUME SdbusAssumption ==
    /\ Callers \cap Objects = {}
    /\ Signal \notin Callers \cup Objects
    /\ MaxPerRun \in Nat
    /\ MaxMsgs \in Nat /\ MaxUnderWay \in Nat /\ MaxFails \in Nat
    /\ Quits \in BOOLEAN

VARIABLES
    sbCall,   \* per call: the caller, its slot, the signal, its deadline
    sbOut,    \* messages the bus could not send yet
    sbPeer,   \* calls the peer got and did not answer
    sbSock,   \* messages in the socket
    sbRq,     \* messages the bus has read
    sbLoop    \* the event loop: its step, messages processed, timeout (now or
              \* when a call of "for" is due), call of the callback, triggers;
              \* the socket has an error, fd_error_handler runs, failures of
              \* sd_bus_process

sdbusVars == <<sbCall, sbOut, sbPeer, sbSock, sbRq, sbLoop>>

Calls == Callers \cup Objects

NoBusCall == [pc |-> "idle", slot |-> FALSE, active |-> FALSE, due |-> FALSE]

SdbusInit ==
    /\ sbCall = [c \in Calls |-> NoBusCall]
    /\ sbOut = <<>>
    /\ sbPeer = {}
    /\ sbSock = <<>>
    /\ sbRq = <<>>
    /\ sbLoop = [pc |-> "poll", n |-> 0, now |-> FALSE, for |-> {}, cb |-> {},
                 trigs |-> 0, hup |-> FALSE, err |-> FALSE, fails |-> 0]

SourceIsFree == sbLoop.pc # "callback"

---------------------------------------------------------------------------
(* crtx_sdbus_call and crtx_sdbus_get_objects.                             *)

(* Serial numbers tell the calls of a caller apart; here the next one      *)
(* begins when nothing of the last is under way.                           *)
UnderWay(c) ==
    \/ sbCall[c].slot \/ c \in sbPeer
    \/ \E i \in DOMAIN sbOut : sbOut[i] = c
    \/ \E i \in DOMAIN (sbRq \o sbSock) : (sbRq \o sbSock)[i] = c

(* sd_bus_call_async: the message is sent at once, or queued behind others *)
(* or because the socket is full; or it fails.  crtx_sdbus_call holds the  *)
(* source lock and returns the error, crtx_sdbus_get_objects does neither  *)
(* and waits for an answer that never comes.                               *)
CallAsync(c) ==
    /\ sbCall[c].pc = "idle"
    /\ ~UnderWay(c)
    /\ sbLoop.trigs = 0
    /\ Cardinality({d \in Calls : sbCall[d].pc # "idle" \/ UnderWay(d)}) < MaxUnderWay
    /\ c \in Callers => SourceIsFree
    /\ \/ /\ sbCall' = [sbCall EXCEPT ![c] = [NoBusCall EXCEPT !.pc = "called", !.slot = TRUE]]
          /\ \/ sbOut = <<>> /\ sbPeer' = sbPeer \cup {c} /\ UNCHANGED sbOut
             \/ sbOut' = Append(sbOut, c) /\ UNCHANGED sbPeer
       \/ /\ sbCall' = [sbCall EXCEPT ![c].pc = IF c \in Callers THEN "finish" ELSE "called"]
          /\ UNCHANGED <<sbOut, sbPeer>>
    /\ UNCHANGED <<sbSock, sbRq, sbLoop>>

(* Faulty variant: the handler is not triggered.                           *)
TriggerNot(l) == l

(* crtx_sdbus_trigger_event_processing.                                    *)
TriggerProcessing(l) == [l EXCEPT !.trigs = @ + 1]

(* The caller of crtx_sdbus_call triggers the handler and waits, the one   *)
(* of crtx_sdbus_get_objects calls crtx_loop_onetime at once.              *)
CallWaits(c) ==
    /\ sbCall[c].pc = "called"
    /\ sbCall' = [sbCall EXCEPT ![c].pc = "waiting"]
    /\ sbLoop' = IF c \in Objects THEN sbLoop ELSE TriggerProcessing(sbLoop)
    /\ UNCHANGED <<sbOut, sbPeer, sbSock, sbRq>>

(* The signal is active, or *reply is set.  With single_threaded the wait  *)
(* also ends when crtx_loop_onetime fails; crtx_sdbus_get_objects leaves   *)
(* when the library shuts down.                                            *)
CallWakes(c) ==
    /\ sbCall[c].pc = "waiting"
    /\ sbCall[c].active \/ c \in Callers \/ Quits
    /\ sbCall' = [sbCall EXCEPT ![c].pc = "finish"]
    /\ UNCHANGED <<sbOut, sbPeer, sbSock, sbRq, sbLoop>>

(* Faulty variant: the slot is dropped without the source lock.            *)
MayFinishAlways(c) == TRUE

(* crtx_sdbus_call drops its slot under the source lock, so it does not    *)
(* return while its callback runs; crtx_sdbus_get_objects runs the loop.   *)
MayFinish(c) == SourceIsFree

(* The frame of the caller ends.  Without a slot the call of               *)
(* crtx_sdbus_get_objects stays with the bus.                              *)
CallReturn(c) ==
    /\ sbCall[c].pc = "finish"
    /\ MayFinish(c)
    /\ sbCall' = [sbCall EXCEPT ![c] =
           [NoBusCall EXCEPT !.slot = (c \in Objects /\ sbCall[c].slot),
                             !.due = (c \in Objects /\ sbCall[c].due)]]
    /\ UNCHANGED <<sbOut, sbPeer, sbSock, sbRq, sbLoop>>

(* The time of a pending call passes.                                      *)
Deadline(c) ==
    /\ sbCall[c].slot
    /\ ~sbCall[c].due
    /\ sbCall' = [sbCall EXCEPT ![c].due = TRUE]
    /\ UNCHANGED <<sbOut, sbPeer, sbSock, sbRq, sbLoop>>

---------------------------------------------------------------------------
(* The event loop.                                                         *)

(* fd_event_handler is called: the socket is readable, the timeout passed, *)
(* or there is a trigger.                                                  *)
HandlerStarts ==
    /\ sbLoop.pc = "poll"
    /\ \/ /\ \/ sbSock # <<>> /\ ~sbLoop.hup
             \/ sbLoop.now \/ \E c \in sbLoop.for : sbCall[c].due
          /\ sbLoop' = [sbLoop EXCEPT !.pc = "process", !.n = 0, !.err = FALSE]
       \/ /\ sbLoop.trigs > 0
          /\ sbLoop' = [sbLoop EXCEPT !.pc = "process", !.n = 0, !.err = FALSE, !.trigs = @ - 1]
    /\ UNCHANGED <<sbCall, sbOut, sbPeer, sbSock, sbRq>>

(* fd_error_handler is called: the socket has an error.  The file          *)
(* descriptor is not removed, so this happens again and again.             *)
ErrorHandlerStarts ==
    /\ sbLoop.pc = "poll"
    /\ sbLoop.hup
    /\ sbLoop' = [sbLoop EXCEPT !.pc = "process", !.err = TRUE]
    /\ UNCHANGED <<sbCall, sbOut, sbPeer, sbSock, sbRq>>

(* After a step of sd_bus_process that did something; fd_error_handler     *)
(* has no limit.                                                           *)
Processed(l) ==
    [l EXCEPT !.n = IF MaxPerRun > 0 /\ ~l.err THEN @ + 1 ELSE 0,
              !.cb = {},
              !.pc = IF MaxPerRun > 0 /\ ~l.err /\ l.n + 1 >= MaxPerRun THEN "update"
                     ELSE "process"]

(* The loop over sd_bus_process ends; only fd_event_handler asks the bus   *)
(* for its timeout afterwards.                                             *)
Stopped(l) == [l EXCEPT !.pc = IF l.err THEN "poll" ELSE "update"]

DueCalls == {c \in Calls : sbCall[c].slot /\ sbCall[c].due}

(* async_signal_cb or sync_cb runs for call c: reply and signal are set in *)
(* the frame of the caller.                                                *)
RunCallback(c) ==
    /\ sbCall' = [sbCall EXCEPT ![c].slot = FALSE, ![c].due = FALSE, ![c].active = TRUE]
    /\ sbLoop' = [sbLoop EXCEPT !.pc = "callback", !.cb = {c}]

ProcessDue ==
    /\ sbLoop.pc = "process"
    /\ \E c \in DueCalls : RunCallback(c)
    /\ UNCHANGED <<sbOut, sbPeer, sbSock, sbRq>>

(* crtx_send_signal and the callback end, the source lock is dropped.      *)
CallbackEnds ==
    /\ sbLoop.pc = "callback"
    /\ sbLoop' = Processed(sbLoop)
    /\ UNCHANGED <<sbCall, sbOut, sbPeer, sbSock, sbRq>>

(* A queued message is sent.  While the socket is full the bus goes on     *)
(* with what it has received.                                              *)
ProcessSend ==
    /\ sbLoop.pc = "process"
    /\ DueCalls = {}
    /\ sbOut # <<>>
    /\ sbPeer' = sbPeer \cup {Head(sbOut)}
    /\ sbOut' = Tail(sbOut)
    /\ sbLoop' = Processed(sbLoop)
    /\ UNCHANGED <<sbCall, sbSock, sbRq>>

(* A received message: a reply whose slot is gone is dropped; the callbacks *)
(* of matches add events to the graph of the listener.                     *)
ProcessMsg ==
    /\ sbLoop.pc = "process"
    /\ DueCalls = {}
    /\ sbRq \o sbSock # <<>>
    /\ LET q == IF sbRq = <<>> THEN sbSock ELSE sbRq
           msg == Head(q)
       IN  /\ sbRq' = Tail(q)
           /\ sbSock' = IF sbRq = <<>> THEN <<>> ELSE sbSock
           /\ IF msg \in Calls /\ sbCall[msg].slot THEN RunCallback(msg)
              ELSE sbLoop' = Processed(sbLoop) /\ UNCHANGED sbCall
    /\ UNCHANGED <<sbOut, sbPeer>>

(* sd_bus_process returns 0.                                               *)
ProcessNothing ==
    /\ sbLoop.pc = "process"
    /\ DueCalls = {} /\ sbRq \o sbSock = <<>>
    /\ sbLoop' = Stopped(sbLoop)
    /\ UNCHANGED <<sbCall, sbOut, sbPeer, sbSock, sbRq>>

(* sd_bus_process returns an error.                                        *)
ProcessFails ==
    /\ sbLoop.pc = "process"
    /\ sbLoop.fails < MaxFails
    /\ sbLoop' = [Stopped(sbLoop) EXCEPT !.fails = @ + 1]
    /\ UNCHANGED <<sbCall, sbOut, sbPeer, sbSock, sbRq>>

(* Faulty variant: messages the bus has read do not count.                 *)
TimeoutNowNever == FALSE

(* sd_bus_get_timeout while messages are queued.                           *)
TimeoutNow == sbRq # <<>>

(* update_evloop_settings: the timeout is set; changed flags are reported  *)
(* and not applied, so the loop never waits for a writable socket.  The    *)
(* errors of sd_bus_get_events and sd_bus_get_timeout, after which the old *)
(* timeout stays, are left out.                                            *)
UpdateEvloopSettings ==
    /\ sbLoop.pc = "update"
    /\ sbLoop' = [sbLoop EXCEPT !.pc = "poll", !.now = TimeoutNow,
                                !.for = {c \in Calls : sbCall[c].slot}]
    /\ UNCHANGED <<sbCall, sbOut, sbPeer, sbSock, sbRq>>

---------------------------------------------------------------------------
(* The other side of the bus.                                              *)

BusHasRoom == Len(sbSock) + Len(sbRq) < MaxMsgs

(* The peer answers a call, or never does.                                 *)
PeerReplies(c) ==
    /\ c \in sbPeer
    /\ sbPeer' = sbPeer \ {c}
    /\ \/ BusHasRoom /\ sbSock' = Append(sbSock, c)
       \/ UNCHANGED sbSock
    /\ UNCHANGED <<sbCall, sbOut, sbRq, sbLoop>>

(* The connection breaks.                                                  *)
SocketFails ==
    /\ ~sbLoop.hup
    /\ sbLoop' = [sbLoop EXCEPT !.hup = TRUE]
    /\ UNCHANGED <<sbCall, sbOut, sbPeer, sbSock, sbRq>>

(* A signal that a match asked for.                                        *)
BusSignals ==
    /\ BusHasRoom
    /\ sbSock' = Append(sbSock, Signal)
    /\ UNCHANGED <<sbCall, sbOut, sbPeer, sbRq, sbLoop>>

SdbusNext ==
    \/ HandlerStarts \/ ErrorHandlerStarts \/ ProcessDue \/ CallbackEnds \/ ProcessSend
    \/ ProcessMsg \/ ProcessNothing \/ ProcessFails \/ UpdateEvloopSettings
    \/ BusSignals \/ SocketFails
    \/ \E c \in Calls :
          \/ CallAsync(c) \/ CallWaits(c) \/ CallWakes(c) \/ CallReturn(c)
          \/ Deadline(c) \/ PeerReplies(c)

(* The event loop and the callers run, time passes; the peer owes nothing. *)
SdbusFairness ==
    /\ WF_sdbusVars(HandlerStarts \/ ErrorHandlerStarts) /\ WF_sdbusVars(CallbackEnds)
    /\ WF_sdbusVars(ProcessDue \/ ProcessSend \/ ProcessMsg \/ ProcessNothing)
    /\ WF_sdbusVars(UpdateEvloopSettings)
    /\ \A c \in Callers :
          /\ WF_sdbusVars(CallWaits(c)) /\ WF_sdbusVars(Deadline(c))
          /\ WF_sdbusVars(sbCall[c].active /\ CallWakes(c)) /\ SF_sdbusVars(CallReturn(c))

SdbusSpec == SdbusInit /\ [][SdbusNext]_sdbusVars /\ SdbusFairness

---------------------------------------------------------------------------
(* Properties.                                                             *)

BusMsgs == Calls \cup {Signal}

SdbusTypeOK ==
    /\ sbCall \in [Calls -> [pc : {"idle", "called", "waiting", "finish"}, slot : BOOLEAN,
                             active : BOOLEAN, due : BOOLEAN]]
    /\ sbOut \in Seq(Calls) /\ sbPeer \subseteq Calls
    /\ sbSock \in Seq(BusMsgs) /\ sbRq \in Seq(BusMsgs)
    /\ sbLoop \in [pc : {"poll", "process", "callback", "update"}, n : Nat,
                   now : BOOLEAN, for : SUBSET Calls, cb : SUBSET Calls, trigs : Nat,
                   hup : BOOLEAN, err : BOOLEAN, fails : Nat]

(* sdbus.c, crtx_sdbus_call: the callback writes to the stack frame of the *)
(* caller.  The frame lives as long as the bus may call it, and until the  *)
(* callback that woke the caller has ended.                                *)
FrameOutlivesCallback ==
    SdbusTypeOK /\ \A c \in Calls : (sbCall[c].slot \/ c \in sbLoop.cb) => sbCall[c].pc # "idle"

(* sdbus.c, crtx_sdbus_call: a call returns, with the answer or with the   *)
(* error of its timeout, although messages get lost, sd_bus_process fails  *)
(* now and then, the connection breaks, and the loop learns of the timeout *)
(* only from the handler that the call triggers.                           *)
CallReturns == \A c \in Callers : sbCall[c].pc = "waiting" ~> sbCall[c].pc = "idle"

(* sdbus.c, fd_event_handler: what the bus has read is processed although  *)
(* the socket is not readable any more and process_max_per_run ended the   *)
(* loop before the queue was empty.  Calls come before received messages,  *)
(* so this is for when no more are made.                                   *)
ReadIsProcessed ==
    <>[](\A c \in Calls : sbCall[c].pc = "idle") => []<>(sbRq = <<>>)

=============================================================================
