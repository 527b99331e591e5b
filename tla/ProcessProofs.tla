--------------------------- MODULE ProcessProofs ---------------------------
(***************************************************************************)
(* Proofs about what surrounds the core: child processes (Fork), the popen *)
(* listener (Popen), crtx_root with the self pipe (Root) and calls on the  *)
(* D-Bus (Sdbus).  What a component asks of the application is a           *)
(* hypothesis of its theorem.                                              *)
(***************************************************************************)
EXTENDS Fork, Popen, Root, Sdbus, SequenceTheorems, FiniteSetTheorems,
        WellFoundedInduction, TLAPS

---------------------------------------------------------------------------
(* Calls on the D-Bus.  While the callback of a call may run, its frame    *)
(* exists: the bus knows the call only until its callback ran, and the     *)
(* frame of crtx_sdbus_get_objects ends only after that.                   *)

BusFrames ==
    /\ \A c \in Calls : sbCall[c].slot \/ c \in sbLoop.cb => sbCall[c].pc # "idle"
    /\ \A c \in Calls : sbCall[c].active => ~sbCall[c].slot
    /\ \A c \in Objects : sbCall[c].pc = "finish" => ~sbCall[c].slot
    /\ sbLoop.cb # {} => sbLoop.pc = "callback"

BusInv == SdbusTypeOK /\ BusFrames

BusCalls == [pc : {"idle", "called", "waiting", "finish"}, slot : BOOLEAN,
             active : BOOLEAN, due : BOOLEAN]

BusLoops == [pc : {"poll", "process", "callback", "update"}, n : Nat,
             now : BOOLEAN, for : SUBSET Calls, cb : SUBSET Calls, trigs : Nat,
             hup : BOOLEAN, err : BOOLEAN, fails : Nat]

LEMMA ProcessedType ==
  ASSUME SdbusTypeOK
  PROVE  /\ Processed(sbLoop) \in BusLoops /\ Processed(sbLoop).cb = {}
         /\ Stopped(sbLoop) \in BusLoops /\ Stopped(sbLoop).cb = sbLoop.cb
  <1>1. sbLoop \in BusLoops
    BY DEF SdbusTypeOK, BusLoops
  <1>2. (IF MaxPerRun > 0 /\ ~sbLoop.err THEN sbLoop.n + 1 ELSE 0) \in Nat
    BY <1>1 DEF BusLoops
  <1>3. Processed(sbLoop) \in BusLoops /\ Processed(sbLoop).cb = {}
    BY <1>1, <1>2 DEF Processed, BusLoops
  <1> QED
    BY <1>1, <1>3 DEF Stopped, BusLoops

(* A step of a caller, which changes its own call only.                    *)
LEMMA BusCallStep ==
  ASSUME BusInv, NEW c \in Calls, NEW x \in BusCalls,
         sbCall' = [sbCall EXCEPT ![c] = x],
         x.slot \/ c \in sbLoop.cb => x.pc # "idle",
         x.active => ~x.slot, c \in Objects /\ x.pc = "finish" => ~x.slot,
         sbLoop'.cb = sbLoop.cb, sbLoop'.pc = sbLoop.pc, sbLoop' \in BusLoops,
         sbOut' \in Seq(Calls), sbPeer' \subseteq Calls, UNCHANGED <<sbSock, sbRq>>
  PROVE  BusInv'
  <1>1. SdbusTypeOK'
    BY DEF BusInv, SdbusTypeOK, BusCalls, BusLoops
  <1>2. /\ \A d \in Calls \ {c} : sbCall'[d] = sbCall[d]
        /\ sbCall'[c] = x
    BY DEF BusInv, SdbusTypeOK
  <1>3. BusFrames'
    BY <1>2 DEF BusInv, BusFrames, Calls
  <1> QED
    BY <1>1, <1>3 DEF BusInv

(* A step of the loop or of the peer that runs no callback.                *)
LEMMA BusLoopStep ==
  ASSUME BusInv, UNCHANGED sbCall, sbLoop' \in BusLoops,
         sbLoop'.cb = {} \/ UNCHANGED sbLoop,
         sbOut' \in Seq(Calls), sbPeer' \subseteq Calls,
         sbSock' \in Seq(BusMsgs), sbRq' \in Seq(BusMsgs)
  PROVE  BusInv'
  <1>1. SdbusTypeOK'
    BY DEF BusInv, SdbusTypeOK, BusLoops
  <1>2. BusFrames'
    BY DEF BusInv, BusFrames
  <1> QED
    BY <1>1, <1>2 DEF BusInv

LEMMA BusCallback ==
  ASSUME BusInv, sbLoop.pc = "process", NEW c \in Calls, sbCall[c].slot, RunCallback(c),
         sbOut' \in Seq(Calls), sbPeer' \subseteq Calls,
         sbSock' \in Seq(BusMsgs), sbRq' \in Seq(BusMsgs)
  PROVE  BusInv'
  <1>1. /\ sbCall' = [sbCall EXCEPT ![c].slot = FALSE, ![c].due = FALSE, ![c].active = TRUE]
        /\ sbLoop' = [sbLoop EXCEPT !.pc = "callback", !.cb = {c}]
    BY DEF RunCallback
  <1>2. sbCall \in [Calls -> BusCalls] /\ sbLoop \in BusLoops
    BY DEF BusInv, SdbusTypeOK, BusCalls, BusLoops
  <1>3. sbCall' \in [Calls -> BusCalls] /\ sbLoop' \in BusLoops
    <2>1. sbCall[c] \in BusCalls
      BY <1>2
    <2>2. [[[sbCall[c] EXCEPT !.slot = FALSE] EXCEPT !.due = FALSE] EXCEPT !.active = TRUE]
             \in BusCalls
      BY <2>1 DEF BusCalls
    <2>3. sbCall' \in [Calls -> BusCalls]
      BY <1>1, <1>2, <2>2
    <2>4. sbLoop' \in BusLoops
      BY <1>1, <1>2 DEF BusLoops
    <2> QED
      BY <2>3, <2>4
  <1>4. SdbusTypeOK'
    BY <1>3 DEF BusInv, SdbusTypeOK, BusCalls, BusLoops
  <1>5. /\ \A d \in Calls \ {c} : sbCall'[d] = sbCall[d]
        /\ ~sbCall'[c].slot /\ sbCall'[c].pc = sbCall[c].pc
        /\ sbLoop'.cb = {c} /\ sbLoop'.pc = "callback"
    BY <1>1, <1>2 DEF BusCalls, BusLoops
  <1>6. BusFrames'
    BY <1>5 DEF BusInv, BusFrames, Calls
  <1> QED
    BY <1>4, <1>6 DEF BusInv

LEMMA BusStep ==
  ASSUME ~Quits, BusInv, [SdbusNext]_sdbusVars
  PROVE  BusInv'
  <1>1. /\ sbCall \in [Calls -> BusCalls] /\ sbLoop \in BusLoops
        /\ sbOut \in Seq(Calls) /\ sbPeer \subseteq Calls
        /\ sbSock \in Seq(BusMsgs) /\ sbRq \in Seq(BusMsgs)
    BY DEF BusInv, SdbusTypeOK, BusCalls, BusLoops
  <1>2. SdbusTypeOK /\ BusFrames
    BY DEF BusInv
  <1>3. CASE UNCHANGED sdbusVars
    BY <1>3 DEF sdbusVars, BusInv, SdbusTypeOK, BusFrames
  <1>4. CASE HandlerStarts
    <2>1. /\ UNCHANGED <<sbCall, sbOut, sbPeer, sbSock, sbRq>> /\ sbLoop.pc = "poll"
          /\ \/ sbLoop' = [sbLoop EXCEPT !.pc = "process", !.n = 0, !.err = FALSE]
             \/ /\ sbLoop.trigs > 0
                /\ sbLoop' = [sbLoop EXCEPT !.pc = "process", !.n = 0, !.err = FALSE,
                                            !.trigs = @ - 1]
      BY <1>4 DEF HandlerStarts
    <2>2. sbLoop.cb = {}
      BY <1>2, <2>1 DEF BusFrames
    <2>3. sbLoop.trigs > 0 => sbLoop.trigs - 1 \in Nat
      BY <1>1 DEF BusLoops
    <2>4. sbLoop' \in BusLoops /\ sbLoop'.cb = {}
      <3>1. CASE sbLoop' = [sbLoop EXCEPT !.pc = "process", !.n = 0, !.err = FALSE]
        BY <1>1, <2>2, <3>1 DEF BusLoops
      <3>2. CASE /\ sbLoop.trigs - 1 \in Nat
                 /\ sbLoop' = [sbLoop EXCEPT !.pc = "process", !.n = 0, !.err = FALSE,
                                             !.trigs = @ - 1]
        BY <1>1, <2>2, <3>2 DEF BusLoops
      <3> QED
        BY <2>1, <2>3, <3>1, <3>2
    <2> QED
      BY <1>1, <2>1, <2>4, BusLoopStep
  <1>5. CASE ProcessDue
    <2>1. PICK c \in DueCalls : RunCallback(c)
      BY <1>5 DEF ProcessDue
    <2> QED
      BY <1>1, <1>5, <2>1, BusCallback DEF ProcessDue, DueCalls
  <1>6. CASE CallbackEnds
    <2>1. sbLoop' \in BusLoops /\ sbLoop'.cb = {}
      BY <1>2, <1>6, ProcessedType DEF CallbackEnds
    <2> QED
      BY <1>1, <1>6, <2>1, BusLoopStep DEF CallbackEnds
  <1>7. CASE ProcessSend
    <2>1. sbLoop' \in BusLoops /\ sbLoop'.cb = {}
      BY <1>2, <1>7, ProcessedType DEF ProcessSend
    <2>2. Head(sbOut) \in Calls /\ Tail(sbOut) \in Seq(Calls)
      BY <1>1, <1>7, HeadTailProperties DEF ProcessSend
    <2> QED
      BY <1>1, <1>7, <2>1, <2>2, BusLoopStep DEF ProcessSend
  <1>8. CASE ProcessMsg
    <2> DEFINE q == IF sbRq = <<>> THEN sbSock ELSE sbRq
               msg == Head(q)
    <2>1. /\ sbLoop.pc = "process" /\ sbRq \o sbSock # <<>>
          /\ sbRq' = Tail(q) /\ sbSock' = IF sbRq = <<>> THEN <<>> ELSE sbSock
          /\ \/ msg \in Calls /\ sbCall[msg].slot /\ RunCallback(msg)
             \/ sbLoop' = Processed(sbLoop) /\ UNCHANGED sbCall
          /\ UNCHANGED <<sbOut, sbPeer>>
      BY <1>8 DEF ProcessMsg
    <2>2. q \in Seq(BusMsgs) /\ q # <<>>
      <3>1. CASE sbRq = <<>>
        <4>1. sbRq \o sbSock = sbSock
          BY <1>1, <3>1, ConcatEmptySeq
        <4> QED
          BY <1>1, <2>1, <3>1, <4>1
      <3>2. CASE sbRq # <<>>
        BY <1>1, <3>2
      <3> QED
        BY <3>1, <3>2
    <2>3. Tail(q) \in Seq(BusMsgs)
      BY <2>2, HeadTailProperties
    <2>4. sbRq' \in Seq(BusMsgs) /\ sbSock' \in Seq(BusMsgs)
      BY <1>1, <2>1, <2>3, EmptySeq
    <2> HIDE DEF q, msg
    <2>5. CASE msg \in Calls /\ sbCall[msg].slot /\ RunCallback(msg)
      BY <1>1, <2>1, <2>4, <2>5, BusCallback
    <2>6. CASE sbLoop' = Processed(sbLoop) /\ UNCHANGED sbCall
      <3>1. sbLoop' \in BusLoops /\ sbLoop'.cb = {}
        BY <1>2, <2>6, ProcessedType
      <3> QED
        BY <1>1, <2>1, <2>4, <2>6, <3>1, BusLoopStep
    <2> QED
      BY <2>1, <2>5, <2>6
  <1>9. CASE ProcessNothing
    <2>1. sbLoop.cb = {} /\ sbLoop' = Stopped(sbLoop)
      BY <1>2, <1>9 DEF BusFrames, ProcessNothing
    <2>2. sbLoop' \in BusLoops /\ sbLoop'.cb = {}
      BY <1>2, <2>1, ProcessedType
    <2> QED
      BY <1>1, <1>9, <2>2, BusLoopStep DEF ProcessNothing
  <1>10. CASE UpdateEvloopSettings
    <2>1. sbLoop.cb = {} /\ sbLoop' = [sbLoop EXCEPT !.pc = "poll", !.now = TimeoutNow,
                                           !.for = {c \in Calls : sbCall[c].slot}]
      BY <1>2, <1>10 DEF BusFrames, UpdateEvloopSettings
    <2>2. TimeoutNow \in BOOLEAN /\ {c \in Calls : sbCall[c].slot} \in SUBSET Calls
      BY DEF TimeoutNow
    <2>3. sbLoop' \in BusLoops /\ sbLoop'.cb = {}
      BY <1>1, <2>1, <2>2 DEF BusLoops
    <2> QED
      BY <1>1, <1>10, <2>3, BusLoopStep DEF UpdateEvloopSettings
  <1>11. CASE BusSignals
    <2>1. sbSock' \in Seq(BusMsgs)
      BY <1>1, <1>11, AppendProperties DEF BusSignals, BusMsgs
    <2> QED
      BY <1>1, <1>11, <2>1, BusLoopStep DEF BusSignals
  <1>12. ASSUME NEW c \in Calls, PeerReplies(c) PROVE BusInv'
    <2>1. Append(sbSock, c) \in Seq(BusMsgs)
      BY <1>1, AppendProperties DEF BusMsgs
    <2> QED
      BY <1>1, <1>12, <2>1, BusLoopStep DEF PeerReplies
  <1>13. ASSUME NEW c \in Calls, CallAsync(c) PROVE BusInv'
    <2>1. /\ UNCHANGED <<sbSock, sbRq, sbLoop>>
          /\ sbCall[c].pc = "idle" /\ ~sbCall[c].slot
      BY <1>13 DEF CallAsync, UnderWay
    <2>2. c \notin sbLoop.cb
      BY <1>2, <2>1 DEF BusFrames
    <2>3. CASE /\ sbCall' = [sbCall EXCEPT ![c] = [NoBusCall EXCEPT !.pc = "called", !.slot = TRUE]]
               /\ \/ sbPeer' = sbPeer \cup {c} /\ UNCHANGED sbOut
                  \/ sbOut' = Append(sbOut, c) /\ UNCHANGED sbPeer
      <3> DEFINE x == [NoBusCall EXCEPT !.pc = "called", !.slot = TRUE]
      <3>1. x \in BusCalls /\ x.pc = "called" /\ ~x.active
        BY DEF BusCalls, NoBusCall
      <3> HIDE DEF x
      <3>2. Append(sbOut, c) \in Seq(Calls)
        BY <1>1, AppendProperties
      <3>3. sbCall' = [sbCall EXCEPT ![c] = x]
        BY <2>3 DEF x
      <3>4. sbOut' \in Seq(Calls) /\ sbPeer' \subseteq Calls
        BY <1>1, <2>3, <3>2
      <3> QED
        BY <1>1, <2>1, <3>1, <3>3, <3>4, BusCallStep
    <2>4. CASE /\ sbCall' = [sbCall EXCEPT ![c].pc = IF c \in Callers THEN "finish" ELSE "called"]
               /\ UNCHANGED <<sbOut, sbPeer>>
      <3>0. PICK p \in {"called", "finish"} : p = IF c \in Callers THEN "finish" ELSE "called"
        OBVIOUS
      <3> DEFINE x == [sbCall[c] EXCEPT !.pc = p]
      <3>1. x \in BusCalls /\ x.pc # "idle" /\ ~x.slot
        BY <1>1, <2>1 DEF BusCalls
      <3>2. sbCall' = [sbCall EXCEPT ![c] = x]
        BY <2>4, <3>0
      <3> HIDE DEF x
      <3> QED
        BY <1>1, <2>1, <2>4, <3>1, <3>2, BusCallStep
    <2> QED
      BY <1>13, <2>3, <2>4 DEF CallAsync
  <1>14. ASSUME NEW c \in Calls, CallWaits(c) PROVE BusInv'
    <2> DEFINE x == [sbCall[c] EXCEPT !.pc = "waiting"]
    <2>1. sbCall' = [sbCall EXCEPT ![c] = x]
      BY <1>14 DEF CallWaits
    <2>2. x \in BusCalls /\ x.pc = "waiting" /\ x.active = sbCall[c].active /\ x.slot = sbCall[c].slot
      BY <1>1 DEF BusCalls
    <2> HIDE DEF x
    <2>3. sbLoop' = sbLoop \/ sbLoop' = [sbLoop EXCEPT !.trigs = sbLoop.trigs + 1]
      BY <1>14 DEF CallWaits, TriggerProcessing
    <2>4. sbLoop' \in BusLoops /\ sbLoop'.cb = sbLoop.cb /\ sbLoop'.pc = sbLoop.pc
      <3>1. sbLoop \in BusLoops
        BY <1>1
      <3>2. sbLoop.trigs + 1 \in Nat
        BY <3>1 DEF BusLoops
      <3>3. CASE sbLoop' = sbLoop
        BY <3>1, <3>3
      <3>4. CASE sbLoop' = [sbLoop EXCEPT !.trigs = sbLoop.trigs + 1]
        <4> DEFINE k == sbLoop.trigs + 1
        <4> HIDE DEF k
        <4>1. k \in Nat /\ sbLoop' = [sbLoop EXCEPT !.trigs = k]
          BY <3>2, <3>4 DEF k
        <4> QED
          BY <3>1, <4>1 DEF BusLoops
      <3> QED
        BY <2>3, <3>3, <3>4
    <2>5. x.active => ~x.slot
      BY <1>2, <2>2 DEF BusFrames
    <2>6. sbOut' \in Seq(Calls) /\ sbPeer' \subseteq Calls /\ UNCHANGED <<sbSock, sbRq>>
      BY <1>1, <1>14 DEF CallWaits
    <2> QED
      BY <1>1, <2>1, <2>2, <2>4, <2>5, <2>6, BusCallStep
  <1>15. ASSUME NEW c \in Calls, CallWakes(c) PROVE BusInv'
    <2> DEFINE x == [sbCall[c] EXCEPT !.pc = "finish"]
    <2>1. sbCall' = [sbCall EXCEPT ![c] = x] /\ (sbCall[c].active \/ c \in Callers)
      BY <1>15 DEF CallWakes
    <2>2. x \in BusCalls /\ x.pc = "finish" /\ x.active = sbCall[c].active /\ x.slot = sbCall[c].slot
      BY <1>1 DEF BusCalls
    <2> HIDE DEF x
    <2>3. x.active => ~x.slot
      BY <1>2, <2>2 DEF BusFrames
    <2>4. c \in Objects => x.active
      BY <2>1, <2>2, SdbusAssumption
    <2> QED
      BY <1>1, <1>15, <2>1, <2>2, <2>3, <2>4, BusCallStep DEF CallWakes
  <1>16. ASSUME NEW c \in Calls, CallReturn(c) PROVE BusInv'
    <2> DEFINE x == [NoBusCall EXCEPT !.slot = (c \in Objects /\ sbCall[c].slot),
                                      !.due = (c \in Objects /\ sbCall[c].due)]
    <2>1. /\ sbCall' = [sbCall EXCEPT ![c] = x] /\ sbCall[c].pc = "finish"
          /\ sbLoop.pc # "callback"
      BY <1>16 DEF CallReturn, MayFinish, SourceIsFree
    <2>2. x \in BusCalls /\ (x.slot <=> c \in Objects /\ sbCall[c].slot)
      BY DEF BusCalls, NoBusCall
    <2> HIDE DEF x
    <2>3. ~x.slot
      BY <1>2, <2>1, <2>2 DEF BusFrames
    <2>4. c \notin sbLoop.cb
      BY <1>2, <2>1 DEF BusFrames
    <2> QED
      BY <1>1, <1>16, <2>1, <2>2, <2>3, <2>4, BusCallStep DEF CallReturn
  <1>17. ASSUME NEW c \in Calls, Deadline(c) PROVE BusInv'
    <2> DEFINE x == [sbCall[c] EXCEPT !.due = TRUE]
    <2>1. sbCall' = [sbCall EXCEPT ![c] = x]
      BY <1>17 DEF Deadline
    <2>2. x \in BusCalls /\ x.pc = sbCall[c].pc /\ x.active = sbCall[c].active /\ x.slot = sbCall[c].slot
      BY <1>1 DEF BusCalls
    <2> HIDE DEF x
    <2>3. /\ x.active => ~x.slot
          /\ x.slot \/ c \in sbLoop.cb => x.pc # "idle"
          /\ c \in Objects /\ x.pc = "finish" => ~x.slot
      BY <1>2, <2>2 DEF BusFrames
    <2> QED
      BY <1>1, <1>17, <2>1, <2>2, <2>3, BusCallStep DEF Deadline
  <1>18. CASE ErrorHandlerStarts
    <2>1. sbLoop.cb = {} /\ sbLoop' = [sbLoop EXCEPT !.pc = "process", !.err = TRUE]
      BY <1>2, <1>18 DEF BusFrames, ErrorHandlerStarts
    <2>2. sbLoop' \in BusLoops /\ sbLoop'.cb = {}
      BY <1>1, <2>1 DEF BusLoops
    <2> QED
      BY <1>1, <1>18, <2>2, BusLoopStep DEF ErrorHandlerStarts
  <1>19. CASE ProcessFails
    <2>1. PICK l : l = Stopped(sbLoop) /\ l \in BusLoops /\ l.cb = {}
      BY <1>2, <1>19, ProcessedType DEF BusFrames, ProcessFails
    <2>2. l.fails + 1 \in Nat /\ sbLoop' = [l EXCEPT !.fails = l.fails + 1]
      BY <1>19, <2>1 DEF ProcessFails, BusLoops
    <2>3. sbLoop' \in BusLoops /\ sbLoop'.cb = {}
      <3>1. PICK k \in Nat : k = l.fails + 1
        BY <2>2
      <3>2. sbLoop' = [l EXCEPT !.fails = k]
        BY <2>2, <3>1
      <3> QED
        BY <2>1, <3>2 DEF BusLoops
    <2> QED
      BY <1>1, <1>19, <2>3, BusLoopStep DEF ProcessFails
  <1>20. CASE SocketFails
    <2>1. sbLoop' = [sbLoop EXCEPT !.hup = TRUE]
      BY <1>20 DEF SocketFails
    <2>2. sbLoop' \in BusLoops /\ sbLoop'.cb = sbLoop.cb /\ sbLoop'.pc = sbLoop.pc
      BY <1>1, <2>1 DEF BusLoops
    <2>3. UNCHANGED <<sbCall, sbOut, sbPeer, sbSock, sbRq>>
      BY <1>20 DEF SocketFails
    <2>4. SdbusTypeOK'
      BY <1>1, <2>2, <2>3 DEF SdbusTypeOK, BusCalls, BusLoops
    <2>5. BusFrames'
      BY <1>2, <2>2, <2>3 DEF BusFrames
    <2> QED
      BY <2>4, <2>5 DEF BusInv
  <1> QED
    BY <1>3, <1>4, <1>5, <1>6, <1>7, <1>8, <1>9, <1>10, <1>11, <1>12, <1>13, <1>14,
       <1>15, <1>16, <1>17, <1>18, <1>19, <1>20 DEF SdbusNext

(* As long as crtx_sdbus_get_objects is not left by a shutdown, the        *)
(* callback of a call finds the stack frame it writes to: for any number   *)
(* of callers, queued messages, lost or late replies and failures of the   *)
(* bus.                                                                    *)
THEOREM CallbacksFindTheirFrame ==
  ASSUME ~Quits
  PROVE  SdbusSpec => []FrameOutlivesCallback
  <1>1. SdbusInit => BusInv
    <2> SUFFICES ASSUME SdbusInit PROVE BusInv
      OBVIOUS
    <2>1. SdbusTypeOK
      <3>1. NoBusCall \in BusCalls
        BY DEF NoBusCall, BusCalls
      <3> QED
        BY <3>1, EmptySeq DEF SdbusInit, SdbusTypeOK, BusCalls
    <2>2. BusFrames
      BY DEF SdbusInit, BusFrames, NoBusCall, Calls
    <2> QED
      BY <2>1, <2>2 DEF BusInv
  <1>2. BusInv /\ [SdbusNext]_sdbusVars => BusInv'
    BY BusStep
  <1>3. BusInv => FrameOutlivesCallback
    BY DEF BusInv, BusFrames, FrameOutlivesCallback
  <1> QED
    BY <1>1, <1>2, <1>3, PTL DEF SdbusSpec

---------------------------------------------------------------------------
(* Child processes.  A child that nobody asked to end is the one its       *)
(* listener knows; that survives restarts of the listener because start    *)
(* forgets the old child before do_fork runs, and stop is not called       *)
(* before it did.                                                          *)

ForkListeners == [on : BOOLEAN, trig : {0, 1}, pid : Pids \cup {0}, stopped : BOOLEAN,
                  fresh : BOOLEAN]

Children == [st : {"unused", "running", "zombie", "reaped"}, of : SUBSET Forks,
             term : BOOLEAN, stage : {"none", "forked", "closing", "finishing", "app"},
             pids : [Forks -> {0}], close : BOOLEAN]

ForkTypes ==
    /\ flst \in [Forks -> ForkListeners]
    /\ handlers \subseteq Forks
    /\ chld \in 0..MaxChld
    /\ kid \in [Pids -> Children]
    /\ watched = Fds
    /\ reports \subseteq Forks \X Pids

(* What is known of a listener l.                                          *)
ListenerKnows(l) ==
    /\ l.fresh => l.on
    /\ l.trig > 0 => l.on /\ (l.fresh \/ l.pid = 0)
    /\ l.on /\ ~l.fresh => ~l.stopped

(* l is the listener that will stop the child p.                           *)
Keeps(l, p) == l.on /\ ~l.fresh /\ l.trig = 0 /\ l.pid = p

KeptChildren ==
    \A p \in Pids : kid[p].st = "running" /\ ~kid[p].term =>
                        \E f \in kid[p].of : Keeps(flst[f], p)

ForkInv == ForkTypes /\ (\A f \in Forks : ListenerKnows(flst[f])) /\ KeptChildren

LEMMA NoKidType == NoKid \in Children /\ NoKid.st = "unused"
  BY DEF NoKid, Children

LEMMA NoTriggerFirst ==
  ASSUME NEW l \in ForkListeners, ListenerKnows(l), ~l.on
  PROVE  l.trig = 0 /\ ~l.fresh
  <1>1. l.trig \in {0, 1} /\ ~(l.trig > 0)
    BY DEF ForkListeners, ListenerKnows
  <1> QED
    BY <1>1 DEF ListenerKnows

(* A step of listener f that becomes l, without the children.              *)
LEMMA ForkListenerStep ==
  ASSUME ForkInv, NEW f \in Forks, NEW l \in ForkListeners, ListenerKnows(l),
         flst' = [flst EXCEPT ![f] = l], handlers' \subseteq Forks,
         UNCHANGED <<chld, kid, watched, reports>>,
         \A p \in Pids : kid[p].st = "running" /\ ~kid[p].term => ~Keeps(flst[f], p)
  PROVE  ForkInv'
  <1>1. /\ ForkTypes'
        /\ \A g \in Forks : ListenerKnows(flst'[g])
        /\ \A g \in Forks \ {f} : flst'[g] = flst[g]
    BY DEF ForkInv, ForkTypes
  <1>2. ASSUME NEW p \in Pids, kid[p].st = "running", ~kid[p].term
        PROVE  \E g \in kid[p].of : Keeps(flst'[g], p)
    <2>1. PICK g \in kid[p].of : Keeps(flst[g], p)
      BY <1>2 DEF ForkInv, KeptChildren
    <2>2. g \in Forks
      BY DEF ForkInv, ForkTypes, Children
    <2> QED
      BY <1>1, <1>2, <2>1, <2>2
  <1> QED
    BY <1>1, <1>2 DEF ForkInv, KeptChildren

(* A step that only ends children or moves them on.                        *)
LEMMA ForkChildStep ==
  ASSUME ForkInv, kid' \in [Pids -> Children], chld' \in 0..MaxChld,
         UNCHANGED <<flst, handlers, watched, reports>>,
         \A p \in Pids : /\ kid'[p].st = "running" => kid[p].st = "running"
                         /\ ~kid'[p].term => ~kid[p].term
                         /\ kid'[p].of = kid[p].of
  PROVE  ForkInv'
  <1>1. ForkTypes' /\ \A g \in Forks : ListenerKnows(flst'[g])
    BY DEF ForkInv, ForkTypes
  <1>2. KeptChildren'
    BY DEF ForkInv, KeptChildren
  <1> QED
    BY <1>1, <1>2 DEF ForkInv

LEMMA ForkStep ==
  ASSUME ~Threaded, ~EarlyStops, ForkInv, [ForkNext]_forkVars
  PROVE  ForkInv'
  <1>1. /\ flst \in [Forks -> ForkListeners] /\ handlers \subseteq Forks
        /\ chld \in 0..MaxChld /\ kid \in [Pids -> Children] /\ watched = Fds
        /\ reports \subseteq Forks \X Pids
    BY DEF ForkInv, ForkTypes
  <1>2. \A f \in Forks : ListenerKnows(flst[f]) /\ flst[f] \in ForkListeners
    BY <1>1 DEF ForkInv
  <1>3. LoopIsFree => \A f \in Forks : ~flst[f].fresh
    BY DEF LoopIsFree
  <1>4. CASE UNCHANGED forkVars
    BY <1>4 DEF forkVars, ForkInv, ForkTypes, KeptChildren
  <1>5. ASSUME NEW f \in Forks, StartFork(f) PROVE ForkInv'
    <2> DEFINE l == [[[flst[f] EXCEPT !.on = TRUE] EXCEPT !.trig = 1] EXCEPT !.fresh = TRUE]
    <2>1. /\ ~flst[f].on /\ handlers' = handlers \cup {f}
          /\ flst' = [flst EXCEPT ![f].on = TRUE, ![f].trig = @ + 1, ![f].fresh = TRUE]
          /\ UNCHANGED <<chld, kid, watched, reports>>
      BY <1>5 DEF StartFork
    <2>2. flst[f].trig = 0
      BY <1>2, <2>1, NoTriggerFirst
    <2>3. flst[f].trig + 1 = 1
      BY <2>2
    <2>4. l \in ForkListeners /\ l.on /\ l.fresh /\ l.trig = 1
      BY <1>2 DEF ForkListeners
    <2>5. flst' = [flst EXCEPT ![f] = l]
      BY <1>1, <2>1, <2>3 DEF ForkListeners
    <2> HIDE DEF l
    <2>6. ListenerKnows(l)
      BY <2>4 DEF ListenerKnows
    <2> QED
      BY <1>1, <2>1, <2>4, <2>5, <2>6, ForkListenerStep DEF Keeps
  <1>6. ASSUME NEW f \in Forks, StartForkEnds(f) PROVE ForkInv'
    <2> DEFINE l == Cleared(flst[f])
    <2>1. /\ flst[f].fresh /\ flst' = [flst EXCEPT ![f] = l]
          /\ UNCHANGED <<handlers, chld, kid, watched, reports>>
      BY <1>6 DEF StartForkEnds
    <2>2. /\ l \in ForkListeners /\ l.on = flst[f].on /\ l.pid = 0 /\ ~l.stopped /\ ~l.fresh
          /\ l.trig = flst[f].trig
      BY <1>2 DEF ForkListeners, Cleared
    <2>3. flst[f].on
      BY <1>2, <2>1 DEF ListenerKnows
    <2> HIDE DEF l
    <2>4. ListenerKnows(l)
      BY <2>2, <2>3 DEF ListenerKnows
    <2> QED
      BY <1>1, <2>1, <2>2, <2>4, ForkListenerStep DEF Keeps
  <1>7. ASSUME NEW f \in Forks, DoFork(f) PROVE ForkInv'
    <2>1. /\ flst[f].trig > 0 /\ ~flst[f].fresh
          /\ UNCHANGED <<handlers, chld, watched, reports>>
      BY <1>3, <1>7 DEF DoFork
    <2>2. flst[f].on /\ flst[f].pid = 0 /\ ~flst[f].stopped /\ flst[f].trig = 1
      BY <1>2, <2>1 DEF ListenerKnows, ForkListeners
    <2>3. ASSUME NEW q \in Pids \cup {0}
          PROVE  LET l == [[flst[f] EXCEPT !.trig = 0] EXCEPT !.pid = q]
                 IN  /\ l \in ForkListeners /\ l.on /\ ~l.fresh /\ ~l.stopped /\ l.pid = q
                     /\ l.trig = 0
      BY <1>2, <2>1, <2>2 DEF ForkListeners
    <2>4. CASE flst' = [flst EXCEPT ![f].trig = @ - 1, ![f].pid = 0] /\ UNCHANGED kid
      <3> DEFINE l == [[flst[f] EXCEPT !.trig = 0] EXCEPT !.pid = 0]
      <3>1. /\ l \in ForkListeners /\ l.on /\ ~l.fresh /\ ~l.stopped /\ l.pid = 0
            /\ l.trig = 0
        BY <2>3
      <3>2. flst' = [flst EXCEPT ![f] = l]
        <4>1. flst[f].trig - 1 = 0
          BY <2>2
        <4> QED
          BY <1>1, <2>4, <4>1 DEF ForkListeners
      <3> HIDE DEF l
      <3>3. ListenerKnows(l)
        BY <3>1 DEF ListenerKnows
      <3>4. \A p \in Pids : ~Keeps(flst[f], p)
        BY <2>1 DEF Keeps
      <3> QED
        BY <1>1, <2>1, <2>4, <3>1, <3>2, <3>3, <3>4, ForkListenerStep
    <2>5. ASSUME NEW p \in Pids, kid[p].st = "unused",
                 kid' = [kid EXCEPT ![p] = [NoKid EXCEPT !.st = "running", !.of = {f},
                                               !.stage = "forked", !.pids = ChildPids]],
                 flst' = [flst EXCEPT ![f].trig = @ - 1, ![f].pid = p]
          PROVE  ForkInv'
      <3> DEFINE l == [[flst[f] EXCEPT !.trig = 0] EXCEPT !.pid = p]
                 k == [NoKid EXCEPT !.st = "running", !.of = {f}, !.stage = "forked",
                                    !.pids = ChildPids]
      <3>1. l \in ForkListeners /\ l.on /\ ~l.fresh /\ ~l.stopped /\ l.pid = p
            /\ l.trig = 0
        BY <2>3
      <3>2. flst' = [flst EXCEPT ![f] = l]
        <4>1. flst[f].trig - 1 = 0
          BY <2>2
        <4> QED
          BY <1>1, <2>5, <4>1 DEF ForkListeners
      <3>3. k \in Children /\ k.of = {f}
        BY DEF NoKid, Children, ChildPids
      <3>4. kid' = [kid EXCEPT ![p] = k]
        BY <2>5
      <3> HIDE DEF l, k
      <3>5. ListenerKnows(l)
        BY <3>1 DEF ListenerKnows
      <3>6. ForkTypes' /\ \A g \in Forks : ListenerKnows(flst'[g])
        BY <1>1, <1>2, <2>1, <3>1, <3>2, <3>3, <3>4, <3>5 DEF ForkTypes
      <3>7. ASSUME NEW q \in Pids, kid'[q].st = "running", ~kid'[q].term
            PROVE  \E g \in kid'[q].of : Keeps(flst'[g], q)
        <4>1. CASE q = p
          <5>1. kid'[q].of = {f} /\ flst'[f] = l
            BY <1>1, <3>2, <3>3, <3>4, <4>1
          <5> QED
            BY <3>1, <4>1, <5>1 DEF Keeps
        <4>2. CASE q # p
          <5>1. kid'[q] = kid[q]
            BY <1>1, <3>4, <4>2
          <5>2. PICK g \in kid[q].of : Keeps(flst[g], q)
            BY <3>7, <5>1 DEF ForkInv, KeptChildren
          <5>3. g \in Forks /\ g # f
            BY <1>1, <2>1, <5>2 DEF Children, Keeps
          <5> QED
            BY <1>1, <3>2, <5>1, <5>2, <5>3
        <4> QED
          BY <4>1, <4>2
      <3> QED
        BY <3>6, <3>7 DEF ForkInv, KeptChildren
    <2> QED
      BY <1>7, <2>4, <2>5 DEF DoFork
  <1>8. ASSUME NEW f \in Forks, StopFork(f) PROVE ForkInv'
    <2> DEFINE l == [flst[f] EXCEPT !.on = FALSE]
    <2>1. /\ flst[f].on /\ ~flst[f].fresh /\ ~(flst[f].trig > 0)
          /\ kid' = [p \in Pids |->
                 IF p = flst[f].pid /\ ~flst[f].stopped THEN [kid[p] EXCEPT !.term = TRUE]
                 ELSE kid[p]]
          /\ flst' = [flst EXCEPT ![f].on = FALSE] /\ handlers' = handlers \ {f}
          /\ UNCHANGED <<chld, watched, reports>>
      BY <1>3, <1>8 DEF StopFork
    <2>2. l \in ForkListeners /\ ~l.fresh /\ ~l.on /\ l.trig = flst[f].trig
      BY <1>2, <2>1 DEF ForkListeners
    <2>3. flst' = [flst EXCEPT ![f] = l]
      BY <2>1
    <2> HIDE DEF l
    <2>4. ListenerKnows(l)
      BY <1>2, <2>1, <2>2 DEF ListenerKnows
    <2>5. kid' \in [Pids -> Children]
      <3>1. \A p \in Pids : [kid[p] EXCEPT !.term = TRUE] \in Children
        BY <1>1 DEF Children
      <3> QED
        BY <1>1, <2>1, <3>1
    <2>6. ForkTypes' /\ \A g \in Forks : ListenerKnows(flst'[g])
      BY <1>1, <1>2, <2>1, <2>2, <2>3, <2>4, <2>5 DEF ForkTypes
    <2>7. ~flst[f].stopped
      BY <1>2, <2>1 DEF ListenerKnows
    <2>8. ASSUME NEW q \in Pids, kid'[q].st = "running", ~kid'[q].term
          PROVE  \E g \in kid'[q].of : Keeps(flst'[g], q)
      <3>1. q # flst[f].pid /\ kid'[q] = kid[q]
        <4>1. ASSUME q = flst[f].pid PROVE kid'[q].term
          BY <1>1, <2>1, <2>7, <4>1 DEF Children
        <4> QED
          BY <2>1, <2>8, <4>1
      <3>2. PICK g \in kid[q].of : Keeps(flst[g], q)
        BY <2>8, <3>1 DEF ForkInv, KeptChildren
      <3>3. g \in Forks /\ g # f
        BY <1>1, <3>1, <3>2 DEF Children, Keeps
      <3> QED
        BY <1>1, <2>3, <3>1, <3>2, <3>3
    <2> QED
      BY <2>6, <2>8 DEF ForkInv, KeptChildren
  <1>9. ASSUME NEW p \in Pids, ChildEnds(p) PROVE ForkInv'
    <2> DEFINE k == [kid[p] EXCEPT !.st = "zombie"]
    <2>1. /\ kid' = [kid EXCEPT ![p] = k] /\ UNCHANGED <<flst, handlers, watched, reports>>
          /\ chld' = chld \/ chld' \in 1..MaxChld
      BY <1>9 DEF ChildEnds
    <2>2. k \in Children /\ k.st = "zombie" /\ k.term = kid[p].term /\ k.of = kid[p].of
      BY <1>1 DEF Children
    <2> HIDE DEF k
    <2>3. chld' \in 0..MaxChld
      BY <1>1, <2>1
    <2> QED
      BY <1>1, <2>1, <2>2, <2>3, ForkChildStep
  <1>10. ASSUME NEW p \in Pids, ChildClosesLoop(p) PROVE ForkInv'
    <2> DEFINE k == [[kid[p] EXCEPT !.stage = "closing"] EXCEPT !.close = TRUE]
    <2>1. UNCHANGED <<flst, handlers, chld, watched, reports>> /\ kid[p].st = "running"
      BY <1>10 DEF ChildClosesLoop, ForkClose
    <2>2. k \in Children /\ k.st = kid[p].st /\ k.term = kid[p].term /\ k.of = kid[p].of
      BY <1>1 DEF Children
    <2>3. kid' = [kid EXCEPT ![p] = k]
      BY <1>1, <1>10 DEF ChildClosesLoop, Children
    <2> HIDE DEF k
    <2> QED
      BY <1>1, <2>1, <2>2, <2>3, ForkChildStep
  <1>11. ASSUME NEW p \in Pids, ChildStopsListeners(p) PROVE ForkInv'
    <2> DEFINE k == [kid[p] EXCEPT !.stage = "finishing"]
    <2>1. \A q \in Pids, f \in Forks : kid[p].pids[f] # q
      BY <1>1, ForkAssumption DEF Children
    <2>2. kid' = [q \in Pids |-> IF q = p THEN k ELSE kid[q]]
      BY <1>11, <2>1 DEF ChildStopsListeners
    <2>3. k \in Children /\ k.st = kid[p].st /\ k.term = kid[p].term /\ k.of = kid[p].of
      BY <1>1 DEF Children
    <2>4. UNCHANGED <<flst, handlers, chld, watched, reports>>
      BY <1>11 DEF ChildStopsListeners
    <2> HIDE DEF k
    <2> QED
      BY <1>1, <2>2, <2>3, <2>4, ForkChildStep
  <1>12. ASSUME NEW p \in Pids, ChildReinits(p) PROVE ForkInv'
    <2> DEFINE k == [kid[p] EXCEPT !.stage = "app"]
    <2>1. UNCHANGED <<flst, handlers, chld, watched, reports>> /\ kid' = [kid EXCEPT ![p] = k]
      BY <1>12 DEF ChildReinits
    <2>2. k \in Children /\ k.st = kid[p].st /\ k.term = kid[p].term /\ k.of = kid[p].of
      BY <1>1 DEF Children
    <2> HIDE DEF k
    <2> QED
      BY <1>1, <2>1, <2>2, ForkChildStep
  <1>13. ASSUME NEW p \in Pids, PidReuse(p) PROVE ForkInv'
    <2>1. /\ kid' = [kid EXCEPT ![p] = NoKid]
          /\ flst' = [f \in Forks |-> IF flst[f].pid = p THEN [flst[f] EXCEPT !.pid = 0]
                                       ELSE flst[f]]
          /\ reports' = {r \in reports : r[2] # p}
          /\ \A f \in Forks : flst[f].pid = p => ~flst[f].on
          /\ UNCHANGED <<handlers, chld, watched>>
      BY <1>13 DEF PidReuse
    <2>2. ASSUME NEW f \in Forks
          PROVE  flst'[f] \in ForkListeners /\ ListenerKnows(flst'[f])
      <3>1. CASE flst[f].pid = p
        <4>1. /\ flst'[f] \in ForkListeners /\ flst'[f].on = flst[f].on
              /\ flst'[f].trig = flst[f].trig /\ flst'[f].fresh = flst[f].fresh
              /\ ~flst[f].on
          BY <1>2, <2>1, <3>1 DEF ForkListeners
        <4> QED
          BY <1>2, <4>1 DEF ListenerKnows
      <3>2. CASE flst[f].pid # p
        BY <1>2, <2>1, <3>2
      <3> QED
        BY <3>1, <3>2
    <2>3. ForkTypes'
      BY <1>1, <2>1, <2>2, NoKidType DEF ForkTypes
    <2>4. ASSUME NEW q \in Pids, kid'[q].st = "running", ~kid'[q].term
          PROVE  \E g \in kid'[q].of : Keeps(flst'[g], q)
      <3>1. q # p /\ kid'[q] = kid[q]
        BY <1>1, <2>1, <2>4, NoKidType
      <3>2. PICK g \in kid[q].of : Keeps(flst[g], q)
        BY <2>4, <3>1 DEF ForkInv, KeptChildren
      <3>3. g \in Forks /\ flst'[g] = flst[g]
        BY <1>1, <2>1, <3>1, <3>2 DEF Children, Keeps
      <3> QED
        BY <3>1, <3>2, <3>3
    <2> QED
      BY <2>2, <2>3, <2>4 DEF ForkInv, KeptChildren
  <1>14. CASE SigchldHandler
    <2>1. chld > 0 /\ chld' = chld - 1 /\ UNCHANGED watched /\ \A f \in Forks : ~flst[f].fresh
      BY <1>3, <1>14 DEF SigchldHandler
    <2>2. chld' \in 0..MaxChld
      BY <1>1, <2>1, ForkAssumption
    <2> DEFINE Z == {p \in Pids : kid[p].st = "zombie"}
               hit == {f \in handlers : flst[f].pid \in Z}
    <2>3. CASE UNCHANGED <<flst, handlers, kid, reports>>
      BY <1>1, <2>1, <2>2, <2>3, ForkChildStep
    <2>4. CASE /\ kid' = [p \in Pids |-> IF p \in Z THEN [kid[p] EXCEPT !.st = "reaped"]
                                          ELSE kid[p]]
               /\ flst' = [f \in Forks |->
                             IF f \in hit THEN [flst[f] EXCEPT !.stopped = TRUE, !.on = FALSE]
                             ELSE flst[f]]
               /\ handlers' = handlers \ hit
               /\ reports' = reports \cup {<<f, flst[f].pid>> : f \in hit}
      <3>1. ASSUME NEW f \in Forks
            PROVE  flst'[f] \in ForkListeners /\ ListenerKnows(flst'[f])
        <4>1. CASE f \in hit
          <5>1. /\ flst'[f] \in ForkListeners /\ ~flst'[f].on
                /\ flst'[f].trig = flst[f].trig /\ ~flst'[f].fresh
            BY <1>2, <2>1, <2>4, <4>1 DEF ForkListeners
          <5>2. ~(flst[f].trig > 0)
            BY <1>2, <2>1, <4>1, ForkAssumption DEF ListenerKnows
          <5> QED
            BY <5>1, <5>2 DEF ListenerKnows
        <4>2. CASE f \notin hit
          BY <1>2, <2>4, <4>2
        <4> QED
          BY <4>1, <4>2
      <3>2. kid' \in [Pids -> Children]
        <4>1. \A p \in Pids : [kid[p] EXCEPT !.st = "reaped"] \in Children
          BY <1>1 DEF Children
        <4> QED
          BY <1>1, <2>4, <4>1
      <3>3. ForkTypes'
        <4>1. hit \subseteq Forks /\ \A f \in hit : flst[f].pid \in Pids
          BY <1>1
        <4>2. {<<f, flst[f].pid>> : f \in hit} \subseteq Forks \X Pids
          BY <4>1
        <4>3. reports' \subseteq Forks \X Pids /\ handlers' \subseteq Forks
          BY <1>1, <2>4, <4>2
        <4>4. flst' \in [Forks -> ForkListeners]
          <5>1. \A f \in Forks : flst'[f] \in ForkListeners
            BY <3>1
          <5> QED
            BY <2>4, <5>1
        <4> QED
          BY <1>1, <2>1, <2>2, <3>2, <4>3, <4>4 DEF ForkTypes
      <3>4. ASSUME NEW q \in Pids, kid'[q].st = "running", ~kid'[q].term
            PROVE  \E g \in kid'[q].of : Keeps(flst'[g], q)
        <4>1. q \notin Z /\ kid'[q] = kid[q]
          <5>1. q \in Z => kid'[q].st = "reaped"
            BY <1>1, <2>4 DEF Children
          <5> QED
            BY <2>4, <3>4, <5>1
        <4>2. PICK g \in kid[q].of : Keeps(flst[g], q)
          BY <3>4, <4>1 DEF ForkInv, KeptChildren
        <4>3. g \in Forks /\ g \notin hit
          BY <1>1, <4>1, <4>2 DEF Children, Keeps
        <4> QED
          BY <2>4, <4>1, <4>2, <4>3
      <3> QED
        BY <3>1, <3>3, <3>4 DEF ForkInv, KeptChildren
    <2> QED
      BY <1>14, <2>3, <2>4 DEF SigchldHandler, Reaped
  <1> QED
    BY <1>4, <1>5, <1>6, <1>7, <1>8, <1>9, <1>10, <1>11, <1>12, <1>13, <1>14 DEF ForkNext

(* With the application in the thread of the event loop and no stop before *)
(* do_fork ran, every child that runs and was not asked to end is the one  *)
(* of a started fork listener, and children leave the watched descriptors  *)
(* and each other alone: for any number of listeners and processes, merged *)
(* SIGCHLDs and reused process ids.                                        *)
THEOREM ChildrenHaveListeners ==
  ASSUME ~Threaded, ~EarlyStops
  PROVE  ForkSpec => []ChildrenAreKept
  <1>1. ForkInit => ForkInv
    <2> SUFFICES ASSUME ForkInit PROVE ForkInv
      OBVIOUS
    <2>1. ForkTypes
      BY NoKidType, ForkAssumption DEF ForkInit, ForkTypes, ForkListeners
    <2>2. \A f \in Forks : ListenerKnows(flst[f])
      BY DEF ForkInit, ListenerKnows
    <2>3. KeptChildren
      BY NoKidType DEF ForkInit, KeptChildren
    <2> QED
      BY <2>1, <2>2, <2>3 DEF ForkInv
  <1>2. ForkInv /\ [ForkNext]_forkVars => ForkInv'
    BY ForkStep
  <1>3. ForkInv => ChildrenAreKept
    <2> SUFFICES ASSUME ForkInv PROVE ChildrenAreKept
      OBVIOUS
    <2>1. ForkTypeOK
      <3>1. {0, 1} \subseteq 0..2
        OBVIOUS
      <3>2. ForkListeners \subseteq [on : BOOLEAN, trig : 0..2, pid : Pids \cup {0},
                                      stopped : BOOLEAN, fresh : BOOLEAN]
        BY <3>1 DEF ForkListeners
      <3> QED
        BY <3>2 DEF ForkInv, ForkTypes, ForkTypeOK, Children
    <2>2. \A p \in Pids : kid[p].of \subseteq Forks
      BY DEF ForkInv, ForkTypes, Children
    <2>3. ChildLeavesFamilyAlone
      BY <2>2, ForkAssumption DEF ForkInv, ForkTypes, ChildLeavesFamilyAlone
    <2>4. StoppedHasNoChild
      BY <2>2 DEF ForkInv, KeptChildren, Keeps, StoppedHasNoChild
    <2> QED
      BY <2>1, <2>3, <2>4 DEF ChildrenAreKept
  <1> QED
    BY <1>1, <1>2, <1>3, PTL DEF ForkSpec

---------------------------------------------------------------------------
(* The popen listener.  One child runs at a time, and its start leaves a   *)
(* pipe with two open ends to which the write queue belongs: start_listener *)
(* is only reached again when the end of the child before was reported.    *)

Processes == [st : {"none", "running", "zombie", "reaped"}, in : Nat]

PopenTypes ==
    /\ popen \in BOOLEAN
    /\ frk \in [on : BOOLEAN, trig : BOOLEAN, run : 0..MaxRuns]
    /\ proc \in [Runs -> Processes] /\ \A r \in Runs : proc[r].in <= gen
    /\ stdin \in [r : Nat, w : Nat] /\ stdin.r <= gen /\ stdin.w <= gen
    /\ wqueue \in [on : BOOLEAN, fd : Nat] /\ wqueue.fd <= gen
    /\ gen \in Nat \ {0} /\ gen <= frk.run + 1
    /\ wqueue.on => frk.run # 0 /\ wqueue.fd # 0
    /\ inpipe \subseteq (Nat \ {0}) \X Runs /\ \A x \in inpipe : x[1] <= gen
    /\ input \subseteq Runs \X Runs
    /\ reading \in BOOLEAN
    /\ outpipe \subseteq Runs
    /\ output \subseteq Runs \X Runs
    /\ forkEvts \in Seq(Runs)
    /\ results \in Seq(Runs)

(* A stopped listener has nothing left of its last run.                    *)
StoppedIsIdle == ~popen => ~frk.on /\ forkEvts = <<>> /\ ~wqueue.on /\ ~reading

(* The fork listener, and the event of the end of its child.               *)
ForkPhases ==
    /\ frk.trig => frk.on
    /\ frk.on => frk.run # 0 /\ forkEvts = <<>>
    /\ forkEvts # <<>> => forkEvts = <<frk.run>>

(* The children, by run: those of earlier runs were waited for.            *)
ProcsInOrder ==
    \A r \in Runs :
        /\ frk.run < r \/ (r = frk.run /\ frk.trig) => proc[r].st = "none"
        /\ r < frk.run \/ (r = frk.run /\ ~frk.on) => proc[r].st = "reaped"

(* The pipe of the next child, and the one of the child that runs.         *)
InputPipes ==
    /\ stdin.r # 0 /\ stdin.w # 0 => stdin.r = stdin.w
    /\ frk.trig => stdin.r # 0 /\ (wqueue.on => wqueue.fd = stdin.r)
    /\ \A r \in Runs : proc[r].st = "running" =>
           proc[r].in # 0 /\ (wqueue.on => wqueue.fd = proc[r].in)

(* The reports: one for every run but the one whose end was not seen.      *)
ReportsInOrder ==
    /\ \A i \in 1..Len(results) : results[i] = i
    /\ frk.on \/ forkEvts # <<>> => frk.run = Len(results) + 1
    /\ ~frk.on /\ forkEvts = <<>> => frk.run = Len(results)

(* What the pipes hold: the child that runs has the pipe of the listener,  *)
(* whose unread input is of this run, and so is the unread output.         *)
PipeContents ==
    /\ \A r \in Runs : proc[r].st = "running" => r = frk.run /\ frk.on /\ proc[r].in = stdin.r
    /\ frk.on => \A x \in inpipe : x[1] = stdin.r => x[2] = frk.run
    /\ outpipe \subseteq {frk.run}

PopenInv ==
    /\ PopenTypes /\ StoppedIsIdle /\ ForkPhases /\ ProcsInOrder /\ InputPipes
    /\ ReportsInOrder /\ PipeContents /\ PipesAreNotShared

LEMMA PopenStep ==
  ASSUME ~StopsRunning, Leftovers = {}, PopenInv, [PopenNext]_popenVars
  PROVE  PopenInv'
  <1>1. /\ PopenTypes /\ StoppedIsIdle /\ ForkPhases /\ ProcsInOrder /\ InputPipes
        /\ ReportsInOrder /\ PipeContents /\ PipesAreNotShared
    BY DEF PopenInv
  <1>2. /\ frk.run \in 0..MaxRuns /\ frk.run \in Nat /\ MaxRuns \in Nat /\ gen \in Nat
        /\ \A r \in Runs : r \in Nat /\ proc[r] \in Processes
    BY <1>1, PopenAssumption DEF PopenTypes, Runs
  <1>3. CASE UNCHANGED popenVars
    BY <1>1, <1>3 DEF popenVars, ioVars, PopenInv, PopenTypes, StoppedIsIdle, ForkPhases,
                      ProcsInOrder, InputPipes, ReportsInOrder, PipeContents, PipesAreNotShared
  <1>4. CASE StartPopen
    <2> DEFINE p == IF Broken(stdin) THEN [r |-> gen + 1, w |-> gen + 1] ELSE stdin
    <2>1. /\ ~popen /\ frk.run < MaxRuns /\ ~frk.on /\ forkEvts = <<>>
          /\ ~wqueue.on /\ ~reading /\ ~frk.trig
          /\ ~(\E x \in inpipe : x[1] = stdin.w) /\ outpipe = {}
      BY <1>1, <1>4 DEF StartPopen, StoppedIsIdle, ForkPhases
    <2>2. /\ stdin' = p /\ gen' = (IF Broken(stdin) THEN gen + 1 ELSE gen)
          /\ wqueue' = [on |-> TRUE, fd |-> p.w] /\ popen' = TRUE /\ reading' = TRUE
          /\ frk' = [on |-> TRUE, trig |-> TRUE, run |-> frk.run + 1]
          /\ UNCHANGED <<proc, inpipe, input, outpipe, output, forkEvts, results>>
      BY <1>4, <2>1 DEF StartPopen, QueueFd
    <2>3. frk'.on /\ frk'.trig /\ frk'.run = frk.run + 1 /\ wqueue'.on /\ wqueue'.fd = p.w
      BY <2>2
    <2>4. /\ p \in [r : Nat, w : Nat] /\ p.r = p.w /\ p.r # 0 /\ p.r <= gen' /\ p.w <= gen'
          /\ gen' \in Nat \ {0} /\ gen <= gen' /\ gen' <= gen + 1
          /\ \A x \in inpipe : x[1] # p.r /\ x[1] <= gen'
      <3>0. \A x \in inpipe : x[1] \in Nat /\ x[1] <= gen
        BY <1>1 DEF PopenTypes
      <3>1. CASE Broken(stdin)
        <4>1. p.r = gen + 1 /\ gen' = gen + 1
          BY <2>2, <3>1
        <4>2. \A x \in inpipe : x[1] # p.r /\ x[1] <= gen'
          BY <1>2, <3>0, <4>1
        <4> QED
          BY <1>1, <1>2, <2>2, <3>1, <4>2 DEF PopenTypes
      <3>2. CASE ~Broken(stdin)
        <4>1. p = stdin /\ stdin.r = stdin.w /\ gen' = gen
          BY <1>1, <2>2, <3>2 DEF PopenTypes, InputPipes, Broken
        <4>2. \A x \in inpipe : x[1] # p.r /\ x[1] <= gen'
          BY <2>1, <3>0, <4>1
        <4> QED
          BY <1>1, <1>2, <2>2, <3>2, <4>1, <4>2 DEF PopenTypes, InputPipes, Broken
      <3> QED
        BY <3>1, <3>2
    <2> HIDE DEF p
    <2>5. frk.run + 1 \in 0..MaxRuns /\ gen' <= frk'.run + 1 /\ frk'.run # 0
      BY <1>1, <1>2, <2>1, <2>3, <2>4 DEF PopenTypes
    <2>6. frk' \in [on : BOOLEAN, trig : BOOLEAN, run : 0..MaxRuns]
      BY <2>2, <2>5
    <2>7. wqueue' \in [on : BOOLEAN, fd : Nat] /\ wqueue'.fd <= gen'
      BY <2>2, <2>4
    <2>8. \A r \in Runs : proc'[r].in <= gen'
      <3> SUFFICES ASSUME NEW r \in Runs PROVE proc[r].in <= gen'
        BY <2>2
      <3>1. proc[r].in \in Nat /\ proc[r].in <= gen
        BY <1>1 DEF PopenTypes, Processes
      <3> QED
        BY <1>2, <2>4, <3>1
    <2>9. PopenTypes'
      BY <1>1, <2>2, <2>3, <2>4, <2>5, <2>6, <2>7, <2>8 DEF PopenTypes
    <2>10. StoppedIsIdle' /\ ForkPhases'
      BY <2>1, <2>2, <2>5 DEF StoppedIsIdle, ForkPhases
    <2>11. ProcsInOrder'
      <3> SUFFICES ASSUME NEW r \in Runs
                   PROVE  /\ frk.run < r => proc[r].st = "none"
                          /\ r < frk.run + 1 => proc[r].st = "reaped"
                          /\ frk.run + 1 < r \/ r = frk.run + 1 => frk.run < r
        BY <1>2, <2>2, <2>3 DEF ProcsInOrder
      <3>1. r < frk.run + 1 => r < frk.run \/ r = frk.run
        BY <1>2
      <3> QED
        BY <1>1, <1>2, <2>1, <3>1 DEF ProcsInOrder
    <2>12. InputPipes'
      <3>1. ASSUME NEW r \in Runs PROVE proc'[r].st # "running"
        <4>1. r < frk.run \/ r = frk.run \/ frk.run < r
          BY <1>2
        <4> QED
          BY <1>1, <2>1, <2>2, <4>1 DEF ProcsInOrder
      <3> QED
        BY <2>2, <2>3, <2>4, <3>1 DEF InputPipes
    <2>13. ReportsInOrder'
      BY <1>1, <2>1, <2>2, <2>3 DEF ReportsInOrder
    <2>14. PipeContents' /\ PipesAreNotShared'
      BY <1>1, <2>1, <2>2, <2>4 DEF PipeContents, PipesAreNotShared
    <2> QED
      BY <2>9, <2>10, <2>11, <2>12, <2>13, <2>14 DEF PopenInv
  <1>5. CASE StartPopenWithoutPipe
    <2>1. /\ ~popen /\ popen' = TRUE /\ stdin' = [r |-> 0, w |-> 0] /\ ~frk.on /\ ~frk.trig
          /\ UNCHANGED <<frk, proc, wqueue, gen, ioVars, forkEvts, results>>
      BY <1>1, <1>5 DEF StartPopenWithoutPipe, StoppedIsIdle, ForkPhases
    <2>2. stdin' \in [r : Nat, w : Nat] /\ stdin'.r = 0 /\ stdin'.w = 0 /\ 0 <= gen
      BY <1>2, <2>1
    <2>3. PopenTypes'
      BY <1>1, <2>1, <2>2 DEF PopenTypes, ioVars
    <2>4. StoppedIsIdle' /\ ForkPhases' /\ ProcsInOrder' /\ InputPipes'
      BY <1>1, <2>1, <2>2 DEF StoppedIsIdle, ForkPhases, ProcsInOrder, InputPipes, ioVars
    <2>5. ReportsInOrder'
      BY <1>1, <2>1 DEF ReportsInOrder
    <2>6. PipeContents' /\ PipesAreNotShared'
      BY <1>1, <2>1 DEF PipeContents, PipesAreNotShared, ioVars
    <2> QED
      BY <2>3, <2>4, <2>5, <2>6 DEF PopenInv
  <1>6. ASSUME ForkExec(TRUE) PROVE PopenInv'
    <2>1. /\ frk.trig /\ frk.on /\ frk.run # 0 /\ frk' = [frk EXCEPT !.trig = FALSE]
          /\ proc' = [proc EXCEPT ![frk.run] = [st |-> "running", in |-> stdin.r]]
          /\ UNCHANGED <<popen, stdin, wqueue, gen, ioVars, forkEvts, results>>
      BY <1>1, <1>6 DEF ForkExec, ForkedChild, ForkPhases
    <2>2. frk.run \in Runs
      BY <1>2, <2>1 DEF Runs
    <2>3. frk'.on /\ ~frk'.trig /\ frk'.run = frk.run
      BY <1>1, <2>1 DEF PopenTypes
    <2>4. frk' \in [on : BOOLEAN, trig : BOOLEAN, run : 0..MaxRuns]
      BY <1>1, <2>1 DEF PopenTypes
    <2>5. /\ proc'[frk.run] = [st |-> "running", in |-> stdin.r]
          /\ \A r \in Runs : r # frk.run => proc'[r] = proc[r]
      BY <1>1, <2>1, <2>2 DEF PopenTypes
    <2>6. [st |-> "running", in |-> stdin.r] \in Processes /\ stdin.r <= gen /\ stdin.r # 0
      BY <1>1, <2>1 DEF PopenTypes, InputPipes, Processes
    <2>7. proc' \in [Runs -> Processes] /\ \A r \in Runs : proc'[r].in <= gen
      BY <1>1, <2>1, <2>5, <2>6 DEF PopenTypes
    <2>8. PopenTypes'
      BY <1>1, <2>1, <2>3, <2>4, <2>7 DEF PopenTypes, ioVars
    <2>9. StoppedIsIdle' /\ ForkPhases'
      BY <1>1, <2>1, <2>3 DEF StoppedIsIdle, ForkPhases, ioVars
    <2>10. ProcsInOrder'
      <3> SUFFICES ASSUME NEW r \in Runs
                   PROVE  /\ frk.run < r => proc'[r].st = "none"
                          /\ r < frk.run => proc'[r].st = "reaped"
        BY <2>3 DEF ProcsInOrder
      <3>1. frk.run < r \/ r < frk.run => r # frk.run
        BY <1>2
      <3> QED
        BY <1>1, <2>5, <3>1 DEF ProcsInOrder
    <2>11. InputPipes'
      <3>1. ASSUME NEW r \in Runs, proc'[r].st = "running"
            PROVE  proc'[r].in # 0 /\ (wqueue.on => wqueue.fd = proc'[r].in)
        <4>1. CASE r = frk.run
          BY <1>1, <2>1, <2>5, <2>6, <4>1 DEF InputPipes
        <4>2. CASE r # frk.run
          BY <1>1, <2>5, <3>1, <4>2 DEF InputPipes
        <4> QED
          BY <4>1, <4>2
      <3> QED
        BY <1>1, <2>1, <2>3, <3>1 DEF InputPipes
    <2>12. ReportsInOrder'
      BY <1>1, <2>1, <2>3 DEF ReportsInOrder
    <2>13. PipeContents' /\ PipesAreNotShared'
      <3>1. \A r \in Runs : proc'[r].st = "running" => r = frk.run /\ proc'[r].in = stdin.r
        BY <1>1, <2>1, <2>5 DEF PipeContents
      <3> QED
        BY <1>1, <2>1, <2>3, <3>1 DEF PipeContents, PipesAreNotShared, ioVars
    <2> QED
      BY <2>8, <2>9, <2>10, <2>11, <2>12, <2>13 DEF PopenInv
  <1>7. ASSUME NEW r \in Runs, ChildWrites(r) PROVE PopenInv'
    <2>1. /\ proc[r].st = "running" /\ outpipe' = outpipe \cup {r}
          /\ UNCHANGED <<popen, frk, proc, stdin, wqueue, gen, inpipe, input, reading,
                         output, forkEvts, results>>
      BY <1>7 DEF ChildWrites
    <2>2. PopenTypes'
      BY <1>1, <2>1 DEF PopenTypes
    <2>3. StoppedIsIdle' /\ ForkPhases' /\ ProcsInOrder' /\ InputPipes' /\ ReportsInOrder'
      BY <1>1, <2>1 DEF StoppedIsIdle, ForkPhases, ProcsInOrder, InputPipes, ReportsInOrder
    <2>4. PipeContents' /\ PipesAreNotShared'
      BY <1>1, <2>1 DEF PipeContents, PipesAreNotShared
    <2> QED
      BY <2>2, <2>3, <2>4 DEF PopenInv
  <1>8. CASE ReadStdout
    <2>1. /\ outpipe # {} /\ outpipe' = {}
          /\ output' = output \cup ({frk.run} \X outpipe)
          /\ UNCHANGED <<popen, frk, proc, stdin, wqueue, gen, inpipe, input, reading,
                         forkEvts, results>>
      BY <1>8 DEF ReadStdout
    <2>2. outpipe = {frk.run} /\ frk.run \in Runs
      BY <1>1, <2>1 DEF PopenTypes, PipeContents
    <2>3. \A x \in output' : x \in output \/ x = <<frk.run, frk.run>>
      BY <2>1, <2>2
    <2>4. PopenTypes'
      BY <1>1, <2>1, <2>2, <2>3 DEF PopenTypes
    <2>5. StoppedIsIdle' /\ ForkPhases' /\ ProcsInOrder' /\ InputPipes' /\ ReportsInOrder'
      BY <1>1, <2>1 DEF StoppedIsIdle, ForkPhases, ProcsInOrder, InputPipes, ReportsInOrder
    <2>6. PipeContents' /\ PipesAreNotShared'
      BY <1>1, <2>1, <2>3 DEF PipeContents, PipesAreNotShared
    <2> QED
      BY <2>4, <2>5, <2>6 DEF PopenInv
  <1>9. CASE CloseStdin
    <2>1. /\ popen /\ stdin' = [stdin EXCEPT !.w = 0] /\ wqueue' = [on |-> FALSE, fd |-> 0]
          /\ UNCHANGED <<popen, frk, proc, gen, ioVars, forkEvts, results>>
      BY <1>9 DEF CloseStdin
    <2>2. /\ stdin' \in [r : Nat, w : Nat] /\ stdin'.r = stdin.r /\ stdin'.w = 0
          /\ wqueue' \in [on : BOOLEAN, fd : Nat] /\ ~wqueue'.on /\ wqueue'.fd = 0
      BY <1>1, <2>1 DEF PopenTypes
    <2>3. 0 <= gen
      BY <1>2
    <2>4. PopenTypes'
      BY <1>1, <2>1, <2>2, <2>3 DEF PopenTypes, ioVars
    <2>5. StoppedIsIdle' /\ ForkPhases' /\ ProcsInOrder' /\ InputPipes'
      BY <1>1, <2>1, <2>2 DEF StoppedIsIdle, ForkPhases, ProcsInOrder, InputPipes, ioVars
    <2>6. ReportsInOrder'
      BY <1>1, <2>1 DEF ReportsInOrder
    <2>7. PipeContents' /\ PipesAreNotShared'
      BY <1>1, <2>1, <2>2 DEF PipeContents, PipesAreNotShared, ioVars
    <2> QED
      BY <2>4, <2>5, <2>6, <2>7 DEF PopenInv
  <1>10. ASSUME NEW r \in Runs, ChildExits(r) PROVE PopenInv'
    <2>1. /\ proc[r].st = "running" /\ proc' = [proc EXCEPT ![r].st = "zombie"]
          /\ UNCHANGED <<popen, frk, stdin, wqueue, gen, ioVars, forkEvts, results>>
      BY <1>10 DEF ChildExits
    <2>2. /\ proc' \in [Runs -> Processes] /\ proc'[r].st = "zombie"
          /\ \A q \in Runs : proc'[q].in = proc[q].in /\ (q # r => proc'[q] = proc[q])
      BY <1>1, <2>1 DEF PopenTypes, Processes
    <2>3. PopenTypes'
      BY <1>1, <2>1, <2>2 DEF PopenTypes, ioVars
    <2>4. StoppedIsIdle' /\ ForkPhases'
      BY <1>1, <2>1 DEF StoppedIsIdle, ForkPhases, ioVars
    <2>5. ProcsInOrder'
      BY <1>1, <2>1, <2>2 DEF ProcsInOrder
    <2>6. InputPipes'
      BY <1>1, <2>1, <2>2 DEF InputPipes
    <2>7. ReportsInOrder'
      BY <1>1, <2>1 DEF ReportsInOrder
    <2>8. PipeContents' /\ PipesAreNotShared'
      BY <1>1, <2>1, <2>2 DEF PipeContents, PipesAreNotShared, ioVars
    <2> QED
      BY <2>3, <2>4, <2>5, <2>6, <2>7, <2>8 DEF PopenInv
  <1>11. CASE SigchldCb
    <2>1. /\ frk.on /\ ~frk.trig /\ frk.run # 0 /\ forkEvts = <<>> /\ popen
          /\ proc' = [proc EXCEPT ![frk.run].st = "reaped"]
          /\ frk' = [frk EXCEPT !.on = FALSE] /\ forkEvts' = Append(forkEvts, frk.run)
          /\ UNCHANGED <<popen, stdin, wqueue, gen, ioVars, results>>
      BY <1>1, <1>11 DEF SigchldCb, ForkPhases, StoppedIsIdle
    <2>2. frk.run \in Runs
      BY <1>2, <2>1 DEF Runs
    <2>3. forkEvts' = <<frk.run>> /\ forkEvts' # <<>> /\ forkEvts' \in Seq(Runs)
      BY <2>1, <2>2
    <2>4. /\ frk' \in [on : BOOLEAN, trig : BOOLEAN, run : 0..MaxRuns]
          /\ ~frk'.on /\ ~frk'.trig /\ frk'.run = frk.run
      BY <1>1, <2>1 DEF PopenTypes
    <2>5. /\ proc' \in [Runs -> Processes] /\ proc'[frk.run].st = "reaped"
          /\ \A q \in Runs : proc'[q].in = proc[q].in /\ (q # frk.run => proc'[q] = proc[q])
      BY <1>1, <2>1, <2>2 DEF PopenTypes, Processes
    <2>6. PopenTypes'
      BY <1>1, <2>1, <2>3, <2>4, <2>5 DEF PopenTypes, ioVars
    <2>7. StoppedIsIdle' /\ ForkPhases'
      BY <1>1, <2>1, <2>3, <2>4 DEF StoppedIsIdle, ForkPhases, ioVars
    <2>8. ProcsInOrder'
      <3> SUFFICES ASSUME NEW r \in Runs
                   PROVE  /\ frk.run < r => proc'[r].st = "none"
                          /\ r < frk.run \/ r = frk.run => proc'[r].st = "reaped"
        BY <2>4 DEF ProcsInOrder
      <3>1. frk.run < r \/ r < frk.run => r # frk.run
        BY <1>2
      <3> QED
        BY <1>1, <2>5, <3>1 DEF ProcsInOrder
    <2>9. InputPipes'
      BY <1>1, <2>1, <2>4, <2>5 DEF InputPipes
    <2>10. ReportsInOrder'
      BY <1>1, <2>1, <2>3, <2>4 DEF ReportsInOrder
    <2>11. PipeContents' /\ PipesAreNotShared'
      BY <1>1, <2>1, <2>4, <2>5 DEF PipeContents, PipesAreNotShared, ioVars
    <2> QED
      BY <2>6, <2>7, <2>8, <2>9, <2>10, <2>11 DEF PopenInv
  <1>12. CASE ForkEventHandler
    <2>1. /\ forkEvts # <<>> /\ forkEvts = <<frk.run>> /\ ~frk.on /\ ~frk.trig /\ popen
      BY <1>1, <1>12 DEF ForkEventHandler, ForkPhases, StoppedIsIdle
    <2>2. Tail(forkEvts) = <<>> /\ Head(forkEvts) = frk.run
      BY <2>1
    <2>3. /\ forkEvts' = <<>> /\ popen' = FALSE /\ wqueue' = [wqueue EXCEPT !.on = FALSE]
          /\ reading' = FALSE /\ results' = Append(results, frk.run)
          /\ UNCHANGED <<frk, proc, stdin, gen, inpipe, input, outpipe, output>>
      BY <1>12, <2>1, <2>2 DEF ForkEventHandler, QueueStopped
    <2>4. wqueue' \in [on : BOOLEAN, fd : Nat] /\ ~wqueue'.on /\ wqueue'.fd = wqueue.fd
      BY <1>1, <2>3 DEF PopenTypes
    <2>5. frk.run = Len(results) + 1 /\ Len(results) \in Nat
      BY <1>1, <2>1, LenProperties DEF ReportsInOrder, PopenTypes
    <2>6. frk.run \in Runs
      BY <1>2, <2>5 DEF Runs
    <2>7. /\ results' \in Seq(Runs) /\ Len(results') = frk.run
          /\ \A i \in 1..Len(results) : results'[i] = results[i]
          /\ results'[frk.run] = frk.run
      BY <1>1, <2>3, <2>5, <2>6, AppendProperties DEF PopenTypes
    <2>8. forkEvts' \in Seq(Runs)
      BY <2>3, EmptySeq
    <2>9. PopenTypes'
      BY <1>1, <2>3, <2>4, <2>7, <2>8 DEF PopenTypes
    <2>10. StoppedIsIdle' /\ ForkPhases' /\ ProcsInOrder' /\ InputPipes'
      BY <1>1, <2>1, <2>3, <2>4 DEF StoppedIsIdle, ForkPhases, ProcsInOrder, InputPipes
    <2>11. ReportsInOrder'
      <3>1. ASSUME NEW i \in 1..Len(results') PROVE results'[i] = i
        <4>1. i \in 1..Len(results) \/ i = frk.run
          BY <2>5, <2>7
        <4> QED
          BY <1>1, <2>7, <4>1 DEF ReportsInOrder
      <3> QED
        BY <2>1, <2>3, <2>7, <3>1 DEF ReportsInOrder
    <2>12. PipeContents' /\ PipesAreNotShared'
      BY <1>1, <2>3 DEF PipeContents, PipesAreNotShared
    <2> QED
      BY <2>9, <2>10, <2>11, <2>12 DEF PopenInv
  <1>13. CASE StopPopen
    <2>1. /\ ~frk.on /\ forkEvts = <<>> /\ popen' = FALSE /\ reading' = FALSE
          /\ wqueue' = [wqueue EXCEPT !.on = FALSE]
          /\ UNCHANGED <<frk, proc, stdin, gen, inpipe, input, outpipe, output, forkEvts, results>>
      BY <1>13 DEF StopPopen, QueueStopped
    <2>2. wqueue' \in [on : BOOLEAN, fd : Nat] /\ ~wqueue'.on /\ wqueue'.fd = wqueue.fd
      BY <1>1, <2>1 DEF PopenTypes
    <2>3. PopenTypes'
      BY <1>1, <2>1, <2>2 DEF PopenTypes
    <2>4. StoppedIsIdle' /\ ForkPhases' /\ ProcsInOrder' /\ InputPipes'
      BY <1>1, <2>1, <2>2 DEF StoppedIsIdle, ForkPhases, ProcsInOrder, InputPipes
    <2>5. ReportsInOrder'
      BY <1>1, <2>1 DEF ReportsInOrder
    <2>6. PipeContents' /\ PipesAreNotShared'
      BY <1>1, <2>1 DEF PipeContents, PipesAreNotShared
    <2> QED
      BY <2>3, <2>4, <2>5, <2>6 DEF PopenInv
  <1>14. ASSUME ForkExec(FALSE) PROVE PopenInv'
    <2>1. /\ frk.trig /\ frk.on /\ frk' = [frk EXCEPT !.trig = FALSE]
          /\ UNCHANGED <<popen, proc, stdin, wqueue, gen, ioVars, forkEvts, results>>
      BY <1>1, <1>14 DEF ForkExec, ForkedChild, ForkPhases
    <2>2. frk'.on /\ ~frk'.trig /\ frk'.run = frk.run
      BY <1>1, <2>1 DEF PopenTypes
    <2>3. frk' \in [on : BOOLEAN, trig : BOOLEAN, run : 0..MaxRuns]
      BY <1>1, <2>1 DEF PopenTypes
    <2>4. PopenTypes'
      BY <1>1, <2>1, <2>2, <2>3 DEF PopenTypes, ioVars
    <2>5. StoppedIsIdle' /\ ForkPhases' /\ ProcsInOrder' /\ InputPipes'
      BY <1>1, <2>1, <2>2 DEF StoppedIsIdle, ForkPhases, ProcsInOrder, InputPipes, ioVars
    <2>6. ReportsInOrder' /\ PipeContents' /\ PipesAreNotShared'
      BY <1>1, <2>1, <2>2 DEF ReportsInOrder, PipeContents, PipesAreNotShared, ioVars
    <2> QED
      BY <2>4, <2>5, <2>6 DEF PopenInv
  <1>15. CASE WriteStdin
    <2>1. /\ wqueue.on /\ inpipe' = inpipe \cup {<<wqueue.fd, frk.run>>}
          /\ UNCHANGED <<popen, frk, proc, stdin, wqueue, gen, input, reading, outpipe,
                         output, forkEvts, results>>
      BY <1>15 DEF WriteStdin
    <2>2. wqueue.fd \in Nat \ {0} /\ wqueue.fd <= gen /\ frk.run \in Runs
      BY <1>1, <1>2, <2>1 DEF PopenTypes, Runs
    <2>3. inpipe' \subseteq (Nat \ {0}) \X Runs /\ \A x \in inpipe' : x[1] <= gen
      BY <1>1, <2>1, <2>2 DEF PopenTypes
    <2>4. PopenTypes'
      BY <1>1, <2>1, <2>3 DEF PopenTypes
    <2>5. StoppedIsIdle' /\ ForkPhases' /\ ProcsInOrder' /\ InputPipes' /\ ReportsInOrder'
      BY <1>1, <2>1 DEF StoppedIsIdle, ForkPhases, ProcsInOrder, InputPipes, ReportsInOrder
    <2>6. PipeContents' /\ PipesAreNotShared'
      BY <1>1, <2>1 DEF PipeContents, PipesAreNotShared
    <2> QED
      BY <2>4, <2>5, <2>6 DEF PopenInv
  <1>16. ASSUME NEW r \in Runs, ChildReads(r) PROVE PopenInv'
    <2> DEFINE mine == {x \in inpipe : x[1] = proc[r].in}
    <2>1. /\ proc[r].st = "running" /\ inpipe' = inpipe \ mine
          /\ input' = input \cup {<<r, x[2]>> : x \in mine}
          /\ UNCHANGED <<popen, frk, proc, stdin, wqueue, gen, reading, outpipe, output,
                         forkEvts, results>>
      BY <1>16 DEF ChildReads
    <2>2. \A x \in mine : x[2] = r
      BY <1>1, <2>1 DEF PipeContents
    <2>3. \A x \in input' : x \in input \/ x = <<r, r>>
      BY <2>1, <2>2
    <2>4. inpipe' \subseteq inpipe
      BY <2>1
    <2> HIDE DEF mine
    <2>5. PopenTypes'
      BY <1>1, <2>1, <2>3, <2>4 DEF PopenTypes
    <2>6. StoppedIsIdle' /\ ForkPhases' /\ ProcsInOrder' /\ InputPipes' /\ ReportsInOrder'
      BY <1>1, <2>1 DEF StoppedIsIdle, ForkPhases, ProcsInOrder, InputPipes, ReportsInOrder
    <2>7. PipeContents'
      BY <1>1, <2>1, <2>4 DEF PipeContents
    <2>8. PipesAreNotShared'
      BY <1>1, <2>1, <2>3 DEF PipesAreNotShared
    <2> QED
      BY <2>5, <2>6, <2>7, <2>8 DEF PopenInv
  <1> QED
    <2>1. ASSUME NEW forked \in BOOLEAN, ForkExec(forked) PROVE PopenInv'
      BY <1>6, <1>14, <2>1
    <2> QED
      BY <1>3, <1>4, <1>5, <1>7, <1>8, <1>9, <1>10, <1>11, <1>12, <1>13, <1>15, <1>16, <2>1
         DEF PopenNext

(* If the application leaves the end of a run to the listener, and starts  *)
(* it again only when nothing is left unread in the pipes it keeps, the    *)
(* runs of a popen listener are separate: every child has an open stdin,   *)
(* to which the write queue writes, reads only input of its own run, its   *)
(* output is read in its own run, a stopped listener can be started again  *)
(* and the ends are reported once and in order, however often it is        *)
(* started, whatever the children do, and if forks or pipes fail.          *)
THEOREM RunsStaySeparate ==
  ASSUME ~StopsRunning, Leftovers = {}
  PROVE  PopenSpec => []RunsAreSeparate
  <1>1. PopenInit => PopenInv
    <2> SUFFICES ASSUME PopenInit PROVE PopenInv
      OBVIOUS
    <2>1. \A r \in Runs : r \in Nat /\ ~(r < 0) /\ r # 0
      BY PopenAssumption DEF Runs
    <2>2. NoProc \in Processes /\ NoProc.in = 0 /\ NoProc.st = "none"
      BY DEF NoProc, Processes
    <2>3. PopenTypes
      <3>1. 0 \in 0..MaxRuns
        BY PopenAssumption
      <3>2. frk \in [on : BOOLEAN, trig : BOOLEAN, run : 0..MaxRuns] /\ frk.run = 0
        BY <3>1 DEF PopenInit
      <3>3. proc \in [Runs -> Processes] /\ \A r \in Runs : proc[r].in = 0
        BY <2>2 DEF PopenInit
      <3>4. stdin \in [r : Nat, w : Nat] /\ stdin.r = 1 /\ stdin.w = 1
        BY DEF PopenInit
      <3>5. wqueue \in [on : BOOLEAN, fd : Nat] /\ wqueue.fd = 1
        BY DEF PopenInit
      <3>6. gen = 1 /\ popen \in BOOLEAN /\ reading \in BOOLEAN /\ output = {}
            /\ inpipe = {} /\ input = {} /\ outpipe = {} /\ forkEvts = <<>> /\ results = <<>>
        BY DEF PopenInit
      <3> QED
        BY <3>2, <3>3, <3>4, <3>5, <3>6, EmptySeq DEF PopenTypes, PopenInit
    <2>4. StoppedIsIdle /\ ForkPhases
      BY DEF PopenInit, StoppedIsIdle, ForkPhases
    <2>5. ProcsInOrder
      BY <2>1, <2>2 DEF PopenInit, ProcsInOrder
    <2>6. InputPipes
      BY <2>2 DEF PopenInit, InputPipes
    <2>7. ReportsInOrder
      BY EmptySeq DEF PopenInit, ReportsInOrder
    <2>8. PipeContents /\ PipesAreNotShared
      BY <2>2 DEF PopenInit, PipeContents, PipesAreNotShared
    <2> QED
      BY <2>3, <2>4, <2>5, <2>6, <2>7, <2>8 DEF PopenInv
  <1>2. PopenInv /\ [PopenNext]_popenVars => PopenInv'
    BY PopenStep
  <1>3. PopenInv => RunsAreSeparate
    <2> SUFFICES ASSUME PopenInv PROVE RunsAreSeparate
      OBVIOUS
    <2>1. /\ PopenTypes /\ StoppedIsIdle /\ ForkPhases /\ ProcsInOrder /\ InputPipes
          /\ ReportsInOrder /\ PipeContents /\ PipesAreNotShared
      BY DEF PopenInv
    <2>2. PopenTypeOK
      <3>1. gen \in 1..(MaxRuns + 1)
        <4>1. gen \in Nat \ {0} /\ gen <= frk.run + 1 /\ frk.run \in 0..MaxRuns
          BY <2>1 DEF PopenTypes
        <4> QED
          BY <4>1, PopenAssumption
      <3>2. \A n \in Nat : n <= gen => n \in 0..gen
        BY <3>1
      <3>3. stdin \in [r : 0..gen, w : 0..gen]
        BY <2>1, <3>2 DEF PopenTypes
      <3>4. wqueue \in [on : BOOLEAN, fd : 0..gen]
        BY <2>1, <3>2 DEF PopenTypes
      <3>5. proc \in [Runs -> [st : {"none", "running", "zombie", "reaped"}, in : 0..gen]]
        <4>1. \A r \in Runs : proc[r] \in [st : {"none", "running", "zombie", "reaped"},
                                           in : 0..gen]
          BY <2>1, <3>2 DEF PopenTypes, Processes
        <4> QED
          BY <2>1, <4>1 DEF PopenTypes
      <3>6. inpipe \subseteq (1..gen) \X Runs
        <4>1. \A x \in inpipe : x[1] \in Nat \ {0} /\ x[1] <= gen /\ x[2] \in Runs
                               /\ x = <<x[1], x[2]>>
          BY <2>1 DEF PopenTypes
        <4> QED
          BY <3>1, <4>1
      <3> QED
        BY <2>1, <3>1, <3>3, <3>4, <3>5, <3>6 DEF PopenTypes, PopenTypeOK
    <2>3. InputReachesChild
      BY <2>1 DEF InputPipes, InputReachesChild
    <2>4. PopenCanRestart
      BY <2>1 DEF StoppedIsIdle, PopenCanRestart
    <2>5. ResultsInOrder
      <3> SUFFICES ASSUME NEW i \in DOMAIN results
                   PROVE  results[i] = i /\ proc[i].st = "reaped"
        BY DEF ResultsInOrder
      <3>1. i \in 1..Len(results) /\ results[i] \in Runs /\ Len(results) \in Nat
        BY <2>1, LenProperties, ElementOfSeq DEF PopenTypes
      <3>2. results[i] = i
        BY <2>1, <3>1 DEF ReportsInOrder
      <3>3. frk.run = Len(results) \/ frk.run = Len(results) + 1
        BY <2>1 DEF ReportsInOrder
      <3>4. i < frk.run \/ (i = frk.run /\ frk.run = Len(results))
        BY <3>1, <3>3
      <3>5. frk.run = Len(results) => ~frk.on
        <4>1. frk.run = Len(results) => frk.run # Len(results) + 1
          BY <3>1
        <4> QED
          BY <2>1, <4>1 DEF ReportsInOrder
      <3> QED
        BY <2>1, <3>1, <3>2, <3>4, <3>5 DEF ProcsInOrder
    <2> QED
      BY <2>1, <2>2, <2>3, <2>4, <2>5 DEF RunsAreSeparate
  <1> QED
    BY <1>1, <1>2, <1>3, PTL DEF PopenSpec

---------------------------------------------------------------------------
(* crtx_root.  The table of graphs maps slots to allocated graphs one to   *)
(* one, the repository has at most one entry of a name per crtx_init, what *)
(* one thread writes to the self pipe is read in threes, and the pointers  *)
(* that crtx_finish leaves behind are of this crtx_init.                   *)

Parts == {"value", "cb", "data"} \X Writers \X Nat

RootTypes ==
    /\ RootTypeOK
    /\ selfpipe \in Seq(Parts)
    /\ called \in Seq(Parts \X Parts)

GraphsListed ==
    /\ \A i \in DOMAIN gtable : gtable[i] \in glive \cup {NoGraph}
    /\ \A g \in glive : \E i \in DOMAIN gtable : gtable[i] = g
    /\ \A i, j \in DOMAIN gtable : gtable[i] = gtable[j] /\ gtable[i] # NoGraph => i = j

(* The entries of one name: of the first m calls of crtx_init, and of each *)
(* at most one.                                                            *)
EntriesUpTo(s, m) ==
    /\ \A i \in 1..Len(s) : s[i] <= m
    /\ \A i, j \in 1..Len(s) : s[i] = s[j] => i = j

PluginsListed == \A n \in PluginNames : EntriesUpTo(repo[n], inits)

NothingStale ==
    /\ ReinitStartsAfresh
    /\ active => spipeOf \in {0, inits} /\ evthread \in {0, inits}

(* q is what its thread writes after p.                                    *)
Follows(p, q) ==
    /\ q[2] = p[2]
    /\ \/ p[1] = "value" /\ q[1] = "cb" /\ q[3] = p[3]
       \/ p[1] = "cb" /\ q[1] = "data" /\ q[3] = p[3]
       \/ p[1] = "data" /\ q[1] = "value"

(* What a thread writes next.                                              *)
NextPart(w, t) == << <<"value", "cb", "data">>[t.done + 1], w, t.calls + 1 >>

PartsInOrder ==
    /\ selfpipe # <<>> => selfpipe[1][1] = "value"
    /\ \A i \in 1..(Len(selfpipe) - 1) : Follows(selfpipe[i], selfpipe[i + 1])
    /\ \A w \in Writers :
          /\ selfpipe = <<>> => writer[w].done = 0
          /\ selfpipe # <<>> => Follows(selfpipe[Len(selfpipe)], NextPart(w, writer[w]))

RootInv ==
    /\ RootTypes /\ GraphsListed /\ PluginsListed /\ PartsInOrder /\ CallbacksAsQueued
    /\ NothingStale

LEMMA LeastSlot ==
  ASSUME NEW T, T \subseteq Nat, T # {}
  PROVE  \E x \in T : \A y \in T : x <= y
  <1>1. PICK x \in T : \A y \in T : ~(<<y, x>> \in OpToRel(<, Nat))
    BY NatLessThanWellFounded, WFMin
  <1>2. ASSUME NEW y \in T PROVE x <= y
    <2>1. ASSUME y < x PROVE <<y, x>> \in OpToRel(<, Nat)
      BY <2>1, Zenon DEF OpToRel
    <2>2. ~(y < x)
      BY <1>1, <2>1
    <2> QED
      BY <2>2
  <1> QED
    BY <1>2

(* The table after slot i got a graph that was in none.                    *)
LEMMA SlotFilled ==
  ASSUME RootTypes, GraphsListed, NEW g \in RootGraphs, g \notin glive,
         NEW i \in DOMAIN gtable, gtable[i] = NoGraph,
         gtable' = [gtable EXCEPT ![i] = g], glive' = glive \cup {g}
  PROVE  gtable' \in Seq(RootGraphs \cup {NoGraph}) /\ GraphsListed'
  <1>1. gtable \in Seq(RootGraphs \cup {NoGraph}) /\ g # NoGraph
    BY RootAssumption DEF RootTypes, RootTypeOK
  <1>2. i \in 1..Len(gtable) /\ g \in RootGraphs \cup {NoGraph}
    BY <1>1, LenProperties
  <1>3. gtable' \in Seq(RootGraphs \cup {NoGraph})
    BY <1>1, <1>2, ExceptSeq
  <1>4. /\ DOMAIN gtable' = DOMAIN gtable /\ gtable'[i] = g
        /\ \A j \in DOMAIN gtable : j # i => gtable'[j] = gtable[j]
    OBVIOUS
  <1>5. \A j \in DOMAIN gtable : gtable[j] # g
    BY <1>1 DEF GraphsListed
  <1>6. \A h \in glive : h # NoGraph
    BY RootAssumption DEF RootTypes, RootTypeOK
  <1>7. \A j \in DOMAIN gtable' : gtable'[j] \in glive' \cup {NoGraph}
    BY <1>4 DEF GraphsListed
  <1>8. \A h \in glive' : \E j \in DOMAIN gtable' : gtable'[j] = h
    <2> SUFFICES ASSUME NEW h \in glive' PROVE \E j \in DOMAIN gtable' : gtable'[j] = h
      OBVIOUS
    <2>1. CASE h = g
      BY <1>4, <2>1
    <2>2. CASE h \in glive
      BY <1>4, <1>6, <2>2 DEF GraphsListed
    <2> QED
      BY <2>1, <2>2
  <1>9. \A j, k \in DOMAIN gtable' : gtable'[j] = gtable'[k] /\ gtable'[j] # NoGraph => j = k
    BY <1>4, <1>5 DEF GraphsListed
  <1> QED
    BY <1>3, <1>7, <1>8, <1>9 DEF GraphsListed

LEMMA SlotAppended ==
  ASSUME RootTypes, GraphsListed, NEW g \in RootGraphs, g \notin glive,
         gtable' = Append(gtable, g), glive' = glive \cup {g}
  PROVE  gtable' \in Seq(RootGraphs \cup {NoGraph}) /\ GraphsListed'
  <1> DEFINE m == Len(gtable)
  <1>1. gtable \in Seq(RootGraphs \cup {NoGraph}) /\ g # NoGraph /\ g \in RootGraphs \cup {NoGraph}
    BY RootAssumption DEF RootTypes, RootTypeOK
  <1>2. m \in Nat /\ DOMAIN gtable = 1..m
    BY <1>1, LenProperties
  <1>3. /\ gtable' \in Seq(RootGraphs \cup {NoGraph}) /\ Len(gtable') = m + 1
        /\ \A i \in 1..m : gtable'[i] = gtable[i]
        /\ gtable'[m + 1] = g
    BY <1>1, AppendProperties
  <1>4. DOMAIN gtable' = 1..(m + 1)
    BY <1>3, LenProperties
  <1>5. \A i \in DOMAIN gtable' : i \in DOMAIN gtable \/ i = m + 1
    BY <1>2, <1>4
  <1>6. DOMAIN gtable \subseteq DOMAIN gtable' /\ m + 1 \in DOMAIN gtable'
    BY <1>2, <1>4
  <1>7. \A j \in DOMAIN gtable : gtable'[j] = gtable[j] /\ gtable[j] # g
    BY <1>1, <1>2, <1>3 DEF GraphsListed
  <1> HIDE DEF m
  <1>8. \A j \in DOMAIN gtable' : gtable'[j] \in glive' \cup {NoGraph}
    BY <1>3, <1>5, <1>7 DEF GraphsListed
  <1>9. \A h \in glive' : \E j \in DOMAIN gtable' : gtable'[j] = h
    BY <1>3, <1>6, <1>7 DEF GraphsListed
  <1>10. \A j, k \in DOMAIN gtable' : gtable'[j] = gtable'[k] /\ gtable'[j] # NoGraph => j = k
    BY <1>3, <1>5, <1>7 DEF GraphsListed
  <1> QED
    BY <1>3, <1>8, <1>9, <1>10 DEF GraphsListed

LEMMA SlotCleared ==
  ASSUME RootTypes, GraphsListed, NEW g \in RootGraphs, g \in glive,
         gtable' = TableWithout(g), glive' = glive \ {g}
  PROVE  gtable' \in Seq(RootGraphs \cup {NoGraph}) /\ GraphsListed'
  <1>1. gtable \in Seq(RootGraphs \cup {NoGraph}) /\ g # NoGraph /\ NoGraph \notin glive
    BY RootAssumption DEF RootTypes, RootTypeOK
  <1>2. /\ Len(gtable) \in Nat /\ DOMAIN gtable = 1..Len(gtable)
        /\ gtable \in [1..Len(gtable) -> RootGraphs \cup {NoGraph}]
    BY <1>1, LenProperties
  <1>3. /\ DOMAIN gtable' = DOMAIN gtable
        /\ \A j \in DOMAIN gtable : gtable'[j] = IF gtable[j] = g THEN NoGraph ELSE gtable[j]
    BY DEF TableWithout
  <1>4. gtable' \in [1..Len(gtable) -> RootGraphs \cup {NoGraph}]
    BY <1>2 DEF TableWithout
  <1>5. gtable' \in Seq(RootGraphs \cup {NoGraph})
    BY <1>2, <1>4
  <1>6. \A j \in DOMAIN gtable' : gtable'[j] \in glive' \cup {NoGraph}
    BY <1>3 DEF GraphsListed
  <1>7. \A h \in glive' : \E j \in DOMAIN gtable' : gtable'[j] = h
    BY <1>3 DEF GraphsListed
  <1>8. \A j, k \in DOMAIN gtable' : gtable'[j] = gtable'[k] /\ gtable'[j] # NoGraph => j = k
    BY <1>3 DEF GraphsListed
  <1> QED
    BY <1>5, <1>6, <1>7, <1>8 DEF GraphsListed

(* Of the files with one name at most one adds an entry.                   *)
LEMMA OneFilePerName ==
  ASSUME NEW n \in PluginNames, NEW P \in SUBSET PluginFiles, Loaded(P)
  PROVE  Cardinality({f \in P \ BrokenFiles : PluginName[f] = n}) \in {0, 1}
  <1> DEFINE A == {f \in P : PluginName[f] = n}
             F == {f \in P \ BrokenFiles : PluginName[f] = n}
             k == Cardinality(F)
  <1>1. IsFiniteSet(A) /\ Cardinality(A) = 1
    <2>1. IsFiniteSet(A)
      BY RootAssumption, FS_Subset
    <2> QED
      BY <2>1 DEF Loaded
  <1>2. F \subseteq A
    OBVIOUS
  <1>3. IsFiniteSet(F) /\ k <= 1
    BY <1>1, <1>2, FS_Subset
  <1>4. k \in Nat
    BY <1>3, FS_CardinalityType
  <1>5. k \in {0, 1}
    <2> HIDE DEF k
    <2> QED
      BY <1>3, <1>4
  <1> QED
    BY <1>5

(* k entries of the crtx_init that runs.                                   *)
NewEntries(k) == [i \in 1..k |-> inits + 1]

(* The entries of one name after crtx_init loaded its plugin, if it could. *)
LEMMA EntryAdded ==
  ASSUME RootTypes, PluginsListed, inits < MaxInits, NEW n \in PluginNames, NEW k \in {0, 1},
         NEW s, s = repo[n] \o NewEntries(k)
  PROVE  s \in Seq(1..MaxInits) /\ EntriesUpTo(s, inits + 1)
  <1>1. inits \in 0..MaxInits /\ MaxInits \in Nat /\ inits \in Nat
    BY RootAssumption DEF RootTypes, RootTypeOK
  <1>2. inits + 1 \in 1..MaxInits /\ repo[n] \in Seq(1..MaxInits)
    BY <1>1 DEF RootTypes, RootTypeOK
  <1>3. \A x \in 1..MaxInits : x <= inits => x <= inits + 1 /\ x # inits + 1
    BY <1>1
  <1>4. /\ \A i \in 1..Len(repo[n]) : repo[n][i] <= inits
        /\ \A i, j \in 1..Len(repo[n]) : repo[n][i] = repo[n][j] => i = j
    BY DEF PluginsListed, EntriesUpTo
  <1>5. CASE k = 0
    <2>1. NewEntries(k) = <<>>
      BY <1>5 DEF NewEntries
    <2>2. s = repo[n]
      BY <1>2, <2>1, ConcatEmptySeq
    <2>3. \A i \in 1..Len(s) : s[i] <= inits + 1
      <3> SUFFICES ASSUME NEW i \in 1..Len(s) PROVE s[i] <= inits + 1
        OBVIOUS
      <3>1. s[i] \in 1..MaxInits
        BY <1>2, <2>2, ElementOfSeq
      <3>2. s[i] <= inits
        BY <1>4, <2>2
      <3> QED
        BY <1>3, <3>1, <3>2
    <2> QED
      BY <1>2, <1>4, <2>2, <2>3 DEF EntriesUpTo
  <1>6. CASE k = 1
    <2> DEFINE m == Len(repo[n])
               c == inits + 1
    <2>1. c \in 1..MaxInits /\ c <= inits + 1
      BY <1>1, <1>2
    <2>2. NewEntries(k) = <<c>>
      BY <1>6 DEF NewEntries
    <2> HIDE DEF c
    <2>3. s = Append(repo[n], c)
      BY <1>2, <2>1, <2>2, AppendIsConcat
    <2>4. /\ s \in Seq(1..MaxInits) /\ Len(s) = m + 1
          /\ \A i \in 1..m : s[i] = repo[n][i]
          /\ s[m + 1] = c
      <3>1. ASSUME NEW q \in Seq(1..MaxInits)
            PROVE  /\ Append(q, c) \in Seq(1..MaxInits) /\ Len(Append(q, c)) = Len(q) + 1
                   /\ \A i \in 1..Len(q) : Append(q, c)[i] = q[i]
                   /\ Append(q, c)[Len(q) + 1] = c
        BY <2>1, AppendProperties
      <3> QED
        BY <1>2, <2>3, <3>1
    <2>5. m \in Nat
      BY <1>2, LenProperties
    <2>6. \A i \in 1..m : s[i] \in 1..MaxInits /\ s[i] <= inits
      BY <1>2, <1>4, <2>4, ElementOfSeq
    <2> HIDE DEF m
    <2>7. \A i \in 1..Len(s) : i \in 1..m \/ i = m + 1
      <3>1. \A i \in 1..(m + 1) : i \in 1..m \/ i = m + 1
        BY <2>5
      <3> QED
        BY <2>4, <3>1
    <2>8. \A i \in 1..m : s[i] # c /\ s[i] <= inits + 1
      BY <1>3, <2>6 DEF c
    <2>9. \A i \in 1..Len(s) : s[i] <= inits + 1
      BY <2>1, <2>4, <2>7, <2>8
    <2>10. \A i, j \in 1..m : s[i] = s[j] => i = j
      BY <1>4, <2>4 DEF m
    <2>11. \A i, j \in 1..Len(s) : s[i] = s[j] => i = j
      BY <2>4, <2>7, <2>8, <2>10
    <2> QED
      BY <2>4, <2>9, <2>11 DEF EntriesUpTo
  <1> QED
    BY <1>5, <1>6

Threads == [done : 0..2, calls : 0..MaxCalls]

LEMMA PartKinds ==
  ASSUME NEW w \in Writers, NEW t \in Threads
  PROVE  /\ NextPart(w, t) \in Parts
         /\ NextPart(w, t)[2] = w /\ NextPart(w, t)[3] = t.calls + 1
         /\ t.done = 0 => NextPart(w, t)[1] = "value"
         /\ t.done = 1 => NextPart(w, t)[1] = "cb"
         /\ t.done = 2 => NextPart(w, t)[1] = "data"
         /\ NextPart(w, t)[1] = "value" => t.done = 0
  <1>1. t.calls + 1 \in Nat /\ t.done \in {0, 1, 2}
    BY RootAssumption DEF Threads
  <1>2. CASE t.done = 0
    BY <1>1, <1>2 DEF NextPart, Parts
  <1>3. CASE t.done = 1
    BY <1>1, <1>3 DEF NextPart, Parts
  <1>4. CASE t.done = 2
    BY <1>1, <1>4 DEF NextPart, Parts
  <1> QED
    BY <1>1, <1>2, <1>3, <1>4

LEMMA PartWritten ==
  ASSUME \A v, w \in Writers : v = w, RootTypes, PartsInOrder, NEW w \in Writers,
         SelfpipeWrite(w)
  PROVE  selfpipe' \in Seq(Parts) /\ writer' \in [Writers -> Threads] /\ PartsInOrder'
  <1> DEFINE t == writer[w]
             u == writer'[w]
             x == NextPart(w, t)
             m == Len(selfpipe)
             d == (t.done + 1) % 3
             k == IF t.done = 2 THEN t.calls + 1 ELSE t.calls
  <1>1. /\ selfpipe \in Seq(Parts) /\ writer \in [Writers -> Threads] /\ t \in Threads
    BY DEF RootTypes, RootTypeOK, Threads
  <1>2. t.calls < MaxCalls /\ selfpipe' = Append(selfpipe, x)
    BY Zenon DEF SelfpipeWrite, NextPart
  <1>3. /\ writer' = [writer EXCEPT ![w] = u]
        /\ u = [[t EXCEPT !.done = d] EXCEPT !.calls = k]
    BY <1>1 DEF SelfpipeWrite, Threads
  <1>4. /\ t.done \in {0, 1, 2} /\ t.calls + 1 \in 0..MaxCalls /\ t.calls \in 0..MaxCalls
    BY <1>1, <1>2, RootAssumption DEF Threads
  <1>5. u \in Threads /\ Follows(x, NextPart(w, u))
    <2>1. d \in 0..2 /\ k \in 0..MaxCalls
      BY <1>4
    <2>2. /\ t.done = 0 => d = 1 /\ k = t.calls
          /\ t.done = 1 => d = 2 /\ k = t.calls
          /\ t.done = 2 => d = 0
      OBVIOUS
    <2> HIDE DEF d, k, t, u
    <2>3. u \in Threads /\ u.done = d /\ u.calls = k
      BY <1>1, <1>3, <2>1 DEF Threads
    <2>4. CASE t.done = 0
      BY <1>1, <2>2, <2>3, <2>4, PartKinds DEF Follows
    <2>5. CASE t.done = 1
      BY <1>1, <2>2, <2>3, <2>5, PartKinds DEF Follows
    <2>6. CASE t.done = 2
      BY <1>1, <2>2, <2>3, <2>6, PartKinds DEF Follows
    <2> QED
      BY <1>4, <2>3, <2>4, <2>5, <2>6
  <1>6. writer' \in [Writers -> Threads]
    BY <1>1, <1>3, <1>5
  <1>7. x \in Parts /\ (t.done = 0 => x[1] = "value")
    BY <1>1, PartKinds
  <1> HIDE DEF t, u, x
  <1>8. /\ selfpipe' \in Seq(Parts) /\ selfpipe' # <<>> /\ Len(selfpipe') = m + 1
        /\ \A i \in 1..m : selfpipe'[i] = selfpipe[i]
        /\ selfpipe'[m + 1] = x
    BY <1>1, <1>2, <1>7, AppendProperties
  <1>9. m \in Nat /\ (selfpipe # <<>> => m # 0) /\ (selfpipe = <<>> => m = 0)
    BY <1>1, LenProperties, EmptySeq
  <1> HIDE DEF m
  <1>10. selfpipe'[1][1] = "value"
    <2>1. CASE selfpipe = <<>>
      BY <1>7, <1>8, <1>9, <2>1 DEF PartsInOrder, t
    <2>2. CASE selfpipe # <<>>
      <3>1. 1 \in 1..m
        BY <1>9, <2>2
      <3> QED
        BY <1>8, <2>2, <3>1 DEF PartsInOrder
    <2> QED
      BY <2>1, <2>2
  <1>11. ASSUME NEW i \in 1..(Len(selfpipe') - 1)
         PROVE  Follows(selfpipe'[i], selfpipe'[i + 1])
    <2>1. i \in 1..m /\ (i = m \/ i \in 1..(m - 1))
      BY <1>8, <1>9
    <2>2. CASE i = m
      <3>1. selfpipe # <<>> /\ selfpipe'[i] = selfpipe[m] /\ selfpipe'[i + 1] = x
        BY <1>8, <1>9, <2>1, <2>2
      <3>2. Follows(selfpipe[m], x)
        BY <3>1 DEF PartsInOrder, m, x, t
      <3> QED
        BY <3>1, <3>2
    <2>3. CASE i \in 1..(m - 1)
      <3>1. i + 1 \in 1..m
        BY <1>9, <2>3
      <3>2. selfpipe'[i] = selfpipe[i] /\ selfpipe'[i + 1] = selfpipe[i + 1]
        BY <1>8, <2>1, <3>1
      <3>3. Follows(selfpipe[i], selfpipe[i + 1])
        BY <2>3 DEF PartsInOrder, m
      <3> QED
        BY <3>2, <3>3
    <2> QED
      BY <2>1, <2>2, <2>3
  <1>12. \A v \in Writers : Follows(selfpipe'[Len(selfpipe')], NextPart(v, writer'[v]))
    BY <1>5, <1>8 DEF u
  <1> QED
    BY <1>6, <1>8, <1>10, <1>11, <1>12 DEF PartsInOrder

LEMMA CallRead ==
  ASSUME RootTypes, PartsInOrder, CallbacksAsQueued, SelfpipeHandler
  PROVE  /\ selfpipe' \in Seq(Parts) /\ called' \in Seq(Parts \X Parts)
         /\ PartsInOrder' /\ CallbacksAsQueued'
  <1> DEFINE q == selfpipe
             m == Len(selfpipe)
             c == <<q[2], q[3]>>
  <1>1. /\ q \in Seq(Parts) /\ writer \in [Writers -> Threads]
        /\ called \in Seq(Parts \X Parts) /\ q # <<>>
    BY DEF RootTypes, RootTypeOK, Threads, SelfpipeHandler
  <1>2. m \in Nat /\ (\A i \in 1..m : q[i] \in Parts) /\ Head(q) = q[1]
    BY <1>1, LenProperties, ElementOfSeq
  <1>3. q[1][1] = "value"
    BY <1>1 DEF PartsInOrder
  <1>4. /\ m >= 3 /\ selfpipe' = SubSeq(q, 4, m) /\ called' = Append(called, c)
        /\ UNCHANGED writer
    BY <1>2, <1>3 DEF SelfpipeHandler, ReadCall
  <1>5. /\ 1 \in 1..(m - 1) /\ 2 \in 1..(m - 1) /\ 3 \in 1..m /\ 2 \in 1..m
        /\ 1 + 1 = 2 /\ 2 + 1 = 3
    BY <1>2, <1>4
  <1>6. Follows(q[1], q[2]) /\ Follows(q[2], q[3])
    BY <1>5 DEF PartsInOrder
  <1>7. /\ q[2][1] = "cb" /\ q[3][1] = "data" /\ q[3][2] = q[2][2] /\ q[3][3] = q[2][3]
    BY <1>3, <1>6 DEF Follows
  <1>8. c \in Parts \X Parts
    BY <1>2, <1>5
  <1>9. c[1] = q[2] /\ c[2] = q[3]
    OBVIOUS
  <1> HIDE DEF c, q, m
  <1>10. /\ called' \in Seq(Parts \X Parts) /\ Len(called') = Len(called) + 1
         /\ \A i \in 1..Len(called) : called'[i] = called[i]
         /\ called'[Len(called) + 1] = c
    BY <1>1, <1>4, <1>8, AppendProperties
  <1>11. /\ Len(called) \in Nat /\ DOMAIN called = 1..Len(called)
         /\ DOMAIN called' = 1..Len(called')
    BY <1>1, <1>10, LenProperties
  <1>12. CallbacksAsQueued'
    <2> SUFFICES ASSUME NEW i \in DOMAIN called'
                 PROVE  /\ called'[i][1][1] = "cb"
                        /\ called'[i][2][1] = "data"
                        /\ \A j \in {1, 2} : /\ called'[i][j][2] = called'[i][1][2]
                                             /\ called'[i][j][3] = called'[i][1][3]
      BY DEF CallbacksAsQueued
    <2>1. i \in 1..Len(called) \/ i = Len(called) + 1
      BY <1>10, <1>11
    <2>2. CASE i \in 1..Len(called)
      BY <1>10, <1>11, <2>2 DEF CallbacksAsQueued
    <2>3. CASE i = Len(called) + 1
      <3>1. called'[i] = c
        BY <1>10, <2>3
      <3> QED
        BY <1>7, <1>9, <3>1
    <2> QED
      BY <2>1, <2>2, <2>3
  <1>13. /\ selfpipe' \in Seq(Parts) /\ (4 <= m => Len(selfpipe') = m - 3)
         /\ \A i \in 1..(m - 3) : selfpipe'[i] = q[i + 3]
    <2>1. \A i \in 4..m : q[i] \in Parts
      BY <1>2
    <2>2. /\ SubSeq(q, 4, m) \in Seq(Parts)
          /\ Len(SubSeq(q, 4, m)) = IF 4 <= m THEN m - 4 + 1 ELSE 0
          /\ \A i \in 1..(m - 4 + 1) : SubSeq(q, 4, m)[i] = q[4 + i - 1]
      BY <1>2, <2>1, SubSeqProperties
    <2>3. m - 4 + 1 = m - 3 /\ \A i \in 1..(m - 3) : 4 + i - 1 = i + 3
      BY <1>2
    <2> QED
      BY <1>4, <2>2, <2>3
  <1>14. CASE m = 3
    <2>1. selfpipe' = <<>>
      BY <1>4, <1>14, SubSeqEmpty
    <2>2. ASSUME NEW w \in Writers PROVE writer'[w].done = 0
      <3>1. Follows(q[3], NextPart(w, writer[w])) /\ writer[w] \in Threads
        BY <1>1, <1>14 DEF PartsInOrder, m, q
      <3>2. NextPart(w, writer[w])[1] = "value"
        BY <1>7, <3>1 DEF Follows
      <3> QED
        BY <1>4, <3>1, <3>2, PartKinds
    <2>3. Len(selfpipe') = 0
      BY <2>1, EmptySeq
    <2> QED
      BY <1>10, <1>12, <1>13, <2>1, <2>2, <2>3 DEF PartsInOrder
  <1>15. CASE m # 3
    <2>1. 4 <= m /\ Len(selfpipe') = m - 3
      BY <1>2, <1>4, <1>13, <1>15
    <2>2. selfpipe'[1] = q[4] /\ selfpipe'[m - 3] = q[m]
      <3>1. 1 \in 1..(m - 3) /\ m - 3 \in 1..(m - 3) /\ 1 + 3 = 4 /\ (m - 3) + 3 = m
        BY <1>2, <2>1
      <3> QED
        BY <1>13, <3>1
    <2>3. selfpipe'[1][1] = "value"
      <3>1. 3 \in 1..(m - 1) /\ 3 + 1 = 4
        BY <1>2, <2>1
      <3>2. Follows(q[3], q[4])
        BY <3>1 DEF PartsInOrder, m, q
      <3> QED
        BY <1>7, <2>2, <3>2 DEF Follows
    <2>4. ASSUME NEW i \in 1..(Len(selfpipe') - 1)
          PROVE  Follows(selfpipe'[i], selfpipe'[i + 1])
      <3>1. /\ i + 3 \in 1..(m - 1) /\ i \in 1..(m - 3) /\ i + 1 \in 1..(m - 3)
            /\ (i + 1) + 3 = (i + 3) + 1
        BY <1>2, <2>1
      <3>2. selfpipe'[i] = q[i + 3] /\ selfpipe'[i + 1] = q[(i + 3) + 1]
        BY <1>13, <3>1
      <3>3. Follows(q[i + 3], q[(i + 3) + 1])
        BY <3>1 DEF PartsInOrder, m, q
      <3> QED
        BY <3>2, <3>3
    <2>5. \A w \in Writers : Follows(selfpipe'[Len(selfpipe')], NextPart(w, writer'[w]))
      BY <1>1, <1>4, <2>1, <2>2 DEF PartsInOrder, m, q
    <2>6. selfpipe' # <<>>
      BY <1>2, <2>1, EmptySeq
    <2> QED
      BY <1>10, <1>12, <1>13, <2>3, <2>4, <2>5, <2>6 DEF PartsInOrder
  <1> QED
    BY <1>14, <1>15

LEMMA RootStep ==
  ASSUME StaleUses = {}, \A v, w \in Writers : v = w, RootInv, [RootNext]_rootVars
  PROVE  RootInv'
  <1>1. /\ RootTypes /\ GraphsListed /\ PluginsListed /\ PartsInOrder /\ CallbacksAsQueued
        /\ NothingStale
    BY DEF RootInv
  <1>2. /\ inits \in 0..MaxInits /\ active \in BOOLEAN
        /\ gtable \in Seq(RootGraphs \cup {NoGraph}) /\ glive \subseteq RootGraphs
        /\ plugins \subseteq PluginFiles /\ repo \in [PluginNames -> Seq(1..MaxInits)]
        /\ spipeOf \in 0..MaxInits /\ writer \in [Writers -> Threads] /\ evthread \in 0..MaxInits
        /\ selfpipe \in Seq(Parts) /\ called \in Seq(Parts \X Parts)
        /\ stale \subseteq {"selfpipe", "evloop", "plugin"}
    BY <1>1 DEF RootTypes, RootTypeOK, Threads
  <1>3. CASE UNCHANGED rootVars
    BY <1>1, <1>3 DEF rootVars, RootInv, RootTypes, RootTypeOK, GraphsListed, PluginsListed,
                      PartsInOrder, CallbacksAsQueued, NothingStale, ReinitStartsAfresh
  <1>4. CASE CrtxInit
    <2>1. PICK P \in SUBSET PluginFiles :
             /\ Loaded(P)
             /\ plugins' = P
             /\ repo' = [n \in PluginNames |->
                   repo[n] \o [i \in 1..Cardinality({f \in P \ BrokenFiles : PluginName[f] = n})
                                   |-> inits + 1]]
      BY <1>4 DEF CrtxInit
    <2>2. /\ inits < MaxInits /\ active' = TRUE /\ inits' = inits + 1
          /\ spipeOf = 0 /\ evthread = 0
          /\ UNCHANGED <<gtable, glive, spipeOf, writer, selfpipe, called, evthread, stale>>
      BY <1>4 DEF CrtxInit
    <2>3. inits' \in 0..MaxInits
      BY <1>2, <2>2, RootAssumption
    <2>4. ASSUME NEW n \in PluginNames
          PROVE  repo'[n] \in Seq(1..MaxInits) /\ EntriesUpTo(repo'[n], inits')
      <3>1. PICK k \in {0, 1} : k = Cardinality({f \in P \ BrokenFiles : PluginName[f] = n})
        BY <2>1, OneFilePerName
      <3>2. PICK s : s = repo[n] \o NewEntries(k) /\ repo'[n] = s
        BY <2>1, <3>1 DEF NewEntries
      <3>3. s \in Seq(1..MaxInits) /\ EntriesUpTo(s, inits + 1)
        BY <1>1, <2>2, <3>2, EntryAdded
      <3> QED
        BY <2>2, <3>2, <3>3
    <2>5. repo' \in [PluginNames -> Seq(1..MaxInits)]
      BY <2>1, <2>4
    <2>6. RootTypes'
      BY <1>1, <2>1, <2>2, <2>3, <2>5 DEF RootTypes, RootTypeOK
    <2>7. PluginsListed'
      BY <1>1, <2>2, <2>4 DEF PluginsListed
    <2> QED
      BY <1>1, <2>2, <2>6, <2>7 DEF RootInv, GraphsListed, PartsInOrder, CallbacksAsQueued,
                                    NothingStale, ReinitStartsAfresh
  <1>5. CASE CrtxFinish
    <2>1. /\ active' = FALSE /\ gtable' = <<>> /\ glive' = {} /\ plugins' = {}
          /\ selfpipe' = <<>> /\ called' = <<>> /\ writer' = [w \in Writers |-> Idle]
          /\ stale' = stale
          /\ UNCHANGED <<inits, repo, spipeOf, evthread>>
      BY <1>1, <1>5 DEF CrtxFinish, NothingStale, StaleUse
    <2>2. Idle \in Threads /\ Idle.done = 0
      BY RootAssumption DEF Idle, Threads
    <2>3. writer' \in [Writers -> Threads] /\ \A w \in Writers : writer'[w].done = 0
      BY <2>1, <2>2
    <2>4. RootTypes'
      BY <1>2, <2>1, <2>3, EmptySeq DEF RootTypes, RootTypeOK, Threads
    <2>5. DOMAIN gtable' = {} /\ DOMAIN called' = {} /\ Len(selfpipe') = 0
      BY <2>1
    <2>6. GraphsListed' /\ CallbacksAsQueued'
      BY <2>1, <2>5 DEF GraphsListed, CallbacksAsQueued
    <2>7. PartsInOrder'
      <3>1. 1..(Len(selfpipe') - 1) = {}
        BY <2>5
      <3> QED
        BY <2>1, <2>3, <3>1 DEF PartsInOrder
    <2>8. PluginsListed'
      BY <1>1, <2>1 DEF PluginsListed
    <2>9. NothingStale'
      BY <1>1, <2>1 DEF NothingStale, ReinitStartsAfresh
    <2> QED
      BY <2>4, <2>6, <2>7, <2>8, <2>9 DEF RootInv
  <1>6. ASSUME NEW n \in PluginNames, SetupPluginListener(n) PROVE RootInv'
    <2>1. /\ repo[n] # <<>> /\ inits = 1 /\ stale' = stale \cup StaleUse("plugin", Head(repo[n]))
          /\ UNCHANGED <<inits, active, gtable, glive, plugins, repo, spipeOf, writer,
                         selfpipe, called, evthread>>
      BY <1>6 DEF SetupPluginListener
    <2>2. PICK s : s = repo[n] /\ s \in Seq(1..MaxInits) /\ s # <<>>
      BY <1>2, <2>1
    <2>3. Len(s) \in Nat /\ 1 \in 1..Len(s) /\ Head(s) = s[1] /\ s[1] \in 1..MaxInits
      <3>1. Len(s) \in Nat /\ Len(s) # 0
        BY <2>2, EmptySeq, LenProperties
      <3>2. 1 \in 1..Len(s)
        BY <3>1
      <3>3. Head(s) = s[1]
        BY <2>2
      <3> QED
        BY <2>2, <3>1, <3>2, <3>3, ElementOfSeq
    <2>4. s[1] <= 1
      BY <1>1, <2>1, <2>2, <2>3 DEF PluginsListed, EntriesUpTo
    <2>5. Head(repo[n]) = inits
      BY <2>1, <2>2, <2>3, <2>4
    <2>6. stale' = stale
      BY <2>1, <2>5 DEF StaleUse
    <2> QED
      BY <1>1, <2>1, <2>6 DEF RootInv, RootTypes, RootTypeOK, GraphsListed, PluginsListed,
                              PartsInOrder, CallbacksAsQueued, NothingStale, ReinitStartsAfresh
  <1>7. CASE StartDetachedLoop
    <2>1. /\ evthread' \in {0, inits} /\ evthread' \in 0..MaxInits /\ stale' = stale
          /\ UNCHANGED <<inits, active, gtable, glive, plugins, repo, spipeOf, writer,
                         selfpipe, called>>
      BY <1>1, <1>2, <1>7 DEF StartDetachedLoop, NothingStale, StaleUse
    <2> QED
      BY <1>1, <2>1 DEF RootInv, RootTypes, RootTypeOK, GraphsListed, PluginsListed,
                        PartsInOrder, CallbacksAsQueued, NothingStale, ReinitStartsAfresh
  <1>8. ASSUME NEW g \in RootGraphs, CreateGraph(g) PROVE RootInv'
    <2>1. /\ g \notin glive /\ glive' = glive \cup {g}
          /\ UNCHANGED <<inits, active, plugins, repo, spipeOf, writer, selfpipe, called,
                         evthread, stale>>
      BY <1>8 DEF CreateGraph
    <2>2. gtable' \in Seq(RootGraphs \cup {NoGraph}) /\ GraphsListed'
      <3>1. CASE FreeSlots = {}
        <4>1. gtable' = Append(gtable, g)
          BY <1>8, <3>1 DEF CreateGraph
        <4> QED
          BY <1>1, <2>1, <4>1, SlotAppended
      <3>2. CASE FreeSlots # {}
        <4> DEFINE i == CHOOSE x \in FreeSlots : \A y \in FreeSlots : x <= y
        <4>1. gtable' = [gtable EXCEPT ![i] = g]
          BY <1>8, <3>2 DEF CreateGraph
        <4>2. FreeSlots \subseteq Nat
          <5>1. DOMAIN gtable \subseteq Nat
            BY <1>2, LenProperties
          <5> QED
            BY <5>1 DEF FreeSlots
        <4>3. i \in FreeSlots
          BY <3>2, <4>2, LeastSlot
        <4> HIDE DEF i
        <4>4. i \in DOMAIN gtable /\ gtable[i] = NoGraph
          BY <4>3 DEF FreeSlots
        <4> QED
          BY <1>1, <2>1, <4>1, <4>4, SlotFilled
      <3> QED
        BY <3>1, <3>2
    <2>3. glive' \subseteq RootGraphs
      BY <1>2, <2>1
    <2>4. RootTypes'
      BY <1>2, <2>1, <2>2, <2>3 DEF RootTypes, RootTypeOK, Threads
    <2> QED
      BY <1>1, <2>1, <2>2, <2>4 DEF RootInv, PluginsListed, PartsInOrder, CallbacksAsQueued,
                                    NothingStale, ReinitStartsAfresh
  <1>9. ASSUME NEW g \in RootGraphs, FreeGraph(g) PROVE RootInv'
    <2>1. /\ g \in glive /\ glive' = glive \ {g} /\ gtable' = TableWithout(g)
          /\ UNCHANGED <<inits, active, plugins, repo, spipeOf, writer, selfpipe, called,
                         evthread, stale>>
      BY <1>9 DEF FreeGraph
    <2>2. gtable' \in Seq(RootGraphs \cup {NoGraph}) /\ GraphsListed'
      BY <1>1, <2>1, SlotCleared
    <2>3. glive' \subseteq RootGraphs
      BY <1>2, <2>1
    <2>4. RootTypes'
      BY <1>2, <2>1, <2>2, <2>3 DEF RootTypes, RootTypeOK, Threads
    <2> QED
      BY <1>1, <2>1, <2>2, <2>4 DEF RootInv, PluginsListed, PartsInOrder, CallbacksAsQueued,
                                    NothingStale, ReinitStartsAfresh
  <1>10. ASSUME NEW w \in Writers, SelfpipeWrite(w) PROVE RootInv'
    <2>1. /\ spipeOf' \in {0, inits} /\ spipeOf' \in 0..MaxInits /\ stale' = stale
          /\ UNCHANGED <<inits, active, gtable, glive, plugins, repo, called, evthread>>
      BY <1>1, <1>2, <1>10 DEF SelfpipeWrite, NothingStale, StaleUse
    <2>2. selfpipe' \in Seq(Parts) /\ writer' \in [Writers -> Threads] /\ PartsInOrder'
      BY <1>1, <1>10, PartWritten
    <2>3. RootTypes'
      BY <1>2, <2>1, <2>2 DEF RootTypes, RootTypeOK, Threads
    <2> QED
      BY <1>1, <2>1, <2>2, <2>3 DEF RootInv, GraphsListed, PluginsListed, CallbacksAsQueued,
                                    NothingStale, ReinitStartsAfresh
  <1>11. CASE SelfpipeHandler
    <2>1. UNCHANGED <<inits, active, gtable, glive, plugins, repo, spipeOf, writer, evthread,
                      stale>>
      BY <1>11 DEF SelfpipeHandler
    <2>2. /\ selfpipe' \in Seq(Parts) /\ called' \in Seq(Parts \X Parts)
          /\ PartsInOrder' /\ CallbacksAsQueued'
      BY <1>1, <1>11, CallRead
    <2>3. RootTypes'
      BY <1>2, <2>1, <2>2 DEF RootTypes, RootTypeOK, Threads
    <2> QED
      BY <1>1, <2>1, <2>2, <2>3 DEF RootInv, GraphsListed, PluginsListed, NothingStale,
                                    ReinitStartsAfresh
  <1> QED
    BY <1>3, <1>4, <1>5, <1>6, <1>7, <1>8, <1>9, <1>10, <1>11 DEF RootNext

(* A set of slots with at most one element.                                *)
LEMMA AtMostOneSlot ==
  ASSUME NEW T, \A x, y \in T : x = y
  PROVE  Cardinality(T) = (IF T = {} THEN 0 ELSE 1)
  <1>1. CASE T = {}
    BY <1>1, FS_EmptySet
  <1>2. CASE T # {}
    <2>1. PICK x : T = {x}
      BY <1>2
    <2> QED
      BY <1>2, <2>1, FS_Singleton
  <1> QED
    BY <1>1, <1>2

(* If one thread uses the self pipe, and the application calls crtx_init   *)
(* again only if it used neither the self pipe nor the detached loop and   *)
(* sets up no listener of a plugin then, the table of graphs holds the     *)
(* allocated graphs and each once, the repository gets one entry per       *)
(* plugin and crtx_init, every callback of the self pipe is called with    *)
(* its own data, and nothing is used or freed that crtx_finish freed: for  *)
(* any number of graphs, plugins, callbacks and calls of crtx_init.        *)
THEOREM RootStaysSound ==
  ASSUME StaleUses = {}, \A v, w \in Writers : v = w
  PROVE  RootSpec => []RootIsSound
  <1>1. RootInit => RootInv
    <2> SUFFICES ASSUME RootInit PROVE RootInv
      OBVIOUS
    <2>1. /\ 0 \in 0..MaxInits /\ Idle \in Threads /\ Idle.done = 0
      BY RootAssumption DEF Idle, Threads
    <2>2. writer \in [Writers -> Threads] /\ \A w \in Writers : writer[w].done = 0
      BY <2>1 DEF RootInit
    <2>3. repo \in [PluginNames -> Seq(1..MaxInits)] /\ \A n \in PluginNames : Len(repo[n]) = 0
      BY EmptySeq DEF RootInit
    <2>4. RootTypes
      BY <2>1, <2>2, <2>3, EmptySeq DEF RootInit, RootTypes, RootTypeOK, Threads
    <2>5. DOMAIN gtable = {} /\ DOMAIN called = {} /\ Len(selfpipe) = 0
      BY DEF RootInit
    <2>6. GraphsListed /\ CallbacksAsQueued
      BY <2>5 DEF RootInit, GraphsListed, CallbacksAsQueued
    <2>7. PluginsListed
      <3>1. \A n \in PluginNames : 1..Len(repo[n]) = {}
        BY <2>3
      <3> QED
        BY <3>1 DEF RootInit, PluginsListed, EntriesUpTo
    <2>8. PartsInOrder
      <3>1. 1..(Len(selfpipe) - 1) = {}
        BY <2>5
      <3> QED
        BY <2>2, <3>1 DEF RootInit, PartsInOrder
    <2>9. NothingStale
      BY DEF RootInit, NothingStale, ReinitStartsAfresh
    <2> QED
      BY <2>4, <2>6, <2>7, <2>8, <2>9 DEF RootInv
  <1>2. RootInv /\ [RootNext]_rootVars => RootInv'
    BY RootStep
  <1>3. RootInv => RootIsSound
    <2> SUFFICES ASSUME RootInv PROVE RootIsSound
      OBVIOUS
    <2>1. /\ RootTypes /\ GraphsListed /\ PluginsListed /\ CallbacksAsQueued /\ RootTypeOK
          /\ ReinitStartsAfresh
      BY DEF RootInv, RootTypes, NothingStale
    <2>2. TableHoldsLiveGraphs
      <3> SUFFICES ASSUME NEW g \in RootGraphs
                   PROVE  Cardinality({i \in DOMAIN gtable : gtable[i] = g}) =
                              (IF g \in glive THEN 1 ELSE 0)
        BY DEF TableHoldsLiveGraphs
      <3> DEFINE T == {i \in DOMAIN gtable : gtable[i] = g}
      <3>1. g # NoGraph
        BY RootAssumption
      <3>2. \A x, y \in T : x = y
        BY <2>1, <3>1 DEF GraphsListed
      <3>3. T = {} <=> g \notin glive
        BY <2>1, <3>1 DEF GraphsListed
      <3> HIDE DEF T
      <3>4. Cardinality(T) = (IF T = {} THEN 0 ELSE 1)
        BY <3>2, AtMostOneSlot
      <3> QED
        BY <3>3, <3>4 DEF T
    <2>3. PluginsLoadOnce
      <3>1. ASSUME NEW n \in PluginNames
            PROVE  Cardinality({i \in DOMAIN repo[n] : repo[n][i] = inits}) <= 1
        <4> DEFINE T == {i \in DOMAIN repo[n] : repo[n][i] = inits}
        <4>1. DOMAIN repo[n] = 1..Len(repo[n])
          BY <2>1, LenProperties DEF RootTypeOK
        <4>2. \A x, y \in T : x = y
          BY <2>1, <4>1 DEF PluginsListed, EntriesUpTo
        <4> HIDE DEF T
        <4>3. Cardinality(T) = (IF T = {} THEN 0 ELSE 1)
          BY <4>2, AtMostOneSlot
        <4>4. Cardinality(T) <= 1
          BY <4>3
        <4> QED
          BY <4>4 DEF T
      <3> QED
        BY <3>1 DEF PluginsLoadOnce
    <2> QED
      BY <2>1, <2>2, <2>3 DEF RootIsSound
  <1> QED
    BY <1>1, <1>2, <1>3, PTL DEF RootSpec

=============================================================================
