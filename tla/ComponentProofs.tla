-------------------------- MODULE ComponentProofs --------------------------
(***************************************************************************)
(* Proofs about the curl listener, netconf, the conversion of numbers, the *)
(* response cache, the linked lists and the dictionaries, for any number   *)
(* of their objects and any bounds.  The parts share no state, and each    *)
(* has its own inductive invariant.                                        *)
(***************************************************************************)
EXTENDS Curl, DictValue, Netconf, Cache, Lists, Dict, SequenceTheorems, FunctionTheorems,
        FiniteSetTheorems, WellFoundedInduction, TLAPS

---------------------------------------------------------------------------
(* Curl.  While the handler of the timer runs, the event it added is still *)
(* in the queue of the graph.                                              *)
Handles ==
    [on : BOOLEAN, easy : {"none", "ready", "added"}, starts : Nat, ended : Nat]

Sockets ==
    [flags : SUBSET {"in", "out"}, active : BOOLEAN, mask : SUBSET {"in", "out"}]

CurlTypes ==
    /\ xfer \in [Transfers -> Handles]
    /\ wish \in [Transfers -> SUBSET {"in", "out"}]
    /\ csock \in [Transfers -> Sockets]
    /\ wake \in {"off", "now", "later"}
    /\ ctimer \in [on : BOOLEAN, armed : {"no", "soon", "later"}, expired : BOOLEAN,
                   busy : BOOLEAN, events : Nat]

(* A callback that is not active is not watched.                           *)
InactiveIsOff(s) == ~s.active => s.mask = {}

CurlInv ==
    /\ CurlTypes
    /\ CurlIsDriven
    /\ EndsOnce
    /\ \A t \in Transfers : InactiveIsOff(csock[t])
    /\ ctimer.busy => ctimer.events > 0

LEMMA CurlInitially == CurlInit => CurlInv
  <1> SUFFICES ASSUME CurlInit PROVE CurlInv
    OBVIOUS
  <1>1. CurlTypes
    BY DEF CurlInit, CurlTypes, Handles, Sockets
  <1>2. CurlIsDriven
    BY DEF CurlInit, CurlIsDriven
  <1>3. EndsOnce
    BY DEF CurlInit, EndsOnce
  <1>4. ~ctimer.busy
    BY DEF CurlInit
  <1>5. \A t \in Transfers : InactiveIsOff(csock[t])
    BY DEF CurlInit, InactiveIsOff
  <1> QED
    BY <1>1, <1>2, <1>3, <1>4, <1>5 DEF CurlInv

(* timer_callback arms the timer for every timeout, and leaves it alone    *)
(* only when there was none and is none.                                   *)
LEMMA TimerIsArmed ==
  ASSUME NEW ms \in {"off", "now", "later"}, CurlFaults = {},
         NEW tl \in [on : BOOLEAN, armed : {"no", "soon", "later"}, expired : BOOLEAN,
                     busy : BOOLEAN, events : Nat],
         NEW new \in TimerCallback(ms, tl)
  PROVE  /\ new \in
               [on : BOOLEAN, armed : {"no", "soon", "later"}, expired : BOOLEAN,
                busy : BOOLEAN, events : Nat]
         /\ ms # "off" => new.on /\ new.armed # "no"
         /\ new.busy = tl.busy
         /\ new.events = tl.events
  BY DEF TimerCallback, TimerValue

(* socket_callback makes the loop watch what libcurl asks for.             *)
LEMMA SocketIsWatched ==
  ASSUME NEW s \in Sockets, InactiveIsOff(s), NEW what \in SUBSET {"in", "out"}
  PROVE  /\ SocketCallback(s, what) \in Sockets
         /\ SocketCallback(s, what).mask = what
         /\ InactiveIsOff(SocketCallback(s, what))
  <1>1. CASE what = {}
    <2>1. PICK q : q = [s EXCEPT !.flags = {}]
      OBVIOUS
    <2>2. q \in Sockets /\ q.active = s.active /\ q.mask = s.mask
      BY <2>1 DEF Sockets
    <2>3. SocketCallback(s, what) = DisabledSocket(q)
      BY <1>1, <2>1 DEF SocketCallback
    <2> QED
      BY <1>1, <2>2, <2>3 DEF DisabledSocket, InactiveIsOff, Sockets
  <1>2. CASE what # {}
    <2>1. PICK q : q = UpdateSocketFd(s, what)
      OBVIOUS
    <2>2. q \in Sockets /\ q.flags = what
      BY <2>1 DEF UpdateSocketFd, Sockets
    <2>3. SocketCallback(s, what) = EnabledSocket(q)
      BY <1>2, <2>1 DEF SocketCallback
    <2> QED
      BY <2>2, <2>3 DEF EnabledSocket, InactiveIsOff, Sockets
  <1> QED
    BY <1>1, <1>2

LEMMA CleanedUpType ==
  ASSUME NEW x \in Handles
  PROVE  /\ CleanedUp(x) \in Handles
         /\ CleanedUp(x).easy = "none" /\ CleanedUp(x).starts = x.starts
         /\ CleanedUp(x).ended = x.ended + (IF x.easy = "added" THEN 1 ELSE 0)
  <1>1. CASE x.easy = "added"
    <2>1. PICK n \in Nat : n = x.ended + 1
      BY DEF Handles
    <2>2. CleanedUp(x) = [x EXCEPT !.easy = "none", !.ended = n]
      BY <1>1, <2>1 DEF CleanedUp
    <2> QED
      BY <1>1, <2>1, <2>2 DEF Handles
  <1>2. CASE x.easy # "added"
    <2>1. CleanedUp(x) = [x EXCEPT !.easy = "none"]
      BY <1>2 DEF CleanedUp, Handles
    <2> QED
      BY <1>2, <2>1 DEF Handles
  <1> QED
    BY <1>1, <1>2

(* A call of curl_multi_socket_action.                                     *)
LEMMA CurlAction ==
  ASSUME CurlInv, NEW ts \in SUBSET {t \in Transfers : xfer[t].easy = "added"},
         NEW tl \in [on : BOOLEAN, armed : {"no", "soon", "later"}, expired : BOOLEAN,
                     busy : BOOLEAN, events : Nat],
         ~tl.busy, SocketAction(ts, tl), CurlFaults = {}
  PROVE  CurlInv'
  <1>0. CurlTypes /\ CurlIsDriven /\ EndsOnce /\ \A t \in Transfers : InactiveIsOff(csock[t])
    BY DEF CurlInv
  <1>1. PICK done \in SUBSET ts, what \in [ts -> Directions \cup {{}}],
             ms \in {"off", "now", "later"} :
          /\ ms # "off" => AddedTransfers \ done # {}
          /\ \A t \in AddedTransfers \ done : NewWish(t, ts, done, what) = {} => ms # "off"
          /\ wish' = [t \in Transfers |-> NewWish(t, ts, done, what)]
          /\ wake' = ms
          /\ csock' = [t \in Transfers |-> IF wish'[t] = wish[t] THEN csock[t]
                                           ELSE SocketCallback(csock[t], wish'[t])]
          /\ ctimer' \in TimerCallback(ms, tl)
          /\ xfer' = [t \in Transfers |->
                         IF t \in ReportedDone(done) THEN CleanedUp(xfer[t]) ELSE xfer[t]]
    BY Zenon DEF SocketAction
  <1>2. \A t \in Transfers : NewWish(t, ts, done, what) \in SUBSET {"in", "out"}
    BY <1>0 DEF NewWish, CurlTypes, Directions
  <1>3. wish' \in [Transfers -> SUBSET {"in", "out"}]
    BY <1>1, <1>2
  <1>4. ASSUME NEW t \in Transfers
        PROVE  csock'[t] \in Sockets /\ csock'[t].mask = wish'[t] /\ InactiveIsOff(csock'[t])
    <2>1. /\ csock[t] \in Sockets /\ InactiveIsOff(csock[t]) /\ csock[t].mask = wish[t]
          /\ wish'[t] \in SUBSET {"in", "out"}
      BY <1>0, <1>3 DEF CurlTypes, CurlIsDriven
    <2>2. csock'[t] = IF wish'[t] = wish[t] THEN csock[t]
                      ELSE SocketCallback(csock[t], wish'[t])
      BY <1>1
    <2> QED
      BY <2>1, <2>2, SocketIsWatched
  <1>5. csock' \in [Transfers -> Sockets]
    <2>1. csock' = [t \in Transfers |-> csock'[t]]
      BY <1>1
    <2> QED
      BY <1>4, <2>1
  <1>6. /\ ctimer' \in [on : BOOLEAN, armed : {"no", "soon", "later"}, expired : BOOLEAN,
                        busy : BOOLEAN, events : Nat]
        /\ wake' # "off" => ctimer'.on /\ ctimer'.armed # "no"
        /\ wake' \in {"off", "now", "later"}
        /\ ~ctimer'.busy
    BY <1>1, TimerIsArmed
  <1>7. ASSUME NEW t \in Transfers
        PROVE  /\ xfer'[t] \in Handles
               /\ t \in done => /\ xfer[t].easy = "added"
                                /\ xfer'[t].easy = "none" /\ xfer'[t].starts = xfer[t].starts
                                /\ xfer'[t].ended = xfer[t].ended + 1
               /\ t \notin done => xfer'[t] = xfer[t]
    <2>1. /\ xfer[t] \in Handles
          /\ CleanedUp(xfer[t]) \in Handles
          /\ CleanedUp(xfer[t]).easy = "none" /\ CleanedUp(xfer[t]).starts = xfer[t].starts
          /\ xfer[t].easy = "added" => CleanedUp(xfer[t]).ended = xfer[t].ended + 1
      BY <1>0, CleanedUpType DEF CurlTypes
    <2>2. CASE t \in done
      BY <1>1, <2>1, <2>2 DEF ReportedDone
    <2>3. CASE t \notin done
      BY <1>1, <2>1, <2>3 DEF ReportedDone
    <2> QED
      BY <2>2, <2>3
  <1>8. xfer' \in [Transfers -> Handles]
    <2>1. xfer' = [t \in Transfers |-> xfer'[t]]
      BY <1>1
    <2> QED
      BY <1>7, <2>1
  <1>9. CurlIsDriven'
    <2>1. ASSUME NEW t \in Transfers, xfer'[t].easy = "added"
          PROVE  wish'[t] # {} \/ wake' # "off"
      <3>1. t \in AddedTransfers \ done
        BY <1>7, <2>1 DEF AddedTransfers
      <3> QED
        BY <1>1, <3>1
    <2> QED
      BY <1>4, <1>6, <2>1 DEF CurlIsDriven
  <1>10. EndsOnce'
    <2>1. ASSUME NEW t \in Transfers
          PROVE  xfer'[t].starts = xfer'[t].ended + (IF xfer'[t].easy = "added" THEN 1 ELSE 0)
      <3>1. /\ xfer[t].starts \in Nat /\ xfer[t].ended \in Nat
            /\ xfer[t].starts = xfer[t].ended + (IF xfer[t].easy = "added" THEN 1 ELSE 0)
        BY <1>0 DEF CurlTypes, Handles, EndsOnce
      <3> QED
        BY <1>7, <3>1
    <2> QED
      BY <2>1 DEF EndsOnce
  <1> QED
    BY <1>3, <1>4, <1>5, <1>6, <1>8, <1>9, <1>10 DEF CurlInv, CurlTypes

(* A step that changes one transfer, and the timer at most to start it.    *)
LEMMA CurlStep ==
  ASSUME ~GraphThreads, CurlFaults = {}, CurlInv, [CurlNext]_curlVars
  PROVE  CurlInv'
  <1> DEFINE Timers == [on : BOOLEAN, armed : {"no", "soon", "later"}, expired : BOOLEAN,
                        busy : BOOLEAN, events : Nat]
  <1>0. /\ CurlTypes /\ CurlIsDriven /\ EndsOnce /\ (ctimer.busy => ctimer.events > 0)
        /\ \A t \in Transfers : InactiveIsOff(csock[t])
    BY DEF CurlInv
  <1>1. CASE CurlTimerExpires
    <2>1. /\ ctimer' \in Timers /\ ctimer'.busy = ctimer.busy /\ ctimer'.on = ctimer.on
          /\ ctimer'.expired /\ ctimer'.events = ctimer.events
          /\ UNCHANGED <<xfer, wish, wake, csock>>
      BY <1>0, <1>1 DEF CurlTimerExpires, CurlTypes
    <2> QED
      BY <1>0, <2>1 DEF CurlInv, CurlTypes, CurlIsDriven, EndsOnce
  <1>2. CASE CurlTimerHandler
    <2> DEFINE n == ctimer.events + 1
    <2>0. n \in Nat
      BY <1>0 DEF CurlTypes
    <2>1. /\ ctimer' = [ctimer EXCEPT !.expired = FALSE, !.busy = TRUE, !.events = n]
          /\ UNCHANGED <<xfer, wish, wake, csock>>
      BY <1>2 DEF CurlTimerHandler
    <2>2. n > 0
      BY <1>0 DEF CurlTypes
    <2> HIDE DEF n
    <2>3. ctimer' \in Timers /\ ctimer'.events = n
      BY <1>0, <2>0, <2>1 DEF CurlTypes
    <2> QED
      BY <1>0, <2>1, <2>2, <2>3 DEF CurlInv, CurlTypes, CurlIsDriven, EndsOnce
  <1>3. CASE CurlTimerStops
    <2>1. /\ ctimer' \in Timers /\ ctimer'.events = ctimer.events /\ ~ctimer'.busy
          /\ UNCHANGED <<xfer, wish, wake, csock>> /\ ctimer.events > 0
      BY <1>0, <1>3 DEF CurlTimerStops, CurlTypes
    <2> QED
      BY <1>0, <2>1 DEF CurlInv, CurlTypes, CurlIsDriven, EndsOnce
  <1>4. CASE TimeoutHandler
    <2> DEFINE ts == {t \in Transfers : xfer[t].easy = "added" /\ wish[t] = {}}
               tl == [ctimer EXCEPT !.events = @ - 1]
    <2>1. ~ctimer.busy /\ ctimer.events - 1 \in Nat
      BY <1>0, <1>4 DEF TimeoutHandler, LoopIsFree, CurlTypes
    <2>2. tl \in Timers /\ ~tl.busy
      BY <1>0, <2>1 DEF CurlTypes
    <2>3. SocketAction(ts, tl)
      BY <1>4 DEF TimeoutHandler
    <2>4. ts \in SUBSET {t \in Transfers : xfer[t].easy = "added"}
      OBVIOUS
    <2> HIDE DEF ts, tl
    <2> QED
      BY <2>2, <2>3, <2>4, CurlAction
  <1>5. ASSUME NEW t \in Transfers, FdEventCallback(t) PROVE CurlInv'
    <2>1. {t} \in SUBSET {u \in Transfers : xfer[u].easy = "added"}
      BY <1>5 DEF FdEventCallback
    <2>2. SocketAction({t}, ctimer) /\ ~ctimer.busy /\ ctimer \in Timers
      BY <1>0, <1>5 DEF FdEventCallback, CurlTypes
    <2> QED
      BY <2>1, <2>2, CurlAction
  <1>6. ASSUME NEW t \in Transfers, ~ctimer.busy, SetupTransfer(t) PROVE CurlInv'
    <2>1. /\ ctimer' \in Timers /\ ctimer'.armed = ctimer.armed
          /\ ctimer'.expired = ctimer.expired /\ ctimer'.events = ctimer.events
          /\ ctimer.on => ctimer'.on
          /\ ~ctimer'.busy /\ UNCHANGED <<wish, wake, csock>>
      BY <1>0, <1>6 DEF SetupTransfer, InitCurl, CurlTypes
    <2>2. /\ xfer' \in [Transfers -> Handles]
          /\ \A u \in Transfers : /\ xfer'[u].starts = xfer[u].starts
                                  /\ xfer'[u].ended = xfer[u].ended
                                  /\ xfer'[u].easy = "added" <=> xfer[u].easy = "added"
      BY <1>0, <1>6 DEF SetupTransfer, CurlTypes, Handles
    <2>3. EndsOnce'
      BY <1>0, <2>2 DEF EndsOnce
    <2> QED
      BY <1>0, <2>1, <2>2, <2>3 DEF CurlInv, CurlTypes, CurlIsDriven
  <1>7. ASSUME NEW t \in Transfers, ~ctimer.busy, NEW added \in BOOLEAN, StartTransfer(t, added)
        PROVE  CurlInv'
    <2>0. added /\ xfer[t].easy = "ready"
      BY <1>7 DEF StartTransfer
    <2>1. /\ ctimer' \in Timers /\ ctimer'.on /\ ctimer'.armed # "no" /\ ~ctimer'.busy
          /\ wake' = "now" /\ UNCHANGED <<wish, csock>>
      <3>1. ctimer' \in TimerCallback("now", ctimer) /\ wake' = "now" /\ UNCHANGED <<wish, csock>>
        BY <1>7, <2>0 DEF StartTransfer
      <3> QED
        BY <1>0, <1>7, <3>1, TimerIsArmed DEF CurlTypes
    <2>2. xfer' = [xfer EXCEPT ![t].on = TRUE, ![t].starts = @ + 1, ![t].easy = "added"]
      BY <1>7, <2>0 DEF StartTransfer
    <2>3. /\ xfer' \in [Transfers -> Handles]
          /\ xfer'[t].easy = "added"
          /\ xfer'[t].starts = xfer[t].starts + 1 /\ xfer'[t].ended = xfer[t].ended
          /\ \A u \in Transfers \ {t} : xfer'[u] = xfer[u]
      BY <1>0, <2>2 DEF CurlTypes, Handles
    <2>4. EndsOnce'
      BY <1>0, <2>0, <2>3 DEF EndsOnce, CurlTypes, Handles
    <2> QED
      BY <1>0, <2>1, <2>3, <2>4 DEF CurlInv, CurlTypes, CurlIsDriven
  <1>8. ASSUME NEW t \in Transfers, ~ctimer.busy, StopTransfer(t) PROVE CurlInv'
    <2>1. /\ UNCHANGED <<wake, ctimer>>
          /\ wish' = [wish EXCEPT ![t] = {}]
          /\ csock' = [csock EXCEPT ![t] = SocketCallback(csock[t], {})]
      BY <1>8 DEF StopTransfer
    <2> DEFINE x == [CleanedUp(xfer[t]) EXCEPT !.on = FALSE]
    <2>2. /\ x \in Handles
          /\ x.easy = "none" /\ x.starts = x.ended
      <3>1. PICK y : y = CleanedUp(xfer[t])
        OBVIOUS
      <3>2. y \in Handles /\ y.easy = "none" /\ y.starts = y.ended
        BY <1>0, <3>1, CleanedUpType DEF CurlTypes, EndsOnce, Handles
      <3> QED
        BY <3>1, <3>2 DEF Handles
    <2>3. xfer' = [xfer EXCEPT ![t] = x]
      BY <1>8 DEF StopTransfer
    <2> HIDE DEF x
    <2>4. xfer' \in [Transfers -> Handles]
      BY <1>0, <2>2, <2>3 DEF CurlTypes
    <2>5. xfer'[t] = x /\ \A u \in Transfers \ {t} : xfer'[u] = xfer[u]
      BY <1>0, <2>3 DEF CurlTypes
    <2>6. EndsOnce'
      BY <1>0, <2>2, <2>5 DEF EndsOnce, Handles
    <2>a. PICK s : s = SocketCallback(csock[t], {})
      OBVIOUS
    <2>b. s \in Sockets /\ s.mask = {} /\ InactiveIsOff(s)
      BY <1>0, <2>a, SocketIsWatched DEF CurlTypes
    <2>c. /\ csock' \in [Transfers -> Sockets]
          /\ csock'[t] = s /\ \A u \in Transfers \ {t} : csock'[u] = csock[u]
      BY <1>0, <2>1, <2>a, <2>b DEF CurlTypes
    <2>7. CurlIsDriven'
      BY <1>0, <2>1, <2>2, <2>5, <2>b, <2>c DEF CurlIsDriven, CurlTypes
    <2>8. \A u \in Transfers : InactiveIsOff(csock'[u])
      BY <1>0, <2>b, <2>c
    <2> QED
      BY <1>0, <1>8, <2>1, <2>4, <2>6, <2>7, <2>8, <2>c DEF CurlInv, CurlTypes
  <1>9. CASE UNCHANGED curlVars
    BY <1>0, <1>9 DEF curlVars, CurlInv, CurlTypes, CurlIsDriven, EndsOnce
  <1> QED
    BY <1>1, <1>2, <1>3, <1>4, <1>5, <1>6, <1>7, <1>8, <1>9 DEF CurlNext

(* curl.c: with the graph of the timer in the thread of the event loop,    *)
(* and if neither adding a handle nor setting the timer fails, libcurl     *)
(* always has the socket or the timeout it waits for, and every transfer   *)
(* that was started ends once, for any number of transfers.                *)
THEOREM TransfersEnd ==
  ASSUME ~GraphThreads, CurlFaults = {}
  PROVE  CurlSpec => []TransfersAreDriven
  <1>1. CurlInv /\ [CurlNext]_curlVars => CurlInv'
    BY CurlStep
  <1>2. CurlInv => TransfersAreDriven
    BY DEF CurlInv, TransfersAreDriven
  <1> QED
    BY <1>1, <1>2, CurlInitially, PTL DEF CurlSpec


---------------------------------------------------------------------------
(* DictValue.                                                              *)

(* A wide type holds what a narrow one holds.                              *)
LEMMA WideIsWider ==
  /\ Half \in Nat /\ Half > 0 /\ Wide \in Nat /\ Wide >= 2 * Half
  /\ ValuesOf("u") \subseteq Nat /\ ValuesOf("u") \subseteq ValuesOf("U")
  /\ ValuesOf("i") \subseteq Int /\ ValuesOf("I") \subseteq Int /\ ValuesOf("d") \subseteq Int
  /\ ValuesOf("z") \subseteq Int /\ ValuesOf("Z") \subseteq Int
  <1>1. Half \in Nat /\ Half > 0
    BY WidthAssumption
  <1>2. Half * Half \in Nat /\ Half * Half >= Half
    BY <1>1
  <1>3. Wide \in Nat /\ Wide >= 2 * Half
    <2>1. Wide = 2 * (Half * Half)
      BY <1>1 DEF Wide
    <2> QED
      BY <1>1, <1>2, <2>1
  <1> QED
    BY <1>1, <1>3 DEF ValuesOf, UintMax, IntMax, IntMin

(* What the conversion of v yields, as ConvertedOrRefused demands it.      *)
Exact(stype, dtype, v, r) ==
    /\ IF stype = "d" /\ dtype # "d" THEN RoundedTo(v, r) ELSE r = v
    /\ r \in ValuesOf(dtype)

(* Dropping the fraction rounds towards zero.                              *)
LEMMA WholePartRounds ==
  ASSUME NEW v \in Int
  PROVE  /\ WholePart(v) \in Int
         /\ RoundedTo(v, WholePart(v))
         /\ v < 2 * Wide /\ 2 * IntMin(Wide) < v =>
                WholePart(v) <= IntMax(Wide) /\ WholePart(v) >= IntMin(Wide)
  <1>0. Wide \in Nat
    BY WideIsWider
  <1>1. \A n \in Nat : n \div 2 \in Nat /\ 2 * (n \div 2) \in {n - 1, n}
    OBVIOUS
  <1>2. CASE v >= 0
    BY <1>0, <1>1, <1>2 DEF WholePart, RoundedTo, IntMax, IntMin
  <1>3. CASE v < 0
    <2>1. -v \in Nat
      BY <1>3
    <2>2. PICK w \in Nat : w = (-v) \div 2 /\ 2 * w \in {-v - 1, -v}
      BY <1>1, <2>1
    <2>3. WholePart(v) = -w
      BY <1>3, <2>2 DEF WholePart
    <2> QED
      BY <1>0, <1>3, <2>2, <2>3 DEF RoundedTo, IntMax, IntMin
  <1> QED
    BY <1>2, <1>3

(* A conversion keeps the value and fits the type, or refuses.             *)
LEMMA ConversionIsExact ==
  ASSUME NEW stype \in NumTypes, NEW dtype \in NumTypes, NEW v \in ValuesOf(stype),
         NEW r \in GetItemValue(dtype, stype, v), r # Refused,
         <<stype, dtype>> # <<"U", "u">>
  PROVE  Exact(stype, dtype, v, r)
  <1> USE WideIsWider DEF Exact
  <1>1. CASE dtype = stype
    BY <1>1 DEF GetItemValue
  <1>2. CASE dtype # stype
    <2>0. r \in ConvValue(dtype, stype, v)
      BY <1>2 DEF GetItemValue
    <2>1. CASE stype = "u"
      BY <1>2, <2>0, <2>1 DEF ConvValue, NumTypes
    <2>2. CASE stype = "U"
      BY <1>2, <2>0, <2>2 DEF ConvValue, NumTypes
    <2>3. CASE stype = "i"
      <3>1. dtype = "u" /\ r \in Unsigned(v, Half)
        BY <1>2, <2>0, <2>3 DEF ConvValue, NumTypes
      <3>2. v \in Int /\ v <= IntMax(Half)
        BY <2>3 DEF ValuesOf, IntMax, IntMin
      <3> QED
        BY <2>3, <3>1, <3>2 DEF Unsigned, If, ValuesOf, UintMax, IntMax
    <2>4. CASE stype = "I"
      <3>0. v \in Int /\ v <= IntMax(Wide)
        BY <2>4 DEF ValuesOf, IntMax, IntMin
      <3>1. CASE dtype = "i"
        <4>1. r \in NarrowSigned(v)
          BY <2>0, <2>4, <3>1 DEF ConvValue
        <4> QED
          BY <2>4, <3>0, <3>1, <4>1 DEF NarrowSigned, If, ValuesOf, IntMax, IntMin
      <3>2. CASE dtype = "U"
        <4>1. r \in Unsigned(v, Wide)
          BY <2>0, <2>4, <3>2 DEF ConvValue
        <4> QED
          BY <2>4, <3>0, <3>2, <4>1 DEF Unsigned, If, ValuesOf, UintMax, IntMax
      <3>3. CASE dtype = "u"
        <4>0. r \in (UNION {Unsigned(q, Half) : q \in NarrowSigned(v) \ {Refused}})
                        \cup (NarrowSigned(v) \cap {Refused})
          BY <2>0, <2>4, <3>3 DEF ConvValue
        <4>a. r \in UNION {Unsigned(q, Half) : q \in NarrowSigned(v) \ {Refused}}
          BY <4>0
        <4>b. PICK w \in {Unsigned(q, Half) : q \in NarrowSigned(v) \ {Refused}} : r \in w
          BY <4>a, Zenon
        <4>1. \E q \in NarrowSigned(v) \ {Refused} : r \in Unsigned(q, Half)
          BY <4>b
        <4>2. r = v /\ v >= 0 /\ v < IntMax(Half)
          BY <3>0, <4>1 DEF NarrowSigned, Unsigned, If, IntMax, IntMin
        <4> QED
          BY <2>4, <3>0, <3>3, <4>2 DEF ValuesOf, UintMax, IntMax
      <3>4. CASE dtype \in {"z", "Z", "d"}
        BY <2>0, <2>4, <3>4 DEF ConvValue
      <3> QED
        BY <1>2, <2>4, <3>1, <3>2, <3>3, <3>4 DEF NumTypes
    <2>5. CASE stype = "d"
      <3>0. v \in Int
        BY <2>5
      <3>w. /\ WholePart(v) \in Int /\ RoundedTo(v, WholePart(v))
            /\ v < 2 * Wide /\ 2 * IntMin(Wide) < v =>
                  WholePart(v) <= IntMax(Wide) /\ WholePart(v) >= IntMin(Wide)
        BY <3>0, WholePartRounds
      <3>1. CASE dtype = "I"
        <4>1. r \in FromDouble(v)
          BY <2>0, <2>5, <3>1 DEF ConvValue
        <4>2. r = WholePart(v) /\ v < 2 * Wide /\ 2 * IntMin(Wide) < v
          BY <4>1 DEF FromDouble, If
        <4> QED
          BY <2>5, <3>0, <3>1, <3>w, <4>2 DEF ValuesOf
      <3>2. CASE dtype = "U"
        <4>0. r \in (UNION {Unsigned(q, Wide) : q \in FromDouble(v) \ {Refused}})
                        \cup (FromDouble(v) \cap {Refused})
          BY <2>0, <2>5, <3>2 DEF ConvValue
        <4>a. r \in UNION {Unsigned(q, Wide) : q \in FromDouble(v) \ {Refused}}
          BY <4>0
        <4>b. PICK w \in {Unsigned(q, Wide) : q \in FromDouble(v) \ {Refused}} : r \in w
          BY <4>a, Zenon
        <4>1. \E q \in FromDouble(v) \ {Refused} : r \in Unsigned(q, Wide)
          BY <4>b
        <4>2. r = WholePart(v) /\ v < 2 * Wide /\ 2 * IntMin(Wide) < v /\ r >= 0
          BY <3>0, <4>1 DEF FromDouble, Unsigned, If
        <4>3. r \in 0..UintMax(Wide)
          BY <3>0, <3>w, <4>2 DEF UintMax, IntMax
        <4> QED
          BY <2>5, <3>0, <3>2, <3>w, <4>2, <4>3 DEF ValuesOf
      <3>3. CASE dtype \in {"u", "i", "z", "Z"}
        BY <2>0, <2>5, <3>3 DEF ConvValue
      <3> QED
        BY <1>2, <2>5, <3>1, <3>2, <3>3 DEF NumTypes
    <2>6. CASE stype \in {"z", "Z"}
      BY <1>2, <2>0, <2>6 DEF ConvValue, NumTypes
    <2> QED
      BY <2>1, <2>2, <2>3, <2>4, <2>5, <2>6 DEF NumTypes
  <1> QED
    BY <1>1, <1>2

(* dict.c: whatever the width of the types, a number that is read as       *)
(* another type keeps its value and fits that type, or it is refused; a    *)
(* double loses its fraction, and the exception is a wide unsigned number  *)
(* read as a narrow one.                                                   *)
THEOREM NumbersAreExact == ValueSpec => []ConvertedOrRefused
  <1>1. ValueInit => ConvertedOrRefused
    BY WideIsWider DEF ValueInit, NoCall, ConvertedOrRefused, ValuesOf, UintMax
  <1>2. ConvertedOrRefused /\ [ValueNext]_got => ConvertedOrRefused'
    <2>1. ASSUME NEW dtype \in NumTypes, NEW stype \in NumTypes, GetValue(dtype, stype)
          PROVE  ConvertedOrRefused'
      <3>0. PICK v \in ValuesOf(stype) :
              \E r \in GetItemValue(dtype, stype, v) :
                  got' = [stype |-> stype, value |-> v, dtype |-> dtype, result |-> r]
        BY <2>1, Zenon DEF GetValue
      <3>1. PICK r \in GetItemValue(dtype, stype, v) :
              got' = [stype |-> stype, value |-> v, dtype |-> dtype, result |-> r]
        BY <3>0, Zenon
      <3>2. r # Refused /\ <<stype, dtype>> # <<"U", "u">> => Exact(stype, dtype, v, r)
        BY ConversionIsExact
      <3>3. got'.stype = stype /\ got'.value = v /\ got'.dtype = dtype /\ got'.result = r
        BY <3>1
      <3> QED
        BY <3>2, <3>3 DEF ConvertedOrRefused, Exact, RoundedTo, ValuesOf, Wide, UintMax, IntMax, IntMin
    <2>2. ASSUME ConvertedOrRefused, UNCHANGED got PROVE ConvertedOrRefused'
      BY <2>2 DEF ConvertedOrRefused, RoundedTo, ValuesOf, Wide, UintMax, IntMax, IntMin
    <2> QED
      BY <2>1, <2>2 DEF ValueNext
  <1> QED
    BY <1>1, <1>2, PTL DEF ValueSpec


---------------------------------------------------------------------------
(* Netconf.  A socket s, read by its messages about one kind and by the    *)
(* ends of the answers.                                                    *)
Objects == [op : {"add", "del"}, kind : Kinds]

Ends == [op : {"end"}, kind : SUBSET Kinds]

NcMessages == Objects \cup Ends

About(m, k) == m.op # "end" /\ m.kind = k

(* There is no message about k in s.                                       *)
Quiet(s, k) == \A i \in 1..Len(s) : ~About(s[i], k)

(* The last message about k in s says what the kernel has.                 *)
LastIsTrue(s, k, kernel) ==
    \A i \in 1..Len(s) :
        About(s[i], k) /\ (\A j \in 1..Len(s) : About(s[j], k) => j <= i)
            => (s[i].op = "add" <=> k \in kernel)

(* No question is open, or there is one, and the kinds asked are those     *)
(* that were answered and those of the open question.                      *)
NoneOpen(s) == \A i \in 1..Len(s) : s[i].op # "end"

OneOpen(s, asked, answered) ==
    /\ \A i, j \in 1..Len(s) : s[i].op = "end" /\ s[j].op = "end" => i = j
    /\ NoneOpen(s) => asked = answered
    /\ \A i \in 1..Len(s) : s[i].op = "end" =>
          asked = answered \cup s[i].kind /\ answered \cap s[i].kind = {}

(* What the socket s and the view say about k together.                    *)
KindIsKnown(s, k, kernel, view, asked) ==
    /\ LastIsTrue(s, k, kernel)
    /\ Quiet(s, k) => /\ k \in view => k \in kernel
                      /\ k \in asked => (k \in view <=> k \in kernel)

(* A message about k at the end of s.                                      *)
LEMMA ObjectIsAdded ==
  ASSUME NEW s \in Seq(NcMessages), NEW m \in Objects
  PROVE  /\ Append(s, m) \in Seq(NcMessages)
         /\ \A k, kernel : k # m.kind /\ LastIsTrue(s, k, kernel)
                => LastIsTrue(Append(s, m), k, kernel)
         /\ \A k : k # m.kind => (Quiet(Append(s, m), k) <=> Quiet(s, k))
         /\ ~Quiet(Append(s, m), m.kind)
         /\ \A kernel : (m.op = "add" <=> m.kind \in kernel)
                => LastIsTrue(Append(s, m), m.kind, kernel)
         /\ \A k : Quiet(Append(s, m), k) => Quiet(s, k)
         /\ NoneOpen(s) => NoneOpen(Append(s, m))
         /\ \A q, a : OneOpen(s, q, a) => OneOpen(Append(s, m), q, a)
  <1> DEFINE t == Append(s, m)
  <1>1. /\ t \in Seq(NcMessages)
        /\ Len(s) \in Nat /\ Len(t) = Len(s) + 1
        /\ \A i \in 1..Len(s) : t[i] = s[i]
        /\ t[Len(s) + 1] = m
    <2>1. m \in NcMessages
      BY DEF NcMessages
    <2> QED
      BY <2>1, AppendProperties, LenProperties
  <1>2. m.op # "end"
    BY DEF Objects
  <1> HIDE DEF t
  <1>3. \A i \in 1..Len(t) : i \in 1..Len(s) \/ i = Len(s) + 1
    BY <1>1
  <1>4. \A i \in 1..Len(s) : i \in 1..Len(t)
    BY <1>1
  <1>4a. Len(s) + 1 \in 1..Len(t) /\ \A i \in 1..Len(s) : ~(Len(s) + 1 <= i)
    BY <1>1
  <1>5. \A k, kernel : k # m.kind /\ LastIsTrue(s, k, kernel) => LastIsTrue(t, k, kernel)
    BY <1>1, <1>3, <1>4 DEF LastIsTrue, About
  <1>6. \A k : k # m.kind => (Quiet(t, k) <=> Quiet(s, k))
    BY <1>1, <1>3, <1>4 DEF Quiet, About
  <1>7. About(t[Len(s) + 1], m.kind)
    BY <1>1, <1>2 DEF About
  <1>8. ~Quiet(t, m.kind)
    BY <1>4a, <1>7 DEF Quiet
  <1>9. ASSUME NEW kernel, m.op = "add" <=> m.kind \in kernel
        PROVE  LastIsTrue(t, m.kind, kernel)
    BY <1>1, <1>3, <1>4a, <1>7, <1>9 DEF LastIsTrue
  <1>10. \A k : Quiet(t, k) => Quiet(s, k)
    BY <1>6, <1>8
  <1>11. NoneOpen(t) <=> NoneOpen(s)
    BY <1>1, <1>2, <1>3, <1>4 DEF NoneOpen
  <1>12. ASSUME NEW q, NEW a, OneOpen(s, q, a) PROVE OneOpen(t, q, a)
    <2>1. \A i \in 1..Len(t) : t[i].op = "end" => i \in 1..Len(s) /\ t[i] = s[i]
      BY <1>1, <1>2, <1>3
    <2> QED
      BY <1>11, <1>12, <2>1 DEF OneOpen
  <1> QED
    BY <1>1, <1>5, <1>6, <1>8, <1>9, <1>10, <1>11, <1>12 DEF t

(* The end of an answer at the end of s.                                   *)
LEMMA EndIsAdded ==
  ASSUME NEW s \in Seq(NcMessages), NEW ks \in SUBSET Kinds
  PROVE  /\ Append(s, [op |-> "end", kind |-> ks]) \in Seq(NcMessages)
         /\ \A k, kernel : LastIsTrue(s, k, kernel)
                => LastIsTrue(Append(s, [op |-> "end", kind |-> ks]), k, kernel)
         /\ \A k : Quiet(Append(s, [op |-> "end", kind |-> ks]), k) => Quiet(s, k)
         /\ \A q, a : NoneOpen(s) /\ q = a \cup ks /\ a \cap ks = {}
                => OneOpen(Append(s, [op |-> "end", kind |-> ks]), q, a)
  <1> DEFINE m == [op |-> "end", kind |-> ks]
  <1> DEFINE t == Append(s, m)
  <1>1. /\ t \in Seq(NcMessages)
        /\ Len(s) \in Nat /\ Len(t) = Len(s) + 1
        /\ \A i \in 1..Len(s) : t[i] = s[i]
        /\ t[Len(s) + 1] = m
    <2>1. m \in NcMessages
      BY DEF NcMessages, Ends
    <2> QED
      BY <2>1, AppendProperties, LenProperties
  <1>2. m.op = "end" /\ m.kind = ks
    OBVIOUS
  <1>2a. t = Append(s, [op |-> "end", kind |-> ks])
    OBVIOUS
  <1> HIDE DEF t, m
  <1>3. \A i \in 1..Len(t) : i \in 1..Len(s) \/ i = Len(s) + 1
    BY <1>1
  <1>4. \A i \in 1..Len(s) : i \in 1..Len(t)
    BY <1>1
  <1>5. \A k, kernel : LastIsTrue(s, k, kernel) => LastIsTrue(t, k, kernel)
    BY <1>1, <1>2, <1>3, <1>4 DEF LastIsTrue, About
  <1>6. \A k : Quiet(t, k) => Quiet(s, k)
    BY <1>1, <1>4 DEF Quiet
  <1>7. ASSUME NEW q, NEW a, NoneOpen(s), q = a \cup ks, a \cap ks = {}
        PROVE  OneOpen(t, q, a)
    <2>1. \A i \in 1..Len(t) : t[i].op = "end" => i = Len(s) + 1
      BY <1>1, <1>3, <1>7 DEF NoneOpen
    <2>2. ~NoneOpen(t)
      <3>1. Len(s) + 1 \in 1..Len(t)
        BY <1>1
      <3> QED
        BY <1>1, <1>2, <3>1 DEF NoneOpen
    <2> QED
      BY <1>1, <1>2, <1>7, <2>1, <2>2 DEF OneOpen
  <1> QED
    BY <1>1, <1>2a, <1>5, <1>6, <1>7

(* The first message of s is taken.                                        *)
LEMMA FirstIsTaken ==
  ASSUME NEW s \in Seq(NcMessages), s # <<>>
  PROVE  /\ Head(s) \in NcMessages
         /\ Tail(s) \in Seq(NcMessages)
         /\ \A k, kernel : LastIsTrue(s, k, kernel) => LastIsTrue(Tail(s), k, kernel)
         /\ \A k : ~About(Head(s), k) /\ Quiet(Tail(s), k) => Quiet(s, k)
         /\ \A k, kernel : About(Head(s), k) /\ Quiet(Tail(s), k) /\ LastIsTrue(s, k, kernel)
                => (Head(s).op = "add" <=> k \in kernel)
         /\ \A q, a : Head(s).op # "end" /\ OneOpen(s, q, a) => OneOpen(Tail(s), q, a)
         /\ \A q, a : Head(s).op = "end" /\ OneOpen(s, q, a)
                => NoneOpen(Tail(s)) /\ q = a \cup Head(s).kind /\ a \cap Head(s).kind = {}
  <1> DEFINE t == Tail(s)
             m == Head(s)
  <1>1. /\ m \in NcMessages /\ t \in Seq(NcMessages)
        /\ Len(s) \in Nat /\ Len(t) = Len(s) - 1 /\ Len(s) > 0
        /\ \A i \in 1..Len(t) : t[i] = s[i + 1]
        /\ m = s[1]
    BY HeadTailProperties, LenProperties, EmptySeq
  <1> HIDE DEF t, m
  <1>2. \A i \in 1..Len(t) : i + 1 \in 1..Len(s) /\ t[i] = s[i + 1]
    BY <1>1
  <1>3. \A i \in 1..Len(s) : i = 1 \/ (i - 1 \in 1..Len(t) /\ s[i] = t[i - 1])
    BY <1>1
  <1>3a. 1 \in 1..Len(s)
    BY <1>1
  <1>4. ASSUME NEW k, NEW kernel, LastIsTrue(s, k, kernel) PROVE LastIsTrue(t, k, kernel)
    <2> SUFFICES ASSUME NEW i \in 1..Len(t), About(t[i], k),
                        \A j \in 1..Len(t) : About(t[j], k) => j <= i
                 PROVE  t[i].op = "add" <=> k \in kernel
      BY DEF LastIsTrue
    <2>1. ASSUME NEW j \in 1..Len(s), About(s[j], k) PROVE j <= i + 1
      BY <1>1, <1>3, <2>1
    <2> QED
      BY <1>2, <1>4, <2>1 DEF LastIsTrue
  <1>5. \A k : ~About(m, k) /\ Quiet(t, k) => Quiet(s, k)
    BY <1>1, <1>3 DEF Quiet
  <1>6. ASSUME NEW k, NEW kernel, About(m, k), Quiet(t, k), LastIsTrue(s, k, kernel)
        PROVE  m.op = "add" <=> k \in kernel
    <2>1. ASSUME NEW j \in 1..Len(s), About(s[j], k) PROVE j <= 1
      BY <1>3, <1>6, <2>1 DEF Quiet
    <2> QED
      BY <1>1, <1>3a, <1>6, <2>1 DEF LastIsTrue
  <1>7. ASSUME NEW q, NEW a, m.op # "end", OneOpen(s, q, a) PROVE OneOpen(t, q, a)
    <2>1. NoneOpen(t) => NoneOpen(s)
      BY <1>1, <1>3, <1>7 DEF NoneOpen
    <2>2. \A i, j \in 1..Len(t) : t[i].op = "end" /\ t[j].op = "end" => i = j
      <3> SUFFICES ASSUME NEW i \in 1..Len(t), NEW j \in 1..Len(t),
                          t[i].op = "end", t[j].op = "end"
                   PROVE  i = j
        OBVIOUS
      <3>1. i + 1 = j + 1
        BY <1>2, <1>7 DEF OneOpen
      <3> QED
        BY <3>1
    <2> QED
      BY <1>2, <1>7, <2>1, <2>2 DEF OneOpen
  <1>8. ASSUME NEW q, NEW a, m.op = "end", OneOpen(s, q, a)
        PROVE  NoneOpen(t) /\ q = a \cup m.kind /\ a \cap m.kind = {}
    <2>1. NoneOpen(t)
      <3> SUFFICES ASSUME NEW i \in 1..Len(t), t[i].op = "end" PROVE FALSE
        BY DEF NoneOpen
      <3>1. i + 1 = 1
        BY <1>1, <1>2, <1>3a, <1>8 DEF OneOpen
      <3> QED
        BY <3>1
    <2> QED
      BY <1>1, <1>3a, <1>8, <2>1 DEF OneOpen
  <1> QED
    BY <1>1, <1>4, <1>5, <1>6, <1>7, <1>8 DEF t, m

(* The kernel answers for one kind k0 of the kinds ks.                     *)
LEMMA TellIsTrue ==
  ASSUME NEW s \in Seq(NcMessages), NEW ks, NEW k0 \in Kinds
  PROVE  /\ Tell(s, ks, k0) \in Seq(NcMessages)
         /\ \A k : LastIsTrue(s, k, ncKernel) => LastIsTrue(Tell(s, ks, k0), k, ncKernel)
         /\ \A k : Quiet(Tell(s, ks, k0), k) => Quiet(s, k)
         /\ Quiet(Tell(s, ks, k0), k0) /\ k0 \in ks => k0 \notin ncKernel
         /\ NoneOpen(s) => NoneOpen(Tell(s, ks, k0))
  <1>1. CASE k0 \in ks \cap ncKernel
    <2> DEFINE m == Existing(k0)
    <2>1. m \in Objects /\ m.op = "add" /\ m.kind = k0
      BY DEF Existing, Objects
    <2>2. Tell(s, ks, k0) = Append(s, m)
      BY <1>1 DEF Tell
    <2> HIDE DEF m
    <2>3. \A k : LastIsTrue(s, k, ncKernel) => LastIsTrue(Append(s, m), k, ncKernel)
      <3> SUFFICES ASSUME NEW k, LastIsTrue(s, k, ncKernel)
                   PROVE  LastIsTrue(Append(s, m), k, ncKernel)
        OBVIOUS
      <3>1. CASE k = k0
        BY <1>1, <2>1, <3>1, ObjectIsAdded
      <3>2. CASE k # k0
        BY <2>1, <3>2, ObjectIsAdded
      <3> QED
        BY <3>1, <3>2
    <2>4. ~Quiet(Append(s, m), k0)
      BY <2>1, ObjectIsAdded
    <2>5. /\ Append(s, m) \in Seq(NcMessages)
          /\ \A k : Quiet(Append(s, m), k) => Quiet(s, k)
          /\ NoneOpen(s) => NoneOpen(Append(s, m))
      BY <2>1, ObjectIsAdded
    <2> QED
      BY <2>2, <2>3, <2>4, <2>5
  <1>2. CASE k0 \notin ks \cap ncKernel
    BY <1>2 DEF Tell
  <1> QED
    BY <1>1, <1>2

(* The answer to a question: when it does not mention a kind, there is no  *)
(* object of that kind.                                                    *)
LEMMA DumpIsTrue ==
  ASSUME NEW s \in Seq(NcMessages), NEW ks \in SUBSET Kinds
  PROVE  /\ Dump(s, ks) \in Seq(NcMessages)
         /\ \A k : LastIsTrue(s, k, ncKernel) => LastIsTrue(Dump(s, ks), k, ncKernel)
         /\ \A k : Quiet(Dump(s, ks), k) => Quiet(s, k)
         /\ \A k \in ks : Quiet(Dump(s, ks), k) => k \notin ncKernel
         /\ \A q, a : NoneOpen(s) /\ q = a \cup ks /\ a \cap ks = {}
                => OneOpen(Dump(s, ks), q, a)
  <1> DEFINE s1 == Tell(s, ks, "intf")
             s2 == Tell(s1, ks, "neigh")
             s3 == Tell(s2, ks, "ipv4")
             s4 == Tell(s3, ks, "ipv6")
             t  == Append(s4, [op |-> "end", kind |-> ks])
  <1>0. Dump(s, ks) = t
    BY DEF Dump
  <1>1. /\ s1 \in Seq(NcMessages)
        /\ \A k : LastIsTrue(s, k, ncKernel) => LastIsTrue(s1, k, ncKernel)
        /\ \A k : Quiet(s1, k) => Quiet(s, k)
        /\ Quiet(s1, "intf") /\ "intf" \in ks => "intf" \notin ncKernel
        /\ NoneOpen(s) => NoneOpen(s1)
    BY TellIsTrue DEF Kinds
  <1>1a. s2 = Tell(s1, ks, "neigh")
    OBVIOUS
  <1> HIDE DEF s1
  <1>2. /\ s2 \in Seq(NcMessages)
        /\ \A k : LastIsTrue(s1, k, ncKernel) => LastIsTrue(s2, k, ncKernel)
        /\ \A k : Quiet(s2, k) => Quiet(s1, k)
        /\ Quiet(s2, "neigh") /\ "neigh" \in ks => "neigh" \notin ncKernel
        /\ NoneOpen(s1) => NoneOpen(s2)
    BY <1>1, TellIsTrue DEF Kinds
  <1> HIDE DEF s2
  <1>3. /\ s3 \in Seq(NcMessages)
        /\ \A k : LastIsTrue(s2, k, ncKernel) => LastIsTrue(s3, k, ncKernel)
        /\ \A k : Quiet(s3, k) => Quiet(s2, k)
        /\ Quiet(s3, "ipv4") /\ "ipv4" \in ks => "ipv4" \notin ncKernel
        /\ NoneOpen(s2) => NoneOpen(s3)
    BY <1>2, TellIsTrue DEF Kinds
  <1> HIDE DEF s3
  <1>4. /\ s4 \in Seq(NcMessages)
        /\ \A k : LastIsTrue(s3, k, ncKernel) => LastIsTrue(s4, k, ncKernel)
        /\ \A k : Quiet(s4, k) => Quiet(s3, k)
        /\ Quiet(s4, "ipv6") /\ "ipv6" \in ks => "ipv6" \notin ncKernel
        /\ NoneOpen(s3) => NoneOpen(s4)
    BY <1>3, TellIsTrue DEF Kinds
  <1> HIDE DEF s4
  <1>5. /\ t \in Seq(NcMessages)
        /\ \A k, kernel : LastIsTrue(s4, k, kernel) => LastIsTrue(t, k, kernel)
        /\ \A k : Quiet(t, k) => Quiet(s4, k)
        /\ \A q, a : NoneOpen(s4) /\ q = a \cup ks /\ a \cap ks = {} => OneOpen(t, q, a)
    BY <1>4, EndIsAdded
  <1> HIDE DEF t
  <1>6. \A k : LastIsTrue(s, k, ncKernel) => LastIsTrue(t, k, ncKernel)
    BY <1>1, <1>2, <1>3, <1>4, <1>5
  <1>7. \A k : Quiet(t, k) => Quiet(s4, k) /\ Quiet(s3, k) /\ Quiet(s2, k) /\ Quiet(s1, k)
                                /\ Quiet(s, k)
    BY <1>1, <1>2, <1>3, <1>4, <1>5
  <1>8. ASSUME NEW k \in ks, Quiet(t, k) PROVE k \notin ncKernel
    <2>1. k = "intf" \/ k = "neigh" \/ k = "ipv4" \/ k = "ipv6"
      BY DEF Kinds
    <2> QED
      BY <1>1, <1>2, <1>3, <1>4, <1>7, <1>8, <2>1
  <1> QED
    BY <1>0, <1>1, <1>2, <1>3, <1>4, <1>5, <1>6, <1>7, <1>8

(* The results d of the QUERY_DONE events.                                 *)
Results == [asked : SUBSET Kinds, all : BOOLEAN]

AskedIn(d, n) == UNION {d[j].asked : j \in 1..n}

ResultsAreRight(d, monitor) ==
    /\ \A i \in 1..Len(d) : d[i].all <=> monitor \subseteq AskedIn(d, i)
    /\ \A i, j \in 1..Len(d) : i # j => d[i].asked \cap d[j].asked = {}

LEMMA ResultIsAdded ==
  ASSUME NEW d \in Seq(Results), NEW asked \in SUBSET Kinds, NEW all \in BOOLEAN, NEW monitor,
         ResultsAreRight(d, monitor), AskedIn(d, Len(d)) \cap asked = {},
         all <=> monitor \subseteq AskedIn(d, Len(d)) \cup asked
  PROVE  LET e == Append(d, [asked |-> asked, all |-> all])
         IN  /\ e \in Seq(Results)
             /\ AskedIn(e, Len(e)) = AskedIn(d, Len(d)) \cup asked
             /\ ResultsAreRight(e, monitor)
  <1> DEFINE r == [asked |-> asked, all |-> all]
             e == Append(d, r)
  <1>1. r \in Results /\ r.asked = asked /\ (r.all <=> all)
    BY DEF Results
  <1> HIDE DEF r
  <1>2. /\ e \in Seq(Results) /\ Len(d) \in Nat /\ Len(e) = Len(d) + 1
        /\ \A i \in 1..Len(d) : e[i] = d[i]
        /\ e[Len(d) + 1] = r
    BY <1>1, AppendProperties, LenProperties
  <1> HIDE DEF e
  <1>3. ASSUME NEW i \in 1..Len(d) PROVE AskedIn(e, i) = AskedIn(d, i)
    <2>1. \A j \in 1..i : e[j] = d[j]
      BY <1>2
    <2> QED
      BY <2>1 DEF AskedIn
  <1>4. AskedIn(e, Len(e)) = AskedIn(d, Len(d)) \cup asked
    <2>1. \A j \in 1..Len(e) : j \in 1..Len(d) \/ j = Len(d) + 1
      BY <1>2
    <2>2. \A j \in 1..Len(d) : j \in 1..Len(e) /\ e[j].asked = d[j].asked
      BY <1>2
    <2>3. Len(d) + 1 \in 1..Len(e) /\ e[Len(d) + 1].asked = asked
      BY <1>1, <1>2
    <2>4. ASSUME NEW x PROVE x \in AskedIn(e, Len(e)) <=> \E j \in 1..Len(e) : x \in e[j].asked
      BY DEF AskedIn
    <2>5. ASSUME NEW x PROVE x \in AskedIn(d, Len(d)) <=> \E j \in 1..Len(d) : x \in d[j].asked
      BY DEF AskedIn
    <2>6. ASSUME NEW x PROVE x \in AskedIn(e, Len(e)) <=> x \in AskedIn(d, Len(d)) \cup asked
      BY <2>1, <2>2, <2>3, <2>4, <2>5
    <2> QED
      BY <2>6
  <1>5. ASSUME NEW i \in 1..Len(e) PROVE e[i].all <=> monitor \subseteq AskedIn(e, i)
    <2>1. CASE i \in 1..Len(d)
      <3>1. e[i] = d[i] /\ AskedIn(e, i) = AskedIn(d, i)
        BY <1>2, <1>3, <2>1
      <3>2. d[i].all <=> monitor \subseteq AskedIn(d, i)
        BY <2>1 DEF ResultsAreRight
      <3> QED
        BY <3>1, <3>2
    <2>2. CASE i = Len(e)
      <3>1. e[i] = r
        BY <1>2, <2>2
      <3> QED
        BY <1>1, <1>4, <2>2, <3>1
    <2> QED
      BY <1>2, <2>1, <2>2
  <1>6. ASSUME NEW i \in 1..Len(d) PROVE d[i].asked \cap asked = {}
    <2>1. d[i].asked \subseteq AskedIn(d, Len(d))
      BY DEF AskedIn
    <2> QED
      BY <2>1
  <1>7. ASSUME NEW i \in 1..Len(e), NEW j \in 1..Len(e), i # j
        PROVE  e[i].asked \cap e[j].asked = {}
    <2>1. CASE i \in 1..Len(d) /\ j \in 1..Len(d)
      BY <1>2, <1>7, <2>1 DEF ResultsAreRight
    <2>2. CASE i \in 1..Len(d) /\ j = Len(d) + 1
      BY <1>1, <1>2, <1>6, <2>2
    <2>3. CASE i = Len(d) + 1 /\ j \in 1..Len(d)
      BY <1>1, <1>2, <1>6, <2>3
    <2> QED
      BY <1>2, <1>7, <2>1, <2>2, <2>3
  <1>8. ResultsAreRight(e, monitor)
    BY <1>5, <1>7 DEF ResultsAreRight
  <1>9. e = Append(d, [asked |-> asked, all |-> all])
    BY DEF e, r
  <1> QED
    BY <1>2, <1>4, <1>8, <1>9

NetconfTypes ==
    /\ ncMonitor \in SUBSET Kinds /\ ncMember \in SUBSET Kinds
    /\ ncQueried \in SUBSET Kinds
    /\ ncPhase \in {"new", "joining", "idle", "stopped"}
    /\ ncSocket \in Seq(NcMessages)
    /\ ncDone \in Seq(Results)

(* Until the groups are joined nothing is asked and nothing is read, and   *)
(* the socket only has messages of the groups it is in.                    *)
NothingAsked ==
    /\ ncQueried = {} /\ ncView = {} /\ ncDone = <<>> /\ NoneOpen(ncSocket)
    /\ \A k \in Kinds \ ncMember : Quiet(ncSocket, k)

NetconfInv ==
    /\ NetconfTypes
    /\ ncPhase \in {"new", "joining"} => NothingAsked
    /\ ncPhase = "idle" => ncMonitor \subseteq ncMember
    /\ \A k \in ncMember \ {"neigh"} : KindIsKnown(ncSocket, k, ncKernel, ncView, ncQueried)
    /\ OneOpen(ncSocket, ncQueried, AskedIn(ncDone, Len(ncDone)))
    /\ ResultsAreRight(ncDone, ncMonitor)

LEMMA NetconfInitially == NetconfInit => NetconfInv
  <1> SUFFICES ASSUME NetconfInit PROVE NetconfInv
    OBVIOUS
  <1>1. ncSocket = <<>> /\ ncDone = <<>> /\ Len(<<>>) = 0
    BY EmptySeq DEF NetconfInit
  <1>2. NetconfTypes
    BY <1>1 DEF NetconfInit, NetconfTypes, Kinds
  <1>3. NoneOpen(ncSocket) /\ \A k : Quiet(ncSocket, k)
    BY <1>1 DEF NoneOpen, Quiet
  <1>4. AskedIn(ncDone, Len(ncDone)) = {}
    BY <1>1 DEF AskedIn
  <1>5. OneOpen(ncSocket, ncQueried, AskedIn(ncDone, Len(ncDone)))
    BY <1>1, <1>4 DEF OneOpen, NetconfInit
  <1>6. ResultsAreRight(ncDone, ncMonitor)
    BY <1>1 DEF ResultsAreRight
  <1> QED
    BY <1>1, <1>2, <1>3, <1>5, <1>6 DEF NetconfInit, NetconfInv, NothingAsked

(* The question that comes next is about kinds that were not asked for.    *)
LEMMA NextQuestionIsNew ==
  NextQuestion \in SUBSET Kinds /\ NextQuestion \cap ncQueried = {}
  BY DEF NextQuestion, Wanted, Kinds

(* crtx_netconf_query_interfaces, called when no question is open.         *)
LEMMA QuestionIsAsked ==
  ASSUME NEW s \in Seq(NcMessages), NoneOpen(s), QueryInterfaces(s), UNCHANGED ncKernel,
         NEW ks, ks \subseteq Kinds, ncQueried \in SUBSET Kinds, NEW view,
         \A k \in ks : KindIsKnown(s, k, ncKernel, view, ncQueried)
  PROVE  /\ ncSocket' \in Seq(NcMessages) /\ ncQueried' \in SUBSET Kinds
         /\ \A k \in ks : KindIsKnown(ncSocket', k, ncKernel, view, ncQueried')
         /\ OneOpen(ncSocket', ncQueried', ncQueried)
  <1>1. CASE ncSocket' = s /\ UNCHANGED ncQueried
    BY <1>1 DEF OneOpen, NoneOpen
  <1>2. CASE ncSocket' = Dump(s, NextQuestion) /\ ncQueried' = ncQueried \cup NextQuestion
    <2>0. PICK q : q = NextQuestion
      OBVIOUS
    <2>0a. q \in SUBSET Kinds /\ q \cap ncQueried = {}
      BY <2>0, NextQuestionIsNew
    <2>1. PICK d : d = Dump(s, q)
      OBVIOUS
    <2>2. /\ d \in Seq(NcMessages)
          /\ \A k : LastIsTrue(s, k, ncKernel) => LastIsTrue(d, k, ncKernel)
          /\ \A k : Quiet(d, k) => Quiet(s, k)
          /\ \A k \in q : Quiet(d, k) => k \notin ncKernel
          /\ \A r, a : NoneOpen(s) /\ r = a \cup q /\ a \cap q = {} => OneOpen(d, r, a)
      BY <2>0a, <2>1, DumpIsTrue
    <2>3. ncSocket' = d /\ ncQueried' = ncQueried \cup q
      BY <1>2, <2>0, <2>1
    <2>4. OneOpen(d, ncQueried \cup q, ncQueried)
      BY <2>0a, <2>2
    <2>5. ASSUME NEW k \in ks PROVE KindIsKnown(d, k, ncKernel, view, ncQueried \cup q)
      <3>1. LastIsTrue(d, k, ncKernel)
        BY <2>2 DEF KindIsKnown
      <3>2. ASSUME Quiet(d, k) PROVE Quiet(s, k) /\ (k \in q => k \notin ncKernel)
        BY <2>2, <3>2
      <3> QED
        BY <3>1, <3>2 DEF KindIsKnown
    <2> QED
      BY <2>0a, <2>2, <2>3, <2>4, <2>5
  <1> QED
    BY <1>1, <1>2 DEF QueryInterfaces

LEMMA KernelChangesKeeps == NetconfInv /\ KernelChanges => NetconfInv'
  <1> SUFFICES ASSUME NetconfInv, KernelChanges PROVE NetconfInv'
    OBVIOUS
  <1>0. UNCHANGED <<ncMonitor, ncQuery, ncPhase, ncMember, ncQueried, ncView, ncDone>>
    BY DEF KernelChanges
  <1>1. PICK k0 \in Kinds :
          /\ ncKernel' = IF k0 \in ncKernel THEN ncKernel \ {k0} ELSE ncKernel \cup {k0}
          /\ ncSocket' = IF k0 \notin ncMember THEN ncSocket
                         ELSE Append(ncSocket, [op |-> IF k0 \in ncKernel THEN "del" ELSE "add",
                                                kind |-> k0])
    BY Zenon DEF KernelChanges
  <1>2. \A k : k # k0 => (k \in ncKernel' <=> k \in ncKernel)
    BY <1>1
  <1>3. CASE k0 \notin ncMember
    <2>1. ncSocket' = ncSocket
      BY <1>1, <1>3
    <2>2. ASSUME NEW k \in ncMember \ {"neigh"}
          PROVE  KindIsKnown(ncSocket, k, ncKernel', ncView, ncQueried)
      <3>1. k \in ncKernel' <=> k \in ncKernel
        BY <1>2, <1>3
      <3>2. KindIsKnown(ncSocket, k, ncKernel, ncView, ncQueried)
        BY DEF NetconfInv
      <3> QED
        BY <3>1, <3>2 DEF KindIsKnown, LastIsTrue
    <2> QED
      BY <1>0, <2>1, <2>2 DEF NetconfInv, NetconfTypes, NothingAsked
  <1>4. CASE k0 \in ncMember
    <2> DEFINE m == [op |-> IF k0 \in ncKernel THEN "del" ELSE "add", kind |-> k0]
    <2>1. m \in Objects /\ m.kind = k0 /\ (m.op = "add" <=> k0 \in ncKernel')
      BY <1>1 DEF Objects
    <2>2. ncSocket' = Append(ncSocket, m)
      BY <1>1, <1>4
    <2> HIDE DEF m
    <2>3. PICK d : d = Append(ncSocket, m)
      OBVIOUS
    <2>4. ncSocket \in Seq(NcMessages)
      BY DEF NetconfInv, NetconfTypes
    <2>5. /\ d \in Seq(NcMessages)
          /\ \A k, kernel : k # k0 /\ LastIsTrue(ncSocket, k, kernel) => LastIsTrue(d, k, kernel)
          /\ \A k : k # k0 => (Quiet(d, k) <=> Quiet(ncSocket, k))
          /\ ~Quiet(d, k0)
          /\ \A kernel : (m.op = "add" <=> k0 \in kernel) => LastIsTrue(d, k0, kernel)
          /\ NoneOpen(ncSocket) => NoneOpen(d)
          /\ \A q, a : OneOpen(ncSocket, q, a) => OneOpen(d, q, a)
      BY <2>1, <2>3, <2>4, ObjectIsAdded
    <2>6. ASSUME NEW k \in ncMember \ {"neigh"}
          PROVE  KindIsKnown(d, k, ncKernel', ncView, ncQueried)
      <3>1. CASE k = k0
        <4>1. LastIsTrue(d, k0, ncKernel')
          BY <2>1, <2>5
        <4> QED
          BY <2>5, <3>1, <4>1 DEF KindIsKnown
      <3>2. CASE k # k0
        <4>1. KindIsKnown(ncSocket, k, ncKernel, ncView, ncQueried)
          BY DEF NetconfInv
        <4>2. LastIsTrue(ncSocket, k, ncKernel')
          BY <1>2, <3>2, <4>1 DEF KindIsKnown, LastIsTrue
        <4> QED
          BY <1>2, <2>5, <3>2, <4>1, <4>2 DEF KindIsKnown
      <3> QED
        BY <3>1, <3>2
    <2>7. ncSocket' = d
      BY <2>2, <2>3
    <2>8. NothingAsked => NothingAsked'
      BY <1>0, <1>4, <2>5, <2>7 DEF NothingAsked
    <2> QED
      BY <1>0, <2>5, <2>6, <2>7, <2>8 DEF NetconfInv, NetconfTypes
  <1> QED
    BY <1>3, <1>4

LEMMA JoinGroupKeeps == NetconfInv /\ JoinGroup => NetconfInv'
  <1> SUFFICES ASSUME NetconfInv, JoinGroup PROVE NetconfInv'
    OBVIOUS
  <1>0. /\ ncPhase = "joining"
        /\ UNCHANGED <<ncMonitor, ncQuery, ncPhase, ncQueried, ncKernel, ncSocket, ncView,
                       ncDone, ncChanges>>
    BY DEF JoinGroup
  <1>1. PICK k0 \in ncMonitor \ ncMember : ncMember' = ncMember \cup {k0}
    BY DEF JoinGroup
  <1>2. NothingAsked /\ NetconfTypes
    BY <1>0 DEF NetconfInv
  <1>3. k0 \in Kinds /\ Quiet(ncSocket, k0) /\ k0 \notin ncView /\ k0 \notin ncQueried
    BY <1>2 DEF NothingAsked, NetconfTypes
  <1>4. KindIsKnown(ncSocket, k0, ncKernel, ncView, ncQueried)
    BY <1>3 DEF KindIsKnown, LastIsTrue, Quiet
  <1>5. NetconfTypes' /\ NothingAsked'
    BY <1>0, <1>1, <1>2, <1>3 DEF NetconfTypes, NothingAsked
  <1> QED
    BY <1>0, <1>1, <1>4, <1>5 DEF NetconfInv

LEMMA StateHandlerEndsKeeps == NetconfInv /\ StateHandlerEnds => NetconfInv'
  <1> SUFFICES ASSUME NetconfInv, StateHandlerEnds PROVE NetconfInv'
    OBVIOUS
  <1>0. /\ ncPhase = "joining" /\ ncPhase' = "idle" /\ ncMonitor \subseteq ncMember
        /\ UNCHANGED <<ncMonitor, ncQuery, ncMember, ncKernel, ncView, ncDone, ncChanges>>
    BY DEF StateHandlerEnds, Joined
  <1>1. NothingAsked /\ NetconfTypes
    BY <1>0 DEF NetconfInv
  <1>2. AskedIn(ncDone, Len(ncDone)) = ncQueried
    BY <1>1 DEF NetconfInv, NothingAsked, OneOpen
  <1>3. CASE UNCHANGED <<ncSocket, ncQueried>>
    BY <1>0, <1>1, <1>3 DEF NetconfInv, NetconfTypes
  <1>4. CASE QueryInterfaces(ncSocket)
    <2>1. \A k \in ncMember \ {"neigh"} :
             KindIsKnown(ncSocket, k, ncKernel, ncView, ncQueried)
      BY DEF NetconfInv
    <2>2. /\ ncSocket' \in Seq(NcMessages) /\ ncQueried' \in SUBSET Kinds
          /\ \A k \in ncMember \ {"neigh"} :
                KindIsKnown(ncSocket', k, ncKernel, ncView, ncQueried')
          /\ OneOpen(ncSocket', ncQueried', ncQueried)
      <3>1. ncSocket \in Seq(NcMessages) /\ NoneOpen(ncSocket) /\ UNCHANGED ncKernel
            /\ ncMember \ {"neigh"} \subseteq Kinds /\ ncQueried \in SUBSET Kinds
        BY <1>0, <1>1 DEF NetconfTypes, NothingAsked
      <3> QED
        BY <1>4, <2>1, <3>1, QuestionIsAsked
    <2> QED
      BY <1>0, <1>1, <1>2, <2>2 DEF NetconfInv, NetconfTypes
  <1> QED
    BY <1>3, <1>4 DEF StateHandlerEnds

LEMMA ReceiveObjectKeeps == NetconfInv /\ ReceiveObject => NetconfInv'
  <1> SUFFICES ASSUME NetconfInv, ReceiveObject PROVE NetconfInv'
    OBVIOUS
  <1>0. /\ ncPhase = "idle" /\ ncSocket # <<>> /\ ncSocket' = Tail(ncSocket)
        /\ Head(ncSocket).op # "end"
        /\ UNCHANGED <<ncMonitor, ncQuery, ncPhase, ncMember, ncQueried, ncKernel, ncDone,
                       ncChanges>>
    BY DEF ReceiveObject
  <1>1. PICK m : m = Head(ncSocket)
    OBVIOUS
  <1>2. ncView' = IF m.op = "del" /\ m.kind # "neigh" THEN ncView \ {m.kind}
                  ELSE ncView \cup {m.kind}
    BY <1>1 DEF ReceiveObject
  <1>3. ncSocket \in Seq(NcMessages)
    BY DEF NetconfInv, NetconfTypes
  <1>4. PICK t : t = Tail(ncSocket)
    OBVIOUS
  <1>5. /\ m \in NcMessages /\ t \in Seq(NcMessages)
        /\ \A k, kernel : LastIsTrue(ncSocket, k, kernel) => LastIsTrue(t, k, kernel)
        /\ \A k : ~About(m, k) /\ Quiet(t, k) => Quiet(ncSocket, k)
        /\ \A k, kernel : About(m, k) /\ Quiet(t, k) /\ LastIsTrue(ncSocket, k, kernel)
              => (m.op = "add" <=> k \in kernel)
        /\ \A q, a : m.op # "end" /\ OneOpen(ncSocket, q, a) => OneOpen(t, q, a)
    BY <1>0, <1>1, <1>3, <1>4, FirstIsTaken
  <1>6. ASSUME NEW k \in ncMember \ {"neigh"}
        PROVE  KindIsKnown(t, k, ncKernel, ncView', ncQueried)
    <2>0. KindIsKnown(ncSocket, k, ncKernel, ncView, ncQueried)
      BY DEF NetconfInv
    <2>1. LastIsTrue(ncSocket, k, ncKernel) /\ LastIsTrue(t, k, ncKernel)
      BY <1>5, <2>0 DEF KindIsKnown
    <2>2. CASE About(m, k)
      <3>1. m.op \in {"add", "del"} /\ m.kind = k
        BY <1>5, <2>2 DEF About, NcMessages, Objects, Ends
      <3>2. ASSUME Quiet(t, k) PROVE k \in ncView' <=> k \in ncKernel
        <4>1. m.op = "add" <=> k \in ncKernel
          BY <1>5, <2>1, <2>2, <3>2
        <4>2. CASE m.op = "add"
          BY <1>2, <3>1, <4>1, <4>2
        <4>3. CASE m.op = "del"
          BY <1>2, <3>1, <4>1, <4>3
        <4> QED
          BY <3>1, <4>2, <4>3
      <3> QED
        BY <2>1, <3>2 DEF KindIsKnown
    <2>3. CASE ~About(m, k)
      <3>1. m.kind # k
        BY <1>0, <1>1, <2>3 DEF About
      <3>2. k \in ncView' <=> k \in ncView
        BY <1>2, <3>1
      <3>3. Quiet(t, k) => Quiet(ncSocket, k)
        BY <1>5, <2>3
      <3> QED
        BY <2>0, <2>1, <3>2, <3>3 DEF KindIsKnown
    <2> QED
      BY <2>2, <2>3
  <1>7. OneOpen(t, ncQueried, AskedIn(ncDone, Len(ncDone)))
    BY <1>0, <1>1, <1>5 DEF NetconfInv
  <1> QED
    BY <1>0, <1>4, <1>5, <1>6, <1>7 DEF NetconfInv, NetconfTypes

LEMMA ReceiveEndKeeps == NetconfInv /\ ReceiveEnd => NetconfInv'
  <1> SUFFICES ASSUME NetconfInv, ReceiveEnd PROVE NetconfInv'
    OBVIOUS
  <1>0. /\ ncPhase = "idle" /\ ncSocket # <<>> /\ Head(ncSocket).op = "end"
        /\ UNCHANGED <<ncMonitor, ncQuery, ncMember, ncKernel, ncView, ncChanges>>
    BY DEF ReceiveEnd
  <1>1. PICK ks : ks = Head(ncSocket).kind
    OBVIOUS
  <1>2. PICK t : t = Tail(ncSocket)
    OBVIOUS
  <1>3. NetconfTypes
    BY DEF NetconfInv
  <1>4. /\ Head(ncSocket) \in NcMessages /\ t \in Seq(NcMessages)
        /\ \A k, kernel : LastIsTrue(ncSocket, k, kernel) => LastIsTrue(t, k, kernel)
        /\ \A k : ~About(Head(ncSocket), k) /\ Quiet(t, k) => Quiet(ncSocket, k)
        /\ \A q, a : Head(ncSocket).op = "end" /\ OneOpen(ncSocket, q, a)
              => NoneOpen(t) /\ q = a \cup ks /\ a \cap ks = {}
    BY <1>0, <1>1, <1>2, <1>3, FirstIsTaken DEF NetconfTypes
  <1>5. ks \in SUBSET Kinds
    BY <1>0, <1>1, <1>4 DEF NcMessages, Objects, Ends
  <1>6. PICK a : a = AskedIn(ncDone, Len(ncDone))
    OBVIOUS
  <1>7. NoneOpen(t) /\ ncQueried = a \cup ks /\ a \cap ks = {}
    BY <1>0, <1>4, <1>6 DEF NetconfInv
  <1>8. \A k \in ncMember \ {"neigh"} : KindIsKnown(t, k, ncKernel, ncView, ncQueried)
    <2> SUFFICES ASSUME NEW k \in ncMember \ {"neigh"}
                 PROVE  KindIsKnown(t, k, ncKernel, ncView, ncQueried)
      OBVIOUS
    <2>1. KindIsKnown(ncSocket, k, ncKernel, ncView, ncQueried)
      BY DEF NetconfInv
    <2>2. ~About(Head(ncSocket), k)
      BY <1>0 DEF About
    <2> QED
      BY <1>4, <2>1, <2>2 DEF KindIsKnown
  <1>9. PICK all \in BOOLEAN : all <=> AllQueried
    OBVIOUS
  <1>10. ncDone' = Append(ncDone, [asked |-> ks, all |-> all])
    <2>1. ncDone' = Append(ncDone, [asked |-> ks, all |-> AllQueried])
      BY <1>1 DEF ReceiveEnd
    <2>2. all = AllQueried
      BY <1>9 DEF AllQueried
    <2> QED
      BY <2>1, <2>2
  <1>11. /\ ncDone' \in Seq(Results)
         /\ AskedIn(ncDone, Len(ncDone))' = ncQueried
         /\ ResultsAreRight(ncDone, ncMonitor)'
    <2>1. PICK d : d = ncDone
      OBVIOUS
    <2>2. PICK e : e = Append(d, [asked |-> ks, all |-> all])
      OBVIOUS
    <2>3. d \in Seq(Results) /\ ResultsAreRight(d, ncMonitor) /\ AskedIn(d, Len(d)) \cap ks = {}
      BY <1>3, <1>6, <1>7, <2>1 DEF NetconfInv, NetconfTypes
    <2>4. all <=> ncMonitor \subseteq AskedIn(d, Len(d)) \cup ks
      BY <1>6, <1>7, <1>9, <2>1 DEF AllQueried
    <2>5. /\ e \in Seq(Results)
          /\ AskedIn(e, Len(e)) = AskedIn(d, Len(d)) \cup ks
          /\ ResultsAreRight(e, ncMonitor)
      BY <1>5, <2>2, <2>3, <2>4, ResultIsAdded
    <2>6. ncDone' = e /\ ncMonitor' = ncMonitor
      BY <1>0, <1>10, <2>1, <2>2
    <2> QED
      BY <1>6, <1>7, <2>1, <2>5, <2>6
  <1>12. ASSUME ncSocket' = t, UNCHANGED ncQueried, ncPhase' \in {"idle", "stopped"}
         PROVE  NetconfInv'
    <2>1. OneOpen(t, ncQueried, ncQueried)
      BY <1>7 DEF OneOpen, NoneOpen
    <2> QED
      BY <1>0, <1>3, <1>4, <1>8, <1>11, <1>12, <2>1 DEF NetconfInv, NetconfTypes
  <1>13. ASSUME QueryInterfaces(t), UNCHANGED ncPhase PROVE NetconfInv'
    <2>1. /\ ncSocket' \in Seq(NcMessages) /\ ncQueried' \in SUBSET Kinds
          /\ \A k \in ncMember \ {"neigh"} :
                KindIsKnown(ncSocket', k, ncKernel, ncView, ncQueried')
          /\ OneOpen(ncSocket', ncQueried', ncQueried)
      <3>1. UNCHANGED ncKernel /\ ncMember \ {"neigh"} \subseteq Kinds
            /\ ncQueried \in SUBSET Kinds
        BY <1>0, <1>3 DEF NetconfTypes
      <3> QED
        BY <1>4, <1>7, <1>8, <1>13, <3>1, QuestionIsAsked
    <2> QED
      BY <1>0, <1>3, <1>11, <1>13, <2>1 DEF NetconfInv, NetconfTypes
  <1> QED
    BY <1>0, <1>2, <1>12, <1>13 DEF ReceiveEnd

LEMMA NetconfStep == NetconfInv /\ [NetconfNext]_netconfVars => NetconfInv'
  <1> SUFFICES ASSUME NetconfInv, [NetconfNext]_netconfVars PROVE NetconfInv'
    OBVIOUS
  <1>1. CASE StartNetconf
    BY <1>1 DEF StartNetconf, NetconfInv, NetconfTypes, NothingAsked
  <1>2. CASE StopNetconf
    BY <1>2 DEF StopNetconf, NetconfInv, NetconfTypes
  <1>3. CASE UNCHANGED netconfVars
    BY <1>3 DEF netconfVars, NetconfInv, NetconfTypes, NothingAsked
  <1> QED
    BY <1>1, <1>2, <1>3, KernelChangesKeeps, JoinGroupKeeps, StateHandlerEndsKeeps,
       ReceiveObjectKeeps, ReceiveEndKeeps DEF NetconfNext

LEMMA NetconfInvIsRight == NetconfInv => NetconfIsRight
  <1> SUFFICES ASSUME NetconfInv PROVE NetconfIsRight
    OBVIOUS
  <1>1. Cardinality(Questions) <= 1
    <2>1. CASE Questions = {}
      BY <2>1, FS_EmptySet
    <2>2. CASE Questions # {}
      <3>1. PICK i : i \in Questions
        BY <2>2
      <3>2. Questions = {i}
        BY <3>1 DEF Questions, NetconfInv, OneOpen
      <3>3. Cardinality({i}) = 1
        BY FS_Singleton
      <3> QED
        BY <3>2, <3>3
    <2> QED
      BY <2>1, <2>2
  <1>2. DoneMeansAnswered
    BY <1>1 DEF DoneMeansAnswered, NetconfInv, ResultsAreRight, AskedIn
  <1>3. ViewIsComplete
    <2> SUFFICES ASSUME ncPhase = "idle", ncSocket = <<>>, ncMonitor \subseteq Answered,
                        NEW k \in ncMonitor \ {"neigh"}
                 PROVE  k \in ncView <=> k \in ncKernel
      BY DEF ViewIsComplete
    <2>1. NoneOpen(ncSocket) /\ Quiet(ncSocket, k)
      BY EmptySeq DEF NoneOpen, Quiet
    <2>2. ncQueried = Answered
      BY <2>1 DEF NetconfInv, OneOpen, Answered, AskedIn
    <2>3. KindIsKnown(ncSocket, k, ncKernel, ncView, ncQueried)
      BY DEF NetconfInv
    <2> QED
      BY <2>1, <2>2, <2>3 DEF KindIsKnown
  <1> QED
    BY <1>2, <1>3 DEF NetconfIsRight

(* netconf.c: however often the kernel changes its objects and whenever    *)
(* it does, every question is asked once and one at a time, QUERY_DONE     *)
(* says that all are queried exactly when all answers were delivered, and  *)
(* then the events have given the application what exists in the kernel.   *)
THEOREM ViewIsRight == NetconfSpec => []NetconfIsRight
  <1> QED
    BY NetconfInitially, NetconfStep, NetconfInvIsRight, PTL DEF NetconfSpec


---------------------------------------------------------------------------
(* Cache.                                                                  *)
(* A set of numbers has a least one.                                       *)
LEMMA LeastOf ==
  ASSUME NEW S, S \subseteq Nat, S # {}
  PROVE  \E x \in S : \A y \in S : x <= y
  <1>1. PICK x \in S : \A y \in S : ~(<<y, x>> \in OpToRel(<, Nat))
    BY NatLessThanWellFounded, WFMin
  <1>2. ASSUME NEW y \in S PROVE x <= y
    <2>1. ASSUME y < x PROVE <<y, x>> \in OpToRel(<, Nat)
      BY <2>1, Zenon DEF OpToRel
    <2>2. ~(y < x)
      BY <1>1, <2>1
    <2> QED
      BY <2>2
  <1> QED
    BY <1>2

(* The first entry of a key, or the first unused one.                      *)
LEMMA FirstIsIn ==
  ASSUME NEW S, S \subseteq Nat, S # {}
  PROVE  FirstOf(S) \in S
  BY LeastOf DEF FirstOf

CacheEntries ==
    [key : CacheKeys \cup {NoKey}, live : BOOLEAN, val : Responses \ {NoResponse}, born : Nat]

CacheRecords ==
    [pc : {"new", "handlers", "cleanup", "done"}, key : CacheKeys \cup {NoKey},
     hit : BOOLEAN, resp : Responses, age : Nat]

LEMMA ResponsesAreBy ==
  /\ \A v \in Responses \ {NoResponse} : v.by \in CacheEvents
  /\ \A v \in Responses : v.by = NoKey => v = NoResponse
  /\ NoResponse.by = NoKey
  BY CacheAssumption DEF Responses, NoResponse

(* A response that is served belongs to the event it was stored for.       *)
LEMMA ServedIsBy ==
  ASSUME NEW v \in Responses \ {NoResponse}
  PROVE  CopiedResponse(v) \in Responses /\ CopiedResponse(v).by = v.by
  BY DEF CopiedResponse, Responses, NoResponse

(* Among the entries, the slot i0 got the entry x.                         *)
SlotGot(new, old, i0, x) ==
    /\ new \in Seq(CacheEntries)
    /\ i0 \in DOMAIN new /\ new[i0] = x
    /\ \A i \in DOMAIN new : i # i0 => i \in DOMAIN old /\ new[i] = old[i]
    /\ \A i \in DOMAIN old : i \in DOMAIN new

LEMMA SlotIsSet ==
  ASSUME NEW ents \in Seq(CacheEntries), NEW i0 \in DOMAIN ents, NEW x \in CacheEntries
  PROVE  SlotGot([ents EXCEPT ![i0] = x], ents, i0, x)
  <1>1. Len(ents) \in Nat /\ ents \in [1..Len(ents) -> CacheEntries]
        /\ DOMAIN ents = 1..Len(ents)
    BY LenProperties
  <1>2. [ents EXCEPT ![i0] = x] \in Seq(CacheEntries)
    BY <1>1, ExceptSeq
  <1> QED
    BY <1>1, <1>2 DEF SlotGot

(* crtx_cache_add_entry uses a new slot or one that was not in use.        *)
LEMMA EntryIsAdded ==
  ASSUME NEW ents \in Seq(CacheEntries), NEW k \in CacheKeys,
         NEW v \in Responses \ {NoResponse}, clock \in Nat
  PROVE  \E i0 : /\ SlotGot(AddEntry(ents, k, v), ents, i0, Entry(k, v))
                 /\ i0 \in DOMAIN ents => ~ents[i0].live
  <1>1. Entry(k, v) \in CacheEntries
    BY DEF Entry, CacheEntries
  <1>2. Len(ents) \in Nat /\ DOMAIN ents = 1..Len(ents)
    BY LenProperties
  <1>3. CASE UnusedSlots(ents) = {}
    <2>1. AddEntry(ents, k, v) = Append(ents, Entry(k, v))
      BY <1>3 DEF AddEntry
    <2>2. PICK new : new = Append(ents, Entry(k, v))
      OBVIOUS
    <2>3. /\ new \in Seq(CacheEntries)
          /\ Len(new) = Len(ents) + 1
          /\ \A i \in 1..Len(ents) : new[i] = ents[i]
          /\ new[Len(ents) + 1] = Entry(k, v)
      BY <1>1, <2>2, AppendProperties
    <2>4. DOMAIN new = 1..(Len(ents) + 1)
      BY <2>3, LenProperties
    <2>5. \A i \in DOMAIN new : i # Len(ents) + 1 => i \in DOMAIN ents
      BY <1>2, <2>4
    <2>6. SlotGot(new, ents, Len(ents) + 1, Entry(k, v))
      BY <1>2, <2>3, <2>4, <2>5 DEF SlotGot
    <2>7. Len(ents) + 1 \notin DOMAIN ents
      BY <1>2
    <2> QED
      BY <2>1, <2>2, <2>6, <2>7
  <1>4. CASE UnusedSlots(ents) # {}
    <2>1. PICK i0 : i0 = FirstOf(UnusedSlots(ents))
      OBVIOUS
    <2>2. UnusedSlots(ents) \subseteq Nat
      BY <1>2 DEF UnusedSlots
    <2>3. i0 \in UnusedSlots(ents)
      BY <1>4, <2>1, <2>2, FirstIsIn
    <2>4. i0 \in DOMAIN ents /\ ~ents[i0].live
      BY <2>3 DEF UnusedSlots
    <2>5. AddEntry(ents, k, v) = [ents EXCEPT ![i0] = Entry(k, v)]
      BY <1>4, <2>1 DEF AddEntry
    <2>6. SlotGot([ents EXCEPT ![i0] = Entry(k, v)], ents, i0, Entry(k, v))
      BY <1>1, <2>4, SlotIsSet
    <2> QED
      BY <2>4, <2>5, <2>6
  <1> QED
    BY <1>3, <1>4

(* No entry is from the future.                                            *)
BornBefore(ents, time) == \A i \in DOMAIN ents : ents[i].born <= time

(* A response in the cache belongs to an event that is done and has the    *)
(* key of the entry.                                                       *)
StoredAreDone(ents, ev) ==
    \A i \in DOMAIN ents :
        /\ ev[ents[i].val.by].pc = "done"
        /\ ev[ents[i].val.by].key = ents[i].key

(* The response in the record r of event e is its own, or was found: then  *)
(* it belongs to an event that is done, of the same key, and is not old.   *)
IsFound(r) == r.hit

Justified(ev, e, r) ==
    \/ r.resp.by \in {e, NoKey}
    \/ /\ IsFound(r)
       /\ r.resp.by \in CacheEvents \ {e}
       /\ ev[r.resp.by].pc = "done"
       /\ ev[r.resp.by].key = r.key
       /\ (layout = "complex" /\ Timeout > 0) => r.age <= Timeout

EventsInv(ev) ==
    /\ ev \in [CacheEvents -> CacheRecords]
    /\ \A e \in CacheEvents : Justified(ev, e, ev[e])

(* The tracking cache: an entry is in use exactly when it has a key, no    *)
(* key is there twice, and the entries are those of the latest events.     *)
IsLive(en) == en.live

TrackInv(ents, lat, ev) ==
    /\ \A i \in DOMAIN ents : IsLive(ents[i]) <=> ents[i].key # NoKey
    /\ \A i, j \in DOMAIN ents :
          ents[i].key = ents[j].key /\ ents[i].key # NoKey => i = j
    /\ \A i \in DOMAIN ents : ents[i].key # NoKey => ents[i].val.by = lat[ents[i].key]
    /\ \A k \in CacheKeys : lat[k] # NoKey => \E i \in DOMAIN ents : ents[i].key = k
    /\ \A e \in CacheEvents : ev[e].key = NoKey \/ IsFound(ev[e])

CacheInv ==
    /\ CacheTypeOK
    /\ <<layout, use>> \in CacheSetups
    /\ BornBefore(entries, clock)
    /\ EventsInv(eve)
    /\ use = "responses" => StoredAreDone(entries, eve)
    /\ use = "tracking" => TrackInv(entries, latest, eve)

(* The record of event e changes while nobody holds a response of it.      *)
LEMMA EventMoves ==
  ASSUME NEW ev, EventsInv(ev), NEW e \in CacheEvents, NEW r \in CacheRecords,
         \A f \in CacheEvents \ {e} : ev[f].resp.by # e,
         Justified(ev, e, r)
  PROVE  EventsInv([ev EXCEPT ![e] = r])
  <1> DEFINE new == [ev EXCEPT ![e] = r]
  <1>1. /\ new \in [CacheEvents -> CacheRecords]
        /\ new[e] = r
        /\ \A f \in CacheEvents \ {e} : new[f] = ev[f]
    BY DEF EventsInv
  <1> HIDE DEF new
  <1>2. ASSUME NEW f \in CacheEvents PROVE Justified(new, f, new[f])
    <2>1. CASE f = e
      BY <1>1, <2>1 DEF Justified
    <2>2. CASE f # e
      <3>1. Justified(ev, f, ev[f]) /\ ev[f].resp.by # e /\ new[f] = ev[f]
        BY <1>1, <2>2 DEF EventsInv
      <3> QED
        BY <1>1, <3>1 DEF Justified
    <2> QED
      BY <2>1, <2>2
  <1>3. EventsInv(new)
    BY <1>1, <1>2 DEF EventsInv
  <1> QED
    BY <1>3 DEF new

LEMMA StoredStay ==
  ASSUME NEW ev \in [CacheEvents -> CacheRecords], NEW e \in CacheEvents, NEW r \in CacheRecords,
         NEW ents \in Seq(CacheEntries), StoredAreDone(ents, ev),
         \A i \in DOMAIN ents : ents[i].val.by # e
  PROVE  StoredAreDone(ents, [ev EXCEPT ![e] = r])
  <1>1. \A i \in DOMAIN ents : ents[i].val.by \in CacheEvents
    <2>1. \A i \in DOMAIN ents : ents[i] \in CacheEntries
      BY LenProperties, ElementOfSeq
    <2> QED
      BY <2>1, ResponsesAreBy DEF CacheEntries
  <1> QED
    BY <1>1 DEF StoredAreDone

(* While an event is not done, nobody has its response.                    *)
LEMMA NotDoneNotHeld ==
  ASSUME CacheInv, NEW e \in CacheEvents, eve[e].pc # "done"
  PROVE  /\ \A f \in CacheEvents \ {e} : eve[f].resp.by # e
         /\ use = "responses" => \A i \in DOMAIN entries : entries[i].val.by # e
  <1>1. ASSUME NEW f \in CacheEvents \ {e}, eve[f].resp.by = e PROVE FALSE
    <2>1. Justified(eve, f, eve[f])
      BY DEF CacheInv, EventsInv
    <2> QED
      BY <1>1, <2>1, CacheAssumption DEF Justified
  <1> QED
    BY <1>1 DEF CacheInv, StoredAreDone

LEMMA CacheTypes ==
  ASSUME CacheInv
  PROVE  /\ entries \in Seq(CacheEntries) /\ eve \in [CacheEvents -> CacheRecords]
         /\ clock \in 0..MaxTime /\ clock \in Nat /\ MaxTime \in Nat
         /\ latest \in [CacheKeys -> CacheEvents \cup {NoKey}]
         /\ layout \in {"simple", "complex"} /\ use \in {"responses", "tracking"}
         /\ DOMAIN entries = 1..Len(entries) /\ Len(entries) \in Nat
         /\ \A i \in DOMAIN entries : entries[i] \in CacheEntries
  <1>1. entries \in Seq(CacheEntries)
    BY DEF CacheInv, CacheTypeOK, CacheEntries
  <1>2. /\ DOMAIN entries = 1..Len(entries) /\ Len(entries) \in Nat
        /\ \A i \in DOMAIN entries : entries[i] \in CacheEntries
    BY <1>1, LenProperties, ElementOfSeq
  <1>3. eve \in [CacheEvents -> CacheRecords]
    BY DEF CacheInv, CacheTypeOK, CacheRecords
  <1>4. clock \in 0..MaxTime /\ clock \in Nat /\ MaxTime \in Nat
    BY CacheAssumption DEF CacheInv, CacheTypeOK
  <1> QED
    BY <1>1, <1>2, <1>3, <1>4 DEF CacheInv, CacheTypeOK

LEMMA CacheTypesEnough ==
  ASSUME NEW ents \in Seq(CacheEntries), NEW ev \in [CacheEvents -> CacheRecords],
         NEW lat \in [CacheKeys -> CacheEvents \cup {NoKey}], CacheTypeOK,
         entries' = ents, eve' = ev, latest' = lat, UNCHANGED <<layout, use, clock>>
  PROVE  CacheTypeOK'
  BY DEF CacheTypeOK, CacheEntries, CacheRecords

LEMMA CacheInitially == CacheInit => CacheInv
  <1> SUFFICES ASSUME CacheInit PROVE CacheInv
    OBVIOUS
  <1>1. entries = <<>> /\ DOMAIN entries = {}
    <2>1. entries = <<>> /\ <<>> \in Seq(CacheEntries) /\ Len(<<>>) = 0
      BY EmptySeq DEF CacheInit
    <2> QED
      BY <2>1, LenProperties
  <1>2. NoEvent \in CacheRecords /\ NoEvent.resp.by = NoKey /\ NoEvent.key = NoKey
    BY DEF NoEvent, CacheRecords, Responses, NoResponse
  <1>3. PICK setup \in CacheSetups : layout = setup[1] /\ use = setup[2]
    BY DEF CacheInit
  <1>4. <<layout, use>> \in CacheSetups /\ layout \in {"simple", "complex"}
        /\ use \in {"responses", "tracking"}
    BY <1>3, CacheAssumption
  <1>5. eve \in [CacheEvents -> CacheRecords]
        /\ \A e \in CacheEvents : eve[e].resp.by = NoKey /\ eve[e].key = NoKey
    BY <1>2 DEF CacheInit
  <1>6. CacheTypeOK
    <2>1. entries \in Seq(CacheEntries)
      BY <1>1, EmptySeq
    <2>2. clock \in 0..MaxTime
      BY CacheAssumption DEF CacheInit
    <2>3. latest \in [CacheKeys -> CacheEvents \cup {NoKey}]
      BY DEF CacheInit
    <2> QED
      BY <1>4, <1>5, <2>1, <2>2, <2>3 DEF CacheTypeOK, CacheEntries, CacheRecords
  <1>7. EventsInv(eve)
    BY <1>5 DEF EventsInv, Justified
  <1>8. TrackInv(entries, latest, eve)
    <2>1. \A k \in CacheKeys : latest[k] = NoKey
      BY DEF CacheInit
    <2> QED
      BY <1>1, <1>5, <2>1 DEF TrackInv
  <1> QED
    BY <1>1, <1>4, <1>6, <1>7, <1>8 DEF CacheInv, BornBefore, StoredAreDone

LEMMA HandledRecord ==
  ASSUME NEW k \in CacheKeys \cup {NoKey}, NEW h \in BOOLEAN
  PROVE  /\ Handled(k, h) \in CacheRecords
         /\ Handled(k, h).resp.by = NoKey /\ Handled(k, h).key = k
         /\ IsFound(Handled(k, h)) <=> h
  BY DEF Handled, NoEvent, CacheRecords, Responses, NoResponse, IsFound

(* An event goes on to the other handlers.                                 *)
LEMMA HandledKeeps ==
  ASSUME CacheInv, NEW e \in CacheEvents, eve[e].pc = "new",
         NEW k \in CacheKeys \cup {NoKey}, NEW h \in BOOLEAN
  PROVE  LET ev == [eve EXCEPT ![e] = Handled(k, h)]
         IN  /\ ev \in [CacheEvents -> CacheRecords]
             /\ EventsInv(ev)
             /\ use = "responses" => StoredAreDone(entries, ev)
             /\ use = "tracking" /\ (k = NoKey \/ h) =>
                   \A f \in CacheEvents : ev[f].key = NoKey \/ IsFound(ev[f])
  <1>1. PICK r : r = Handled(k, h)
    OBVIOUS
  <1>2. r \in CacheRecords /\ r.resp.by = NoKey /\ r.key = k /\ (IsFound(r) <=> h)
    BY <1>1, HandledRecord
  <1>3. /\ \A f \in CacheEvents \ {e} : eve[f].resp.by # e
        /\ use = "responses" => \A i \in DOMAIN entries : entries[i].val.by # e
    BY NotDoneNotHeld
  <1>4. Justified(eve, e, r)
    BY <1>2 DEF Justified
  <1>5. PICK ev : ev = [eve EXCEPT ![e] = r]
    OBVIOUS
  <1>6. EventsInv(ev)
    BY <1>2, <1>3, <1>4, <1>5, EventMoves DEF CacheInv
  <1>7. use = "responses" => StoredAreDone(entries, ev)
    BY <1>2, <1>3, <1>5, StoredStay, CacheTypes DEF CacheInv
  <1>8. ASSUME use = "tracking", k = NoKey \/ h, NEW f \in CacheEvents
        PROVE  ev[f].key = NoKey \/ IsFound(ev[f])
    <2>1. CASE f = e
      <3>1. ev[f] = r
        BY <1>5, <2>1, CacheTypes
      <3> QED
        BY <1>2, <1>8, <3>1
    <2>2. CASE f # e
      <3>1. ev[f] = eve[f]
        BY <1>5, <2>2, CacheTypes
      <3> QED
        BY <1>8, <3>1 DEF CacheInv, TrackInv
    <2> QED
      BY <2>1, <2>2
  <1>9. ev \in [CacheEvents -> CacheRecords]
    BY <1>6 DEF EventsInv
  <1> QED
    BY <1>1, <1>5, <1>6, <1>7, <1>8, <1>9

(* The lookup leaves the entries, the events and the latest as given.      *)
LEMMA CacheInvEnough ==
  ASSUME CacheInv, UNCHANGED <<layout, use, clock>>,
         NEW ents \in Seq(CacheEntries), NEW ev, NEW lat \in [CacheKeys -> CacheEvents \cup {NoKey}],
         entries' = ents, eve' = ev, latest' = lat,
         BornBefore(ents, clock), EventsInv(ev),
         use = "responses" => StoredAreDone(ents, ev),
         use = "tracking" => TrackInv(ents, lat, ev)
  PROVE  CacheInv'
  <1>1. CacheTypeOK'
    BY CacheTypesEnough DEF CacheInv, EventsInv
  <1>2. EventsInv(eve)'
    BY DEF EventsInv, Justified
  <1> QED
    BY <1>1, <1>2 DEF CacheInv

LEMMA NoKeyKeeps ==
  ASSUME CacheInv, NEW e \in CacheEvents, eve[e].pc = "new",
         eve' = [eve EXCEPT ![e] = Handled(NoKey, FALSE)],
         UNCHANGED <<entries, latest, layout, use, clock>>
  PROVE  CacheInv'
  <1>1. PICK ev : ev = [eve EXCEPT ![e] = Handled(NoKey, FALSE)]
    OBVIOUS
  <1>2. /\ EventsInv(ev)
        /\ use = "responses" => StoredAreDone(entries, ev)
        /\ use = "tracking" => \A f \in CacheEvents : ev[f].key = NoKey \/ IsFound(ev[f])
    BY <1>1, HandledKeeps
  <1>3. use = "tracking" => TrackInv(entries, latest, ev)
    BY <1>2 DEF CacheInv, TrackInv
  <1>4. BornBefore(entries, clock)
    BY DEF CacheInv
  <1> QED
    BY <1>1, <1>2, <1>3, <1>4, CacheInvEnough, CacheTypes

(* A cache of responses only remembers the key.                            *)
LEMMA MissKeeps ==
  ASSUME CacheInv, NEW e \in CacheEvents, eve[e].pc = "new", use = "responses",
         NEW k \in CacheKeys, NEW ents \in Seq(CacheEntries),
         DOMAIN ents = DOMAIN entries,
         \A i \in DOMAIN ents : /\ ents[i].val = entries[i].val
                                /\ ents[i].key = entries[i].key
                                /\ ents[i].born = entries[i].born,
         NEW gone, OnMiss(ents, e, k, gone), UNCHANGED <<layout, use, clock>>
  PROVE  CacheInv'
  <1>1. PICK ev : ev = [eve EXCEPT ![e] = Handled(k, FALSE)]
    OBVIOUS
  <1>2. eve' = ev /\ entries' = ents /\ latest' = latest
    BY <1>1 DEF OnMiss
  <1>3. EventsInv(ev) /\ StoredAreDone(entries, ev)
    BY <1>1, HandledKeeps
  <1>4. StoredAreDone(ents, ev)
    BY <1>3 DEF StoredAreDone
  <1>5. BornBefore(ents, clock)
    BY DEF CacheInv, BornBefore
  <1> QED
    BY <1>2, <1>3, <1>4, <1>5, CacheInvEnough, CacheTypes

(* The tracking cache stores the payload, or nothing for a removal.        *)
LEMMA TrackMissKeeps ==
  ASSUME CacheInv, NEW e \in CacheEvents, eve[e].pc = "new", use = "tracking",
         NEW k \in CacheKeys, Matches(k) = {},
         NEW gone \in BOOLEAN, OnMiss(entries, e, k, gone), UNCHANGED <<layout, use, clock>>
  PROVE  CacheInv'
  <1>1. PICK ev : ev = [eve EXCEPT ![e] = Handled(NoKey, FALSE)]
    OBVIOUS
  <1>2. /\ EventsInv(ev)
        /\ \A f \in CacheEvents : ev[f].key = NoKey \/ IsFound(ev[f])
    BY <1>1, HandledKeeps
  <1>3. eve' = ev
    BY <1>1 DEF OnMiss
  <1>4. TrackInv(entries, latest, eve) /\ BornBefore(entries, clock)
    BY DEF CacheInv
  <1>5. CASE gone
    <2>1. entries' = entries /\ latest' = latest
      BY <1>5 DEF OnMiss
    <2>2. TrackInv(entries, latest, ev)
      BY <1>2, <1>4 DEF TrackInv
    <2> QED
      BY <1>2, <1>3, <1>4, <2>1, <2>2, CacheInvEnough, CacheTypes
  <1>6. CASE ~gone
    <2> DEFINE v == [kind |-> "data", by |-> e]
    <2>1. v \in Responses \ {NoResponse} /\ v.by = e
      BY DEF Responses, NoResponse
    <2>2. entries' = AddEntry(entries, k, v) /\ latest' = [latest EXCEPT ![k] = e]
      BY <1>6 DEF OnMiss
    <2> HIDE DEF v
    <2>3. PICK ents : ents = AddEntry(entries, k, v)
      OBVIOUS
    <2>4. PICK lat : lat = [latest EXCEPT ![k] = e]
      OBVIOUS
    <2>5. PICK i0 : /\ SlotGot(ents, entries, i0, Entry(k, v))
                    /\ i0 \in DOMAIN entries => ~entries[i0].live
      BY <2>1, <2>3, EntryIsAdded, CacheTypes
    <2>6. /\ lat \in [CacheKeys -> CacheEvents \cup {NoKey}] /\ lat[k] = e
          /\ \A l \in CacheKeys \ {k} : lat[l] = latest[l]
      BY <2>4, CacheTypes
    <2>7. PICK x : x = Entry(k, v)
      OBVIOUS
    <2>8. x.key = k /\ IsLive(x) /\ x.val.by = e /\ x.born = clock
      BY <2>1, <2>7 DEF Entry, IsLive
    <2>9. /\ ents \in Seq(CacheEntries)
          /\ i0 \in DOMAIN ents /\ ents[i0] = x
          /\ \A i \in DOMAIN ents : i # i0 => i \in DOMAIN entries /\ ents[i] = entries[i]
          /\ \A i \in DOMAIN entries : i \in DOMAIN ents
      BY <2>5, <2>7 DEF SlotGot
    <2>10. i0 \in DOMAIN entries => entries[i0].key = NoKey
      BY <1>4, <2>5 DEF TrackInv, IsLive
    <2>11. \A i \in DOMAIN entries : entries[i].key # k
      BY DEF Matches
    <2>12. k # NoKey /\ \A i \in DOMAIN entries : entries[i].key \in CacheKeys \cup {NoKey}
      BY CacheAssumption, CacheTypes DEF CacheEntries
    <2>13. BornBefore(ents, clock)
      BY <1>4, <2>8, <2>9, CacheTypes DEF BornBefore
    <2>14. TrackInv(ents, lat, ev)
      <3>1. \A i \in DOMAIN ents : IsLive(ents[i]) <=> ents[i].key # NoKey
        BY <1>4, <2>8, <2>9, <2>12 DEF TrackInv
      <3>2. \A i, j \in DOMAIN ents :
               ents[i].key = ents[j].key /\ ents[i].key # NoKey => i = j
        BY <1>4, <2>8, <2>9, <2>11 DEF TrackInv
      <3>3. \A i \in DOMAIN ents : ents[i].key # NoKey => ents[i].val.by = lat[ents[i].key]
        BY <1>4, <2>6, <2>8, <2>9, <2>11, <2>12 DEF TrackInv
      <3>4. ASSUME NEW l \in CacheKeys, lat[l] # NoKey
            PROVE  \E i \in DOMAIN ents : ents[i].key = l
        <4>1. CASE l = k
          BY <2>8, <2>9, <4>1
        <4>2. CASE l # k
          <5>1. PICK i \in DOMAIN entries : entries[i].key = l
            BY <1>4, <2>6, <3>4, <4>2 DEF TrackInv
          <5>2. i # i0
            BY <2>10, <3>4, <5>1, CacheAssumption
          <5> QED
            BY <2>9, <5>1, <5>2
        <4> QED
          BY <4>1, <4>2
      <3> QED
        BY <1>2, <3>1, <3>2, <3>3, <3>4 DEF TrackInv
    <2>15. entries' = ents /\ latest' = lat
      BY <2>2, <2>3, <2>4
    <2> QED
      BY <1>2, <1>3, <2>6, <2>9, <2>13, <2>14, <2>15, CacheInvEnough
  <1> QED
    BY <1>5, <1>6

(* The tracking cache found the entry i of the key.                        *)
LEMMA TrackHitKeeps ==
  ASSUME CacheInv, NEW e \in CacheEvents, eve[e].pc = "new",
         use = "tracking", layout = "simple",
         NEW k \in CacheKeys, NEW i \in Matches(k),
         NEW gone \in BOOLEAN, TrackHit(e, k, i, gone), UNCHANGED <<layout, use, clock>>
  PROVE  CacheInv'
  <1>1. PICK ev : ev = [eve EXCEPT ![e] = Handled(k, TRUE)]
    OBVIOUS
  <1>2. /\ EventsInv(ev)
        /\ \A f \in CacheEvents : ev[f].key = NoKey \/ IsFound(ev[f])
    BY <1>1, HandledKeeps
  <1>3. eve' = ev
    BY <1>1 DEF TrackHit
  <1>4. TrackInv(entries, latest, eve) /\ BornBefore(entries, clock)
    BY DEF CacheInv
  <1>5. i \in DOMAIN entries /\ entries[i].key = k /\ entries[i] \in CacheEntries
    BY CacheTypes DEF Matches
  <1>6. k # NoKey
    BY CacheAssumption
  <1>7. PICK x : x = IF gone THEN RemovedEntry(entries[i]) ELSE UpdatedEntry(entries[i], e)
    OBVIOUS
  <1>8. PICK y : y = IF gone THEN NoKey ELSE e
    OBVIOUS
  <1>9. PICK ents : ents = [entries EXCEPT ![i] = x]
    OBVIOUS
  <1>10. PICK lat : lat = [latest EXCEPT ![k] = y]
    OBVIOUS
  <1>11. entries' = ents /\ latest' = lat
    BY <1>7, <1>8, <1>9, <1>10 DEF TrackHit
  <1>12. x \in CacheEntries /\ x.born = entries[i].born
    <2>1. CASE gone
      <3>1. x = RemovedEntry(entries[i])
        BY <1>7, <2>1
      <3> QED
        BY <1>5, <3>1 DEF RemovedEntry, CacheEntries
    <2>2. CASE ~gone
      <3>1. x = UpdatedEntry(entries[i], e)
        BY <1>7, <2>2
      <3> QED
        BY <1>5, <3>1 DEF UpdatedEntry, CacheEntries, Responses, NoResponse
    <2> QED
      BY <2>1, <2>2
  <1>13. gone => x.key = NoKey /\ ~IsLive(x) /\ y = NoKey
    BY <1>5, <1>7, <1>8 DEF RemovedEntry, CacheEntries, IsLive
  <1>14. ~gone => x.key = k /\ IsLive(x) /\ x.val.by = e /\ y = e
    BY <1>5, <1>7, <1>8 DEF UpdatedEntry, CacheEntries, IsLive
  <1>15. SlotGot(ents, entries, i, x)
    BY <1>5, <1>9, <1>12, SlotIsSet, CacheTypes
  <1>16. /\ ents \in Seq(CacheEntries)
         /\ i \in DOMAIN ents /\ ents[i] = x
         /\ \A j \in DOMAIN ents : j # i => j \in DOMAIN entries /\ ents[j] = entries[j]
         /\ \A j \in DOMAIN entries : j \in DOMAIN ents
    BY <1>15 DEF SlotGot
  <1>17. /\ lat \in [CacheKeys -> CacheEvents \cup {NoKey}] /\ lat[k] = y
         /\ \A l \in CacheKeys \ {k} : lat[l] = latest[l]
    <2>1. y \in CacheEvents \cup {NoKey}
      BY <1>8
    <2> QED
      BY <1>10, <2>1, CacheTypes
  <1>18. BornBefore(ents, clock)
    BY <1>4, <1>5, <1>12, <1>16 DEF BornBefore
  <1>19. \A j \in DOMAIN entries : j # i => entries[j].key # k
    BY <1>4, <1>5, <1>6 DEF TrackInv
  <1>20. \A j \in DOMAIN entries : entries[j].key \in CacheKeys \cup {NoKey}
    BY CacheTypes DEF CacheEntries
  <1>21. TrackInv(ents, lat, ev)
    <2>1. \A j \in DOMAIN ents : IsLive(ents[j]) <=> ents[j].key # NoKey
      BY <1>4, <1>6, <1>13, <1>14, <1>16 DEF TrackInv
    <2>2. \A j, l \in DOMAIN ents :
             ents[j].key = ents[l].key /\ ents[j].key # NoKey => j = l
      BY <1>4, <1>13, <1>14, <1>16, <1>19 DEF TrackInv
    <2>3. \A j \in DOMAIN ents : ents[j].key # NoKey => ents[j].val.by = lat[ents[j].key]
      BY <1>4, <1>13, <1>14, <1>16, <1>17, <1>19, <1>20 DEF TrackInv
    <2>4. ASSUME NEW l \in CacheKeys, lat[l] # NoKey
          PROVE  \E j \in DOMAIN ents : ents[j].key = l
      <3>1. CASE l = k
        BY <1>13, <1>14, <1>16, <1>17, <2>4, <3>1
      <3>2. CASE l # k
        <4>1. PICK j \in DOMAIN entries : entries[j].key = l
          BY <1>4, <1>17, <2>4, <3>2 DEF TrackInv
        <4> QED
          BY <1>5, <1>16, <3>2, <4>1
      <3> QED
        BY <3>1, <3>2
    <2> QED
      BY <1>2, <2>1, <2>2, <2>3, <2>4 DEF TrackInv
  <1> QED
    BY <1>2, <1>3, <1>11, <1>16, <1>17, <1>18, <1>21, CacheInvEnough

(* A response is taken from the entry i, which is not too old.             *)
LEMMA OnHitKeeps ==
  ASSUME CacheInv, NEW e \in CacheEvents, eve[e].pc = "new", use = "responses",
         NEW k \in CacheKeys, NEW i \in Matches(k), ~Expired(i),
         OnHit(e, k, i), UNCHANGED <<layout, use, clock>>
  PROVE  CacheInv'
  <1>0. entries' = entries /\ latest' = latest
    BY DEF OnHit
  <1>1. BornBefore(entries, clock) /\ StoredAreDone(entries, eve)
    BY DEF CacheInv
  <1>2. PICK v : v = CopiedResponse(entries[i].val)
    OBVIOUS
  <1> DEFINE r == [pc |-> "cleanup", key |-> k, hit |-> TRUE,
                   resp |-> v, age |-> clock - entries[i].born]
  <1>3. PICK ev : ev = [eve EXCEPT ![e] = r]
    OBVIOUS
  <1>4. eve' = ev
    BY <1>2, <1>3 DEF OnHit
  <1>5. /\ i \in DOMAIN entries /\ entries[i] \in CacheEntries /\ entries[i].key = k
        /\ entries[i].val \in Responses \ {NoResponse} /\ entries[i].born \in Nat
        /\ entries[i].born <= clock /\ clock \in Nat
    BY <1>1, CacheTypes DEF Matches, CacheEntries, BornBefore
  <1>6. clock - entries[i].born \in Nat
    BY <1>5
  <1>a. v \in Responses /\ v.by = entries[i].val.by
    BY <1>2, <1>5, ServedIsBy
  <1>7. r \in CacheRecords
    BY <1>a, <1>6 DEF CacheRecords
  <1>8. (layout = "complex" /\ Timeout > 0) => clock - entries[i].born <= Timeout
    BY <1>5, CacheAssumption DEF Expired
  <1>9. PICK g : g = entries[i].val.by
    OBVIOUS
  <1>10. g \in CacheEvents /\ eve[g].pc = "done" /\ eve[g].key = k /\ g # e
    BY <1>1, <1>5, <1>9, ResponsesAreBy DEF StoredAreDone
  <1>11. /\ IsFound(r) /\ r.resp.by = g /\ r.key = k
        /\ r.age = clock - entries[i].born
    BY <1>a, <1>9 DEF IsFound
  <1> HIDE DEF r
  <1>12. Justified(eve, e, r)
    BY <1>8, <1>10, <1>11 DEF Justified
  <1>13. /\ \A f \in CacheEvents \ {e} : eve[f].resp.by # e
         /\ \A j \in DOMAIN entries : entries[j].val.by # e
    BY NotDoneNotHeld
  <1>14. EventsInv(ev)
    BY <1>3, <1>7, <1>12, <1>13, EventMoves DEF CacheInv
  <1>15. StoredAreDone(entries, ev)
    BY <1>1, <1>3, <1>7, <1>13, StoredStay, CacheTypes
  <1> QED
    BY <1>0, <1>1, <1>4, <1>14, <1>15, CacheInvEnough, CacheTypes

LEMMA CacheHandleKeeps ==
  ASSUME CacheInv, <<"complex", "tracking">> \notin CacheSetups,
         NEW e \in CacheEvents, NEW k \in CacheKeys \cup {NoKey}, NEW gone \in BOOLEAN,
         CacheHandle(e, k, gone)
  PROVE  CacheInv'
  <1>0. eve[e].pc = "new" /\ UNCHANGED <<layout, use, clock>>
    BY DEF CacheHandle
  <1>1. use = "tracking" => layout = "simple"
    BY CacheTypes DEF CacheInv
  <1>2. PICK i : i = FirstOf(Matches(k))
    OBVIOUS
  <1>3. Matches(k) # {} => i \in Matches(k)
    <2>1. Matches(k) \subseteq Nat
      BY CacheTypes DEF Matches
    <2> QED
      BY <1>2, <2>1, FirstIsIn
  <1>4. CASE k = NoKey /\ eve' = [eve EXCEPT ![e] = Handled(NoKey, FALSE)]
             /\ UNCHANGED <<entries, latest>>
    BY <1>0, <1>4, NoKeyKeeps
  <1>5. CASE k # NoKey /\ Matches(k) = {} /\ OnMiss(entries, e, k, gone)
    <2>1. CASE use = "responses"
      BY <1>0, <1>5, <2>1, MissKeeps, CacheTypes
    <2>2. CASE use = "tracking"
      BY <1>0, <1>5, <2>2, TrackMissKeeps
    <2> QED
      BY <2>1, <2>2, CacheTypes
  <1>6. CASE k # NoKey /\ Matches(k) # {} /\ Expired(i)
             /\ OnMiss([entries EXCEPT ![i].live = FALSE], e, k, gone)
    <2>1. use = "responses"
      BY <1>1, <1>6, CacheTypes DEF Expired
    <2>2. i \in DOMAIN entries /\ entries[i] \in CacheEntries
      BY <1>3, <1>6, CacheTypes DEF Matches
    <2>3. PICK x : x = [entries[i] EXCEPT !.live = FALSE]
      OBVIOUS
    <2>4. x \in CacheEntries /\ x.val = entries[i].val /\ x.key = entries[i].key
          /\ x.born = entries[i].born
      BY <2>2, <2>3 DEF CacheEntries
    <2>5. PICK ents : ents = [entries EXCEPT ![i] = x]
      OBVIOUS
    <2>6. [entries EXCEPT ![i].live = FALSE] = ents
      BY <2>3, <2>5
    <2>7. /\ ents \in Seq(CacheEntries) /\ DOMAIN ents = DOMAIN entries
          /\ ents[i] = x /\ \A j \in DOMAIN entries : j # i => ents[j] = entries[j]
      BY <2>2, <2>4, <2>5, SlotIsSet, CacheTypes DEF SlotGot
    <2>8. \A j \in DOMAIN ents : /\ ents[j].val = entries[j].val
                                 /\ ents[j].key = entries[j].key
                                 /\ ents[j].born = entries[j].born
      BY <2>4, <2>7
    <2>9. OnMiss(ents, e, k, gone)
      BY <1>6, <2>6
    <2> QED
      BY <1>0, <1>6, <2>1, <2>7, <2>8, <2>9, MissKeeps
  <1>7. CASE k # NoKey /\ Matches(k) # {} /\ ~Expired(i)
             /\ IF use = "responses" THEN OnHit(e, k, i) ELSE TrackHit(e, k, i, gone)
    <2>1. CASE use = "responses"
      BY <1>0, <1>3, <1>7, <2>1, OnHitKeeps
    <2>2. CASE use = "tracking"
      BY <1>0, <1>1, <1>3, <1>7, <2>2, TrackHitKeeps
    <2> QED
      BY <2>1, <2>2, CacheTypes
  <1> QED
    BY <1>2, <1>4, <1>5, <1>6, <1>7, Zenon DEF CacheHandle

LEMMA CacheComputeKeeps ==
  ASSUME CacheInv, NEW e \in CacheEvents, NEW what \in {"data", "number", "none"},
         CacheCompute(e, what)
  PROVE  CacheInv'
  <1>0. eve[e].pc = "handlers" /\ UNCHANGED <<layout, use, entries, clock, latest>>
    BY DEF CacheCompute
  <1>1. PICK v : v = IF what = "none" THEN NoResponse ELSE [kind |-> what, by |-> e]
    OBVIOUS
  <1>2. v \in Responses /\ v.by \in {e, NoKey}
    BY <1>1 DEF Responses, NoResponse
  <1>3. PICK r : r = WithResponse(eve[e], v)
    OBVIOUS
  <1>4. PICK ev : ev = [eve EXCEPT ![e] = r]
    OBVIOUS
  <1>5. eve' = ev
    BY <1>1, <1>3, <1>4 DEF CacheCompute
  <1>6. r \in CacheRecords /\ r.resp = v /\ r.key = eve[e].key
        /\ (IsFound(r) <=> IsFound(eve[e]))
    <2>1. eve[e] \in CacheRecords
      BY CacheTypes
    <2> QED
      BY <1>2, <1>3, <2>1 DEF WithResponse, CacheRecords, IsFound
  <1>7. Justified(eve, e, r)
    BY <1>2, <1>6 DEF Justified
  <1>8. /\ \A f \in CacheEvents \ {e} : eve[f].resp.by # e
        /\ use = "responses" => \A j \in DOMAIN entries : entries[j].val.by # e
    BY <1>0, NotDoneNotHeld
  <1>9. EventsInv(ev)
    BY <1>4, <1>6, <1>7, <1>8, EventMoves DEF CacheInv
  <1>10. use = "responses" => StoredAreDone(entries, ev)
    BY <1>4, <1>6, <1>8, StoredStay, CacheTypes DEF CacheInv
  <1>11. use = "tracking" => TrackInv(entries, latest, ev)
    <2>1. ASSUME NEW f \in CacheEvents, TrackInv(entries, latest, eve)
          PROVE  ev[f].key = NoKey \/ IsFound(ev[f])
      <3>1. eve[f].key = NoKey \/ IsFound(eve[f])
        BY <2>1 DEF TrackInv
      <3>2. ev[f].key = eve[f].key /\ (IsFound(ev[f]) <=> IsFound(eve[f]))
        BY <1>4, <1>6, CacheTypes DEF IsFound
      <3> QED
        BY <3>1, <3>2
    <2> QED
      BY <2>1 DEF CacheInv, TrackInv
  <1>12. BornBefore(entries, clock)
    BY DEF CacheInv
  <1> QED
    BY <1>0, <1>5, <1>9, <1>10, <1>11, <1>12, CacheInvEnough, CacheTypes

(* The response that is stored is the event's own.                         *)
LEMMA CacheCleanupKeeps ==
  ASSUME CacheInv, NEW e \in CacheEvents, CacheCleanup(e)
  PROVE  CacheInv'
  <1>0. eve[e].pc = "cleanup" /\ UNCHANGED <<layout, use, clock, latest>>
        /\ eve[e] \in CacheRecords
    BY CacheTypes DEF CacheCleanup
  <1>1. PICK r : r = [eve[e] EXCEPT !.pc = "done"]
    OBVIOUS
  <1>2. PICK ev : ev = [eve EXCEPT ![e] = r]
    OBVIOUS
  <1>3. eve' = ev
    BY <1>1, <1>2 DEF CacheCleanup
  <1>4. r \in CacheRecords /\ r.pc = "done" /\ r.key = eve[e].key /\ r.resp = eve[e].resp
        /\ r.age = eve[e].age /\ (IsFound(r) <=> IsFound(eve[e]))
    BY <1>0, <1>1 DEF CacheRecords, IsFound
  <1>5. Justified(eve, e, eve[e])
    BY DEF CacheInv, EventsInv
  <1>6. Justified(eve, e, r)
    BY <1>4, <1>5 DEF Justified
  <1>7. /\ \A f \in CacheEvents \ {e} : eve[f].resp.by # e
        /\ use = "responses" => \A j \in DOMAIN entries : entries[j].val.by # e
    BY <1>0, NotDoneNotHeld
  <1>8. EventsInv(ev)
    BY <1>2, <1>4, <1>6, <1>7, EventMoves DEF CacheInv
  <1>9. use = "responses" => StoredAreDone(entries, ev)
    BY <1>2, <1>4, <1>7, StoredStay, CacheTypes DEF CacheInv
  <1>10. BornBefore(entries, clock)
    BY DEF CacheInv
  <1>11. use = "tracking" => TrackInv(entries, latest, ev)
    <2>1. ASSUME NEW f \in CacheEvents, TrackInv(entries, latest, eve)
          PROVE  ev[f].key = NoKey \/ IsFound(ev[f])
      <3>1. eve[f].key = NoKey \/ IsFound(eve[f])
        BY <2>1 DEF TrackInv
      <3>2. ev[f].key = eve[f].key /\ (IsFound(ev[f]) <=> IsFound(eve[f]))
        BY <1>2, <1>4, CacheTypes DEF IsFound
      <3> QED
        BY <3>1, <3>2
    <2> QED
      BY <2>1 DEF CacheInv, TrackInv
  <1>12. CASE ~(eve[e].key # NoKey /\ ~eve[e].hit /\ eve[e].resp # NoResponse)
    <2>1. entries' = entries
      BY <1>12 DEF CacheCleanup
    <2> QED
      BY <1>0, <1>3, <1>8, <1>9, <1>10, <1>11, <2>1, CacheInvEnough, CacheTypes
  <1>13. CASE eve[e].key # NoKey /\ ~eve[e].hit /\ eve[e].resp # NoResponse
    <2>1. PICK k, v : k = eve[e].key /\ v = eve[e].resp
      OBVIOUS
    <2>2. k \in CacheKeys /\ v \in Responses \ {NoResponse} /\ ~IsFound(eve[e])
      BY <1>0, <1>13, <2>1 DEF CacheRecords, IsFound
    <2>3. v.by = e
      BY <1>5, <2>1, <2>2, ResponsesAreBy DEF Justified
    <2>4. use = "responses"
      BY <1>13, <2>2, CacheTypes DEF CacheInv, TrackInv
    <2>5. PICK ents : ents = AddEntry(entries, k, v)
      OBVIOUS
    <2>6. entries' = ents
      BY <1>13, <2>1, <2>5 DEF CacheCleanup
    <2>7. PICK i0 : SlotGot(ents, entries, i0, Entry(k, v))
      BY <2>2, <2>5, EntryIsAdded, CacheTypes
    <2>8. PICK x : x = Entry(k, v)
      OBVIOUS
    <2>9. x.key = k /\ x.val = v /\ x.born = clock
      BY <2>8 DEF Entry
    <2>10. /\ ents \in Seq(CacheEntries)
           /\ i0 \in DOMAIN ents /\ ents[i0] = x
           /\ \A i \in DOMAIN ents : i # i0 => i \in DOMAIN entries /\ ents[i] = entries[i]
      BY <2>7, <2>8 DEF SlotGot
    <2>11. ev[e] = r
      BY <1>2, CacheTypes
    <2>12. StoredAreDone(ents, ev)
      BY <1>4, <1>9, <2>1, <2>3, <2>4, <2>9, <2>10, <2>11 DEF StoredAreDone
    <2>13. BornBefore(ents, clock)
      BY <1>10, <2>9, <2>10, CacheTypes DEF BornBefore
    <2> QED
      BY <1>0, <1>3, <1>8, <2>4, <2>6, <2>10, <2>12, <2>13, CacheInvEnough, CacheTypes
  <1> QED
    BY <1>12, <1>13

LEMMA CacheReuseKeeps ==
  ASSUME CacheInv, NEW e \in CacheEvents, CacheReuse(e)
  PROVE  CacheInv'
  <1>0. /\ UNCHANGED <<layout, use, entries, clock, latest>>
        /\ \A i \in DOMAIN entries : entries[i].val.by # e
        /\ \A f \in CacheEvents \ {e} : eve[f].resp.by # e
        /\ eve' = [eve EXCEPT ![e] = NoEvent]
    BY DEF CacheReuse
  <1>1. NoEvent \in CacheRecords /\ NoEvent.resp.by = NoKey /\ NoEvent.key = NoKey
    BY DEF NoEvent, CacheRecords, Responses, NoResponse
  <1>2. PICK r : r = NoEvent
    OBVIOUS
  <1>3. PICK ev : ev = [eve EXCEPT ![e] = r]
    OBVIOUS
  <1>4. Justified(eve, e, r)
    BY <1>1, <1>2 DEF Justified
  <1>5. EventsInv(ev)
    BY <1>0, <1>1, <1>2, <1>3, <1>4, EventMoves DEF CacheInv
  <1>6. use = "responses" => StoredAreDone(entries, ev)
    BY <1>0, <1>1, <1>2, <1>3, StoredStay, CacheTypes DEF CacheInv
  <1>7. use = "tracking" => TrackInv(entries, latest, ev)
    <2>1. ASSUME NEW f \in CacheEvents, TrackInv(entries, latest, eve)
          PROVE  ev[f].key = NoKey \/ IsFound(ev[f])
      <3>1. CASE f = e
        BY <1>1, <1>2, <1>3, <3>1, CacheTypes
      <3>2. CASE f # e
        <4>1. ev[f] = eve[f]
          BY <1>3, <3>2, CacheTypes
        <4> QED
          BY <2>1, <4>1 DEF TrackInv
      <3> QED
        BY <3>1, <3>2
    <2> QED
      BY <2>1 DEF CacheInv, TrackInv
  <1>8. BornBefore(entries, clock)
    BY DEF CacheInv
  <1> QED
    BY <1>0, <1>2, <1>3, <1>5, <1>6, <1>7, <1>8, CacheInvEnough, CacheTypes

LEMMA CacheTickKeeps == CacheInv /\ CacheTick => CacheInv'
  <1> SUFFICES ASSUME CacheInv, CacheTick PROVE CacheInv'
    OBVIOUS
  <1>1. UNCHANGED <<layout, use, entries, eve, latest>> /\ clock' = clock + 1
        /\ clock' \in 0..MaxTime
    BY CacheTypes DEF CacheTick
  <1>2. BornBefore(entries, clock')
    <2>1. \A i \in DOMAIN entries : entries[i].born \in Nat /\ entries[i].born <= clock
      BY CacheTypes DEF CacheInv, BornBefore, CacheEntries
    <2> QED
      BY <1>1, <2>1, CacheTypes DEF BornBefore
  <1>3. CacheTypeOK'
    BY <1>1 DEF CacheInv, CacheTypeOK
  <1>4. EventsInv(eve)'
    BY <1>1 DEF CacheInv, EventsInv, Justified
  <1> QED
    BY <1>1, <1>2, <1>3, <1>4 DEF CacheInv

LEMMA CacheStep ==
  ASSUME CacheInv, <<"complex", "tracking">> \notin CacheSetups, [CacheNext]_cacheVars
  PROVE  CacheInv'
  <1>1. CASE UNCHANGED cacheVars
    BY <1>1 DEF cacheVars, CacheInv, CacheTypeOK, EventsInv, Justified
  <1> QED
    BY <1>1, CacheHandleKeeps, CacheComputeKeeps, CacheCleanupKeeps, CacheReuseKeeps,
       CacheTickKeeps DEF CacheNext

LEMMA CacheInvIsRight == CacheInv => CacheIsRight
  <1> SUFFICES ASSUME CacheInv PROVE CacheIsRight
    OBVIOUS
  <1>1. ServedIsValid
    <2> SUFFICES ASSUME NEW e \in CacheEvents, eve[e].resp.by \in CacheEvents \ {e}
                 PROVE  /\ eve[eve[e].resp.by].key = eve[e].key
                        /\ (layout = "complex" /\ Timeout > 0) => eve[e].age <= Timeout
      BY DEF ServedIsValid
    <2>1. Justified(eve, e, eve[e])
      BY DEF CacheInv, EventsInv
    <2> QED
      BY <2>1, CacheAssumption DEF Justified
  <1>2. ASSUME use = "tracking", NEW k \in CacheKeys
        PROVE  /\ {entries[i].val.by : i \in Matches(k)} = {latest[k]} \ {NoKey}
               /\ Cardinality(Matches(k)) <= 1
    <2>0. TrackInv(entries, latest, eve) /\ k # NoKey
      BY <1>2, CacheAssumption DEF CacheInv
    <2>1. CASE Matches(k) = {}
      <3>1. latest[k] = NoKey
        BY <2>0, <2>1 DEF TrackInv, Matches
      <3>2. Cardinality(Matches(k)) = 0
        BY <2>1, FS_EmptySet
      <3> QED
        BY <2>1, <3>1, <3>2
    <2>2. CASE Matches(k) # {}
      <3>1. PICK i : i \in Matches(k)
        BY <2>2
      <3>2. Matches(k) = {i}
        BY <2>0, <3>1 DEF TrackInv, Matches
      <3>3. entries[i].val.by = latest[k]
        BY <2>0, <3>1 DEF TrackInv, Matches
      <3>4. latest[k] # NoKey
        <4>1. entries[i].val \in Responses \ {NoResponse}
          BY <3>1, CacheTypes DEF Matches, CacheEntries
        <4> QED
          BY <3>3, <4>1, ResponsesAreBy, CacheAssumption
      <3>5. Cardinality({i}) = 1
        BY FS_Singleton
      <3> QED
        BY <3>2, <3>3, <3>4, <3>5
    <2> QED
      BY <2>1, <2>2
  <1>3. CacheTypeOK
    BY DEF CacheInv
  <1> QED
    BY <1>1, <1>2, <1>3 DEF CacheIsRight, TrackedOnce

(* cache.c: whatever the order in which the threads carry their events     *)
(* through the cache, and although slots are used again, a response taken  *)
(* from it belongs to an event of the same key and is not too old, and a   *)
(* tracked key has one entry, that of the latest event.  The one setup     *)
(* left out is a tracking cache with the complex layout, where the update  *)
(* exchanges the dictionary that holds the key of the entry.               *)
THEOREM CacheServesRightly ==
  ASSUME <<"complex", "tracking">> \notin CacheSetups
  PROVE  CacheSpec => []CacheIsRight
  <1>1. CacheInv /\ [CacheNext]_cacheVars => CacheInv'
    BY CacheStep
  <1> QED
    BY <1>1, CacheInitially, CacheInvIsRight, PTL DEF CacheSpec


---------------------------------------------------------------------------
(* Lists.  The nodes s of the list l, from first to last.                  *)
Chain(l, s) ==
    /\ s \in Seq(Nodes)
    /\ \A i, j \in 1..Len(s) : s[i] = s[j] => i = j
    /\ l.head = IF Len(s) = 0 THEN NilNode ELSE s[1]
    /\ \A i \in 1..Len(s) : l.next[s[i]] = IF i < Len(s) THEN s[i + 1] ELSE NilNode

(* The list seen backwards.                                                *)
BackChain(l, s) ==
    \A i \in 1..Len(s) : l.prev[s[i]] = IF i = 1 THEN NilNode ELSE s[i - 1]

(* A loop over a chain visits its nodes and then meets the null pointer.   *)
LEMMA WalkEquation ==
  ASSUME NEW l, NEW f, f = [i \in 0..Cardinality(Nodes) |->
            IF i = 0 THEN l.head ELSE IF f[i - 1] = NilNode THEN NilNode ELSE l.next[f[i - 1]]]
  PROVE  Walk(l) = [i \in 0..Cardinality(Nodes) |->
            IF i = 0 THEN l.head ELSE IF Walk(l)[i - 1] = NilNode THEN NilNode
                                      ELSE l.next[Walk(l)[i - 1]]]
  BY DEF Walk

LEMMA ChainFits ==
  ASSUME NEW l, NEW s, Chain(l, s)
  PROVE  /\ Len(s) \in Nat /\ Cardinality(Nodes) \in Nat /\ Len(s) <= Cardinality(Nodes)
         /\ DOMAIN s = 1..Len(s)
         /\ \A i \in 1..Len(s) : s[i] \in Nodes /\ s[i] # NilNode
         /\ Elements(s) = {s[i] : i \in 1..Len(s)}
  <1>1. s \in Seq(Nodes)
    BY DEF Chain
  <1>2. Len(s) \in Nat /\ DOMAIN s = 1..Len(s) /\ s \in [1..Len(s) -> Nodes]
    BY <1>1, LenProperties
  <1>3. Cardinality(Nodes) \in Nat
    BY NilAssumption, FS_CardinalityType
  <1>4. s \in Injection(1..Len(s), Nodes)
    BY <1>2 DEF Chain, Injection, IsInjective
  <1>5. Cardinality(1..Len(s)) <= Cardinality(Nodes)
    BY <1>4, NilAssumption, FS_Injection
  <1>6. Cardinality(1..Len(s)) = Len(s)
    <2>1. Cardinality(1..Len(s)) = IF 1 > Len(s) THEN 0 ELSE Len(s) - 1 + 1
      BY <1>2, FS_Interval
    <2> QED
      BY <1>2, <2>1
  <1>7. Len(s) <= Cardinality(Nodes)
    BY <1>5, <1>6
  <1>8. \A i \in 1..Len(s) : s[i] \in Nodes /\ s[i] # NilNode
    BY <1>2, NilAssumption
  <1>9. Elements(s) = {s[i] : i \in 1..Len(s)}
    BY <1>2 DEF Elements
  <1> QED
    BY <1>2, <1>3, <1>7, <1>8, <1>9

LEMMA ChainIsWalked ==
  ASSUME NEW l, NEW s, Chain(l, s)
  PROVE  \A i \in 0..Cardinality(Nodes) :
            Walk(l)[i] = IF i < Len(s) THEN s[i + 1] ELSE NilNode
  <1> DEFINE N == Cardinality(Nodes)
             g == [i \in 0..N |-> IF i < Len(s) THEN s[i + 1] ELSE NilNode]
  <1>1. /\ Len(s) \in Nat /\ N \in Nat /\ Len(s) <= N
        /\ \A i \in 1..Len(s) : s[i] \in Nodes /\ s[i] # NilNode
    BY ChainFits
  <1>2. \A i \in 0..N : g[i] = IF i < Len(s) THEN s[i + 1] ELSE NilNode
    OBVIOUS
  <1>3. ASSUME NEW i \in 0..N
        PROVE  g[i] = IF i = 0 THEN l.head
                      ELSE IF g[i - 1] = NilNode THEN NilNode ELSE l.next[g[i - 1]]
    <2> HIDE DEF g, N
    <2>1. CASE i = 0
      BY <1>1, <1>2, <2>1 DEF Chain
    <2>2. CASE i > 0 /\ i - 1 < Len(s)
      <3>1. i - 1 \in 0..N /\ i \in 1..Len(s) /\ g[i - 1] = s[i]
        BY <1>1, <1>2, <2>2
      <3>2. g[i - 1] # NilNode /\ l.next[g[i - 1]] = IF i < Len(s) THEN s[i + 1] ELSE NilNode
        BY <1>1, <3>1 DEF Chain
      <3> QED
        BY <1>2, <2>2, <3>2
    <2>3. CASE i > 0 /\ ~(i - 1 < Len(s))
      <3>1. i - 1 \in 0..N /\ g[i - 1] = NilNode /\ ~(i < Len(s))
        BY <1>1, <1>2, <2>3
      <3> QED
        BY <1>2, <2>3, <3>1
    <2> QED
      BY <1>1, <2>1, <2>2, <2>3
  <1>4. g = [i \in 0..N |-> IF i = 0 THEN l.head
                            ELSE IF g[i - 1] = NilNode THEN NilNode ELSE l.next[g[i - 1]]]
    <2>1. g = [i \in 0..N |-> g[i]]
      OBVIOUS
    <2> HIDE DEF g
    <2> QED
      BY <1>3, <2>1
  <1> HIDE DEF g
  <1>5. Walk(l) = [i \in 0..N |->
            IF i = 0 THEN l.head ELSE IF Walk(l)[i - 1] = NilNode THEN NilNode
                                      ELSE l.next[Walk(l)[i - 1]]]
    BY <1>4, WalkEquation, ZenonT(30)
  <1>6. PICK w : w = Walk(l)
    OBVIOUS
  <1>7. \A i \in 0..N : w[i] = IF i = 0 THEN l.head
                               ELSE IF w[i - 1] = NilNode THEN NilNode ELSE l.next[w[i - 1]]
    BY <1>5, <1>6
  <1> DEFINE T == {i \in 0..N : w[i] # g[i]}
  <1>8. T = {}
    <2> SUFFICES ASSUME T # {} PROVE FALSE
      OBVIOUS
    <2>1. T \subseteq Nat
      BY <1>1
    <2>2. PICK x \in T : \A y \in T : ~(<<y, x>> \in OpToRel(<, Nat))
      BY <2>1, NatLessThanWellFounded, WFMin
    <2>3. x \in 0..N /\ w[x] # g[x]
      BY <2>2
    <2>4. x # 0
      BY <1>3, <1>7, <2>3
    <2>5. x - 1 \in 0..N /\ x - 1 < x /\ x \in Nat /\ x - 1 \in Nat
      BY <1>1, <2>3, <2>4
    <2>6. <<x - 1, x>> \in OpToRel(<, Nat)
      BY <2>5 DEF OpToRel
    <2>7. x - 1 \notin T
      BY <2>2, <2>6
    <2>8. w[x - 1] = g[x - 1]
      BY <2>5, <2>7
    <2> QED
      BY <1>3, <1>7, <2>3, <2>8
  <1> QED
    BY <1>2, <1>6, <1>8

LEMMA ChainIsVisited ==
  ASSUME NEW l, NEW s, Chain(l, s)
  PROVE  Visited(l) = Elements(s)
  <1> DEFINE N == Cardinality(Nodes)
  <1>1. /\ Len(s) \in Nat /\ N \in Nat /\ Len(s) <= N
        /\ \A i \in 1..Len(s) : s[i] \in Nodes /\ s[i] # NilNode
        /\ Elements(s) = {s[i] : i \in 1..Len(s)}
    BY ChainFits
  <1>2. PICK w : w = Walk(l)
    OBVIOUS
  <1>3. \A i \in 0..N : w[i] = IF i < Len(s) THEN s[i + 1] ELSE NilNode
    BY <1>2, ChainIsWalked
  <1>4. Visited(l) = {w[i] : i \in 0..N} \ {NilNode}
    BY <1>2 DEF Visited
  <1> HIDE DEF N
  <1>5. ASSUME NEW m \in Visited(l) PROVE m \in Elements(s)
    <2>1. PICK i \in 0..N : m = w[i] /\ m # NilNode
      BY <1>4
    <2>2. i + 1 \in 1..Len(s) /\ m = s[i + 1]
      BY <1>1, <1>3, <2>1
    <2> QED
      BY <1>1, <2>2
  <1>6. ASSUME NEW m \in Elements(s) PROVE m \in Visited(l)
    <2>1. PICK i \in 1..Len(s) : m = s[i]
      BY <1>1
    <2>2. i - 1 \in 0..N /\ w[i - 1] = m
      BY <1>1, <1>3, <2>1
    <2>3. m # NilNode
      BY <1>1, <2>1
    <2> QED
      BY <1>4, <2>2, <2>3
  <1> QED
    BY <1>5, <1>6

(* The sequence t is s with n inserted at index i, or s without index i.   *)
IsInserted(t, s, n, i) ==
    /\ t \in Seq(Nodes) /\ Len(t) = Len(s) + 1
    /\ \A j \in 1..Len(s) : (j < i => t[j] = s[j]) /\ (j >= i => t[j + 1] = s[j])
    /\ t[i] = n

IsWithout(t, s, i) ==
    /\ t \in Seq(Nodes) /\ Len(t) = Len(s) - 1
    /\ \A j \in 1..Len(t) : t[j] = IF j < i THEN s[j] ELSE s[j + 1]

LEMMA InsertedIs ==
  ASSUME NEW s \in Seq(Nodes), NEW n \in Nodes, NEW i \in 1..(Len(s) + 1)
  PROVE  IsInserted(Inserted(s, n, i), s, n, i)
  <1>1. Len(s) \in Nat /\ \A j \in 1..Len(s) : s[j] \in Nodes
    BY LenProperties, ElementOfSeq
  <1>2. PICK t : t = Inserted(s, n, i)
    OBVIOUS
  <1>3. t = [j \in 1..(Len(s) + 1) |-> IF j < i THEN s[j] ELSE IF j = i THEN n ELSE s[j - 1]]
    BY <1>2 DEF Inserted
  <1>4. ASSUME NEW j \in 1..(Len(s) + 1)
        PROVE  (IF j < i THEN s[j] ELSE IF j = i THEN n ELSE s[j - 1]) \in Nodes
    <2>1. CASE j < i
      BY <1>1, <2>1
    <2>2. CASE j > i
      BY <1>1, <2>2
    <2> QED
      BY <2>1, <2>2
  <1>5. t \in [1..(Len(s) + 1) -> Nodes]
    BY <1>3, <1>4
  <1>6. t \in Seq(Nodes) /\ Len(t) = Len(s) + 1
    BY <1>1, <1>5
  <1>7. \A j \in 1..Len(s) : (j < i => t[j] = s[j]) /\ (j >= i => t[j + 1] = s[j])
    BY <1>1, <1>3
  <1>8. t[i] = n
    BY <1>1, <1>3
  <1> QED
    BY <1>2, <1>6, <1>7, <1>8 DEF IsInserted

LEMMA AppendedIs ==
  ASSUME NEW s \in Seq(Nodes), NEW n \in Nodes
  PROVE  IsInserted(Append(s, n), s, n, Len(s) + 1)
  <1>1. Len(s) \in Nat
    BY LenProperties
  <1> QED
    BY <1>1, AppendProperties DEF IsInserted

LEMMA WithoutIs ==
  ASSUME NEW s \in Seq(Nodes), NEW i \in 1..Len(s)
  PROVE  IsWithout(WithoutAt(s, i), s, i)
  <1>1. Len(s) \in Nat /\ \A j \in 1..Len(s) : s[j] \in Nodes
    BY LenProperties, ElementOfSeq
  <1>2. PICK t : t = WithoutAt(s, i)
    OBVIOUS
  <1>3. t = [j \in 1..(Len(s) - 1) |-> IF j < i THEN s[j] ELSE s[j + 1]]
    BY <1>2 DEF WithoutAt
  <1>4. t \in [1..(Len(s) - 1) -> Nodes]
    BY <1>1, <1>3
  <1>5. Len(s) - 1 \in Nat
    BY <1>1
  <1>6. t \in Seq(Nodes) /\ Len(t) = Len(s) - 1
    BY <1>4, <1>5
  <1> QED
    BY <1>2, <1>3, <1>6 DEF IsWithout

LEMMA InsertedElements ==
  ASSUME NEW s \in Seq(Nodes), NEW n \in Nodes, NEW i \in 1..(Len(s) + 1), NEW t,
         IsInserted(t, s, n, i)
  PROVE  /\ Len(s) \in Nat /\ t \in Seq(Nodes) /\ Len(t) = Len(s) + 1
         /\ i \in 1..Len(t) /\ t[i] = n
         /\ \A j \in 1..Len(t) : j < i => j \in 1..Len(s) /\ t[j] = s[j]
         /\ \A j \in 1..Len(t) : j > i => j - 1 \in 1..Len(s) /\ t[j] = s[j - 1]
         /\ Elements(t) = Elements(s) \cup {n}
  <1>1. Len(s) \in Nat /\ t \in Seq(Nodes) /\ Len(t) = Len(s) + 1 /\ t[i] = n
    BY LenProperties DEF IsInserted
  <1>2. i \in 1..Len(t)
    BY <1>1
  <1>3. ASSUME NEW j \in 1..Len(t), j < i PROVE j \in 1..Len(s) /\ t[j] = s[j]
    BY <1>1, <1>3 DEF IsInserted
  <1>4. ASSUME NEW j \in 1..Len(t), j > i PROVE j - 1 \in 1..Len(s) /\ t[j] = s[j - 1]
    <2>1. j - 1 \in 1..Len(s) /\ j - 1 >= i /\ (j - 1) + 1 = j
      BY <1>1, <1>4
    <2> QED
      BY <2>1 DEF IsInserted
  <1>5. Elements(t) = {t[j] : j \in 1..Len(t)} /\ Elements(s) = {s[j] : j \in 1..Len(s)}
    BY <1>1, LenProperties DEF Elements
  <1>6. ASSUME NEW m \in Elements(t) PROVE m \in Elements(s) \cup {n}
    <2>1. PICK j \in 1..Len(t) : m = t[j]
      BY <1>5
    <2>2. CASE j < i
      BY <1>3, <1>5, <2>1, <2>2
    <2>3. CASE j = i
      BY <1>1, <2>1, <2>3
    <2>4. CASE j > i
      BY <1>4, <1>5, <2>1, <2>4
    <2> QED
      BY <2>2, <2>3, <2>4
  <1>7. ASSUME NEW m \in Elements(s) PROVE m \in Elements(t)
    <2>1. PICK j \in 1..Len(s) : m = s[j]
      BY <1>5
    <2>2. CASE j < i
      <3>1. t[j] = m /\ j \in 1..Len(t)
        BY <1>1, <2>1, <2>2 DEF IsInserted
      <3> QED
        BY <1>5, <3>1
    <2>3. CASE j >= i
      <3>1. t[j + 1] = m /\ j + 1 \in 1..Len(t)
        BY <1>1, <2>1, <2>3 DEF IsInserted
      <3> QED
        BY <1>5, <3>1
    <2> QED
      BY <1>1, <2>2, <2>3
  <1>8. n \in Elements(t)
    BY <1>1, <1>2, <1>5
  <1> QED
    BY <1>1, <1>2, <1>3, <1>4, <1>6, <1>7, <1>8

(* A node that is linked between its neighbours.                           *)
LEMMA LinkIn ==
  ASSUME NEW l, NEW s, Chain(l, s), NEW n \in Nodes \ Elements(s),
         NEW i \in 1..(Len(s) + 1), NEW t, IsInserted(t, s, n, i), NEW k,
         k.head = IF i = 1 THEN n ELSE l.head,
         k.next[n] = IF i <= Len(s) THEN s[i] ELSE NilNode,
         i > 1 => k.next[s[i - 1]] = n,
         \A m \in Nodes \ {n} : (i > 1 => m # s[i - 1]) => k.next[m] = l.next[m]
  PROVE  Chain(k, t)
  <1>1. s \in Seq(Nodes) /\ n \in Nodes
    BY DEF Chain
  <1>2. /\ Len(s) \in Nat /\ t \in Seq(Nodes) /\ Len(t) = Len(s) + 1
        /\ i \in 1..Len(t) /\ t[i] = n
        /\ \A j \in 1..Len(t) : j < i => j \in 1..Len(s) /\ t[j] = s[j]
        /\ \A j \in 1..Len(t) : j > i => j - 1 \in 1..Len(s) /\ t[j] = s[j - 1]
    BY <1>1, InsertedElements
  <1>3. \A j \in 1..Len(s) : s[j] \in Nodes /\ s[j] # n
    BY ChainFits
  <1>4. \A a, b \in 1..Len(s) : s[a] = s[b] => a = b
    BY DEF Chain
  <1>5. ASSUME NEW a \in 1..Len(t), NEW b \in 1..Len(t), t[a] = t[b] PROVE a = b
    <2>0. a \in Int /\ b \in Int /\ i \in Int
      BY <1>2
    <2>a. ASSUME NEW j \in 1..Len(t), j # i PROVE t[j] # n
      <3>1. CASE j < i
        <4>1. j \in 1..Len(s) /\ t[j] = s[j]
          BY <1>2, <3>1
        <4> QED
          BY <1>3, <4>1
      <3>2. CASE j > i
        <4>1. j - 1 \in 1..Len(s) /\ t[j] = s[j - 1]
          BY <1>2, <3>2
        <4> QED
          BY <1>3, <4>1
      <3> QED
        BY <1>2, <2>a, <3>1, <3>2
    <2>1. CASE a = i \/ b = i
      BY <1>2, <1>5, <2>1, <2>a
    <2>2. CASE a < i /\ b < i
      <3>1. a \in 1..Len(s) /\ b \in 1..Len(s) /\ s[a] = s[b]
        BY <1>2, <1>5, <2>2
      <3> QED
        BY <1>4, <3>1
    <2>3. CASE a > i /\ b > i
      <3>1. a - 1 \in 1..Len(s) /\ b - 1 \in 1..Len(s) /\ s[a - 1] = s[b - 1]
        BY <1>2, <1>5, <2>3
      <3>2. a - 1 = b - 1
        BY <1>4, <3>1
      <3> QED
        BY <2>0, <3>2
    <2>4. CASE a < i /\ b > i
      <3>1. a \in 1..Len(s) /\ t[a] = s[a]
        BY <1>2, <2>4
      <3>2. b - 1 \in 1..Len(s) /\ t[b] = s[b - 1]
        BY <1>2, <2>4
      <3>3. a = b - 1
        BY <1>4, <1>5, <3>1, <3>2
      <3> QED
        BY <2>0, <2>4, <3>3
    <2>5. CASE a > i /\ b < i
      <3>1. b \in 1..Len(s) /\ t[b] = s[b]
        BY <1>2, <2>5
      <3>2. a - 1 \in 1..Len(s) /\ t[a] = s[a - 1]
        BY <1>2, <2>5
      <3>3. b = a - 1
        BY <1>4, <1>5, <3>1, <3>2
      <3> QED
        BY <2>0, <2>5, <3>3
    <2> QED
      BY <2>0, <2>1, <2>2, <2>3, <2>4, <2>5
  <1>6. k.head = t[1] /\ Len(t) # 0
    <2>1. CASE i = 1
      BY <1>2, <2>1
    <2>2. CASE i # 1
      <3>1. 1 \in 1..Len(t) /\ 1 < i /\ 1 \in 1..Len(s)
        BY <1>2, <2>2
      <3>2. l.head = s[1]
        BY <1>2, <3>1 DEF Chain
      <3> QED
        BY <1>2, <2>2, <3>1, <3>2
    <2> QED
      BY <2>1, <2>2
  <1>7. ASSUME NEW j \in 1..Len(t)
        PROVE  k.next[t[j]] = IF j < Len(t) THEN t[j + 1] ELSE NilNode
    <2>1. CASE j = i
      <3>1. CASE i <= Len(s)
        <4>1. i + 1 \in 1..Len(t) /\ i + 1 > i /\ (i + 1) - 1 = i /\ i < Len(t)
          BY <1>2, <3>1
        <4>2. t[i + 1] = s[i]
          BY <1>2, <4>1
        <4> QED
          BY <1>2, <2>1, <3>1, <4>1, <4>2
      <3>2. CASE ~(i <= Len(s))
        BY <1>2, <2>1, <3>2
      <3> QED
        BY <3>1, <3>2
    <2>2. CASE j > i
      <3>1. j - 1 \in 1..Len(s) /\ t[j] = s[j - 1]
        BY <1>2, <2>2
      <3>2. i > 1 => s[j - 1] # s[i - 1]
        <4>1. i > 1 => i - 1 \in 1..Len(s) /\ i - 1 # j - 1
          BY <1>2, <2>2
        <4> QED
          BY <1>4, <3>1, <4>1
      <3>3. k.next[t[j]] = l.next[s[j - 1]]
        BY <1>3, <3>1, <3>2
      <3>4. l.next[s[j - 1]] = IF j - 1 < Len(s) THEN s[(j - 1) + 1] ELSE NilNode
        BY <3>1 DEF Chain
      <3>5. CASE j < Len(t)
        <4>1. j + 1 \in 1..Len(t) /\ j + 1 > i /\ (j + 1) - 1 = j /\ (j - 1) + 1 = j
              /\ j - 1 < Len(s)
          BY <1>2, <2>2, <3>5
        <4>2. t[j + 1] = s[j]
          BY <1>2, <4>1
        <4> QED
          BY <3>3, <3>4, <3>5, <4>1, <4>2
      <3>6. CASE ~(j < Len(t))
        <4>1. ~(j - 1 < Len(s))
          BY <1>2, <3>6
        <4> QED
          BY <3>3, <3>4, <3>6, <4>1
      <3> QED
        BY <3>5, <3>6
    <2>3. CASE j < i - 1
      <3>1. j \in 1..Len(s) /\ t[j] = s[j] /\ j < Len(t) /\ j < Len(s) /\ i > 1
        BY <1>2, <2>3
      <3>2. s[j] # s[i - 1]
        <4>1. i - 1 \in 1..Len(s) /\ i - 1 # j
          BY <1>2, <2>3
        <4> QED
          BY <1>4, <3>1, <4>1
      <3>3. k.next[t[j]] = l.next[s[j]]
        BY <1>3, <3>1, <3>2
      <3>4. l.next[s[j]] = s[j + 1]
        BY <3>1 DEF Chain
      <3>5. t[j + 1] = s[j + 1]
        <4>1. j + 1 \in 1..Len(t) /\ j + 1 < i
          BY <1>2, <2>3
        <4> QED
          BY <1>2, <4>1
      <3> QED
        BY <3>1, <3>3, <3>4, <3>5
    <2>4. CASE j = i - 1
      <3>1. j \in 1..Len(s) /\ t[j] = s[j] /\ j < Len(t) /\ i > 1 /\ j + 1 = i
        BY <1>2, <2>4
      <3> QED
        BY <1>2, <2>4, <3>1
    <2> QED
      BY <1>2, <2>1, <2>2, <2>3, <2>4
  <1> QED
    BY <1>2, <1>5, <1>6, <1>7 DEF Chain

(* The same for the pointers to the predecessors.                          *)
LEMMA LinkBack ==
  ASSUME NEW l, NEW s, Chain(l, s), BackChain(l, s), NEW n \in Nodes \ Elements(s),
         NEW i \in 1..(Len(s) + 1), NEW t, IsInserted(t, s, n, i), NEW k,
         k.prev[n] = IF i = 1 THEN NilNode ELSE s[i - 1],
         i <= Len(s) => k.prev[s[i]] = n,
         \A m \in Nodes \ {n} : (i <= Len(s) => m # s[i]) => k.prev[m] = l.prev[m]
  PROVE  BackChain(k, t)
  <1>1. s \in Seq(Nodes) /\ n \in Nodes
    BY DEF Chain
  <1>2. /\ Len(s) \in Nat /\ t \in Seq(Nodes) /\ Len(t) = Len(s) + 1
        /\ i \in 1..Len(t) /\ t[i] = n
        /\ \A j \in 1..Len(t) : j < i => j \in 1..Len(s) /\ t[j] = s[j]
        /\ \A j \in 1..Len(t) : j > i => j - 1 \in 1..Len(s) /\ t[j] = s[j - 1]
    <2>1. n \in Nodes
      OBVIOUS
    <2> QED
      BY <1>1, <2>1, InsertedElements
  <1>3. \A j \in 1..Len(s) : s[j] \in Nodes /\ s[j] # n
    BY ChainFits
  <1>4. \A a, b \in 1..Len(s) : s[a] = s[b] => a = b
    BY DEF Chain
  <1> SUFFICES ASSUME NEW j \in 1..Len(t)
               PROVE  k.prev[t[j]] = IF j = 1 THEN NilNode ELSE t[j - 1]
    BY DEF BackChain
  <1>5. CASE j = i
    <2>1. CASE i = 1
      BY <1>2, <1>5, <2>1
    <2>2. CASE i # 1
      <3>1. i - 1 \in 1..Len(t) /\ i - 1 < i
        BY <1>2, <2>2
      <3> QED
        BY <1>2, <1>5, <2>2, <3>1
    <2> QED
      BY <2>1, <2>2
  <1>6. CASE j = i + 1
    <2>1. j - 1 = i /\ i <= Len(s) /\ j # 1 /\ t[j] = s[i]
      <3>1. j > i /\ j - 1 = i
        BY <1>6
      <3>2. j - 1 \in 1..Len(s) /\ t[j] = s[j - 1]
        BY <1>2, <3>1
      <3> QED
        BY <1>2, <3>1, <3>2
    <2> QED
      BY <1>2, <2>1
  <1>7. CASE j > i + 1
    <2>1. j - 1 \in 1..Len(s) /\ t[j] = s[j - 1] /\ j # 1 /\ j - 1 # 1
      BY <1>2, <1>7
    <2>2. i <= Len(s) => s[j - 1] # s[i]
      <3>1. i <= Len(s) => i \in 1..Len(s) /\ j - 1 # i
        BY <1>2, <1>7
      <3> QED
        BY <1>4, <2>1, <3>1
    <2>3. k.prev[t[j]] = l.prev[s[j - 1]]
      BY <1>3, <2>1, <2>2
    <2>4. l.prev[s[j - 1]] = s[(j - 1) - 1]
      BY <2>1 DEF BackChain
    <2>5. t[j - 1] = s[(j - 1) - 1]
      <3>1. j - 1 \in 1..Len(t) /\ j - 1 > i
        BY <1>2, <1>7
      <3> QED
        BY <1>2, <3>1
    <2> QED
      BY <2>1, <2>3, <2>4, <2>5
  <1>8. CASE j < i
    <2>1. j \in 1..Len(s) /\ t[j] = s[j]
      BY <1>2, <1>8
    <2>2. i <= Len(s) => s[j] # s[i]
      <3>1. i <= Len(s) => i \in 1..Len(s) /\ j # i
        BY <1>2, <1>8
      <3> QED
        BY <1>4, <2>1, <3>1
    <2>3. k.prev[t[j]] = l.prev[s[j]]
      BY <1>3, <2>1, <2>2
    <2>4. l.prev[s[j]] = IF j = 1 THEN NilNode ELSE s[j - 1]
      BY <2>1 DEF BackChain
    <2>5. j # 1 => t[j - 1] = s[j - 1]
      <3>1. j # 1 => j - 1 \in 1..Len(t) /\ j - 1 < i
        BY <1>2, <1>8
      <3> QED
        BY <1>2, <3>1
    <2> QED
      BY <2>3, <2>4, <2>5
  <1> QED
    BY <1>2, <1>5, <1>6, <1>7, <1>8

LEMMA WithoutElements ==
  ASSUME NEW l, NEW s, Chain(l, s), NEW i \in 1..Len(s), NEW t, IsWithout(t, s, i)
  PROVE  /\ Len(s) \in Nat /\ t \in Seq(Nodes) /\ Len(t) = Len(s) - 1
         /\ \A j \in 1..Len(t) : j < i => j \in 1..Len(s) /\ t[j] = s[j]
         /\ \A j \in 1..Len(t) : j >= i => j + 1 \in 1..Len(s) /\ t[j] = s[j + 1]
         /\ Elements(t) = Elements(s) \ {s[i]}
  <1>1. Len(s) \in Nat /\ t \in Seq(Nodes) /\ Len(t) = Len(s) - 1
    BY ChainFits DEF IsWithout
  <1>2. ASSUME NEW j \in 1..Len(t), j < i PROVE j \in 1..Len(s) /\ t[j] = s[j]
    BY <1>1, <1>2 DEF IsWithout
  <1>3. ASSUME NEW j \in 1..Len(t), j >= i PROVE j + 1 \in 1..Len(s) /\ t[j] = s[j + 1]
    BY <1>1, <1>3 DEF IsWithout
  <1>4. Elements(t) = {t[j] : j \in 1..Len(t)} /\ Elements(s) = {s[j] : j \in 1..Len(s)}
    <2>1. DOMAIN t = 1..Len(t)
      BY <1>1, LenProperties
    <2> QED
      BY <2>1, ChainFits DEF Elements
  <1>5. \A a, b \in 1..Len(s) : s[a] = s[b] => a = b
    BY DEF Chain
  <1>6. ASSUME NEW m \in Elements(t) PROVE m \in Elements(s) \ {s[i]}
    <2>1. PICK j \in 1..Len(t) : m = t[j]
      BY <1>4
    <2>2. CASE j < i
      <3>1. j \in 1..Len(s) /\ m = s[j] /\ j # i
        BY <1>2, <2>1, <2>2
      <3> QED
        BY <1>4, <1>5, <3>1
    <2>3. CASE j >= i
      <3>1. j + 1 \in 1..Len(s) /\ m = s[j + 1] /\ j + 1 # i
        BY <1>1, <1>3, <2>1, <2>3
      <3> QED
        BY <1>4, <1>5, <3>1
    <2> QED
      BY <1>1, <2>2, <2>3
  <1>7. ASSUME NEW m \in Elements(s) \ {s[i]} PROVE m \in Elements(t)
    <2>1. PICK j \in 1..Len(s) : m = s[j]
      BY <1>4
    <2>2. j # i
      BY <2>1
    <2>3. CASE j < i
      <3>1. j \in 1..Len(t)
        BY <1>1, <2>3
      <3>2. t[j] = m
        BY <1>2, <2>1, <2>3, <3>1
      <3> QED
        BY <1>4, <3>1, <3>2
    <2>4. CASE j > i
      <3>1. j - 1 \in 1..Len(t) /\ j - 1 >= i /\ (j - 1) + 1 = j
        BY <1>1, <2>4
      <3>2. t[j - 1] = m
        BY <1>3, <2>1, <3>1
      <3> QED
        BY <1>4, <3>1, <3>2
    <2> QED
      BY <1>1, <2>2, <2>3, <2>4
  <1> QED
    BY <1>1, <1>2, <1>3, <1>6, <1>7

(* A node is taken out between its neighbours.                             *)
LEMMA LinkOut ==
  ASSUME NEW l, NEW s, Chain(l, s), NEW i \in 1..Len(s), NEW t, IsWithout(t, s, i), NEW k,
         k.head = IF i = 1 THEN l.next[s[1]] ELSE l.head,
         i > 1 => k.next[s[i - 1]] = l.next[s[i]],
         \A m \in Nodes \ {s[i]} : (i > 1 => m # s[i - 1]) => k.next[m] = l.next[m]
  PROVE  Chain(k, t)
  <1>1. /\ Len(s) \in Nat /\ t \in Seq(Nodes) /\ Len(t) = Len(s) - 1
        /\ \A j \in 1..Len(t) : j < i => j \in 1..Len(s) /\ t[j] = s[j]
        /\ \A j \in 1..Len(t) : j >= i => j + 1 \in 1..Len(s) /\ t[j] = s[j + 1]
    BY WithoutElements
  <1>2. \A j \in 1..Len(s) : s[j] \in Nodes
    BY ChainFits
  <1>3. \A a, b \in 1..Len(s) : s[a] = s[b] => a = b
    BY DEF Chain
  <1>4. ASSUME NEW a \in 1..Len(t), NEW b \in 1..Len(t), t[a] = t[b] PROVE a = b
    <2>1. CASE a < i /\ b < i
      <3>1. a \in 1..Len(s) /\ b \in 1..Len(s) /\ s[a] = s[b]
        BY <1>1, <1>4, <2>1
      <3> QED
        BY <1>3, <3>1
    <2>2. CASE a >= i /\ b >= i
      <3>1. a + 1 \in 1..Len(s) /\ b + 1 \in 1..Len(s) /\ s[a + 1] = s[b + 1]
        BY <1>1, <1>4, <2>2
      <3>2. a + 1 = b + 1
        BY <1>3, <3>1
      <3> QED
        BY <3>2
    <2>3. CASE a < i /\ b >= i
      <3>1. a \in 1..Len(s) /\ t[a] = s[a]
        BY <1>1, <2>3
      <3>2. b + 1 \in 1..Len(s) /\ t[b] = s[b + 1]
        BY <1>1, <2>3
      <3>3. a = b + 1
        BY <1>3, <1>4, <3>1, <3>2
      <3> QED
        BY <1>1, <2>3, <3>3
    <2>4. CASE a >= i /\ b < i
      <3>1. b \in 1..Len(s) /\ t[b] = s[b]
        BY <1>1, <2>4
      <3>2. a + 1 \in 1..Len(s) /\ t[a] = s[a + 1]
        BY <1>1, <2>4
      <3>3. b = a + 1
        BY <1>3, <1>4, <3>1, <3>2
      <3> QED
        BY <1>1, <2>4, <3>3
    <2> QED
      BY <1>1, <2>1, <2>2, <2>3, <2>4
  <1>5. k.head = IF Len(t) = 0 THEN NilNode ELSE t[1]
    <2>1. CASE i = 1
      <3>1. l.next[s[1]] = IF 1 < Len(s) THEN s[1 + 1] ELSE NilNode
        BY <2>1 DEF Chain
      <3>2. CASE Len(t) = 0
        <4>0. PICK c \in Nat : c = Len(s)
          BY <1>1
        <4>a. c - 1 = 0
          BY <1>1, <3>2, <4>0
        <4>b. c = 1
          BY <4>a
        <4>1. ~(1 < Len(s))
          BY <4>0, <4>b
        <4> QED
          BY <2>1, <3>1, <3>2, <4>1
      <3>3. CASE Len(t) # 0
        <4>1. 1 \in 1..Len(t) /\ 1 >= i /\ 1 < Len(s)
          BY <1>1, <2>1, <3>3
        <4>2. t[1] = s[1 + 1]
          BY <1>1, <4>1
        <4> QED
          BY <2>1, <3>1, <3>3, <4>1, <4>2
      <3> QED
        BY <3>2, <3>3
    <2>2. CASE i # 1
      <3>1. 1 \in 1..Len(t) /\ 1 < i /\ Len(t) # 0 /\ Len(s) # 0
        BY <1>1, <2>2
      <3>2. l.head = s[1]
        BY <3>1 DEF Chain
      <3> QED
        BY <1>1, <2>2, <3>1, <3>2
    <2> QED
      BY <2>1, <2>2
  <1>6. ASSUME NEW j \in 1..Len(t)
        PROVE  k.next[t[j]] = IF j < Len(t) THEN t[j + 1] ELSE NilNode
    <2>1. CASE j >= i
      <3>1. j + 1 \in 1..Len(s) /\ t[j] = s[j + 1]
        BY <1>1, <2>1
      <3>2. s[j + 1] # s[i] /\ (i > 1 => s[j + 1] # s[i - 1])
        <4>1. j + 1 # i /\ (i > 1 => i - 1 \in 1..Len(s) /\ j + 1 # i - 1)
          BY <1>1, <2>1
        <4> QED
          BY <1>3, <3>1, <4>1
      <3>3. k.next[t[j]] = l.next[s[j + 1]]
        BY <1>2, <3>1, <3>2
      <3>4. l.next[s[j + 1]] = IF j + 1 < Len(s) THEN s[(j + 1) + 1] ELSE NilNode
        BY <3>1 DEF Chain
      <3>5. CASE j < Len(t)
        <4>1. j + 1 \in 1..Len(t) /\ j + 1 >= i /\ j + 1 < Len(s)
          BY <1>1, <2>1, <3>5
        <4>2. t[j + 1] = s[(j + 1) + 1]
          BY <1>1, <4>1
        <4> QED
          BY <3>3, <3>4, <3>5, <4>1, <4>2
      <3>6. CASE ~(j < Len(t))
        <4>1. ~(j + 1 < Len(s))
          BY <1>1, <3>6
        <4> QED
          BY <3>3, <3>4, <3>6, <4>1
      <3> QED
        BY <3>5, <3>6
    <2>2. CASE j = i - 1
      <3>1. i > 1 /\ j \in 1..Len(s) /\ t[j] = s[i - 1] /\ j + 1 = i
        BY <1>1, <2>2
      <3>2. k.next[t[j]] = l.next[s[i]]
        BY <3>1
      <3>3. l.next[s[i]] = IF i < Len(s) THEN s[i + 1] ELSE NilNode
        BY DEF Chain
      <3>4. CASE j < Len(t)
        <4>1. j + 1 \in 1..Len(t) /\ j + 1 >= i /\ i < Len(s)
          BY <1>1, <3>1, <3>4
        <4>2. t[j + 1] = s[i + 1]
          BY <1>1, <3>1, <4>1
        <4> QED
          BY <3>2, <3>3, <3>4, <4>1, <4>2
      <3>5. CASE ~(j < Len(t))
        <4>1. ~(i < Len(s))
          BY <1>1, <3>1, <3>5
        <4> QED
          BY <3>2, <3>3, <3>5, <4>1
      <3> QED
        BY <3>4, <3>5
    <2>3. CASE j < i - 1
      <3>1. j \in 1..Len(s) /\ t[j] = s[j] /\ j < Len(t) /\ j < Len(s) /\ i > 1
        BY <1>1, <2>3
      <3>2. s[j] # s[i] /\ s[j] # s[i - 1]
        <4>1. i - 1 \in 1..Len(s) /\ i - 1 # j /\ i # j
          BY <1>1, <2>3
        <4> QED
          BY <1>3, <3>1, <4>1
      <3>3. k.next[t[j]] = l.next[s[j]]
        BY <1>2, <3>1, <3>2
      <3>4. l.next[s[j]] = s[j + 1]
        BY <3>1 DEF Chain
      <3>5. t[j + 1] = s[j + 1]
        <4>1. j + 1 \in 1..Len(t) /\ j + 1 < i
          BY <1>1, <2>3
        <4> QED
          BY <1>1, <4>1
      <3> QED
        BY <3>1, <3>3, <3>4, <3>5
    <2> QED
      BY <1>1, <2>1, <2>2, <2>3
  <1> QED
    BY <1>1, <1>4, <1>5, <1>6 DEF Chain

LEMMA LinkOutBack ==
  ASSUME NEW l, NEW s, Chain(l, s), BackChain(l, s), NEW i \in 1..Len(s), NEW t,
         IsWithout(t, s, i), NEW k,
         i < Len(s) => k.prev[s[i + 1]] = l.prev[s[i]],
         \A m \in Nodes \ {s[i]} : (i < Len(s) => m # s[i + 1]) => k.prev[m] = l.prev[m]
  PROVE  BackChain(k, t)
  <1>1. /\ Len(s) \in Nat /\ t \in Seq(Nodes) /\ Len(t) = Len(s) - 1
        /\ \A j \in 1..Len(t) : j < i => j \in 1..Len(s) /\ t[j] = s[j]
        /\ \A j \in 1..Len(t) : j >= i => j + 1 \in 1..Len(s) /\ t[j] = s[j + 1]
    BY WithoutElements
  <1>2. \A j \in 1..Len(s) : s[j] \in Nodes
    BY ChainFits
  <1>3. \A a, b \in 1..Len(s) : s[a] = s[b] => a = b
    BY DEF Chain
  <1> SUFFICES ASSUME NEW j \in 1..Len(t)
               PROVE  k.prev[t[j]] = IF j = 1 THEN NilNode ELSE t[j - 1]
    BY DEF BackChain
  <1>4. CASE j < i
    <2>1. j \in 1..Len(s) /\ t[j] = s[j]
      BY <1>1, <1>4
    <2>2. s[j] # s[i] /\ (i < Len(s) => s[j] # s[i + 1])
      <3>1. j # i /\ (i < Len(s) => i + 1 \in 1..Len(s) /\ j # i + 1)
        BY <1>1, <1>4
      <3> QED
        BY <1>3, <2>1, <3>1
    <2>3. k.prev[t[j]] = l.prev[s[j]]
      BY <1>2, <2>1, <2>2
    <2>4. l.prev[s[j]] = IF j = 1 THEN NilNode ELSE s[j - 1]
      BY <2>1 DEF BackChain
    <2>5. j # 1 => t[j - 1] = s[j - 1]
      <3>1. j # 1 => j - 1 \in 1..Len(t) /\ j - 1 < i
        BY <1>1, <1>4
      <3> QED
        BY <1>1, <3>1
    <2> QED
      BY <2>3, <2>4, <2>5
  <1>5. CASE j = i
    <2>1. i < Len(s) /\ t[j] = s[i + 1]
      BY <1>1, <1>5
    <2>2. k.prev[t[j]] = l.prev[s[i]]
      BY <2>1
    <2>3. l.prev[s[i]] = IF i = 1 THEN NilNode ELSE s[i - 1]
      BY DEF BackChain
    <2>4. j # 1 => t[j - 1] = s[i - 1]
      <3>1. j # 1 => j - 1 \in 1..Len(t) /\ j - 1 < i
        BY <1>1, <1>5
      <3> QED
        BY <1>1, <1>5, <3>1
    <2> QED
      BY <1>5, <2>2, <2>3, <2>4
  <1>6. CASE j > i
    <2>1. j + 1 \in 1..Len(s) /\ t[j] = s[j + 1] /\ j # 1 /\ j + 1 # 1
      BY <1>1, <1>6
    <2>2. s[j + 1] # s[i] /\ (i < Len(s) => s[j + 1] # s[i + 1])
      <3>1. j + 1 # i /\ (i < Len(s) => i + 1 \in 1..Len(s) /\ j + 1 # i + 1)
        BY <1>1, <1>6
      <3> QED
        BY <1>3, <2>1, <3>1
    <2>3. k.prev[t[j]] = l.prev[s[j + 1]]
      BY <1>2, <2>1, <2>2
    <2>4. l.prev[s[j + 1]] = s[(j + 1) - 1]
      BY <2>1 DEF BackChain
    <2>5. t[j - 1] = s[(j + 1) - 1]
      <3>1. j - 1 \in 1..Len(t) /\ j - 1 >= i /\ (j - 1) + 1 = (j + 1) - 1
        BY <1>1, <1>6
      <3>2. t[j - 1] = s[(j - 1) + 1]
        BY <1>1, <3>1
      <3> QED
        BY <3>1, <3>2
    <2> QED
      BY <2>1, <2>3, <2>4, <2>5
  <1> QED
    BY <1>1, <1>4, <1>5, <1>6

ListRecords == [head : Nodes \cup {NilNode}, next : Pointers, prev : Pointers]

(* The nodes that are in no list.                                          *)
Loose(l, s) == \A m \in Nodes \ Elements(s) : l.next[m] = NilNode /\ l.prev[m] = NilNode

Sorted(s) ==
    \A i, j \in 1..Len(s) : i < j => Position[s[i]] <= Position[s[j]]

ListInv ==
    /\ kind \in {"dll", "sll", "tasks"}
    /\ list \in ListRecords
    /\ Chain(list, order)
    /\ kind = "dll" => BackChain(list, order) /\ Loose(list, order)
    /\ kind = "tasks" => Sorted(order)

LEMMA RecordFields ==
  ASSUME NEW l \in ListRecords
  PROVE  /\ l.head \in Nodes \cup {NilNode}
         /\ l.next \in [Nodes -> Nodes \cup {NilNode}]
         /\ l.prev \in [Nodes -> Nodes \cup {NilNode}]
  BY DEF ListRecords, Pointers

LEMMA LastNodeIs ==
  ASSUME NEW l, NEW s, Chain(l, s), Len(s) # 0
  PROVE  LastNode(l) = s[Len(s)] /\ s[Len(s)] \in Nodes /\ Len(s) \in 1..Len(s)
  <1>1. /\ Len(s) \in Nat /\ Visited(l) = {s[i] : i \in 1..Len(s)}
        /\ \A i \in 1..Len(s) : s[i] \in Nodes /\ s[i] # NilNode
    BY ChainFits, ChainIsVisited
  <1>2. Len(s) \in 1..Len(s)
    BY <1>1
  <1>3. s[Len(s)] \in Visited(l) /\ l.next[s[Len(s)]] = NilNode
    BY <1>1, <1>2 DEF Chain
  <1>4. ASSUME NEW m \in Visited(l), l.next[m] = NilNode PROVE m = s[Len(s)]
    <2>1. PICK i \in 1..Len(s) : m = s[i]
      BY <1>1
    <2>2. l.next[s[i]] = IF i < Len(s) THEN s[i + 1] ELSE NilNode
      BY DEF Chain
    <2>3. ~(i < Len(s))
      <3> SUFFICES ASSUME i < Len(s) PROVE FALSE
        OBVIOUS
      <3>1. i + 1 \in 1..Len(s)
        BY <1>1
      <3> QED
        BY <1>1, <1>4, <2>1, <2>2, <3>1
    <2> QED
      BY <1>1, <2>1, <2>3
  <1>5. LastNode(l) = s[Len(s)]
    BY <1>3, <1>4 DEF LastNode
  <1> QED
    BY <1>1, <1>2, <1>5

(* append of a node that is not in the list.                               *)
LEMMA AppendNodeLinks ==
  ASSUME NEW l \in ListRecords, NEW s, Chain(l, s), NEW n \in Nodes \ Elements(s),
         NEW t, IsInserted(t, s, n, Len(s) + 1)
  PROVE  /\ AppendNode(l, n) \in ListRecords
         /\ Chain(AppendNode(l, n), t)
         /\ BackChain(l, s) => BackChain(AppendNode(l, n), t)
         /\ Loose(l, s) => Loose(AppendNode(l, n), t)
  <1>0. s \in Seq(Nodes) /\ Len(s) \in Nat /\ n \in Nodes
    BY ChainFits DEF Chain
  <1>1. /\ l.head \in Nodes \cup {NilNode}
        /\ l.next \in [Nodes -> Nodes \cup {NilNode}]
        /\ l.prev \in [Nodes -> Nodes \cup {NilNode}]
    BY RecordFields
  <1>2. Len(s) + 1 \in 1..(Len(s) + 1)
    BY <1>0
  <1>3. Elements(t) = Elements(s) \cup {n}
    BY <1>0, <1>2, InsertedElements
  <1>4. PICK k : k = AppendNode(l, n)
    OBVIOUS
  <1>5. CASE Len(s) = 0
    <2>1. l.head = NilNode
      BY <1>5 DEF Chain
    <2>2. k = [head |-> n, next |-> [l.next EXCEPT ![n] = NilNode],
               prev |-> [l.prev EXCEPT ![n] = NilNode]]
      BY <1>4, <2>1 DEF AppendNode
    <2>3. /\ k \in ListRecords /\ k.head = n
          /\ k.next[n] = NilNode /\ k.prev[n] = NilNode
          /\ \A m \in Nodes \ {n} : k.next[m] = l.next[m] /\ k.prev[m] = l.prev[m]
      BY <1>0, <1>1, <2>2 DEF ListRecords, Pointers
    <2>4. Chain(k, t)
      BY <1>2, <1>5, <2>3, LinkIn
    <2>5. BackChain(l, s) => BackChain(k, t)
      BY <1>2, <1>5, <2>3, LinkBack
    <2>6. Loose(l, s) => Loose(k, t)
      BY <1>3, <2>3 DEF Loose
    <2> QED
      BY <1>4, <2>3, <2>4, <2>5, <2>6
  <1>6. CASE Len(s) # 0
    <2>1. PICK it : it = s[Len(s)]
      OBVIOUS
    <2>2. LastNode(l) = it /\ it \in Nodes /\ Len(s) \in 1..Len(s) /\ 1 \in 1..Len(s)
      BY <1>0, <1>6, <2>1, LastNodeIs
    <2>3. l.head # NilNode
      BY <1>6, <2>2, ChainFits DEF Chain
    <2>4. n \notin Visited(l)
      BY ChainIsVisited
    <2>5. k = [head |-> l.head, next |-> [[l.next EXCEPT ![it] = n] EXCEPT ![n] = NilNode],
               prev |-> [l.prev EXCEPT ![n] = it]]
      BY <1>4, <2>2, <2>3, <2>4 DEF AppendNode
    <2>6. it # n
      BY <2>1, <2>2, ChainFits
    <2>7. /\ k \in ListRecords /\ k.head = l.head
          /\ k.next[n] = NilNode /\ k.next[it] = n /\ k.prev[n] = it
          /\ \A m \in Nodes \ {n} : k.prev[m] = l.prev[m]
          /\ \A m \in Nodes \ {n} : m # it => k.next[m] = l.next[m]
      BY <1>0, <1>1, <2>2, <2>5, <2>6 DEF ListRecords, Pointers
    <2>8. /\ (Len(s) + 1) - 1 = Len(s) /\ Len(s) + 1 # 1 /\ Len(s) + 1 > 1
          /\ ~(Len(s) + 1 <= Len(s))
      BY <1>0, <1>6
    <2>9. Chain(k, t)
      BY <1>2, <2>1, <2>7, <2>8, LinkIn
    <2>10. BackChain(l, s) => BackChain(k, t)
      BY <1>2, <2>1, <2>7, <2>8, LinkBack
    <2>11. Loose(l, s) => Loose(k, t)
      <3>1. it \in Elements(s)
        BY <2>1, <2>2, ChainFits
      <3> QED
        BY <1>3, <2>7, <3>1 DEF Loose
    <2> QED
      BY <1>4, <2>7, <2>9, <2>10, <2>11
  <1> QED
    BY <1>5, <1>6

LEMMA IndexIs ==
  ASSUME NEW l, NEW s, Chain(l, s), NEW n \in Elements(s)
  PROVE  IndexOf(s, n) \in 1..Len(s) /\ s[IndexOf(s, n)] = n
  <1>1. DOMAIN s = 1..Len(s) /\ Elements(s) = {s[i] : i \in 1..Len(s)}
    BY ChainFits
  <1>2. PICK i \in DOMAIN s : s[i] = n
    BY <1>1
  <1>3. IndexOf(s, n) \in DOMAIN s /\ s[IndexOf(s, n)] = n
    BY <1>2 DEF IndexOf
  <1> QED
    BY <1>1, <1>3

(* insert of a node before another one.                                    *)
LEMMA InsertNodeLinks ==
  ASSUME NEW l \in ListRecords, NEW s, Chain(l, s), BackChain(l, s), Loose(l, s),
         NEW n \in Nodes \ Elements(s), NEW i \in 1..Len(s), NEW t, IsInserted(t, s, n, i)
  PROVE  /\ InsertNode(l, n, s[i]) \in ListRecords
         /\ Chain(InsertNode(l, n, s[i]), t)
         /\ BackChain(InsertNode(l, n, s[i]), t)
         /\ Loose(InsertNode(l, n, s[i]), t)
  <1>0. s \in Seq(Nodes) /\ Len(s) \in Nat /\ n \in Nodes
    BY ChainFits DEF Chain
  <1>1. /\ l.head \in Nodes \cup {NilNode}
        /\ l.next \in [Nodes -> Nodes \cup {NilNode}]
        /\ l.prev \in [Nodes -> Nodes \cup {NilNode}]
    BY RecordFields
  <1>2. i \in 1..(Len(s) + 1) /\ i <= Len(s)
    BY <1>0
  <1>3. Elements(t) = Elements(s) \cup {n}
    BY <1>0, <1>2, InsertedElements
  <1>4. PICK b : b = s[i]
    OBVIOUS
  <1>5. b \in Nodes /\ b # n /\ b \in Elements(s)
    BY <1>4, ChainFits
  <1>6. PICK pr : pr = l.prev[b]
    OBVIOUS
  <1>7. pr = IF i = 1 THEN NilNode ELSE s[i - 1]
    BY <1>4, <1>6 DEF BackChain
  <1>8. i # 1 => i - 1 \in 1..Len(s) /\ pr = s[i - 1] /\ pr \in Nodes /\ pr # n /\ pr # NilNode
                 /\ pr \in Elements(s)
    <2>1. i # 1 => i - 1 \in 1..Len(s)
      BY <1>0
    <2> QED
      BY <1>7, <2>1, ChainFits
  <1>9. PICK k : k = InsertNode(l, n, b)
    OBVIOUS
  <1>10. k = [head |-> IF pr = NilNode THEN n ELSE l.head,
              next |-> [m \in Nodes |-> IF m = n THEN b ELSE IF m = pr THEN n ELSE l.next[m]],
              prev |-> [m \in Nodes |-> IF m = n THEN pr ELSE IF m = b THEN n ELSE l.prev[m]]]
    BY <1>6, <1>9 DEF InsertNode
  <1>11. pr \in Nodes \cup {NilNode}
    BY <1>1, <1>5, <1>6
  <1>12. /\ k.head = IF pr = NilNode THEN n ELSE l.head
         /\ \A m \in Nodes :
               k.next[m] = IF m = n THEN b ELSE IF m = pr THEN n ELSE l.next[m]
         /\ \A m \in Nodes :
               k.prev[m] = IF m = n THEN pr ELSE IF m = b THEN n ELSE l.prev[m]
    BY <1>10
  <1>13. k \in ListRecords
    BY <1>0, <1>1, <1>5, <1>10, <1>11 DEF ListRecords, Pointers
  <1>14. Chain(k, t)
    <2>1. k.head = IF i = 1 THEN n ELSE l.head
      BY <1>7, <1>8, <1>12
    <2>2. k.next[n] = IF i <= Len(s) THEN s[i] ELSE NilNode
      BY <1>0, <1>2, <1>4, <1>12
    <2>3. i > 1 => k.next[s[i - 1]] = n
      BY <1>8, <1>12
    <2>4. ASSUME NEW m \in Nodes \ {n}, i > 1 => m # s[i - 1] PROVE k.next[m] = l.next[m]
      <3>1. m # pr
        BY <1>0, <1>7, <2>4, NilAssumption
      <3> QED
        BY <1>12, <3>1
    <2> QED
      BY <1>2, <2>1, <2>2, <2>3, <2>4, LinkIn
  <1>15. BackChain(k, t)
    <2>1. k.prev[n] = IF i = 1 THEN NilNode ELSE s[i - 1]
      BY <1>0, <1>7, <1>12
    <2>2. i <= Len(s) => k.prev[s[i]] = n
      BY <1>4, <1>5, <1>12
    <2>3. ASSUME NEW m \in Nodes \ {n}, i <= Len(s) => m # s[i] PROVE k.prev[m] = l.prev[m]
      BY <1>2, <1>4, <1>12, <2>3
    <2> QED
      BY <1>2, <2>1, <2>2, <2>3, LinkBack
  <1>16. Loose(k, t)
    <2> SUFFICES ASSUME NEW m \in Nodes \ Elements(t)
                 PROVE  k.next[m] = NilNode /\ k.prev[m] = NilNode
      BY DEF Loose
    <2>1. m # n /\ m \notin Elements(s) /\ m # b
      BY <1>3, <1>5
    <2>2. m # pr
      BY <1>7, <1>8, <2>1, NilAssumption
    <2> QED
      BY <1>12, <2>1, <2>2 DEF Loose
  <1> QED
    BY <1>4, <1>9, <1>13, <1>14, <1>15, <1>16

(* unlink from a crtx_dll, of a member and of a stranger.                  *)
LEMMA UnlinkDllLinks ==
  ASSUME NEW l \in ListRecords, NEW s, Chain(l, s), BackChain(l, s), Loose(l, s), NEW n \in Nodes
  PROVE  /\ UnlinkDll(l, n) \in ListRecords
         /\ Chain(UnlinkDll(l, n), Removed(s, n))
         /\ BackChain(UnlinkDll(l, n), Removed(s, n))
         /\ Loose(UnlinkDll(l, n), Removed(s, n))
  <1>0. s \in Seq(Nodes) /\ Len(s) \in Nat
    BY ChainFits DEF Chain
  <1>1. /\ l.head \in Nodes \cup {NilNode}
        /\ l.next \in [Nodes -> Nodes \cup {NilNode}]
        /\ l.prev \in [Nodes -> Nodes \cup {NilNode}]
    BY RecordFields
  <1>2. PICK nx, pr : nx = l.next[n] /\ pr = l.prev[n]
    OBVIOUS
  <1>3. nx \in Nodes \cup {NilNode} /\ pr \in Nodes \cup {NilNode}
    BY <1>1, <1>2
  <1>4. PICK k : k = UnlinkDll(l, n)
    OBVIOUS
  <1>5. k = [head |-> IF l.head = n THEN nx ELSE l.head,
             next |-> [m \in Nodes |-> IF m = n THEN NilNode
                                       ELSE IF m = pr /\ l.head # n THEN nx ELSE l.next[m]],
             prev |-> [m \in Nodes |-> IF m = n THEN NilNode
                                       ELSE IF m = nx THEN pr ELSE l.prev[m]]]
    BY <1>2, <1>4 DEF UnlinkDll
  <1>6. /\ k.head = IF l.head = n THEN nx ELSE l.head
        /\ \A m \in Nodes : k.next[m] = IF m = n THEN NilNode
                                        ELSE IF m = pr /\ l.head # n THEN nx ELSE l.next[m]
        /\ \A m \in Nodes : k.prev[m] = IF m = n THEN NilNode
                                        ELSE IF m = nx THEN pr ELSE l.prev[m]
    BY <1>5
  <1>7. k \in ListRecords
    BY <1>1, <1>3, <1>5 DEF ListRecords, Pointers
  <1>8. CASE n \notin Elements(s)
    <2>1. nx = NilNode /\ pr = NilNode /\ Removed(s, n) = s
      BY <1>2, <1>8 DEF Loose, Removed
    <2>2. l.head # n
      <3>1. CASE Len(s) = 0
        <4>1. l.head = NilNode
          BY <3>1 DEF Chain
        <4> QED
          BY <4>1, NilAssumption
      <3>2. CASE Len(s) # 0
        <4>1. l.head = s[1] /\ 1 \in 1..Len(s)
          BY <1>0, <3>2 DEF Chain
        <4>2. s[1] \in Elements(s)
          BY <4>1, ChainFits
        <4> QED
          BY <1>8, <4>1, <4>2
      <3> QED
        BY <3>1, <3>2
    <2>3. \A m \in Nodes \ {n} : k.next[m] = l.next[m] /\ k.prev[m] = l.prev[m]
      BY <1>6, <2>1, NilAssumption
    <2>4. \A j \in 1..Len(s) : s[j] \in Nodes \ {n}
      BY <1>8, ChainFits
    <2>5. Chain(k, s)
      BY <1>6, <2>2, <2>3, <2>4 DEF Chain
    <2>6. BackChain(k, s)
      BY <2>3, <2>4 DEF BackChain
    <2>7. Loose(k, s)
      BY <1>6, <2>3 DEF Loose
    <2> QED
      BY <1>4, <1>7, <2>1, <2>5, <2>6, <2>7
  <1>9. CASE n \in Elements(s)
    <2>1. PICK i : i = IndexOf(s, n)
      OBVIOUS
    <2>2. i \in 1..Len(s) /\ s[i] = n
      BY <1>9, <2>1, IndexIs
    <2>3. PICK t : t = WithoutAt(s, i)
      OBVIOUS
    <2>4. IsWithout(t, s, i) /\ Removed(s, n) = t
      BY <1>0, <1>9, <2>1, <2>2, <2>3, WithoutIs DEF Removed
    <2>5. Elements(t) = Elements(s) \ {n}
      BY <2>2, <2>4, WithoutElements
    <2>6. pr = IF i = 1 THEN NilNode ELSE s[i - 1]
      BY <1>2, <2>2 DEF BackChain
    <2>7. nx = IF i < Len(s) THEN s[i + 1] ELSE NilNode
      BY <1>2, <2>2 DEF Chain
    <2>8. l.head = s[1] /\ 1 \in 1..Len(s)
      BY <1>0, <2>2 DEF Chain
    <2>9. l.head = n <=> i = 1
      BY <2>2, <2>8 DEF Chain
    <2>10. i > 1 => i - 1 \in 1..Len(s) /\ s[i - 1] # n /\ s[i - 1] \in Nodes
      <3>1. i > 1 => i - 1 \in 1..Len(s) /\ i - 1 # i
        BY <1>0, <2>2
      <3>2. \A a, b \in 1..Len(s) : s[a] = s[b] => a = b
        BY DEF Chain
      <3>3. \A a \in 1..Len(s) : s[a] \in Nodes
        BY ChainFits
      <3> QED
        BY <2>2, <3>1, <3>2, <3>3
    <2>11. i < Len(s) => i + 1 \in 1..Len(s) /\ s[i + 1] # n /\ s[i + 1] \in Nodes
      <3>1. i < Len(s) => i + 1 \in 1..Len(s) /\ i + 1 # i
        BY <1>0, <2>2
      <3>2. \A a, b \in 1..Len(s) : s[a] = s[b] => a = b
        BY DEF Chain
      <3>3. \A a \in 1..Len(s) : s[a] \in Nodes
        BY ChainFits
      <3> QED
        BY <2>2, <3>1, <3>2, <3>3
    <2>12. Chain(k, t)
      <3>1. k.head = IF i = 1 THEN l.next[s[1]] ELSE l.head
        BY <1>2, <1>6, <2>2, <2>8, <2>9
      <3>2. i > 1 => k.next[s[i - 1]] = l.next[s[i]]
        BY <1>2, <1>6, <2>2, <2>6, <2>9, <2>10
      <3>3. ASSUME NEW m \in Nodes \ {s[i]}, i > 1 => m # s[i - 1]
            PROVE  k.next[m] = l.next[m]
        <4>1. ~(m = pr /\ l.head # n)
          BY <1>0, <2>2, <2>6, <2>9, <3>3
        <4> QED
          BY <1>6, <2>2, <4>1
      <3> QED
        BY <2>2, <2>4, <3>1, <3>2, <3>3, LinkOut
    <2>13. BackChain(k, t)
      <3>1. i < Len(s) => k.prev[s[i + 1]] = l.prev[s[i]]
        BY <1>2, <1>6, <2>2, <2>7, <2>11
      <3>2. ASSUME NEW m \in Nodes \ {s[i]}, i < Len(s) => m # s[i + 1]
            PROVE  k.prev[m] = l.prev[m]
        <4>1. m # nx
          BY <2>7, <3>2, NilAssumption
        <4> QED
          BY <1>6, <2>2, <4>1
      <3> QED
        BY <2>2, <2>4, <3>1, <3>2, LinkOutBack
    <2>14. Loose(k, t)
      <3> SUFFICES ASSUME NEW m \in Nodes \ Elements(t)
                   PROVE  k.next[m] = NilNode /\ k.prev[m] = NilNode
        BY DEF Loose
      <3>1. CASE m = n
        BY <1>6, <3>1
      <3>2. CASE m # n
        <4>1. m \notin Elements(s)
          BY <2>5, <3>2
        <4>2. l.next[m] = NilNode /\ l.prev[m] = NilNode
          BY <4>1 DEF Loose
        <4>3. m # pr /\ m # nx
          <5>1. i # 1 => s[i - 1] \in Elements(s)
            BY <1>0, <2>2, <2>10, ChainFits
          <5>2. i < Len(s) => s[i + 1] \in Elements(s)
            BY <2>11, ChainFits
          <5> QED
            BY <2>6, <2>7, <4>1, <5>1, <5>2, NilAssumption
        <4> QED
          BY <1>6, <3>2, <4>2, <4>3
      <3> QED
        BY <3>1, <3>2
    <2> QED
      BY <1>4, <1>7, <2>4, <2>12, <2>13, <2>14
  <1> QED
    BY <1>8, <1>9

(* In a chain the one node before s[i] is s[i - 1].                        *)
LEMMA BeforeIs ==
  ASSUME NEW l, NEW s, Chain(l, s), NEW m \in Elements(s), NEW i \in 1..Len(s),
         l.next[m] = s[i]
  PROVE  i > 1 /\ m = s[i - 1]
  <1>0. /\ Len(s) \in Nat /\ \A j \in 1..Len(s) : s[j] \in Nodes /\ s[j] # NilNode
        /\ Elements(s) = {s[j] : j \in 1..Len(s)}
    BY ChainFits
  <1>1. PICK j \in 1..Len(s) : m = s[j]
    BY <1>0
  <1>2. l.next[s[j]] = IF j < Len(s) THEN s[j + 1] ELSE NilNode
    BY DEF Chain
  <1>3. j < Len(s) /\ s[j + 1] = s[i]
    BY <1>0, <1>1, <1>2
  <1>4. j + 1 \in 1..Len(s)
    BY <1>0, <1>3
  <1>5. j + 1 = i
    BY <1>3, <1>4 DEF Chain
  <1>6. i > 1 /\ j = i - 1
    BY <1>0, <1>5
  <1> QED
    BY <1>1, <1>6

LEMMA BeforeExists ==
  ASSUME NEW l, NEW s, Chain(l, s), NEW i \in 1..Len(s), i > 1
  PROVE  /\ i - 1 \in 1..Len(s) /\ s[i - 1] \in Elements(s) /\ s[i - 1] \in Nodes
         /\ s[i - 1] # s[i] /\ l.next[s[i - 1]] = s[i]
  <1>1. /\ Len(s) \in Nat /\ Elements(s) = {s[j] : j \in 1..Len(s)}
        /\ \A j \in 1..Len(s) : s[j] \in Nodes
    BY ChainFits
  <1>2. i - 1 \in 1..Len(s) /\ i - 1 < Len(s) /\ (i - 1) + 1 = i /\ i - 1 # i
    BY <1>1
  <1>3. s[i - 1] # s[i]
    BY <1>2 DEF Chain
  <1>4. l.next[s[i - 1]] = s[(i - 1) + 1]
    BY <1>2 DEF Chain
  <1> QED
    BY <1>1, <1>2, <1>3, <1>4

LEMMA HeadIs ==
  ASSUME NEW l, NEW s, Chain(l, s)
  PROVE  /\ \A i \in 1..Len(s) : l.head = s[i] <=> i = 1
         /\ \A n \in Nodes \ Elements(s) : l.head # n
  <1>0. /\ Len(s) \in Nat /\ Elements(s) = {s[j] : j \in 1..Len(s)}
    BY ChainFits
  <1>1. ASSUME NEW i \in 1..Len(s) PROVE l.head = s[i] <=> i = 1
    <2>1. 1 \in 1..Len(s) /\ Len(s) # 0
      BY <1>0
    <2>2. l.head = s[1]
      BY <2>1 DEF Chain
    <2> QED
      BY <2>1, <2>2 DEF Chain
  <1>2. ASSUME NEW n \in Nodes \ Elements(s) PROVE l.head # n
    <2>1. CASE Len(s) = 0
      <3>1. l.head = NilNode
        BY <2>1 DEF Chain
      <3> QED
        BY <3>1, NilAssumption
    <2>2. CASE Len(s) # 0
      <3>1. 1 \in 1..Len(s)
        BY <1>0, <2>2
      <3>2. l.head = s[1] /\ s[1] \in Elements(s)
        BY <1>0, <2>2, <3>1 DEF Chain
      <3> QED
        BY <3>2
    <2> QED
      BY <2>1, <2>2
  <1> QED
    BY <1>1, <1>2

(* unlink from a crtx_ll.                                                  *)
LEMMA UnlinkSllLinks ==
  ASSUME NEW l \in ListRecords, NEW s, Chain(l, s), NEW n \in Nodes
  PROVE  /\ UnlinkSll(l, n) \in ListRecords
         /\ Chain(UnlinkSll(l, n), Removed(s, n))
  <1>0. s \in Seq(Nodes) /\ Len(s) \in Nat
    BY ChainFits DEF Chain
  <1>1. /\ l.head \in Nodes \cup {NilNode}
        /\ l.next \in [Nodes -> Nodes \cup {NilNode}]
        /\ l.prev \in [Nodes -> Nodes \cup {NilNode}]
    BY RecordFields
  <1>2. Visited(l) = Elements(s) /\ Elements(s) = {s[i] : i \in 1..Len(s)}
    BY ChainIsVisited, ChainFits
  <1>3. PICK k : k = UnlinkSll(l, n)
    OBVIOUS
  <1>4. CASE n \notin Elements(s)
    <2>1. Removed(s, n) = s
      BY <1>4 DEF Removed
    <2>2. l.head # n
      BY <1>4, HeadIs
    <2>3. ASSUME NEW m \in Elements(s) PROVE l.next[m] # n
      <3>1. PICK j \in 1..Len(s) : m = s[j]
        BY <1>2
      <3>2. l.next[s[j]] = IF j < Len(s) THEN s[j + 1] ELSE NilNode
        BY DEF Chain
      <3>3. j < Len(s) => s[j + 1] \in Elements(s)
        <4>1. j < Len(s) => j + 1 \in 1..Len(s)
          BY <1>0
        <4> QED
          BY <1>2, <4>1
      <3> QED
        BY <1>4, <3>1, <3>2, <3>3, NilAssumption
    <2>4. k = l
      BY <1>2, <1>3, <2>2, <2>3 DEF UnlinkSll
    <2> QED
      BY <1>3, <2>1, <2>4
  <1>5. CASE n \in Elements(s)
    <2>1. PICK i : i = IndexOf(s, n)
      OBVIOUS
    <2>2. i \in 1..Len(s) /\ s[i] = n
      BY <1>5, <2>1, IndexIs
    <2>3. PICK t : t = WithoutAt(s, i)
      OBVIOUS
    <2>4. IsWithout(t, s, i) /\ Removed(s, n) = t
      BY <1>0, <1>5, <2>1, <2>2, <2>3, WithoutIs DEF Removed
    <2>5. l.head = n <=> i = 1
      BY <2>2, HeadIs
    <2>6. CASE i = 1
      <3>1. k = [head |-> l.next[n], next |-> [l.next EXCEPT ![n] = NilNode], prev |-> l.prev]
        BY <1>3, <2>5, <2>6 DEF UnlinkSll
      <3>2. /\ k \in ListRecords /\ k.head = l.next[n]
            /\ \A m \in Nodes \ {n} : k.next[m] = l.next[m]
        BY <1>1, <3>1 DEF ListRecords, Pointers
      <3>3. Chain(k, t)
        BY <2>2, <2>4, <2>6, <3>2, LinkOut
      <3> QED
        BY <1>3, <2>4, <3>2, <3>3
    <2>7. CASE i # 1
      <3>0. i > 1
        BY <1>0, <2>2, <2>7
      <3>1. PICK q : q = s[i - 1]
        OBVIOUS
      <3>2. q \in Elements(s) /\ q \in Nodes /\ q # n /\ l.next[q] = n
        BY <2>2, <3>0, <3>1, BeforeExists
      <3>3. ASSUME NEW m \in Elements(s), l.next[m] = n PROVE m = q
        BY <2>2, <3>1, <3>3, BeforeIs
      <3>4. (CHOOSE m \in Visited(l) : l.next[m] = n) = q
        BY <1>2, <3>2, <3>3
      <3>5. k = [head |-> l.head, prev |-> l.prev,
                 next |-> [[l.next EXCEPT ![q] = l.next[n]] EXCEPT ![n] = NilNode]]
        BY <1>2, <1>3, <2>5, <2>7, <3>2, <3>4 DEF UnlinkSll
      <3>6. /\ k \in ListRecords /\ k.head = l.head /\ k.next[q] = l.next[n]
            /\ \A m \in Nodes \ {n} : m # q => k.next[m] = l.next[m]
        BY <1>1, <3>2, <3>5 DEF ListRecords, Pointers
      <3>7. Chain(k, t)
        BY <2>2, <2>4, <2>7, <3>0, <3>1, <3>6, LinkOut
      <3> QED
        BY <1>3, <2>4, <3>6, <3>7
    <2> QED
      BY <2>6, <2>7
  <1> QED
    BY <1>4, <1>5

(* crtx_free_task.                                                         *)
LEMMA FreeTaskLinks ==
  ASSUME NEW l \in ListRecords, NEW s, Chain(l, s), NEW n \in Elements(s)
  PROVE  /\ FreeTaskNode(l, n) \in ListRecords
         /\ Chain(FreeTaskNode(l, n), Removed(s, n))
         /\ IsWithout(Removed(s, n), s, IndexOf(s, n))
  <1>0. s \in Seq(Nodes) /\ Len(s) \in Nat /\ n \in Nodes
    <2>1. /\ Len(s) \in Nat /\ Elements(s) = {s[j] : j \in 1..Len(s)}
          /\ \A j \in 1..Len(s) : s[j] \in Nodes
      BY ChainFits
    <2>2. n \in Nodes
      BY <2>1
    <2> QED
      BY <2>1, <2>2 DEF Chain
  <1>1. /\ l.head \in Nodes \cup {NilNode}
        /\ l.next \in [Nodes -> Nodes \cup {NilNode}]
        /\ l.prev \in [Nodes -> Nodes \cup {NilNode}]
    BY RecordFields
  <1>2. Visited(l) = Elements(s)
    BY ChainIsVisited
  <1>3. PICK k : k = FreeTaskNode(l, n)
    OBVIOUS
  <1>4. PICK i : i = IndexOf(s, n)
    OBVIOUS
  <1>5. i \in 1..Len(s) /\ s[i] = n
    BY <1>4, IndexIs
  <1>6. PICK t : t = WithoutAt(s, i)
    OBVIOUS
  <1>7. IsWithout(t, s, i) /\ Removed(s, n) = t
    BY <1>0, <1>4, <1>5, <1>6, WithoutIs DEF Removed
  <1>8. /\ k \in ListRecords
        /\ k.head = IF l.head = n THEN l.next[n] ELSE l.head
        /\ \A m \in Nodes : k.next[m] = IF m # n /\ l.next[m] = n /\ m \in Elements(s)
                                        THEN l.next[n] ELSE l.next[m]
    BY <1>0, <1>1, <1>2, <1>3 DEF FreeTaskNode, ListRecords, Pointers
  <1>9. k.head = IF i = 1 THEN l.next[s[1]] ELSE l.head
    <2>1. l.head = n <=> i = 1
      BY <1>5, HeadIs
    <2> QED
      BY <1>5, <1>8, <2>1
  <1>10. i > 1 => k.next[s[i - 1]] = l.next[s[i]]
    <2> SUFFICES ASSUME i > 1 PROVE k.next[s[i - 1]] = l.next[s[i]]
      OBVIOUS
    <2>1. s[i - 1] \in Elements(s) /\ s[i - 1] \in Nodes /\ s[i - 1] # n /\ l.next[s[i - 1]] = n
      BY <1>5, BeforeExists
    <2> QED
      BY <1>5, <1>8, <2>1
  <1>11. ASSUME NEW m \in Nodes \ {s[i]}, i > 1 => m # s[i - 1] PROVE k.next[m] = l.next[m]
    <2>1. ~(l.next[m] = n /\ m \in Elements(s))
      BY <1>5, <1>11, BeforeIs
    <2> QED
      BY <1>8, <2>1
  <1>12. Chain(k, t)
    BY <1>5, <1>7, <1>9, <1>10, <1>11, LinkOut
  <1> QED
    BY <1>3, <1>4, <1>7, <1>8, <1>12

LEMMA PlaceExists ==
  ASSUME NEW l, NEW s, Chain(l, s), Sorted(s), NEW n \in Nodes
  PROVE  \E i \in 1..(Len(s) + 1) : IsPlace(s, n, i)
  <1>0. /\ Len(s) \in Nat /\ DOMAIN s = 1..Len(s) /\ Position[n] \in Nat
        /\ \A j \in 1..Len(s) : s[j] \in Nodes /\ Position[s[j]] \in Nat
    BY ChainFits, PositionAssumption
  <1> DEFINE later == {j \in 1..Len(s) : Position[n] < Position[s[j]]}
  <1>1. CASE later = {}
    <2>1. Len(s) + 1 \in 1..(Len(s) + 1)
      BY <1>0
    <2>2. ASSUME NEW j \in 1..Len(s) PROVE j < Len(s) + 1 /\ Position[s[j]] <= Position[n]
      BY <1>0, <1>1
    <2>3. IsPlace(s, n, Len(s) + 1)
      BY <1>0, <2>2 DEF IsPlace
    <2> QED
      BY <2>1, <2>3
  <1>2. CASE later # {}
    <2>1. later \subseteq Nat
      BY <1>0
    <2>2. PICK i \in later : \A j \in later : i <= j
      BY <1>2, <2>1, LeastOf
    <2>3. i \in 1..Len(s) /\ i \in 1..(Len(s) + 1) /\ Position[n] < Position[s[i]]
      BY <1>0, <2>2
    <2>4. ASSUME NEW j \in 1..Len(s), j < i PROVE Position[s[j]] <= Position[n]
      <3>1. j \notin later
        BY <2>2, <2>3, <2>4
      <3> QED
        BY <1>0, <3>1
    <2>5. ASSUME NEW j \in 1..Len(s), ~(j < i) PROVE Position[n] < Position[s[j]]
      <3>1. CASE j = i
        BY <2>3, <3>1
      <3>2. CASE i < j
        <4>1. Position[s[i]] <= Position[s[j]]
          BY <2>3, <3>2 DEF Sorted
        <4>2. Position[s[i]] \in Nat /\ Position[s[j]] \in Nat
          BY <1>0, <2>3
        <4> QED
          BY <1>0, <2>3, <4>1, <4>2
      <3> QED
        BY <2>3, <2>5, <3>1, <3>2
    <2>6. IsPlace(s, n, i)
      BY <1>0, <2>4, <2>5 DEF IsPlace
    <2> QED
      BY <2>3, <2>6
  <1> QED
    BY <1>1, <1>2

LEMMA InsertedIsSorted ==
  ASSUME NEW l, NEW s, Chain(l, s), Sorted(s), NEW n \in Nodes, NEW i \in 1..(Len(s) + 1),
         IsPlace(s, n, i), NEW t, IsInserted(t, s, n, i)
  PROVE  Sorted(t)
  <1>0. /\ Len(s) \in Nat /\ DOMAIN s = 1..Len(s) /\ Position[n] \in Nat /\ s \in Seq(Nodes)
        /\ \A j \in 1..Len(s) : s[j] \in Nodes /\ Position[s[j]] \in Nat
    BY ChainFits, PositionAssumption DEF Chain
  <1>1. /\ Len(t) = Len(s) + 1 /\ i \in 1..Len(t) /\ t[i] = n
        /\ \A j \in 1..Len(t) : j < i => j \in 1..Len(s) /\ t[j] = s[j]
        /\ \A j \in 1..Len(t) : j > i => j - 1 \in 1..Len(s) /\ t[j] = s[j - 1]
    BY <1>0, InsertedElements
  <1>2. ASSUME NEW j \in 1..Len(t), j < i PROVE Position[t[j]] <= Position[n]
    <2>1. j \in 1..Len(s) /\ t[j] = s[j]
      BY <1>1, <1>2
    <2> QED
      BY <1>0, <1>2, <2>1 DEF IsPlace
  <1>3. ASSUME NEW j \in 1..Len(t), j > i PROVE Position[n] <= Position[t[j]]
    <2>1. j - 1 \in 1..Len(s) /\ t[j] = s[j - 1] /\ ~(j - 1 < i)
      BY <1>0, <1>1, <1>3
    <2>2. Position[n] < Position[s[j - 1]]
      BY <1>0, <2>1 DEF IsPlace
    <2>3. Position[s[j - 1]] \in Nat
      BY <1>0, <2>1
    <2> QED
      BY <1>0, <2>1, <2>2, <2>3
  <1> SUFFICES ASSUME NEW a \in 1..Len(t), NEW b \in 1..Len(t), a < b
               PROVE  Position[t[a]] <= Position[t[b]]
    BY DEF Sorted
  <1>4. CASE a = i
    BY <1>1, <1>3, <1>4
  <1>5. CASE b = i
    BY <1>1, <1>2, <1>5
  <1>6. CASE b < i
    <2>1. a \in 1..Len(s) /\ t[a] = s[a] /\ b \in 1..Len(s) /\ t[b] = s[b]
      BY <1>0, <1>1, <1>6
    <2> QED
      BY <2>1 DEF Sorted
  <1>7. CASE a > i
    <2>1. a - 1 \in 1..Len(s) /\ t[a] = s[a - 1] /\ b - 1 \in 1..Len(s) /\ t[b] = s[b - 1]
          /\ a - 1 < b - 1
      BY <1>0, <1>1, <1>7
    <2> QED
      BY <2>1 DEF Sorted
  <1>8. CASE a < i /\ b > i
    <2>1. a \in 1..Len(s) /\ t[a] = s[a] /\ b - 1 \in 1..Len(s) /\ t[b] = s[b - 1]
          /\ (a < b - 1 \/ a = b - 1)
      BY <1>0, <1>1, <1>8
    <2>2. Position[s[a]] \in Nat /\ Position[s[b - 1]] \in Nat
      BY <1>0, <2>1
    <2>3. a < b - 1 => Position[s[a]] <= Position[s[b - 1]]
      BY <2>1 DEF Sorted
    <2>4. a = b - 1 => Position[s[a]] <= Position[s[b - 1]]
      BY <2>2
    <2> QED
      BY <2>1, <2>3, <2>4
  <1> QED
    BY <1>0, <1>1, <1>4, <1>5, <1>6, <1>7, <1>8

LEMMA WithoutIsSorted ==
  ASSUME NEW l, NEW s, Chain(l, s), Sorted(s), NEW i \in 1..Len(s), NEW t, IsWithout(t, s, i)
  PROVE  Sorted(t)
  <1>1. /\ Len(s) \in Nat /\ Len(t) = Len(s) - 1
        /\ \A j \in 1..Len(t) : j < i => j \in 1..Len(s) /\ t[j] = s[j]
        /\ \A j \in 1..Len(t) : j >= i => j + 1 \in 1..Len(s) /\ t[j] = s[j + 1]
    BY WithoutElements
  <1> SUFFICES ASSUME NEW a \in 1..Len(t), NEW b \in 1..Len(t), a < b
               PROVE  Position[t[a]] <= Position[t[b]]
    BY DEF Sorted
  <1>2. CASE b < i
    <2>1. a \in 1..Len(s) /\ t[a] = s[a] /\ b \in 1..Len(s) /\ t[b] = s[b]
      BY <1>1, <1>2
    <2> QED
      BY <2>1 DEF Sorted
  <1>3. CASE a >= i
    <2>1. a + 1 \in 1..Len(s) /\ t[a] = s[a + 1] /\ b + 1 \in 1..Len(s) /\ t[b] = s[b + 1]
          /\ a + 1 < b + 1
      BY <1>1, <1>3
    <2> QED
      BY <2>1 DEF Sorted
  <1>4. CASE a < i /\ b >= i
    <2>1. a \in 1..Len(s) /\ t[a] = s[a] /\ b + 1 \in 1..Len(s) /\ t[b] = s[b + 1] /\ a < b + 1
      BY <1>1, <1>4
    <2> QED
      BY <2>1 DEF Sorted
  <1> QED
    BY <1>1, <1>2, <1>3, <1>4

(* crtx_add_task finds the place of the task.                              *)
LEMMA AddTaskLinks ==
  ASSUME NEW l \in ListRecords, NEW s, Chain(l, s), NEW n \in Nodes \ Elements(s),
         NEW i \in 1..(Len(s) + 1), IsPlace(s, n, i), NEW t, IsInserted(t, s, n, i)
  PROVE  AddTaskNode(l, n) \in ListRecords /\ Chain(AddTaskNode(l, n), t)
  <1>0. /\ Len(s) \in Nat /\ DOMAIN s = 1..Len(s) /\ Position[n] \in Nat /\ n \in Nodes
        /\ \A j \in 1..Len(s) : s[j] \in Nodes /\ Position[s[j]] \in Nat
        /\ Elements(s) = {s[j] : j \in 1..Len(s)}
    BY ChainFits, PositionAssumption
  <1>1. /\ l.head \in Nodes \cup {NilNode}
        /\ l.next \in [Nodes -> Nodes \cup {NilNode}]
        /\ l.prev \in [Nodes -> Nodes \cup {NilNode}]
    BY RecordFields
  <1> DEFINE later == {m \in Visited(l) : Position[n] < Position[m]}
  <1>2. ASSUME NEW j \in 1..Len(s) PROVE s[j] \in later <=> ~(j < i)
    <2>1. s[j] \in Visited(l)
      BY <1>0, ChainIsVisited
    <2>2. CASE j < i
      <3>1. Position[s[j]] <= Position[n]
        BY <1>0, <2>2 DEF IsPlace
      <3> QED
        BY <1>0, <2>2, <3>1
    <2>3. CASE ~(j < i)
      BY <1>0, <2>1, <2>3 DEF IsPlace
    <2> QED
      BY <2>2, <2>3
  <1>3. \A m \in later : m \in Elements(s)
    BY ChainIsVisited
  <1>4. PICK k : k = AddTaskNode(l, n)
    OBVIOUS
  <1>5. CASE i = Len(s) + 1
    <2>1. later = {}
      BY <1>0, <1>2, <1>3, <1>5
    <2>2. k = AppendNode(l, n)
      BY <1>4, <2>1 DEF AddTaskNode
    <2>3. IsInserted(t, s, n, Len(s) + 1)
      BY <1>5
    <2>4. AppendNode(l, n) \in ListRecords /\ Chain(AppendNode(l, n), t)
      BY <2>3, AppendNodeLinks
    <2> QED
      BY <1>4, <2>2, <2>4
  <1>6. CASE i # Len(s) + 1
    <2>0. i \in 1..Len(s) /\ i <= Len(s)
      BY <1>0, <1>6
    <2>1. PICK f : f = s[i]
      OBVIOUS
    <2>2. f \in later /\ f \in Nodes /\ f # n
      BY <1>0, <1>2, <2>0, <2>1
    <2> DEFINE isFirst(m) == \A q \in Visited(l) : l.next[q] = m => q \notin later
    <2>3. isFirst(f)
      <3> SUFFICES ASSUME NEW q \in Elements(s), l.next[q] = f PROVE q \notin later
        BY ChainIsVisited
      <3>1. i > 1 /\ q = s[i - 1]
        BY <2>0, <2>1, BeforeIs
      <3>2. i - 1 \in 1..Len(s) /\ i - 1 < i
        BY <1>0, <2>0, <3>1
      <3> QED
        BY <1>2, <3>1, <3>2
    <2>4. ASSUME NEW m \in later, isFirst(m) PROVE m = f
      <3>1. PICK j \in 1..Len(s) : m = s[j]
        BY <1>0, <1>3
      <3>2. ~(j < i)
        BY <1>2, <3>1
      <3>3. CASE j = i
        BY <2>1, <3>1, <3>3
      <3>4. CASE j # i
        <4>1. j > 1 /\ ~(j - 1 < i)
          BY <1>0, <2>0, <3>2, <3>4
        <4>2. j - 1 \in 1..Len(s) /\ s[j - 1] \in Elements(s) /\ l.next[s[j - 1]] = m
          BY <3>1, <4>1, BeforeExists
        <4>3. s[j - 1] \in later
          BY <1>2, <4>1, <4>2
        <4> QED
          BY <2>4, <4>2, <4>3, ChainIsVisited
      <3> QED
        BY <3>3, <3>4
    <2>5. (CHOOSE m \in later : isFirst(m)) = f
      BY <2>2, <2>3, <2>4
    <2>6. f = l.head <=> i = 1
      BY <2>0, <2>1, HeadIs
    <2>7. CASE i = 1
      <3>1. k = [head |-> n, next |-> [l.next EXCEPT ![n] = f],
                 prev |-> [l.prev EXCEPT ![n] = NilNode]]
        BY <1>4, <2>2, <2>5, <2>6, <2>7 DEF AddTaskNode
      <3>2. /\ k \in ListRecords /\ k.head = n /\ k.next[n] = f
            /\ \A m \in Nodes \ {n} : k.next[m] = l.next[m]
        BY <1>0, <1>1, <2>2, <3>1 DEF ListRecords, Pointers
      <3>3. Chain(k, t)
        BY <2>0, <2>1, <2>7, <3>2, LinkIn
      <3> QED
        BY <1>4, <3>2, <3>3
    <2>8. CASE i # 1
      <3>0. i > 1
        BY <1>0, <2>0, <2>8
      <3>1. PICK p : p = s[i - 1]
        OBVIOUS
      <3>2. p \in Elements(s) /\ p \in Nodes /\ p # n /\ p # f /\ l.next[p] = f
        BY <2>0, <2>1, <3>0, <3>1, BeforeExists
      <3>3. ASSUME NEW m \in Elements(s), l.next[m] = f PROVE m = p
        BY <2>0, <2>1, <3>1, <3>3, BeforeIs
      <3>4. (CHOOSE m \in Visited(l) : l.next[m] = f) = p
        BY <3>2, <3>3, ChainIsVisited
      <3>5. k = [head |-> l.head, next |-> [[l.next EXCEPT ![n] = f] EXCEPT ![p] = n],
                 prev |-> [[l.prev EXCEPT ![n] = p] EXCEPT ![f] = n]]
        BY <1>4, <2>2, <2>5, <2>6, <2>8, <3>4 DEF AddTaskNode
      <3>6. /\ k \in ListRecords /\ k.head = l.head /\ k.next[n] = f /\ k.next[p] = n
            /\ \A m \in Nodes \ {n} : m # p => k.next[m] = l.next[m]
        BY <1>0, <1>1, <2>2, <3>2, <3>5 DEF ListRecords, Pointers
      <3>7. Chain(k, t)
        BY <2>0, <2>1, <2>8, <3>0, <3>1, <3>6, LinkIn
      <3> QED
        BY <1>4, <3>6, <3>7
    <2> QED
      BY <2>7, <2>8
  <1> QED
    BY <1>5, <1>6

(* append of a node that is in the list already: refused, or without       *)
(* effect on the links of a crtx_ll.                                       *)
LEMMA AppendAgain ==
  ASSUME NEW l \in ListRecords, NEW s, Chain(l, s), NEW n \in Elements(s)
  PROVE  /\ AppendNode(l, n) \in ListRecords
         /\ Chain(AppendNode(l, n), s)
         /\ n # LastOf(s) => AppendNode(l, n) = l
  <1>0. /\ Len(s) \in Nat /\ Elements(s) = {s[j] : j \in 1..Len(s)} /\ s \in Seq(Nodes)
        /\ \A j \in 1..Len(s) : s[j] \in Nodes /\ s[j] # NilNode
    <2>1. s \in Seq(Nodes)
      BY DEF Chain
    <2> QED
      BY <2>1, ChainFits
  <1>1. /\ l.head \in Nodes \cup {NilNode}
        /\ l.next \in [Nodes -> Nodes \cup {NilNode}]
        /\ l.prev \in [Nodes -> Nodes \cup {NilNode}]
    BY RecordFields
  <1>2. PICK i \in 1..Len(s) : n = s[i]
    BY <1>0
  <1>3. Len(s) # 0 /\ 1 \in 1..Len(s) /\ n \in Nodes
    BY <1>0, <1>2
  <1>4. l.head = s[1] /\ l.head # NilNode
    BY <1>0, <1>3 DEF Chain
  <1>5. l.next[n] = IF i < Len(s) THEN s[i + 1] ELSE NilNode
    BY <1>2 DEF Chain
  <1>6. LastOf(s) = s[Len(s)]
    <2>1. s # <<>>
      BY <1>0, <1>3, EmptySeq
    <2> QED
      BY <2>1 DEF LastOf
  <1>7. CASE i < Len(s)
    <2>1. i + 1 \in 1..Len(s)
      BY <1>0, <1>7
    <2>2. l.next[n] # NilNode
      BY <1>0, <1>5, <1>7, <2>1
    <2>3. n \in Visited(l)
      BY ChainIsVisited
    <2>4. AppendNode(l, n) = l
      BY <1>4, <2>2, <2>3 DEF AppendNode
    <2> QED
      BY <2>4
  <1>8. CASE ~(i < Len(s))
    <2>1. i = Len(s)
      BY <1>0, <1>8
    <2>2. n = s[Len(s)] /\ l.next[n] = NilNode
      BY <1>2, <1>5, <1>8, <2>1
    <2>3. LastNode(l) = n
      BY <1>3, <2>2, LastNodeIs
    <2>4. PICK k : k = AppendNode(l, n)
      OBVIOUS
    <2>5. k = [head |-> l.head, next |-> [[l.next EXCEPT ![n] = n] EXCEPT ![n] = NilNode],
               prev |-> [l.prev EXCEPT ![n] = n]]
      BY <1>4, <2>2, <2>3, <2>4 DEF AppendNode
    <2>6. k.head = l.head /\ k.prev = [l.prev EXCEPT ![n] = n]
          /\ k.next = [[l.next EXCEPT ![n] = n] EXCEPT ![n] = NilNode]
      BY <2>5
    <2>7. k.next \in [Nodes -> Nodes \cup {NilNode}] /\ k.prev \in [Nodes -> Nodes \cup {NilNode}]
      BY <1>1, <1>3, <2>6
    <2>8. \A m \in Nodes : k.next[m] = l.next[m]
      BY <1>1, <1>3, <2>2, <2>6
    <2>9. k \in ListRecords
      BY <1>1, <2>5, <2>6, <2>7 DEF ListRecords, Pointers
    <2>10. Chain(k, s)
      BY <1>0, <2>6, <2>8 DEF Chain
    <2> QED
      BY <1>6, <2>2, <2>4, <2>9, <2>10
  <1> QED
    BY <1>7, <1>8

---------------------------------------------------------------------------
(* One step.                                                               *)

LEMMA ListInitIsRight ==
  ListsInit => ListInv
  <1> SUFFICES ASSUME ListsInit PROVE ListInv
    OBVIOUS
  <1>1. kind \in {"dll", "sll", "tasks"} /\ list = EmptyList /\ order = <<>>
    BY DEF ListsInit
  <1>2. order \in Seq(Nodes) /\ Len(order) = 0 /\ Elements(order) = {}
    BY <1>1, EmptySeq DEF Elements
  <1>3. /\ list.head = NilNode
        /\ list.next = [n \in Nodes |-> NilNode] /\ list.prev = [n \in Nodes |-> NilNode]
    BY <1>1 DEF EmptyList
  <1>4. list \in ListRecords
    BY <1>1 DEF EmptyList, ListRecords, Pointers
  <1>5. Chain(list, order) /\ BackChain(list, order) /\ Sorted(order)
    BY <1>2, <1>3 DEF Chain, BackChain, Sorted
  <1>6. Loose(list, order)
    BY <1>3 DEF Loose
  <1> QED
    BY <1>1, <1>4, <1>5, <1>6 DEF ListInv

LEMMA ListAppendKeeps ==
  ASSUME ListInv, NEW n \in Nodes, ListAppend(n)
  PROVE  ListInv'
  <1>1. /\ list \in ListRecords /\ Chain(list, order)
        /\ kind = "dll" => BackChain(list, order) /\ Loose(list, order)
    BY DEF ListInv
  <1>2. /\ kind \in {"dll", "sll"} /\ (kind = "dll" => n # LastOf(order)) /\ kind' = kind
        /\ list' = AppendNode(list, n)
        /\ order' = IF n \in Elements(order) THEN order ELSE Append(order, n)
    BY DEF ListAppend
  <1>3. CASE n \in Elements(order)
    <2>1. /\ list' \in ListRecords /\ Chain(list', order)
          /\ n # LastOf(order) => list' = list
      BY <1>1, <1>2, <1>3, AppendAgain
    <2>2. order' = order
      BY <1>2, <1>3
    <2> QED
      BY <1>1, <1>2, <2>1, <2>2 DEF ListInv
  <1>4. CASE n \notin Elements(order)
    <2>1. order' = Append(order, n) /\ order \in Seq(Nodes)
      BY <1>1, <1>2, <1>4 DEF Chain
    <2>2. IsInserted(order', order, n, Len(order) + 1)
      BY <2>1, AppendedIs
    <2>3. n \in Nodes \ Elements(order)
      BY <1>4
    <2>4. PICK t : t = order'
      OBVIOUS
    <2>5. /\ list' \in ListRecords /\ Chain(list', t)
          /\ BackChain(list, order) => BackChain(list', t)
          /\ Loose(list, order) => Loose(list', t)
      BY <1>1, <1>2, <2>2, <2>3, <2>4, AppendNodeLinks
    <2> QED
      BY <1>1, <1>2, <2>4, <2>5 DEF ListInv
  <1> QED
    BY <1>3, <1>4

LEMMA ListInsertKeeps ==
  ASSUME ListInv, NEW n \in Nodes, NEW b \in Nodes, ListInsert(n, b)
  PROVE  ListInv'
  <1>1. /\ list \in ListRecords /\ Chain(list, order)
        /\ kind = "dll" => BackChain(list, order) /\ Loose(list, order)
    BY DEF ListInv
  <1>2. /\ kind = "dll" /\ kind' = kind /\ n \in Nodes \ Elements(order) /\ b \in Elements(order)
        /\ list' = InsertNode(list, n, b)
        /\ order' = Inserted(order, n, IndexOf(order, b))
    BY DEF ListInsert, InsertedBefore
  <1>3. PICK i : i = IndexOf(order, b)
    OBVIOUS
  <1>4. i \in 1..Len(order) /\ order[i] = b
    BY <1>1, <1>2, <1>3, IndexIs
  <1>5. order \in Seq(Nodes) /\ Len(order) \in Nat
    BY <1>1, ChainFits DEF Chain
  <1>6. i \in 1..(Len(order) + 1)
    BY <1>4, <1>5
  <1>7. IsInserted(order', order, n, i)
    BY <1>2, <1>3, <1>5, <1>6, InsertedIs
  <1>8. PICK t : t = order'
    OBVIOUS
  <1>9. /\ list' \in ListRecords /\ Chain(list', t) /\ BackChain(list', t) /\ Loose(list', t)
    BY <1>1, <1>2, <1>4, <1>7, <1>8, InsertNodeLinks
  <1> QED
    BY <1>2, <1>8, <1>9 DEF ListInv

LEMMA ListUnlinkKeeps ==
  ASSUME ListInv, NEW n \in Nodes, ListUnlink(n)
  PROVE  ListInv'
  <1>1. /\ list \in ListRecords /\ Chain(list, order)
        /\ kind = "dll" => BackChain(list, order) /\ Loose(list, order)
    BY DEF ListInv
  <1>2. /\ kind \in {"dll", "sll"} /\ kind' = kind
        /\ list' = IF kind = "dll" THEN UnlinkDll(list, n) ELSE UnlinkSll(list, n)
        /\ order' = Removed(order, n)
    BY DEF ListUnlink
  <1>3. PICK t : t = order'
    OBVIOUS
  <1>4. CASE kind = "dll"
    <2>1. /\ list' \in ListRecords /\ Chain(list', t) /\ BackChain(list', t) /\ Loose(list', t)
      BY <1>1, <1>2, <1>3, <1>4, UnlinkDllLinks
    <2> QED
      BY <1>2, <1>3, <1>4, <2>1 DEF ListInv
  <1>5. CASE kind = "sll"
    <2>1. list' \in ListRecords /\ Chain(list', t)
      BY <1>1, <1>2, <1>3, <1>5, UnlinkSllLinks
    <2> QED
      BY <1>2, <1>3, <1>5, <2>1 DEF ListInv
  <1> QED
    BY <1>2, <1>4, <1>5

LEMMA TaskCreateKeeps ==
  ASSUME ListInv, NEW n \in Nodes, TaskCreate(n)
  PROVE  ListInv'
  <1>1. /\ kind = "tasks" /\ kind' = kind /\ n \in Nodes \ Elements(order)
        /\ list' = AddTaskNode(list, n)
        /\ order' = Inserted(order, n, CHOOSE i \in 1..(Len(order) + 1) : IsPlace(order, n, i))
    BY DEF TaskCreate, InsertedByPosition
  <1>2. list \in ListRecords /\ Chain(list, order) /\ Sorted(order)
    BY <1>1 DEF ListInv
  <1>3. PICK i : i = CHOOSE j \in 1..(Len(order) + 1) : IsPlace(order, n, j)
    OBVIOUS
  <1>4. i \in 1..(Len(order) + 1) /\ IsPlace(order, n, i)
    BY <1>2, <1>3, PlaceExists
  <1>5. order \in Seq(Nodes)
    BY <1>2 DEF Chain
  <1>6. PICK t : t = order'
    OBVIOUS
  <1>7. IsInserted(t, order, n, i)
    BY <1>1, <1>3, <1>4, <1>5, <1>6, InsertedIs
  <1>8. list' \in ListRecords /\ Chain(list', t)
    BY <1>1, <1>2, <1>4, <1>7, AddTaskLinks
  <1>9. Sorted(t)
    BY <1>2, <1>4, <1>7, InsertedIsSorted
  <1> QED
    BY <1>1, <1>6, <1>8, <1>9 DEF ListInv

LEMMA TaskFreeKeeps ==
  ASSUME ListInv, NEW n \in Nodes, TaskFree(n)
  PROVE  ListInv'
  <1>1. /\ kind = "tasks" /\ kind' = kind /\ n \in Elements(order)
        /\ list' = FreeTaskNode(list, n) /\ order' = Removed(order, n)
    BY DEF TaskFree
  <1>2. list \in ListRecords /\ Chain(list, order) /\ Sorted(order)
    BY <1>1 DEF ListInv
  <1>3. PICK t : t = order'
    OBVIOUS
  <1>4. list' \in ListRecords /\ Chain(list', t) /\ IsWithout(t, order, IndexOf(order, n))
    BY <1>1, <1>2, <1>3, FreeTaskLinks
  <1>5. IndexOf(order, n) \in 1..Len(order)
    BY <1>1, <1>2, IndexIs
  <1>6. Sorted(t)
    BY <1>2, <1>4, <1>5, WithoutIsSorted
  <1> QED
    BY <1>1, <1>3, <1>4, <1>6 DEF ListInv

LEMMA ListStepIsRight ==
  ListInv /\ [ListsNext]_listVars => ListInv'
  <1> SUFFICES ASSUME ListInv, [ListsNext]_listVars PROVE ListInv'
    OBVIOUS
  <1>1. CASE UNCHANGED listVars
    BY <1>1 DEF ListInv, listVars
  <1>2. CASE ListsNext
    <2>1. PICK n \in Nodes :
             \/ ListAppend(n) \/ ListUnlink(n)
             \/ \E b \in Nodes : ListInsert(n, b)
             \/ TaskCreate(n) \/ TaskFree(n)
      BY <1>2, Zenon DEF ListsNext
    <2>2. CASE ListAppend(n)
      BY <2>2, ListAppendKeeps
    <2>3. CASE ListUnlink(n)
      BY <2>3, ListUnlinkKeeps
    <2>4. CASE \E b \in Nodes : ListInsert(n, b)
      BY <2>4, ListInsertKeeps
    <2>5. CASE TaskCreate(n)
      BY <2>5, TaskCreateKeeps
    <2>6. CASE TaskFree(n)
      BY <2>6, TaskFreeKeeps
    <2> QED
      BY <2>1, <2>2, <2>3, <2>4, <2>5, <2>6
  <1> QED
    BY <1>1, <1>2

LEMMA ListInvIsEnough ==
  ListInv => ListsAreChains
  <1> SUFFICES ASSUME ListInv PROVE ListsAreChains
    OBVIOUS
  <1>1. /\ kind \in {"dll", "sll", "tasks"} /\ list \in ListRecords /\ Chain(list, order)
        /\ kind = "dll" => BackChain(list, order)
        /\ kind = "tasks" => Sorted(order)
    BY DEF ListInv
  <1>2. DOMAIN order = 1..Len(order) /\ order \in Seq(Nodes)
    BY <1>1, ChainFits DEF Chain
  <1>3. ListsTypeOK
    BY <1>1, <1>2 DEF ListsTypeOK, ListRecords
  <1>4. \A i \in 0..Cardinality(Nodes) :
           Walk(list)[i] = IF i < Len(order) THEN order[i + 1] ELSE NilNode
    BY <1>1, ChainIsWalked
  <1>5. kind = "dll" =>
           \A i \in DOMAIN order :
              list.prev[order[i]] = IF i = 1 THEN NilNode ELSE order[i - 1]
    BY <1>1, <1>2 DEF BackChain
  <1>6. kind = "tasks" =>
           \A i, j \in DOMAIN order : i < j => Position[order[i]] <= Position[order[j]]
    BY <1>1, <1>2 DEF Sorted
  <1> QED
    BY <1>3, <1>4, <1>5, <1>6 DEF ListsAreChains

(* llist.c and the task list of core.c: for any set of nodes and any       *)
(* sequence of append, insert and unlink calls, crtx_add_task and          *)
(* crtx_free_task calls, the next pointers lead through exactly the        *)
(* members in their order and end, the prev pointers of a crtx_dll lead    *)
(* back, and the tasks of a graph are sorted by position.                  *)
THEOREM ListsStayChains ==
  ListsSpec => []ListsAreChains
  <1>1. ListsInit => ListInv
    BY ListInitIsRight
  <1>2. ListInv /\ [ListsNext]_listVars => ListInv'
    BY ListStepIsRight
  <1>3. ListInv => ListsAreChains
    BY ListInvIsEnough
  <1> QED
    BY <1>1, <1>2, <1>3, PTL DEF ListsSpec


---------------------------------------------------------------------------
(* Dict.  An item refers to a dictionary, or owns cells, or neither.       *)
WellItem(it) ==
    /\ it \in Items
    /\ it.sub # Nil => it.type = "D"
    /\ it.kcell # Nil => it.type \in {"s", "p"}

(* An array of items: LAST_ITEM only at the end.                           *)
WellArray(its) ==
    /\ its \in Seq(Items)
    /\ \A i \in 1..Len(its) : WellItem(its[i]) /\ (its[i].last => i = Len(its))

(* An item that may be put at the index k.                                 *)
FitsAt(it, k, its) == WellItem(it) /\ (it.last => k = Len(its))

IsSet(new, its, k, it) == new = [its EXCEPT ![k] = it]

(* The items that refer to the dictionary d.                               *)
RefIndexes(its, d) == {i \in 1..Len(its) : its[i].sub = d}

(* The cells the items own, and that no two of them own the same.          *)
ArrayCells(its) == UNION {OwnedCells(its[i]) : i \in 1..Len(its)}

OwnedApart(its) ==
    \A i, j \in 1..Len(its) : i # j => OwnedCells(its[i]) \cap OwnedCells(its[j]) = {}

LEMMA ArrayBasics ==
  ASSUME NEW its, WellArray(its)
  PROVE  /\ its \in Seq(Items) /\ Len(its) \in Nat /\ DOMAIN its = 1..Len(its)
         /\ \A i \in 1..Len(its) : WellItem(its[i]) /\ its[i] \in Items
         /\ \A d : RefIndexes(its, d) \subseteq 1..Len(its)
  <1>1. its \in Seq(Items) /\ Len(its) \in Nat /\ DOMAIN its = 1..Len(its)
    BY LenProperties DEF WellArray
  <1>2. \A i \in 1..Len(its) : WellItem(its[i]) /\ its[i] \in Items
    BY DEF WellArray, WellItem
  <1>3. \A d : RefIndexes(its, d) \subseteq 1..Len(its)
    BY DEF RefIndexes
  <1> QED
    BY <1>1, <1>2, <1>3

(* An item of zeros.                                                       *)
LEMMA BlankItem ==
  ASSUME NEW it, WellItem(it), it.type \notin {"D", "s", "p", "P"}
  PROVE  it.sub = Nil /\ it.kcell = Nil /\ OwnedCells(it) = {}
  BY DictAssumption DEF WellItem, OwnedCells

LEMMA FreeItemIsWell ==
  /\ WellItem(FreeItem) /\ FreeItem.type = "0" /\ FreeItem.sub = Nil
  /\ FreeItem.last = FALSE /\ OwnedCells(FreeItem) = {}
  /\ WellItem([FreeItem EXCEPT !.last = TRUE])
  /\ [FreeItem EXCEPT !.last = TRUE].type = "0"
  <1>1. WellItem(FreeItem) /\ FreeItem.type = "0" /\ FreeItem.sub = Nil /\ FreeItem.last = FALSE
    BY DEF WellItem, FreeItem, Items, ItemTypes
  <1>2. OwnedCells(FreeItem) = {}
    BY <1>1, BlankItem
  <1>3. /\ WellItem([FreeItem EXCEPT !.last = TRUE])
        /\ [FreeItem EXCEPT !.last = TRUE].type = "0"
    BY DEF WellItem, FreeItem, Items, ItemTypes
  <1> QED
    BY <1>1, <1>2, <1>3

(* A loop over the items ends with the array.                              *)
LEMMA LoopEnds ==
  ASSUME NEW its, WellArray(its)
  PROVE  IterEnd(its) = Len(its)
  <1>0. Len(its) \in Nat /\ DOMAIN its = 1..Len(its)
    BY ArrayBasics
  <1>1. CASE \E i \in DOMAIN its : its[i].last
    <2>1. PICK i \in DOMAIN its : its[i].last
      BY <1>1
    <2>2. i = Len(its)
      BY <1>0, <2>1 DEF WellArray
    <2>3. ASSUME NEW j \in 1..(i - 1) PROVE ~its[j].last
      <3>0. i \in Nat /\ j \in 1..(i - 1)
        BY <1>0, <2>2
      <3>1. j \in 1..i /\ j # i
        BY <3>0
      <3> QED
        BY <2>2, <3>1 DEF WellArray
    <2>4. ASSUME NEW k \in DOMAIN its, its[k].last PROVE k = Len(its)
      BY <1>0, <2>4 DEF WellArray
    <2>5. IterEnd(its) = CHOOSE k \in DOMAIN its : its[k].last /\ \A j \in 1..(k - 1) : ~its[j].last
      BY <1>1 DEF IterEnd
    <2>6. IterEnd(its) \in DOMAIN its /\ its[IterEnd(its)].last
      BY <2>1, <2>3, <2>5
    <2> QED
      BY <2>4, <2>6
  <1>2. CASE ~ \E i \in DOMAIN its : its[i].last
    BY <1>2 DEF IterEnd
  <1> QED
    BY <1>1, <1>2

(* Arrays of items without data.                                           *)
LEMMA InitItemsAreWell ==
  ASSUME NEW n \in Nat
  PROVE  /\ WellArray(InitItems(n)) /\ Len(InitItems(n)) = n
         /\ \A i \in 1..n : InitItems(n)[i].type = "0"
         /\ \A d \in DictIds : RefIndexes(InitItems(n), d) = {}
         /\ ArrayCells(InitItems(n)) = {} /\ OwnedApart(InitItems(n))
  <1>1. PICK s : s = InitItems(n)
    OBVIOUS
  <1>2. s = [i \in 1..n |-> [FreeItem EXCEPT !.last = (i = n)]]
    BY <1>1 DEF InitItems
  <1>3. ASSUME NEW i \in 1..n
        PROVE  /\ WellItem(s[i]) /\ s[i] \in Items /\ s[i].type = "0" /\ (s[i].last => i = n)
               /\ s[i].sub = Nil /\ OwnedCells(s[i]) = {}
    <2>1. s[i] = [FreeItem EXCEPT !.last = (i = n)]
      BY <1>2
    <2>2. WellItem(s[i]) /\ s[i].type = "0" /\ (s[i].last => i = n) /\ s[i] \in Items
      BY <2>1 DEF WellItem, FreeItem, Items, ItemTypes
    <2> QED
      BY <2>2, BlankItem
  <1>4. s \in [1..n -> Items]
    BY <1>2, <1>3
  <1>5. s \in Seq(Items) /\ Len(s) = n
    BY <1>4
  <1>6. WellArray(s)
    BY <1>3, <1>5 DEF WellArray
  <1>7. \A d \in DictIds : RefIndexes(s, d) = {}
    BY <1>3, <1>5, DictAssumption DEF RefIndexes
  <1>8. ArrayCells(s) = {} /\ OwnedApart(s)
    BY <1>3, <1>5 DEF ArrayCells, OwnedApart
  <1> QED
    BY <1>1, <1>3, <1>5, <1>6, <1>7, <1>8

(* One item of an array is replaced.                                       *)
LEMMA ItemIsSet ==
  ASSUME NEW its, WellArray(its), NEW k \in 1..Len(its), NEW it, FitsAt(it, k, its),
         NEW new, IsSet(new, its, k, it)
  PROVE  /\ WellArray(new) /\ Len(new) = Len(its)
         /\ new[k] = it /\ \A i \in 1..Len(its) : i # k => new[i] = its[i]
  <1>0. /\ its \in Seq(Items) /\ Len(its) \in Nat /\ DOMAIN its = 1..Len(its)
        /\ its \in [1..Len(its) -> Items]
    BY ArrayBasics, LenProperties
  <1>1. it \in Items
    BY DEF WellItem, FitsAt
  <1>3. /\ new \in Seq(Items) /\ Len(new) = Len(its)
        /\ \A i \in 1..Len(its) : new[i] = IF i = k THEN it ELSE its[i]
    BY <1>0, <1>1, ExceptSeq DEF IsSet
  <1>4. new[k] = it /\ \A i \in 1..Len(its) : i # k => new[i] = its[i]
    BY <1>3
  <1>5. ASSUME NEW i \in 1..Len(new) PROVE WellItem(new[i]) /\ (new[i].last => i = Len(new))
    <2>1. CASE i = k
      BY <1>3, <1>4, <2>1 DEF FitsAt
    <2>2. CASE i # k
      <3>1. new[i] = its[i] /\ i \in 1..Len(its)
        BY <1>3, <1>4, <2>2
      <3> QED
        BY <1>3, <3>1 DEF WellArray
    <2> QED
      BY <2>1, <2>2
  <1> QED
    BY <1>3, <1>4, <1>5 DEF WellArray

(* An item without data is filled.                                         *)
LEMMA ItemIsFilled ==
  ASSUME NEW its, WellArray(its), OwnedApart(its), NEW k \in 1..Len(its),
         its[k].sub = Nil, OwnedCells(its[k]) = {}, NEW it, FitsAt(it, k, its),
         OwnedCells(it) \cap ArrayCells(its) = {},
         NEW new, IsSet(new, its, k, it)
  PROVE  /\ WellArray(new) /\ OwnedApart(new)
         /\ ArrayCells(new) = ArrayCells(its) \cup OwnedCells(it)
         /\ \A d \in DictIds : /\ k \notin RefIndexes(its, d)
                               /\ RefIndexes(new, d) = IF it.sub = d THEN RefIndexes(its, d) \cup {k}
                                                       ELSE RefIndexes(its, d)
  <1>1. /\ WellArray(new) /\ Len(new) = Len(its)
        /\ new[k] = it /\ \A i \in 1..Len(its) : i # k => new[i] = its[i]
    BY ItemIsSet
  <1>2. its[k].sub = Nil /\ OwnedCells(its[k]) = {}
    OBVIOUS
  <1>3. ASSUME NEW d \in DictIds
        PROVE  /\ k \notin RefIndexes(its, d)
               /\ RefIndexes(new, d) = IF it.sub = d THEN RefIndexes(its, d) \cup {k}
                                       ELSE RefIndexes(its, d)
    BY <1>1, <1>2, DictAssumption DEF RefIndexes
  <1>4. \A i \in 1..Len(its) : OwnedCells(new[i]) = IF i = k THEN OwnedCells(it) ELSE OwnedCells(its[i])
    BY <1>1
  <1>5. \A i \in 1..Len(its) : OwnedCells(its[i]) \subseteq ArrayCells(its)
    BY DEF ArrayCells
  <1>6. OwnedApart(new)
    BY <1>1, <1>4, <1>5 DEF OwnedApart
  <1>7. ArrayCells(new) = ArrayCells(its) \cup OwnedCells(it)
    <2>1. ASSUME NEW c \in ArrayCells(new) PROVE c \in ArrayCells(its) \cup OwnedCells(it)
      BY <1>1, <1>4, <1>5 DEF ArrayCells
    <2>2. ASSUME NEW c \in ArrayCells(its) PROVE c \in ArrayCells(new)
      <3>1. PICK i \in 1..Len(its) : c \in OwnedCells(its[i])
        BY DEF ArrayCells
      <3>2. i # k
        BY <1>2, <3>1
      <3> QED
        BY <1>1, <1>4, <3>1, <3>2 DEF ArrayCells
    <2>3. OwnedCells(it) \subseteq ArrayCells(new)
      BY <1>1 DEF ArrayCells
    <2> QED
      BY <2>1, <2>2, <2>3
  <1> QED
    BY <1>1, <1>3, <1>6, <1>7

(* An item is zeroed.                                                      *)
LEMMA ItemIsCleared ==
  ASSUME NEW its, WellArray(its), OwnedApart(its), NEW k \in 1..Len(its),
         NEW new, IsSet(new, its, k, FreeItem)
  PROVE  /\ WellArray(new) /\ OwnedApart(new)
         /\ ArrayCells(new) = ArrayCells(its) \ OwnedCells(its[k])
         /\ OwnedCells(its[k]) \subseteq ArrayCells(its)
         /\ \A d \in DictIds : /\ RefIndexes(new, d) = RefIndexes(its, d) \ {k}
                               /\ k \in RefIndexes(its, d) <=> its[k].sub = d
  <1>0. WellItem(FreeItem) /\ FreeItem.last = FALSE /\ FreeItem.sub = Nil /\ OwnedCells(FreeItem) = {}
    BY FreeItemIsWell
  <1>1. /\ WellArray(new) /\ Len(new) = Len(its)
        /\ new[k] = FreeItem /\ \A i \in 1..Len(its) : i # k => new[i] = its[i]
    <2>1. FitsAt(FreeItem, k, its)
      BY <1>0 DEF FitsAt
    <2> QED
      BY <2>1, ItemIsSet
  <1>2. ASSUME NEW d \in DictIds
        PROVE  /\ RefIndexes(new, d) = RefIndexes(its, d) \ {k}
               /\ k \in RefIndexes(its, d) <=> its[k].sub = d
    BY <1>0, <1>1, DictAssumption DEF RefIndexes
  <1>3. \A i \in 1..Len(its) : OwnedCells(new[i]) = IF i = k THEN {} ELSE OwnedCells(its[i])
    BY <1>0, <1>1
  <1>4. OwnedApart(new)
    BY <1>1, <1>3 DEF OwnedApart
  <1>5. ArrayCells(new) = ArrayCells(its) \ OwnedCells(its[k])
    <2>1. ASSUME NEW c \in ArrayCells(new) PROVE c \in ArrayCells(its) /\ c \notin OwnedCells(its[k])
      <3>1. PICK i \in 1..Len(its) : c \in OwnedCells(new[i])
        BY <1>1 DEF ArrayCells
      <3>2. i # k /\ c \in OwnedCells(its[i])
        BY <1>3, <3>1
      <3> QED
        BY <3>2 DEF ArrayCells, OwnedApart
    <2>2. ASSUME NEW c \in ArrayCells(its), c \notin OwnedCells(its[k]) PROVE c \in ArrayCells(new)
      <3>1. PICK i \in 1..Len(its) : c \in OwnedCells(its[i])
        BY DEF ArrayCells
      <3>2. i # k
        BY <2>2, <3>1
      <3> QED
        BY <1>1, <1>3, <3>1, <3>2 DEF ArrayCells
    <2> QED
      BY <2>1, <2>2
  <1>6. OwnedCells(its[k]) \subseteq ArrayCells(its)
    BY DEF ArrayCells
  <1> QED
    BY <1>1, <1>2, <1>4, <1>5, <1>6

(* crtx_resize_dict: the items and one of zeros.                           *)
LEMMA ResizedArray ==
  ASSUME NEW its, WellArray(its), OwnedApart(its)
  PROVE  /\ WellArray(ResizeDict(its)) /\ OwnedApart(ResizeDict(its))
         /\ Len(ResizeDict(its)) = Len(its) + 1
         /\ ResizeDict(its)[Len(its) + 1].type = "0"
         /\ \A i \in 1..Len(its) : /\ ResizeDict(its)[i].type = its[i].type
                                   /\ ResizeDict(its)[i].sub = its[i].sub
         /\ ArrayCells(ResizeDict(its)) = ArrayCells(its)
         /\ \A d \in DictIds : RefIndexes(ResizeDict(its), d) = RefIndexes(its, d)
  <1>0. /\ its \in Seq(Items) /\ Len(its) \in Nat /\ DOMAIN its = 1..Len(its)
        /\ \A i \in 1..Len(its) : WellItem(its[i]) /\ its[i] \in Items
    BY ArrayBasics
  <1> DEFINE n == Len(its)
             new == [i \in 1..n |-> IF i = n THEN [its[i] EXCEPT !.last = FALSE] ELSE its[i]]
             end == [FreeItem EXCEPT !.last = TRUE]
  <1>2. ResizeDict(its) = Append(new, end)
    BY <1>0 DEF ResizeDict
  <1>3. ASSUME NEW i \in 1..n
        PROVE  /\ WellItem(new[i]) /\ new[i] \in Items /\ new[i].last = FALSE
               /\ new[i].type = its[i].type
               /\ new[i].sub = its[i].sub /\ OwnedCells(new[i]) = OwnedCells(its[i])
    <2>1. WellItem(its[i]) /\ its[i] \in Items
      BY <1>0
    <2>2. CASE i = n
      <3>1. new[i] = [its[i] EXCEPT !.last = FALSE]
        BY <2>2
      <3> HIDE DEF new
      <3>2. /\ new[i] \in Items /\ new[i].last = FALSE /\ new[i].sub = its[i].sub
            /\ new[i].type = its[i].type /\ new[i].kcell = its[i].kcell
            /\ new[i].cell = its[i].cell
        BY <2>1, <3>1 DEF Items
      <3> QED
        BY <2>1, <3>2 DEF WellItem, OwnedCells
    <2>3. CASE i # n
      <3>1. new[i] = its[i]
        BY <2>3
      <3>2. its[i].last \in BOOLEAN
        BY <2>1 DEF Items
      <3>3. its[i].last = FALSE
        BY <2>3, <3>2 DEF WellArray
      <3> QED
        BY <2>1, <3>1, <3>3
    <2> QED
      BY <2>2, <2>3
  <1>4. new \in [1..n -> Items]
    BY <1>3
  <1>5. new \in Seq(Items) /\ Len(new) = n
    BY <1>0, <1>4
  <1>6. WellItem(end) /\ end.type = "0" /\ end \in Items
    BY FreeItemIsWell DEF WellItem
  <1>7. end.sub = Nil /\ OwnedCells(end) = {}
    BY <1>6, BlankItem
  <1> HIDE DEF end, new
  <1>8. PICK s : s = Append(new, end)
    OBVIOUS
  <1>9. /\ s \in Seq(Items) /\ Len(s) = n + 1 /\ s[n + 1] = end
        /\ \A i \in 1..n : s[i] = new[i]
    BY <1>5, <1>6, <1>8, AppendProperties
  <1>10. \A i \in 1..(n + 1) : i \in 1..n \/ i = n + 1
    BY <1>0
  <1>11. \A i \in 1..n : i \in 1..(n + 1) /\ i # n + 1
    BY <1>0
  <1>12. WellArray(s)
    <2>1. ASSUME NEW i \in 1..(n + 1) PROVE WellItem(s[i]) /\ (s[i].last => i = n + 1)
      BY <1>3, <1>6, <1>9, <1>10
    <2> QED
      BY <1>9, <2>1 DEF WellArray
  <1>13. \A i \in 1..(n + 1) : OwnedCells(s[i]) = IF i = n + 1 THEN {} ELSE OwnedCells(its[i])
    BY <1>3, <1>7, <1>9, <1>10, <1>11
  <1>14. OwnedApart(s)
    BY <1>9, <1>10, <1>13 DEF OwnedApart
  <1>15. ArrayCells(s) = ArrayCells(its)
    BY <1>9, <1>10, <1>11, <1>13 DEF ArrayCells
  <1>16. ASSUME NEW d \in DictIds PROVE RefIndexes(s, d) = RefIndexes(its, d)
    <2>1. Nil # d
      BY DictAssumption
    <2> QED
      BY <1>3, <1>7, <1>9, <1>10, <1>11, <2>1 DEF RefIndexes
  <1> QED
    BY <1>2, <1>3, <1>6, <1>8, <1>9, <1>12, <1>14, <1>15, <1>16

(* crtx_dict_alloc_next_item: an item of zeros, in the same or in a longer *)
(* array.                                                                  *)
LEMMA NextItemIsFree ==
  ASSUME NEW its, WellArray(its), OwnedApart(its)
  PROVE  /\ WellArray(AllocNextItem(its)) /\ OwnedApart(AllocNextItem(its))
         /\ NextIndex(its) \in 1..Len(AllocNextItem(its))
         /\ AllocNextItem(its)[NextIndex(its)].type = "0"
         /\ ArrayCells(AllocNextItem(its)) = ArrayCells(its)
         /\ \A d \in DictIds : RefIndexes(AllocNextItem(its), d) = RefIndexes(its, d)
  <1>0. /\ its \in Seq(Items) /\ Len(its) \in Nat /\ DOMAIN its = 1..Len(its)
        /\ \A i \in 1..Len(its) : WellItem(its[i]) /\ its[i] \in Items
    BY ArrayBasics
  <1>1. FreeIndexes(its) = {i \in 1..Len(its) : its[i].type = "0"}
    BY LoopEnds DEF FreeIndexes
  <1>2. CASE FreeIndexes(its) # {}
    <2>1. AllocNextItem(its) = its
      BY <1>2 DEF AllocNextItem
    <2>2. FreeIndexes(its) \subseteq Nat
      BY <1>0, <1>1
    <2>3. NextIndex(its) = CHOOSE i \in FreeIndexes(its) : \A j \in FreeIndexes(its) : i <= j
      BY <1>2 DEF NextIndex
    <2>4. NextIndex(its) \in FreeIndexes(its)
      BY <1>2, <2>2, <2>3, LeastOf
    <2> QED
      BY <1>1, <2>1, <2>4
  <1>3. CASE FreeIndexes(its) = {}
    <2>1. NextIndex(its) = Len(its) + 1 /\ Len(its) + 1 \in 1..(Len(its) + 1)
      BY <1>0, <1>3 DEF NextIndex
    <2>2. AllocNextItem(its) = ResizeDict(its)
      BY <1>3 DEF AllocNextItem
    <2> QED
      BY <2>1, <2>2, ResizedArray
  <1> QED
    BY <1>2, <1>3

---------------------------------------------------------------------------
(* malloc takes cells that are not in use, a different one each time.      *)
LEMMA MallocIsFresh ==
  ASSUME NEW S, IsFiniteSet(S), CanAlloc(S)
  PROVE  /\ Malloc(S) \in [S -> Cells \ cells]
         /\ \A x, y \in S : Malloc(S)[x] = Malloc(S)[y] => x = y
  <1> DEFINE T == Cells \ cells
  <1>1. IsFiniteSet(T)
    BY DictAssumption, FS_Difference
  <1>2. /\ Cardinality(S) \in Nat /\ ExistsBijection(1..Cardinality(S), S)
        /\ Cardinality(T) \in Nat /\ ExistsBijection(1..Cardinality(T), T)
    BY <1>1, FS_CardinalityType
  <1>3. PICK m \in Nat, n \in Nat : m = Cardinality(S) /\ n = Cardinality(T) /\ m <= n
    BY <1>2 DEF CanAlloc
  <1> HIDE DEF T
  <1>4. ExistsInjection(S, 1..m)
    BY <1>2, <1>3, Fun_ExistsBijSymmetric, Fun_ExistsBij, Fun_ExistsInj DEF Bijection
  <1>5. ExistsInjection(1..n, T)
    BY <1>2, <1>3, Fun_ExistsBij, Fun_ExistsInj DEF Bijection
  <1>6. ExistsInjection(1..m, 1..n)
    <2>1. PICK f : f = [i \in 1..m |-> i]
      OBVIOUS
    <2>2. f \in [1..m -> 1..n] /\ \A a, b \in 1..m : f[a] = f[b] => a = b
      BY <1>3, <2>1
    <2>3. f \in Injection(1..m, 1..n)
      BY <2>2 DEF Injection, IsInjective
    <2> QED
      BY <2>3, Fun_ExistsInj
  <1>7. ExistsInjection(S, T)
    BY <1>4, <1>5, <1>6, Fun_ExistsInjTransitive
  <1>8. PICK f : f \in Injection(S, T)
    BY <1>7, Fun_ExistsInj
  <1>9. f \in [S -> T] /\ \A x, y \in S : f[x] = f[y] => x = y
    BY <1>8 DEF Injection, IsInjective
  <1>10. Malloc(S) = CHOOSE c \in [S -> T] : \A x, y \in S : c[x] = c[y] => x = y
    BY DEF Malloc, T
  <1>11. Malloc(S) \in [S -> T] /\ \A x, y \in S : Malloc(S)[x] = Malloc(S)[y] => x = y
    BY <1>9, <1>10
  <1> QED
    BY <1>11 DEF T

(* crtx_fill_data_item: the item owns what was allocated for it.           *)
LEMMA FilledItem ==
  ASSUME NEW shape \in {"badsize", "number", "keycopy", "static", "buffer", "pointer", "dict"},
         NEW k \in Keys \cup PayloadKeys, NEW it, WellItem(it), it.type = "0",
         NEW c, \A x \in CellsNeeded(shape) : c[x] \in Cells,
         NEW sub \in DictIds \cup {Nil}, shape = "dict" <=> sub # Nil
  PROVE  /\ WellItem(FillItem(it, shape, k, c, sub))
         /\ FillItem(it, shape, k, c, sub).sub = sub
         /\ FillItem(it, shape, k, c, sub).type # "0"
         /\ FillItem(it, shape, k, c, sub).key = k
         /\ OwnedCells(FillItem(it, shape, k, c, sub)) = {c[x] : x \in CellsNeeded(shape)}
         /\ \A j, its : FitsAt(it, j, its) => FitsAt(FillItem(it, shape, k, c, sub), j, its)
  <1>0. /\ WellItem(FreeItem) /\ FreeItem.last = FALSE
        /\ it.sub = Nil /\ it.kcell = Nil /\ it \in Items
    BY FreeItemIsWell, BlankItem DEF WellItem
  <1>1. PICK r : r = FillItem(it, shape, k, c, sub)
    OBVIOUS
  <1>2. CASE shape = "badsize"
    <2>1. r = [it EXCEPT !.type = "n", !.key = k] /\ CellsNeeded(shape) = {} /\ sub = Nil
      BY <1>1, <1>2 DEF FillItem, CellsNeeded
    <2>2. /\ r \in Items /\ r.type = "n" /\ r.sub = Nil /\ r.kcell = Nil /\ r.key = k
          /\ r.last = it.last
      BY <1>0, <2>1 DEF Items, ItemTypes
    <2>3. WellItem(r)
      BY <2>2 DEF WellItem
    <2>4. OwnedCells(r) = {}
      BY <2>2, <2>3, BlankItem
    <2>5. \A j, its : FitsAt(it, j, its) => FitsAt(r, j, its)
      BY <2>2, <2>3 DEF FitsAt
    <2>6. {c[x] : x \in CellsNeeded(shape)} = {}
      BY <2>1
    <2> QED
      BY <1>1, <2>1, <2>2, <2>3, <2>4, <2>5, <2>6
  <1>3. CASE shape = "number"
    <2>1. r = [FreeItem EXCEPT !.type = "n", !.key = k] /\ CellsNeeded(shape) = {} /\ sub = Nil
      BY <1>1, <1>3 DEF FillItem, CellsNeeded
    <2>2. /\ r \in Items /\ r.type = "n" /\ r.sub = Nil /\ r.kcell = Nil /\ r.key = k
          /\ r.last = FALSE
      BY <2>1 DEF Items, ItemTypes, FreeItem
    <2>3. WellItem(r)
      BY <2>2 DEF WellItem
    <2>4. OwnedCells(r) = {}
      BY <2>2, <2>3, BlankItem
    <2>5. \A j, its : FitsAt(r, j, its)
      BY <2>2, <2>3 DEF FitsAt
    <2>6. {c[x] : x \in CellsNeeded(shape)} = {}
      BY <2>1
    <2> QED
      BY <1>1, <2>1, <2>2, <2>3, <2>4, <2>5, <2>6
  <1>4. CASE shape = "keycopy"
    <2>1. /\ r = [FreeItem EXCEPT !.type = "s", !.key = k, !.cell = c["data"], !.kcell = c["key"]]
          /\ CellsNeeded(shape) = {"data", "key"} /\ sub = Nil
      BY <1>1, <1>4 DEF FillItem, CellsNeeded
    <2>2. c["data"] \in Cells /\ c["key"] \in Cells
      BY <2>1
    <2>3. /\ r \in Items /\ r.type = "s" /\ r.sub = Nil /\ r.kcell = c["key"] /\ r.key = k
          /\ r.cell = c["data"] /\ r.last = FALSE
      BY <2>1, <2>2 DEF Items, ItemTypes, FreeItem
    <2>4. WellItem(r)
      BY <2>3 DEF WellItem
    <2>5. OwnedCells(r) = {c["data"], c["key"]}
      BY <2>2, <2>3 DEF OwnedCells
    <2>6. \A j, its : FitsAt(r, j, its)
      BY <2>3, <2>4 DEF FitsAt
    <2>7. {c[x] : x \in CellsNeeded(shape)} = {c["data"], c["key"]}
      BY <2>1
    <2> QED
      BY <1>1, <2>1, <2>3, <2>4, <2>5, <2>6, <2>7
  <1>5. CASE shape = "static"
    <2>1. /\ r = [FreeItem EXCEPT !.type = "s", !.key = k, !.cell = Static]
          /\ CellsNeeded(shape) = {} /\ sub = Nil
      BY <1>1, <1>5 DEF FillItem, CellsNeeded
    <2>2. /\ r \in Items /\ r.type = "s" /\ r.sub = Nil /\ r.kcell = Nil /\ r.key = k
          /\ r.cell = Static /\ r.last = FALSE
      BY <2>1 DEF Items, ItemTypes, FreeItem
    <2>3. WellItem(r)
      BY <2>2 DEF WellItem
    <2>4. OwnedCells(r) = {}
      BY <2>2, DictAssumption DEF OwnedCells
    <2>5. \A j, its : FitsAt(r, j, its)
      BY <2>2, <2>3 DEF FitsAt
    <2>6. {c[x] : x \in CellsNeeded(shape)} = {}
      BY <2>1
    <2> QED
      BY <1>1, <2>1, <2>2, <2>3, <2>4, <2>5, <2>6
  <1>6. CASE shape = "buffer"
    <2>1. /\ r = [FreeItem EXCEPT !.type = "p", !.key = k, !.cell = c["data"]]
          /\ CellsNeeded(shape) = {"data"} /\ sub = Nil
      BY <1>1, <1>6 DEF FillItem, CellsNeeded
    <2>2. c["data"] \in Cells
      BY <2>1
    <2>3. /\ r \in Items /\ r.type = "p" /\ r.sub = Nil /\ r.kcell = Nil /\ r.key = k
          /\ r.cell = c["data"] /\ r.last = FALSE
      BY <2>1, <2>2 DEF Items, ItemTypes, FreeItem
    <2>4. WellItem(r)
      BY <2>3 DEF WellItem
    <2>5. OwnedCells(r) = {c["data"]}
      BY <2>2, <2>3, DictAssumption DEF OwnedCells
    <2>6. \A j, its : FitsAt(r, j, its)
      BY <2>3, <2>4 DEF FitsAt
    <2>7. {c[x] : x \in CellsNeeded(shape)} = {c["data"]}
      BY <2>1
    <2> QED
      BY <1>1, <2>1, <2>3, <2>4, <2>5, <2>6, <2>7
  <1>8. CASE shape = "pointer"
    <2>1. /\ r = [FreeItem EXCEPT !.type = "P", !.key = k, !.cell = c["data"]]
          /\ CellsNeeded(shape) = {"data"} /\ sub = Nil
      BY <1>1, <1>8 DEF FillItem, CellsNeeded
    <2>2. c["data"] \in Cells
      BY <2>1
    <2>3. /\ r \in Items /\ r.type = "P" /\ r.sub = Nil /\ r.kcell = Nil /\ r.key = k
          /\ r.cell = c["data"] /\ r.last = FALSE
      BY <2>1, <2>2 DEF Items, ItemTypes, FreeItem
    <2>4. WellItem(r)
      BY <2>3 DEF WellItem
    <2>5. OwnedCells(r) = {c["data"]}
      BY <2>2, <2>3, DictAssumption DEF OwnedCells
    <2>6. \A j, its : FitsAt(r, j, its)
      BY <2>3, <2>4 DEF FitsAt
    <2>7. {c[x] : x \in CellsNeeded(shape)} = {c["data"]}
      BY <2>1
    <2> QED
      BY <1>1, <2>1, <2>3, <2>4, <2>5, <2>6, <2>7
  <1>7. CASE shape = "dict"
    <2>1. /\ r = [FreeItem EXCEPT !.type = "D", !.key = k, !.sub = sub]
          /\ CellsNeeded(shape) = {} /\ sub \in DictIds
      BY <1>1, <1>7 DEF FillItem, CellsNeeded
    <2>2. /\ r \in Items /\ r.type = "D" /\ r.sub = sub /\ r.kcell = Nil /\ r.key = k
          /\ r.last = FALSE
      BY <2>1 DEF Items, ItemTypes, FreeItem
    <2>3. WellItem(r)
      BY <2>1, <2>2, DictAssumption DEF WellItem
    <2>4. OwnedCells(r) = {}
      BY <2>2, DictAssumption DEF OwnedCells
    <2>5. \A j, its : FitsAt(r, j, its)
      BY <2>2, <2>3 DEF FitsAt
    <2>6. {c[x] : x \in CellsNeeded(shape)} = {}
      BY <2>1
    <2> QED
      BY <1>1, <2>1, <2>2, <2>3, <2>4, <2>5, <2>6
  <1> QED
    BY <1>2, <1>3, <1>4, <1>5, <1>6, <1>7, <1>8

(* crtx_dict_copy_item: the copy has cells of its own.                     *)
LEMMA CopiedItem ==
  ASSUME NEW dst, WellItem(dst), dst.type = "0", NEW src, WellItem(src),
         src.type \in {"D", "s", "p"}, NEW c, NEW kc,
         src.type # "D" => c \in Cells, src.kcell # Nil => kc \in Cells
  PROVE  /\ WellItem(CopyItem(dst, src, c, kc))
         /\ CopyItem(dst, src, c, kc).sub = src.sub
         /\ OwnedCells(CopyItem(dst, src, c, kc)) =
               (IF src.type = "D" THEN {} ELSE {c}) \cup (IF src.kcell = Nil THEN {} ELSE {kc})
         /\ \A j, its : FitsAt(dst, j, its) => FitsAt(CopyItem(dst, src, c, kc), j, its)
  <1>1. PICK r : r = CopyItem(dst, src, c, kc)
    OBVIOUS
  <1>2. PICK cl, kl : /\ cl = IF src.type = "D" THEN Nil ELSE c
                      /\ kl = IF src.kcell = Nil THEN Nil ELSE kc
    OBVIOUS
  <1>3. r = [dst EXCEPT !.type = src.type, !.key = src.key, !.kcell = kl, !.cell = cl,
                        !.sub = src.sub]
    BY <1>1, <1>2 DEF CopyItem, CopiedTypes
  <1>4. cl \in Cells \cup {Nil} /\ kl \in Cells \cup {Nil}
    BY <1>2
  <1>5. dst \in Items /\ src \in Items
    BY DEF WellItem
  <1>6. /\ r \in Items /\ r.type = src.type /\ r.sub = src.sub /\ r.kcell = kl /\ r.cell = cl
        /\ r.last = dst.last
    BY <1>3, <1>4, <1>5 DEF Items
  <1>7. WellItem(r)
    <2>1. kl # Nil => src.kcell # Nil
      BY <1>2
    <2> QED
      BY <1>6, <2>1 DEF WellItem
  <1>8. OwnedCells(r) = (IF src.type = "D" THEN {} ELSE {c})
                           \cup (IF src.kcell = Nil THEN {} ELSE {kc})
    <2>1. src.type = "D" => src.kcell = Nil
      BY DEF WellItem
    <2>2. CASE src.type = "D"
      BY <1>2, <1>6, <2>1, <2>2, DictAssumption DEF OwnedCells
    <2>3. CASE src.type # "D" /\ src.kcell = Nil
      <3>1. r.type \in {"s", "p"} /\ r.cell = c /\ c \in Cells /\ r.kcell = Nil
        BY <1>2, <1>6, <2>3
      <3>2. OwnedCells(r) = {c}
        BY <3>1, DictAssumption DEF OwnedCells
      <3> QED
        BY <2>3, <3>2
    <2>4. CASE src.type # "D" /\ src.kcell # Nil
      <3>1. r.type \in {"s", "p"} /\ r.cell = c /\ c \in Cells /\ r.kcell = kc /\ kc \in Cells
        BY <1>2, <1>6, <2>4
      <3>2. OwnedCells(r) = {c, kc}
        BY <3>1 DEF OwnedCells
      <3> QED
        BY <2>4, <3>2
    <2> QED
      BY <2>2, <2>3, <2>4
  <1>9. \A j, its : FitsAt(dst, j, its) => FitsAt(r, j, its)
    BY <1>6, <1>7 DEF FitsAt
  <1> QED
    BY <1>1, <1>6, <1>7, <1>8, <1>9

(* The places of the copies are different.                                 *)
Sized(its) == \A i \in 1..Len(its) : its[i].type # "P"

LEMMA CopyPlacesDiffer ==
  ASSUME NEW its, WellArray(its), Sized(its)
  PROVE  /\ CopiedIndexes(its) = {i \in 1..Len(its) : its[i].type \in {"D", "s", "p"}}
         /\ \A i \in CopiedIndexes(its) : CopyPlace(its, i) \in 1..Len(its)
         /\ \A i, k \in CopiedIndexes(its) : CopyPlace(its, i) = CopyPlace(its, k) => i = k
  <1> DEFINE C == CopiedIndexes(its)
             P(i) == {j \in C : j <= i}
  <1>0. Len(its) \in Nat
    BY ArrayBasics
  <1>1. C = {i \in 1..Len(its) : its[i].type \in {"D", "s", "p"}}
    BY LoopEnds DEF CopiedIndexes, CopiedTypes, Sized
  <1>2. C \subseteq 1..Len(its)
    BY <1>1
  <1> HIDE DEF C
  <1>3. ASSUME NEW i \in C
        PROVE  IsFiniteSet(P(i)) /\ CopyPlace(its, i) = Cardinality(P(i))
               /\ CopyPlace(its, i) \in 1..Len(its)
    <2>1. i \in Nat /\ 1 <= i /\ i <= Len(its)
      BY <1>0, <1>2
    <2>2. IsFiniteSet(1..i) /\ Cardinality(1..i) = i
      BY <2>1, FS_Interval
    <2>3. P(i) \subseteq 1..i
      <3>1. ASSUME NEW j \in C, j <= i PROVE j \in 1..i
        BY <1>0, <1>2, <2>1, <3>1
      <3> QED
        BY <3>1
    <2>4. IsFiniteSet(P(i)) /\ Cardinality(P(i)) <= i
      BY <2>2, <2>3, FS_Subset
    <2>5. i \in P(i)
      BY <2>1
    <2>6. Cardinality(P(i)) # 0
      BY <2>4, <2>5, FS_EmptySet
    <2>7. Cardinality(P(i)) \in Nat
      BY <2>4, FS_CardinalityType
    <2>8. CopyPlace(its, i) = Cardinality(P(i))
      BY DEF CopyPlace, C
    <2> HIDE DEF P
    <2> QED
      BY <1>0, <2>1, <2>4, <2>6, <2>7, <2>8
  <1>4. ASSUME NEW i \in C, NEW k \in C, i < k
        PROVE  CopyPlace(its, i) # CopyPlace(its, k)
    <2>1. P(i) \in SUBSET P(k)
      <3>1. ASSUME NEW j \in C, j <= i PROVE j <= k
        BY <1>0, <1>2, <1>4, <3>1
      <3> QED
        BY <3>1
    <2>2. k \in P(k) /\ k \notin P(i)
      BY <1>0, <1>2, <1>4
    <2>3. P(i) # P(k)
      BY <2>2
    <2>4. IsFiniteSet(P(k)) /\ CopyPlace(its, i) = Cardinality(P(i)) /\ CopyPlace(its, k) = Cardinality(P(k))
      BY <1>3
    <2> HIDE DEF P
    <2> QED
      BY <2>1, <2>3, <2>4, FS_Subset
  <1>5. ASSUME NEW i \in C, NEW k \in C, CopyPlace(its, i) = CopyPlace(its, k) PROVE i = k
    <2>1. i \in Nat /\ k \in Nat
      BY <1>0, <1>2
    <2>2. ~(i < k) /\ ~(k < i)
      BY <1>4, <1>5
    <2> QED
      BY <2>1, <2>2
  <1> QED
    BY <1>1, <1>3, <1>5 DEF C

(* crtx_dict_create_copy.                                                  *)
LEMMA CopyIsRight ==
  ASSUME NEW its, WellArray(its), Sized(its), NEW F \in SUBSET Cells, NEW c \in [CellsToCopy(its) -> F],
         \A x, y \in CellsToCopy(its) : c[x] = c[y] => x = y
  PROVE  /\ WellArray(CopiedItems(its, c)) /\ OwnedApart(CopiedItems(its, c))
         /\ ArrayCells(CopiedItems(its, c)) = {c[x] : x \in CellsToCopy(its)}
         /\ \A d \in DictIds : Cardinality(RefIndexes(CopiedItems(its, c), d))
                                  = Cardinality(RefIndexes(its, d))
  <1> DEFINE C == CopiedIndexes(its)
             mine(i) == (IF its[i].type = "D" THEN {} ELSE {c[<<i, "data">>]})
                           \cup (IF its[i].kcell = Nil THEN {} ELSE {c[<<i, "key">>]})
  <1>1. PICK n \in Nat : n = Len(its)
    BY ArrayBasics
  <1>2. PICK init : init = InitItems(n)
    OBVIOUS
  <1>3. PICK new : new = CopiedItems(its, c)
    OBVIOUS
  <1>4. /\ WellArray(init) /\ Len(init) = n
        /\ \A i \in 1..n : init[i].type = "0"
    BY <1>2, InitItemsAreWell
  <1>5. /\ C = {i \in 1..n : its[i].type \in {"D", "s", "p"}}
        /\ \A i \in C : CopyPlace(its, i) \in 1..n
        /\ \A i, k \in C : CopyPlace(its, i) = CopyPlace(its, k) => i = k
    BY <1>1, CopyPlacesDiffer
  <1>6. \A i \in 1..n : WellItem(its[i])
    BY <1>1, ArrayBasics
  <1>7. /\ \A i \in C : its[i].type # "D" => <<i, "data">> \in CellsToCopy(its)
        /\ \A i \in C : its[i].kcell # Nil => <<i, "key">> \in CellsToCopy(its)
    BY <1>5 DEF CellsToCopy
  <1>8. ASSUME NEW x \in CellsToCopy(its)
        PROVE  \E i \in C : \/ x = <<i, "data">> /\ its[i].type # "D"
                            \/ x = <<i, "key">> /\ its[i].kcell # Nil
    BY DEF CellsToCopy
  <1>9. new = [j \in 1..n |->
                  IF \E i \in C : CopyPlace(its, i) = j
                  THEN CopyItem(init[j], its[CHOOSE i \in C : CopyPlace(its, i) = j],
                                c[<<CHOOSE i \in C : CopyPlace(its, i) = j, "data">>],
                                c[<<CHOOSE i \in C : CopyPlace(its, i) = j, "key">>])
                  ELSE init[j]]
    BY <1>1, <1>2, <1>3 DEF CopiedItems
  <1> HIDE DEF C
  <1>10. ASSUME NEW i \in C, NEW j, j = CopyPlace(its, i)
         PROVE  /\ j \in 1..n /\ WellItem(new[j]) /\ FitsAt(new[j], j, init)
                /\ new[j].sub = its[i].sub /\ OwnedCells(new[j]) = mine(i)
    <2>1. j \in 1..n
      BY <1>5, <1>10
    <2>2. \E k \in C : CopyPlace(its, k) = j
      BY <1>10
    <2>3. (CHOOSE k \in C : CopyPlace(its, k) = j) = i
      BY <1>5, <1>10
    <2>4. new[j] = CopyItem(init[j], its[i], c[<<i, "data">>], c[<<i, "key">>])
      BY <1>9, <2>1, <2>2, <2>3
    <2>5. WellItem(init[j]) /\ init[j].type = "0" /\ FitsAt(init[j], j, init)
      BY <1>4, <2>1 DEF WellArray, FitsAt
    <2>6. WellItem(its[i]) /\ its[i].type \in {"D", "s", "p"}
      BY <1>5, <1>6
    <2>7. its[i].type # "D" => c[<<i, "data">>] \in Cells
      BY <1>7
    <2>8. its[i].kcell # Nil => c[<<i, "key">>] \in Cells
      BY <1>7
    <2>9. PICK a, b : a = c[<<i, "data">>] /\ b = c[<<i, "key">>]
      OBVIOUS
    <2>10. (its[i].type # "D" => a \in Cells) /\ (its[i].kcell # Nil => b \in Cells)
      BY <2>7, <2>8, <2>9
    <2>11. /\ WellItem(new[j]) /\ new[j].sub = its[i].sub
           /\ OwnedCells(new[j]) = (IF its[i].type = "D" THEN {} ELSE {a})
                                      \cup (IF its[i].kcell = Nil THEN {} ELSE {b})
           /\ FitsAt(init[j], j, init) => FitsAt(new[j], j, init)
      BY <2>4, <2>5, <2>6, <2>9, <2>10, CopiedItem
    <2> QED
      BY <2>1, <2>5, <2>9, <2>11
  <1>11. ASSUME NEW j \in 1..n, ~ \E i \in C : CopyPlace(its, i) = j
         PROVE  /\ WellItem(new[j]) /\ FitsAt(new[j], j, init)
                /\ new[j].sub = Nil /\ OwnedCells(new[j]) = {}
    <2>1. new[j] = init[j]
      BY <1>9, <1>11
    <2>2. WellItem(init[j]) /\ init[j].type = "0" /\ FitsAt(init[j], j, init)
      BY <1>4 DEF WellArray, FitsAt
    <2> QED
      BY <2>1, <2>2, BlankItem
  <1>12. ASSUME NEW j \in 1..n
         PROVE  WellItem(new[j]) /\ FitsAt(new[j], j, init) /\ new[j] \in Items
    <2>1. CASE \E i \in C : CopyPlace(its, i) = j
      <3>1. PICK i \in C : CopyPlace(its, i) = j
        BY <2>1
      <3>2. WellItem(new[j]) /\ FitsAt(new[j], j, init)
        BY <1>10, <3>1
      <3> QED
        BY <3>2 DEF WellItem
    <2>2. CASE ~ \E i \in C : CopyPlace(its, i) = j
      <3>1. WellItem(new[j]) /\ FitsAt(new[j], j, init)
        BY <1>11, <2>2
      <3> QED
        BY <3>1 DEF WellItem
    <2> QED
      BY <2>1, <2>2
  <1>13. new \in Seq(Items) /\ Len(new) = n
    <2>1. new \in [1..n -> Items]
      BY <1>9, <1>12
    <2> QED
      BY <2>1
  <1>14. WellArray(new)
    BY <1>4, <1>12, <1>13 DEF WellArray, FitsAt
  <1>15. ASSUME NEW i \in C, NEW k \in C, i # k PROVE mine(i) \cap mine(k) = {}
    <2>1. /\ <<i, "data">> # <<k, "data">> /\ <<i, "key">> # <<k, "key">>
          /\ <<i, "data">> # <<k, "key">> /\ <<i, "key">> # <<k, "data">>
      BY <1>15
    <2> QED
      BY <1>7, <2>1
  <1>16. ASSUME NEW i \in C PROVE mine(i) \subseteq {c[x] : x \in CellsToCopy(its)}
    BY <1>7
  <1> HIDE DEF mine
  <1>17. OwnedApart(new)
    <2>1. ASSUME NEW a \in 1..n, NEW b \in 1..n, a # b
          PROVE  OwnedCells(new[a]) \cap OwnedCells(new[b]) = {}
      <3>1. CASE (\E i \in C : CopyPlace(its, i) = a) /\ (\E k \in C : CopyPlace(its, k) = b)
        <4>1. PICK i \in C : CopyPlace(its, i) = a
          BY <3>1
        <4>2. PICK k \in C : CopyPlace(its, k) = b
          BY <3>1
        <4>3. i # k
          BY <2>1, <4>1, <4>2
        <4> QED
          BY <1>10, <1>15, <4>1, <4>2, <4>3
      <3>2. CASE ~(\E i \in C : CopyPlace(its, i) = a) \/ ~(\E k \in C : CopyPlace(its, k) = b)
        BY <1>11, <3>2
      <3> QED
        BY <3>1, <3>2
    <2> QED
      BY <1>13, <2>1 DEF OwnedApart
  <1>18. ArrayCells(new) = {c[x] : x \in CellsToCopy(its)}
    <2>1. ASSUME NEW e \in ArrayCells(new) PROVE e \in {c[x] : x \in CellsToCopy(its)}
      <3>1. PICK j \in 1..n : e \in OwnedCells(new[j])
        BY <1>13 DEF ArrayCells
      <3>2. PICK i \in C : CopyPlace(its, i) = j
        BY <1>11, <3>1
      <3> QED
        BY <1>10, <1>16, <3>1, <3>2
    <2>2. ASSUME NEW x \in CellsToCopy(its) PROVE c[x] \in ArrayCells(new)
      <3>1. PICK i \in C : \/ x = <<i, "data">> /\ its[i].type # "D"
                           \/ x = <<i, "key">> /\ its[i].kcell # Nil
        BY <1>8
      <3>2. c[x] \in mine(i)
        BY <3>1 DEF mine
      <3>3. PICK j : j = CopyPlace(its, i)
        OBVIOUS
      <3>4. j \in 1..n /\ c[x] \in OwnedCells(new[j])
        BY <1>10, <3>2, <3>3
      <3> QED
        BY <1>13, <3>4 DEF ArrayCells
    <2> QED
      BY <2>1, <2>2
  <1>19. ASSUME NEW d \in DictIds
         PROVE  Cardinality(RefIndexes(new, d)) = Cardinality(RefIndexes(its, d))
    <2> DEFINE S == RefIndexes(its, d)
               T == RefIndexes(new, d)
               f == [i \in S |-> CopyPlace(its, i)]
    <2>0. d # Nil
      BY DictAssumption
    <2>1. S = {i \in 1..n : its[i].sub = d} /\ T = {i \in 1..n : new[i].sub = d}
      BY <1>1, <1>13 DEF RefIndexes
    <2> HIDE DEF S, T
    <2>2. S \subseteq C
      BY <1>5, <1>6, <2>0, <2>1 DEF WellItem
    <2>3. f \in [S -> T]
      BY <1>10, <2>1, <2>2
    <2>4. \A a, b \in S : f[a] = f[b] => a = b
      BY <1>5, <2>2
    <2>5. ASSUME NEW j \in T PROVE \E i \in S : f[i] = j
      <3>1. j \in 1..n /\ new[j].sub = d
        BY <2>1
      <3>2. PICK i \in C : CopyPlace(its, i) = j
        BY <1>11, <2>0, <3>1
      <3>3. its[i].sub = d /\ i \in 1..n
        BY <1>5, <1>10, <3>1, <3>2
      <3>4. i \in S
        BY <2>1, <3>3
      <3> QED
        BY <3>2, <3>4
    <2> HIDE DEF f
    <2>6. f \in Bijection(S, T)
      BY <2>3, <2>4, <2>5, Fun_IsBij
    <2>7. IsFiniteSet(S)
      <3>1. IsFiniteSet(1..n)
        BY FS_Interval
      <3>2. S \subseteq 1..n
        BY <2>1
      <3> QED
        BY <3>1, <3>2, FS_Subset
    <2>8. ExistsBijection(S, T)
      BY <2>6, Fun_ExistsBij
    <2>9. Cardinality(T) = Cardinality(S)
      BY <2>7, <2>8, FS_Bijection
    <2> QED
      BY <2>9 DEF S, T
  <1> QED
    BY <1>3, <1>14, <1>17, <1>18, <1>19

---------------------------------------------------------------------------
(* Counting references.                                                    *)
PlacesOf(its) == UNION {{<<d, i>> : i \in DOMAIN its[d]} : d \in DictIds}

RefsTo(its, e) == {p \in PlacesOf(its) : its[p[1]][p[2]].sub = e}

Pending(u, e) == {i \in DOMAIN u : u[i] = e}

Arrays(its) ==
    /\ its \in [DictIds -> Seq(Items)]
    /\ \A d \in DictIds : WellArray(its[d]) /\ OwnedApart(its[d])

LEMMA ApartCount ==
  ASSUME NEW S, NEW T, IsFiniteSet(S), IsFiniteSet(T), S \cap T = {}
  PROVE  /\ IsFiniteSet(S \cup T) /\ Cardinality(S) \in Nat /\ Cardinality(T) \in Nat
         /\ Cardinality(S \cup T) = Cardinality(S) + Cardinality(T)
  <1>1. /\ IsFiniteSet(S \cup T) /\ Cardinality(S) \in Nat /\ Cardinality(T) \in Nat
        /\ Cardinality(S \cup T) = Cardinality(S) + Cardinality(T) - Cardinality(S \cap T)
    BY FS_Union, FS_CardinalityType
  <1>2. Cardinality(S \cap T) = 0
    BY FS_EmptySet
  <1> QED
    BY <1>1, <1>2

LEMMA SameCount ==
  ASSUME NEW S, NEW T, IsFiniteSet(S), NEW f \in [S -> T],
         \A a, b \in S : f[a] = f[b] => a = b, \A t \in T : \E s \in S : f[s] = t
  PROVE  IsFiniteSet(T) /\ Cardinality(T) = Cardinality(S) /\ Cardinality(S) \in Nat
  <1>1. f \in Bijection(S, T)
    BY Fun_IsBij
  <1>2. ExistsBijection(S, T)
    BY <1>1, Fun_ExistsBij
  <1> QED
    BY <1>2, FS_Bijection, FS_CardinalityType

LEMMA RefIndexesFinite ==
  ASSUME NEW its, WellArray(its), NEW e
  PROVE  IsFiniteSet(RefIndexes(its, e)) /\ Cardinality(RefIndexes(its, e)) \in Nat
  <1>1. Len(its) \in Nat /\ RefIndexes(its, e) \subseteq 1..Len(its)
    BY ArrayBasics
  <1>2. IsFiniteSet(1..Len(its))
    BY <1>1, FS_Interval
  <1> QED
    BY <1>1, <1>2, FS_Subset, FS_CardinalityType

LEMMA RefsToAre ==
  ASSUME NEW its, Arrays(its), NEW e
  PROVE  /\ \A d \in DictIds : \A i \in RefIndexes(its[d], e) : <<d, i>> \in RefsTo(its, e)
         /\ \A p \in RefsTo(its, e) : \E d \in DictIds : \E i \in RefIndexes(its[d], e) : p = <<d, i>>
         /\ IsFiniteSet(RefsTo(its, e)) /\ Cardinality(RefsTo(its, e)) \in Nat
  <1>1. \A d \in DictIds : WellArray(its[d]) /\ DOMAIN its[d] = 1..Len(its[d]) /\ Len(its[d]) \in Nat
    BY ArrayBasics DEF Arrays
  <1>2. ASSUME NEW d \in DictIds, NEW i \in RefIndexes(its[d], e)
        PROVE  <<d, i>> \in RefsTo(its, e)
    <2>1. i \in DOMAIN its[d] /\ its[d][i].sub = e
      BY <1>1 DEF RefIndexes
    <2> QED
      BY <2>1 DEF RefsTo, PlacesOf
  <1>3. ASSUME NEW p \in RefsTo(its, e)
        PROVE  \E d \in DictIds : \E i \in RefIndexes(its[d], e) : p = <<d, i>>
    <2>1. p \in PlacesOf(its) /\ its[p[1]][p[2]].sub = e
      BY DEF RefsTo
    <2>2. PICK d \in DictIds : p \in {<<d, i>> : i \in DOMAIN its[d]}
      BY <2>1 DEF PlacesOf
    <2>3. PICK i \in DOMAIN its[d] : p = <<d, i>>
      BY <2>2
    <2>4. its[d][i].sub = e
      BY <2>1, <2>3
    <2> QED
      BY <1>1, <2>3, <2>4 DEF RefIndexes
  <1>4. IsFiniteSet(PlacesOf(its))
    <2> DEFINE Of(d) == {<<d, i>> : i \in DOMAIN its[d]}
               f == [d \in DictIds |-> Of(d)]
               R == {Of(d) : d \in DictIds}
    <2>1. f \in Surjection(DictIds, R)
      BY DEF Surjection
    <2>2. IsFiniteSet(R)
      <3> HIDE DEF f, R
      <3> QED
        BY <2>1, DictAssumption, FS_Surjection
    <2>3. ASSUME NEW d \in DictIds PROVE IsFiniteSet(Of(d))
      <3>0. PICK n \in Nat : n = Len(its[d])
        BY <1>1
      <3>1. IsFiniteSet(1..Len(its[d]))
        BY <3>0, FS_Interval
      <3>2. PICK g : g = [i \in 1..Len(its[d]) |-> <<d, i>>]
        OBVIOUS
      <3>3. /\ g \in [1..Len(its[d]) -> Of(d)]
            /\ \A a, b \in 1..Len(its[d]) : g[a] = g[b] => a = b
            /\ \A t \in Of(d) : \E s \in 1..Len(its[d]) : g[s] = t
        BY <1>1, <3>2
      <3> HIDE DEF Of
      <3> QED
        BY <3>1, <3>3, SameCount
    <2>4. PlacesOf(its) = UNION R
      BY DEF PlacesOf
    <2>5. \A T \in R : IsFiniteSet(T)
      BY <2>3
    <2> HIDE DEF R
    <2> QED
      BY <2>2, <2>4, <2>5, FS_UNION
  <1>5. RefsTo(its, e) \in SUBSET PlacesOf(its)
    BY DEF RefsTo
  <1>6. IsFiniteSet(RefsTo(its, e))
    BY <1>4, <1>5, FS_Subset
  <1> QED
    BY <1>2, <1>3, <1>6, FS_CardinalityType

PairsOf(d, S) == {<<d, i>> : i \in S}

LEMMA PairCount ==
  ASSUME NEW S, IsFiniteSet(S), NEW d
  PROVE  IsFiniteSet(PairsOf(d, S)) /\ Cardinality(PairsOf(d, S)) = Cardinality(S)
  <1> DEFINE T == PairsOf(d, S)
  <1>1. PICK f : f = [i \in S |-> <<d, i>>]
    OBVIOUS
  <1>2. /\ f \in [S -> T] /\ \A a, b \in S : f[a] = f[b] => a = b
        /\ \A t \in T : \E s \in S : f[s] = t
    BY <1>1 DEF PairsOf
  <1> QED
    BY <1>2, SameCount

IsArraySet(new, its, d, arr) == new = [its EXCEPT ![d] = arr]

LEMMA ArrayReplaced ==
  ASSUME NEW its, Arrays(its), NEW d \in DictIds, NEW arr, WellArray(arr), OwnedApart(arr),
         NEW new, IsArraySet(new, its, d, arr)
  PROVE  Arrays(new) /\ new[d] = arr /\ \A x \in DictIds : x # d => new[x] = its[x]
  <1>1. new[d] = arr /\ \A x \in DictIds : x # d => new[x] = its[x]
    BY DEF IsArraySet, Arrays
  <1>2. arr \in Seq(Items)
    BY DEF WellArray
  <1>3. new \in [DictIds -> Seq(Items)]
    BY <1>2 DEF IsArraySet, Arrays
  <1> QED
    BY <1>1, <1>3 DEF Arrays

(* When one array is replaced, the references change by those in it.       *)
LEMMA CountChanges ==
  ASSUME NEW its, Arrays(its), NEW d \in DictIds, NEW arr, WellArray(arr), OwnedApart(arr),
         NEW new, IsArraySet(new, its, d, arr), NEW e
  PROVE  /\ Cardinality(RefsTo(its, e)) \in Nat /\ Cardinality(RefsTo(new, e)) \in Nat
         /\ Cardinality(RefIndexes(arr, e)) \in Nat /\ Cardinality(RefIndexes(its[d], e)) \in Nat
         /\ Cardinality(RefsTo(new, e)) + Cardinality(RefIndexes(its[d], e))
               = Cardinality(RefsTo(its, e)) + Cardinality(RefIndexes(arr, e))
  <1>1. new[d] = arr /\ \A x \in DictIds : x # d => new[x] = its[x]
    BY ArrayReplaced
  <1>2. Arrays(new)
    BY ArrayReplaced
  <1> DEFINE rest == {p \in RefsTo(its, e) : p[1] # d}
             old == PairsOf(d, RefIndexes(its[d], e))
             now == PairsOf(d, RefIndexes(arr, e))
  <1>3. WellArray(its[d])
    BY DEF Arrays
  <1>4. /\ IsFiniteSet(RefIndexes(its[d], e)) /\ Cardinality(RefIndexes(its[d], e)) \in Nat
        /\ IsFiniteSet(RefIndexes(arr, e)) /\ Cardinality(RefIndexes(arr, e)) \in Nat
    BY <1>3, RefIndexesFinite
  <1>5. IsFiniteSet(old) /\ Cardinality(old) = Cardinality(RefIndexes(its[d], e))
    BY <1>4, PairCount
  <1>6. IsFiniteSet(now) /\ Cardinality(now) = Cardinality(RefIndexes(arr, e))
    BY <1>4, PairCount
  <1>7. IsFiniteSet(rest)
    <2>1. rest \in SUBSET RefsTo(its, e)
      OBVIOUS
    <2> QED
      BY <2>1, RefsToAre, FS_Subset
  <1>8. RefsTo(its, e) = rest \cup old
    <2>1. old \subseteq RefsTo(its, e)
      BY RefsToAre DEF PairsOf
    <2>2. ASSUME NEW p \in RefsTo(its, e), p[1] = d PROVE p \in old
      <3>1. PICK x \in DictIds : \E i \in RefIndexes(its[x], e) : p = <<x, i>>
        BY RefsToAre
      <3>2. PICK i \in RefIndexes(its[x], e) : p = <<x, i>>
        BY <3>1
      <3>3. x = d
        BY <2>2, <3>2
      <3> QED
        BY <3>2, <3>3 DEF PairsOf
    <2> QED
      BY <2>1, <2>2
  <1>9. RefsTo(new, e) = rest \cup now
    <2>1. now \subseteq RefsTo(new, e)
      BY <1>1, <1>2, RefsToAre DEF PairsOf
    <2>2. ASSUME NEW p \in RefsTo(new, e) PROVE p \in rest \cup now
      <3>1. PICK x \in DictIds : \E i \in RefIndexes(new[x], e) : p = <<x, i>>
        BY <1>2, RefsToAre
      <3>2. PICK i \in RefIndexes(new[x], e) : p = <<x, i>>
        BY <3>1
      <3>3. CASE x = d
        BY <1>1, <3>2, <3>3 DEF PairsOf
      <3>4. CASE x # d
        <4>1. i \in RefIndexes(its[x], e)
          BY <1>1, <3>2, <3>4
        <4>2. p \in RefsTo(its, e)
          BY <3>2, <4>1, RefsToAre
        <4>3. p[1] # d
          BY <3>2, <3>4
        <4> QED
          BY <4>2, <4>3
      <3> QED
        BY <3>3, <3>4
    <2>3. ASSUME NEW p \in rest PROVE p \in RefsTo(new, e)
      <3>1. PICK x \in DictIds : \E i \in RefIndexes(its[x], e) : p = <<x, i>>
        BY RefsToAre
      <3>2. PICK i \in RefIndexes(its[x], e) : p = <<x, i>>
        BY <3>1
      <3>3. x # d
        BY <3>2
      <3>4. i \in RefIndexes(new[x], e)
        BY <1>1, <3>2, <3>3
      <3> QED
        BY <1>2, <3>2, <3>4, RefsToAre
    <2> QED
      BY <2>1, <2>2, <2>3
  <1>10. rest \cap old = {} /\ rest \cap now = {}
    BY DEF PairsOf
  <1> HIDE DEF rest, old, now
  <1>11. Cardinality(RefsTo(its, e)) = Cardinality(rest) + Cardinality(old) /\ Cardinality(rest) \in Nat
    BY <1>5, <1>7, <1>8, <1>10, ApartCount
  <1>12. Cardinality(RefsTo(new, e)) = Cardinality(rest) + Cardinality(now)
    BY <1>6, <1>7, <1>9, <1>10, ApartCount
  <1>13. PICK r, a, b \in Nat : /\ r = Cardinality(rest) /\ a = Cardinality(RefIndexes(its[d], e))
                                /\ b = Cardinality(RefIndexes(arr, e))
    BY <1>4, <1>11
  <1>14. Cardinality(RefsTo(its, e)) = r + a /\ Cardinality(RefsTo(new, e)) = r + b
    BY <1>5, <1>6, <1>11, <1>12, <1>13
  <1>15. (r + b) + a = (r + a) + b /\ r + b \in Nat /\ r + a \in Nat
    OBVIOUS
  <1> QED
    BY <1>4, <1>13, <1>14, <1>15

LEMMA PendingFinite ==
  ASSUME NEW D, NEW u \in Seq(D), NEW e
  PROVE  /\ Pending(u, e) = {i \in 1..Len(u) : u[i] = e} /\ Len(u) \in Nat
         /\ IsFiniteSet(Pending(u, e)) /\ Cardinality(Pending(u, e)) \in Nat
  <1>1. DOMAIN u = 1..Len(u) /\ Len(u) \in Nat
    BY LenProperties
  <1>2. Pending(u, e) = {i \in 1..Len(u) : u[i] = e}
    BY <1>1 DEF Pending
  <1>3. IsFiniteSet(1..Len(u))
    BY <1>1, FS_Interval
  <1>4. Pending(u, e) \in SUBSET (1..Len(u))
    BY <1>2
  <1> QED
    BY <1>1, <1>2, <1>3, <1>4, FS_Subset, FS_CardinalityType

LEMMA PendingTail ==
  ASSUME NEW D, NEW u \in Seq(D), u # <<>>, NEW e
  PROVE  Cardinality(Pending(u, e)) = Cardinality(Pending(Tail(u), e))
                                         + (IF Head(u) = e THEN 1 ELSE 0)
  <1>1. PICK v : v = Tail(u)
    OBVIOUS
  <1>2. /\ v \in Seq(D) /\ Len(v) = Len(u) - 1 /\ Len(u) \in Nat \ {0} /\ Len(v) \in Nat
        /\ \A i \in 1..Len(v) : v[i] = u[i + 1]
    BY <1>1, HeadTailProperties, EmptySeq, LenProperties
  <1>3. Head(u) = u[1]
    BY <1>2
  <1>4. /\ Pending(u, e) = {i \in 1..Len(u) : u[i] = e}
        /\ Pending(v, e) = {i \in 1..Len(v) : v[i] = e}
        /\ IsFiniteSet(Pending(u, e)) /\ IsFiniteSet(Pending(v, e))
        /\ Cardinality(Pending(u, e)) \in Nat /\ Cardinality(Pending(v, e)) \in Nat
    BY <1>2, PendingFinite
  <1> DEFINE S == Pending(v, e)
             T == Pending(u, e) \ {1}
             f == [i \in S |-> i + 1]
  <1>5. \A i \in S : i \in 1..Len(v) /\ v[i] = e
    BY <1>4
  <1>6. \A i \in T : i \in 1..Len(u) /\ u[i] = e /\ i # 1
    BY <1>4
  <1>7. \A i \in 1..Len(u) : u[i] = e /\ i # 1 => i \in T
    BY <1>4
  <1>8. \A i \in 1..Len(v) : v[i] = e => i \in S
    BY <1>4
  <1> HIDE DEF S, T
  <1>9. f \in [S -> T]
    <2>1. ASSUME NEW i \in S PROVE i + 1 \in T
      <3>1. i \in 1..Len(v) /\ u[i + 1] = e
        BY <1>2, <1>5
      <3>2. i + 1 \in 1..Len(u) /\ i + 1 # 1
        BY <1>2, <3>1
      <3> QED
        BY <1>7, <3>1, <3>2
    <2> QED
      BY <2>1
  <1>10. \A a, b \in S : f[a] = f[b] => a = b
    BY <1>2, <1>5
  <1>11. ASSUME NEW t \in T PROVE \E s \in S : f[s] = t
    <2>1. t \in 1..Len(u) /\ u[t] = e /\ t # 1
      BY <1>6
    <2>2. t - 1 \in 1..Len(v) /\ (t - 1) + 1 = t
      BY <1>2, <2>1
    <2>3. v[t - 1] = e
      BY <1>2, <2>1, <2>2
    <2>4. t - 1 \in S
      BY <1>8, <2>2, <2>3
    <2> QED
      BY <2>2, <2>4
  <1>12. IsFiniteSet(S) /\ Cardinality(S) \in Nat
    BY <1>4 DEF S
  <1> HIDE DEF f
  <1>13. Cardinality(T) = Cardinality(S)
    BY <1>9, <1>10, <1>11, <1>12, SameCount
  <1>14. Cardinality(T) = IF 1 \in Pending(u, e) THEN Cardinality(Pending(u, e)) - 1
                          ELSE Cardinality(Pending(u, e))
    BY <1>4, FS_RemoveElement DEF T
  <1>15. 1 \in Pending(u, e) <=> Head(u) = e
    BY <1>2, <1>3, <1>4
  <1> QED
    BY <1>1, <1>4, <1>13, <1>14, <1>15 DEF S

LEMMA PendingConcat ==
  ASSUME NEW D, NEW u \in Seq(D), NEW v \in Seq(D), NEW e
  PROVE  /\ u \o v \in Seq(D)
         /\ Cardinality(Pending(u \o v, e)) = Cardinality(Pending(u, e)) + Cardinality(Pending(v, e))
  <1>1. PICK w : w = u \o v
    OBVIOUS
  <1>2. PICK m, n \in Nat : m = Len(u) /\ n = Len(v)
    BY LenProperties
  <1>3. /\ w \in Seq(D) /\ Len(w) = m + n
        /\ \A i \in 1..(m + n) : w[i] = IF i <= m THEN u[i] ELSE v[i - m]
    BY <1>1, <1>2, ConcatProperties
  <1>4. /\ Pending(w, e) = {i \in 1..(m + n) : w[i] = e}
        /\ Pending(u, e) = {i \in 1..m : u[i] = e}
        /\ Pending(v, e) = {i \in 1..n : v[i] = e}
        /\ IsFiniteSet(Pending(w, e)) /\ IsFiniteSet(Pending(u, e)) /\ IsFiniteSet(Pending(v, e))
    BY <1>2, <1>3, PendingFinite
  <1> DEFINE S == Pending(v, e)
             T == {i \in (m + 1)..(m + n) : v[i - m] = e}
             f == [i \in S |-> i + m]
  <1>5. \A i \in S : i \in 1..n /\ v[i] = e
    BY <1>4
  <1>6. \A i \in 1..n : v[i] = e => i \in S
    BY <1>4
  <1>7. IsFiniteSet(S)
    BY <1>4
  <1> HIDE DEF S
  <1>8. ASSUME NEW i \in S PROVE i + m \in T
    <2>1. i \in 1..n /\ v[i] = e
      BY <1>5
    <2>2. i + m \in (m + 1)..(m + n) /\ (i + m) - m = i
      BY <2>1
    <2> QED
      BY <2>1, <2>2
  <1>9. f \in [S -> T]
    BY <1>8
  <1>10. \A a, b \in S : f[a] = f[b] => a = b
    BY <1>5
  <1>11. ASSUME NEW t \in T PROVE \E s \in S : f[s] = t
    <2>1. t - m \in 1..n /\ (t - m) + m = t /\ v[t - m] = e
      OBVIOUS
    <2>2. t - m \in S
      BY <1>6, <2>1
    <2> QED
      BY <2>1, <2>2
  <1> HIDE DEF f
  <1>12. IsFiniteSet(T) /\ Cardinality(T) = Cardinality(S)
    <2> HIDE DEF T
    <2> QED
      BY <1>7, <1>9, <1>10, <1>11, SameCount
  <1>13. Pending(w, e) = Pending(u, e) \cup T
    <2>1. ASSUME NEW i \in 1..(m + n), i <= m PROVE i \in Pending(w, e) <=> i \in Pending(u, e)
      BY <1>3, <1>4, <2>1
    <2>2. ASSUME NEW i \in 1..(m + n), ~(i <= m)
          PROVE  (i \in Pending(w, e) <=> i \in T) /\ i \notin Pending(u, e)
      <3>1. i \in (m + 1)..(m + n) /\ w[i] = v[i - m] /\ i \notin 1..m
        BY <1>3, <2>2
      <3> QED
        BY <1>4, <3>1
    <2>3. ASSUME NEW i \in T PROVE i \in 1..(m + n) /\ ~(i <= m)
      OBVIOUS
    <2>4. ASSUME NEW i \in Pending(u, e) PROVE i \in 1..(m + n) /\ i <= m
      BY <1>4
    <2>5. Pending(w, e) \subseteq 1..(m + n)
      BY <1>4
    <2> HIDE DEF T
    <2> QED
      BY <2>1, <2>2, <2>3, <2>4, <2>5
  <1>14. Pending(u, e) \cap T = {}
    BY <1>4
  <1> HIDE DEF T
  <1>15. Cardinality(Pending(w, e)) = Cardinality(Pending(u, e)) + Cardinality(T)
    BY <1>4, <1>12, <1>13, <1>14, ApartCount
  <1> QED
    BY <1>1, <1>3, <1>12, <1>15 DEF S

LEMMA PendingOne ==
  ASSUME NEW D, NEW x \in D, NEW e
  PROVE  /\ <<x>> \in Seq(D)
         /\ Cardinality(Pending(<<x>>, e)) = IF x = e THEN 1 ELSE 0
         /\ Cardinality(Pending(<<>>, e)) = 0
  <1>1. <<x>> \in Seq(D) /\ Len(<<x>>) = 1 /\ <<x>>[1] = x
    OBVIOUS
  <1>2. Pending(<<x>>, e) = {i \in 1..1 : <<x>>[i] = e}
    <2>1. PICK s \in Seq(D) : s = <<x>>
      BY <1>1
    <2>2. Pending(s, e) = {i \in 1..Len(s) : s[i] = e}
      BY PendingFinite
    <2> QED
      BY <1>1, <2>1, <2>2
  <1>3. Pending(<<x>>, e) = IF x = e THEN {1} ELSE {}
    BY <1>1, <1>2
  <1>4. Pending(<<>>, e) = {}
    BY DEF Pending
  <1> QED
    BY <1>1, <1>3, <1>4, FS_EmptySet, FS_Singleton

LEMMA PendingSubs ==
  ASSUME NEW its, WellArray(its), NEW e
  PROVE  /\ SubDicts(its) \in Seq(DictIds \cup {Nil})
         /\ Pending(SubDicts(its), e) = RefIndexes(its, e)
  <1>1. PICK n \in Nat : n = Len(its)
    BY ArrayBasics
  <1>2. DOMAIN its = 1..n /\ \A i \in 1..n : its[i] \in Items
    BY <1>1, ArrayBasics
  <1>3. PICK s : s = SubDicts(its)
    OBVIOUS
  <1>4. s = [i \in 1..n |-> its[i].sub]
    BY <1>2, <1>3 DEF SubDicts
  <1>5. \A i \in 1..n : its[i].sub \in DictIds \cup {Nil}
    BY <1>2 DEF Items
  <1>6. s \in [1..n -> DictIds \cup {Nil}]
    BY <1>4, <1>5
  <1>7. s \in Seq(DictIds \cup {Nil})
    BY <1>6
  <1>8. Pending(s, e) = RefIndexes(its, e)
    BY <1>1, <1>4 DEF Pending, RefIndexes
  <1> QED
    BY <1>3, <1>7, <1>8

---------------------------------------------------------------------------
(* The owners of the cells in use.                                         *)
Owning(its, pl, cs) ==
    /\ \A d, e \in DictIds : d # e => ArrayCells(its[d]) \cap ArrayCells(its[e]) = {}
    /\ \A d \in DictIds : ArrayCells(its[d]) \cap OwnedCells(pl) = {}
    /\ cs = OwnedCells(pl) \cup UNION {ArrayCells(its[d]) : d \in DictIds}

LEMMA OwningChanges ==
  ASSUME NEW its, Arrays(its), NEW pl, NEW cs, Owning(its, pl, cs), NEW d \in DictIds,
         NEW arr, WellArray(arr), NEW new, IsArraySet(new, its, d, arr),
         NEW cs2, cs2 = (cs \ ArrayCells(its[d])) \cup ArrayCells(arr),
         ArrayCells(arr) \cap (cs \ ArrayCells(its[d])) = {}
  PROVE  Owning(new, pl, cs2)
  <1>1. new[d] = arr /\ \A x \in DictIds : x # d => new[x] = its[x]
    BY DEF IsArraySet, Arrays
  <1>2. \A x \in DictIds : ArrayCells(its[x]) \subseteq cs
    BY DEF Owning
  <1>3. OwnedCells(pl) \subseteq cs
    BY DEF Owning
  <1>4. \A x, y \in DictIds : x # y => ArrayCells(its[x]) \cap ArrayCells(its[y]) = {}
    BY DEF Owning
  <1>5. \A x \in DictIds : ArrayCells(its[x]) \cap OwnedCells(pl) = {}
    BY DEF Owning
  <1>6. \A x \in DictIds : x # d => ArrayCells(its[x]) \cap ArrayCells(arr) = {}
    BY <1>2, <1>4
  <1>7. OwnedCells(pl) \cap ArrayCells(arr) = {}
    BY <1>3, <1>5
  <1>8. ASSUME NEW x \in DictIds, NEW y \in DictIds, x # y
        PROVE  ArrayCells(new[x]) \cap ArrayCells(new[y]) = {}
    <2>1. CASE x = d
      <3>1. new[x] = arr /\ new[y] = its[y] /\ y # d
        BY <1>1, <1>8, <2>1
      <3> QED
        BY <1>6, <3>1
    <2>2. CASE y = d
      <3>1. new[y] = arr /\ new[x] = its[x] /\ x # d
        BY <1>1, <1>8, <2>2
      <3> QED
        BY <1>6, <3>1
    <2>3. CASE x # d /\ y # d
      BY <1>1, <1>4, <1>8, <2>3
    <2> QED
      BY <2>1, <2>2, <2>3
  <1>9. ASSUME NEW x \in DictIds PROVE ArrayCells(new[x]) \cap OwnedCells(pl) = {}
    BY <1>1, <1>5, <1>7
  <1>10. cs2 = OwnedCells(pl) \cup UNION {ArrayCells(new[x]) : x \in DictIds}
    <2>1. ASSUME NEW c \in cs2 PROVE c \in OwnedCells(pl) \/ \E x \in DictIds : c \in ArrayCells(new[x])
      <3>1. CASE c \in ArrayCells(arr)
        BY <1>1, <3>1
      <3>2. CASE c \in cs /\ c \notin ArrayCells(its[d])
        <4>1. c \in OwnedCells(pl) \/ \E x \in DictIds : c \in ArrayCells(its[x])
          BY <3>2 DEF Owning
        <4> QED
          BY <1>1, <3>2, <4>1
      <3> QED
        BY <3>1, <3>2
    <2>2. OwnedCells(pl) \subseteq cs2
      BY <1>3, <1>5
    <2>3. ASSUME NEW x \in DictIds PROVE ArrayCells(new[x]) \subseteq cs2
      <3>1. CASE x = d
        BY <1>1, <3>1
      <3>2. CASE x # d
        <4>1. new[x] = its[x] /\ ArrayCells(its[x]) \cap ArrayCells(its[d]) = {}
          BY <1>1, <1>4, <3>2
        <4> QED
          BY <1>2, <4>1
      <3> QED
        BY <3>1, <3>2
    <2> QED
      BY <2>1, <2>2, <2>3
  <1> QED
    BY <1>8, <1>9, <1>10 DEF Owning

LEMMA OwningPayload ==
  ASSUME NEW its, NEW pl, NEW cs, Owning(its, pl, cs), NEW new,
         OwnedCells(new) \cap (cs \ OwnedCells(pl)) = {},
         NEW cs2, cs2 = (cs \ OwnedCells(pl)) \cup OwnedCells(new)
  PROVE  Owning(its, new, cs2) /\ OwnedCells(pl) \subseteq cs
  <1>1. /\ \A d \in DictIds : ArrayCells(its[d]) \subseteq cs
        /\ OwnedCells(pl) \subseteq cs
        /\ \A d \in DictIds : ArrayCells(its[d]) \cap OwnedCells(pl) = {}
    BY DEF Owning
  <1>2. \A d \in DictIds : ArrayCells(its[d]) \cap OwnedCells(new) = {}
    BY <1>1
  <1>3. cs2 = OwnedCells(new) \cup UNION {ArrayCells(its[d]) : d \in DictIds}
    <2>1. cs = OwnedCells(pl) \cup UNION {ArrayCells(its[d]) : d \in DictIds}
      BY DEF Owning
    <2>2. OwnedCells(pl) \cap UNION {ArrayCells(its[d]) : d \in DictIds} = {}
      BY <1>1
    <2> QED
      BY <2>1, <2>2
  <1> QED
    BY <1>1, <1>2, <1>3 DEF Owning

LEMMA OwnedAreInUse ==
  ASSUME NEW its, NEW pl, NEW cs, Owning(its, pl, cs)
  PROVE  OwnedCells(pl) \subseteq cs /\ \A d \in DictIds : ArrayCells(its[d]) \subseteq cs
  BY DEF Owning

---------------------------------------------------------------------------
(* The inductive invariant.                                                *)
Counted(its, rf, hd, sub, un) ==
    \A e \in DictIds :
        rf[e] = hd[e] + Cardinality(RefsTo(its, e)) + (IF sub = e THEN 1 ELSE 0)
                    + Cardinality(Pending(un, e))

(* The dictionary that crtx_event_set_dict attached, or the one made for   *)
(* it together with the raw data: to this one the event has the only       *)
(* reference.                                                              *)
Wrapped(pl) == pl.type = "D" /\ pl.key # Nil

PayloadKept(its, rf, pl, gv) ==
    /\ pl.last = FALSE
    /\ pl.type # "D" => gv = Nil
    /\ pl.type = "D" => pl.sub \in DictIds /\ (pl.key = Nil => gv = pl.sub)
    /\ Wrapped(pl) => /\ pl.key = "crtx_dict_data"
                      /\ rf[pl.sub] = 1 /\ Len(its[pl.sub]) >= 2
                      /\ its[pl.sub][2].type = "D" /\ its[pl.sub][2].sub = gv

DictInv ==
    /\ DictTypeOK
    /\ Arrays(items)
    /\ \A d \in DictIds : refs[d] = 0 => items[d] = <<>>
    /\ Counted(items, refs, held, payload.sub, unrefs)
    /\ Owning(items, payload, cells)
    /\ WellItem(payload)
    /\ PayloadKept(items, refs, payload, given)
    /\ wild = FALSE

LEMMA EmptyArray ==
  /\ WellArray(<<>>) /\ OwnedApart(<<>>) /\ ArrayCells(<<>>) = {}
  /\ \A d : RefIndexes(<<>>, d) = {} /\ Cardinality(RefIndexes(<<>>, d)) = 0
  <1>1. <<>> \in Seq(Items) /\ Len(<<>>) = 0
    BY EmptySeq
  <1>2. \A d : RefIndexes(<<>>, d) = {}
    BY <1>1 DEF RefIndexes
  <1> QED
    BY <1>1, <1>2, FS_EmptySet DEF WellArray, OwnedApart, ArrayCells

(* The terms of the sum are numbers.                                       *)
TermsAreRight(its, rf, hd, sub, un, e) ==
    /\ rf[e] \in Nat /\ hd[e] \in Nat
    /\ Cardinality(RefsTo(its, e)) \in Nat /\ Cardinality(Pending(un, e)) \in Nat
    /\ rf[e] = hd[e] + Cardinality(RefsTo(its, e)) + (IF sub = e THEN 1 ELSE 0)
                   + Cardinality(Pending(un, e))
    /\ \A d \in DictIds : /\ Cardinality(RefIndexes(its[d], e)) \in Nat
                          /\ Cardinality(RefIndexes(its[d], e)) <= Cardinality(RefsTo(its, e))
    /\ un = <<>> => Cardinality(Pending(un, e)) = 0

LEMMA CountTerms ==
  ASSUME NEW its, Arrays(its), NEW rf \in [DictIds -> Nat], NEW hd \in [DictIds -> 0..MaxHeld],
         NEW sub, NEW un \in Seq(DictIds \cup {Nil}), Counted(its, rf, hd, sub, un),
         NEW e \in DictIds
  PROVE  TermsAreRight(its, rf, hd, sub, un, e)
  <1>1. rf[e] \in Nat /\ hd[e] \in Nat
    BY DictAssumption
  <1>2. Cardinality(RefsTo(its, e)) \in Nat /\ Cardinality(Pending(un, e)) \in Nat
    BY RefsToAre, PendingFinite
  <1>3. rf[e] = hd[e] + Cardinality(RefsTo(its, e)) + (IF sub = e THEN 1 ELSE 0)
                    + Cardinality(Pending(un, e))
    BY DEF Counted
  <1>4. ASSUME NEW d \in DictIds
        PROVE  /\ Cardinality(RefIndexes(its[d], e)) \in Nat
               /\ Cardinality(RefIndexes(its[d], e)) <= Cardinality(RefsTo(its, e))
    <2>1. PICK new : IsArraySet(new, its, d, <<>>)
      BY DEF IsArraySet
    <2>2. /\ Cardinality(RefsTo(new, e)) \in Nat /\ Cardinality(RefIndexes(its[d], e)) \in Nat
          /\ Cardinality(RefsTo(new, e)) + Cardinality(RefIndexes(its[d], e))
                = Cardinality(RefsTo(its, e)) + Cardinality(RefIndexes(<<>>, e))
      BY <2>1, EmptyArray, CountChanges
    <2>3. Cardinality(RefIndexes(<<>>, e)) = 0
      BY EmptyArray
    <2> QED
      BY <1>2, <2>2, <2>3
  <1>5. un = <<>> => Cardinality(Pending(un, e)) = 0
    BY FS_EmptySet DEF Pending
  <1> QED
    BY <1>1, <1>2, <1>3, <1>4, <1>5 DEF TermsAreRight

LEMMA DictFacts ==
  ASSUME DictInv
  PROVE  /\ Arrays(items) /\ refs \in [DictIds -> Nat] /\ held \in [DictIds -> 0..MaxHeld]
         /\ unrefs \in Seq(DictIds \cup {Nil}) /\ cells \subseteq Cells
         /\ Counted(items, refs, held, payload.sub, unrefs)
         /\ Owning(items, payload, cells) /\ WellItem(payload)
         /\ PayloadKept(items, refs, payload, given)
         /\ \A d \in DictIds : WellArray(items[d]) /\ OwnedApart(items[d])
         /\ \A d \in DictIds : refs[d] = 0 => items[d] = <<>>
         /\ wild = FALSE /\ given \in DictIds \cup {Nil}
         /\ \A e \in DictIds : TermsAreRight(items, refs, held, payload.sub, unrefs, e)
  <1>1. /\ Arrays(items) /\ refs \in [DictIds -> Nat] /\ held \in [DictIds -> 0..MaxHeld]
        /\ unrefs \in Seq(DictIds \cup {Nil}) /\ cells \subseteq Cells
        /\ Counted(items, refs, held, payload.sub, unrefs)
        /\ Owning(items, payload, cells) /\ WellItem(payload)
        /\ PayloadKept(items, refs, payload, given)
        /\ \A d \in DictIds : WellArray(items[d]) /\ OwnedApart(items[d])
        /\ \A d \in DictIds : refs[d] = 0 => items[d] = <<>>
        /\ wild = FALSE /\ given \in DictIds \cup {Nil}
    BY DEF DictInv, DictTypeOK, Arrays
  <1>2. \A e \in DictIds : TermsAreRight(items, refs, held, payload.sub, unrefs, e)
    BY <1>1, CountTerms
  <1> QED
    BY <1>1, <1>2

(* A dictionary that is not allocated is referred to by nothing, and one   *)
(* that the application holds is allocated.                                *)
LEMMA UnusedDict ==
  ASSUME DictInv, NEW d \in DictIds
  PROVE  /\ refs[d] = 0 => /\ held[d] = 0 /\ Cardinality(RefsTo(items, d)) = 0
                           /\ payload.sub # d /\ Cardinality(Pending(unrefs, d)) = 0
                           /\ items[d] = <<>>
         /\ held[d] > 0 => refs[d] > 0 /\ (Wrapped(payload) => payload.sub # d)
         /\ Wrapped(payload) /\ payload.sub = d =>
               /\ refs[d] = 1 /\ held[d] = 0 /\ Cardinality(RefsTo(items, d)) = 0
               /\ Cardinality(Pending(unrefs, d)) = 0
               /\ \A e \in DictIds : Cardinality(RefIndexes(items[e], d)) = 0
  <1>1. /\ refs[d] \in Nat /\ held[d] \in Nat
        /\ Cardinality(RefsTo(items, d)) \in Nat /\ Cardinality(Pending(unrefs, d)) \in Nat
        /\ refs[d] = held[d] + Cardinality(RefsTo(items, d)) + (IF payload.sub = d THEN 1 ELSE 0)
                        + Cardinality(Pending(unrefs, d))
        /\ \A e \in DictIds : /\ Cardinality(RefIndexes(items[e], d)) \in Nat
                              /\ Cardinality(RefIndexes(items[e], d)) <= Cardinality(RefsTo(items, d))
    BY DictFacts DEF TermsAreRight
  <1>2. refs[d] = 0 => items[d] = <<>>
    BY DEF DictInv
  <1>3. Wrapped(payload) /\ payload.sub = d => refs[d] = 1
    BY DEF DictInv, PayloadKept, Wrapped
  <1>4. PICK r, h, a, b \in Nat : /\ r = refs[d] /\ h = held[d] /\ a = Cardinality(RefsTo(items, d))
                                  /\ b = Cardinality(Pending(unrefs, d))
    BY <1>1
  <1>5. CASE payload.sub = d
    <2>1. r = h + a + 1 + b
      BY <1>1, <1>4, <1>5
    <2>2. r # 0 /\ (r = 1 => h = 0 /\ a = 0 /\ b = 0)
      BY <2>1
    <2>3. refs[d] # 0 /\ refs[d] > 0
          /\ (refs[d] = 1 => held[d] = 0 /\ Cardinality(RefsTo(items, d)) = 0
                             /\ Cardinality(Pending(unrefs, d)) = 0)
      BY <1>4, <2>2
    <2>4. Cardinality(RefsTo(items, d)) = 0 =>
             \A e \in DictIds : Cardinality(RefIndexes(items[e], d)) = 0
      BY <1>1
    <2>5. held[d] > 0 => ~Wrapped(payload)
      BY <1>1, <1>3, <1>5, <2>3
    <2> QED
      BY <1>3, <1>5, <2>3, <2>4, <2>5
  <1>6. CASE payload.sub # d
    <2>1. r = h + a + b
      BY <1>1, <1>4, <1>6
    <2>2. (r = 0 => h = 0 /\ a = 0 /\ b = 0) /\ (h > 0 => r > 0)
      BY <2>1
    <2>3. /\ refs[d] = 0 => held[d] = 0 /\ Cardinality(RefsTo(items, d)) = 0
                            /\ Cardinality(Pending(unrefs, d)) = 0
          /\ held[d] > 0 => refs[d] > 0
      BY <1>4, <2>2
    <2> QED
      BY <1>2, <1>6, <2>3
  <1> QED
    BY <1>5, <1>6

---------------------------------------------------------------------------
(* One step.                                                               *)
LEMMA DictInvEnough ==
  ASSUME NEW its, NEW rf \in [DictIds -> Nat], NEW cs \in SUBSET Cells,
         NEW hd \in [DictIds -> 0..MaxHeld], NEW un \in Seq(DictIds \cup {Nil}),
         NEW pl, NEW gv \in DictIds \cup {Nil},
         items' = its /\ refs' = rf /\ cells' = cs /\ held' = hd /\ unrefs' = un
            /\ payload' = pl /\ given' = gv /\ wild' = FALSE,
         Arrays(its), \A d \in DictIds : rf[d] = 0 => its[d] = <<>>,
         Counted(its, rf, hd, pl.sub, un), Owning(its, pl, cs), WellItem(pl),
         PayloadKept(its, rf, pl, gv)
  PROVE  DictInv'
  <1>1. its \in [DictIds -> Seq(Items)] /\ pl \in Items
    BY DEF Arrays, WellItem
  <1>2. DictTypeOK'
    BY <1>1 DEF DictTypeOK
  <1> QED
    BY <1>2 DEF DictInv

LEMMA PayloadStays ==
  ASSUME NEW its, NEW rf, NEW pl, NEW gv, PayloadKept(its, rf, pl, gv), NEW new, NEW rf2,
         Wrapped(pl) => new[pl.sub] = its[pl.sub] /\ rf2[pl.sub] = rf[pl.sub]
  PROVE  PayloadKept(new, rf2, pl, gv)
  BY DEF PayloadKept, Wrapped

LEMMA DictInitially == DictInit => DictInv
  <1> SUFFICES ASSUME DictInit PROVE DictInv
    OBVIOUS
  <1>1. /\ items = [d \in DictIds |-> <<>>] /\ refs = [d \in DictIds |-> 0] /\ cells = {}
        /\ held = [d \in DictIds |-> 0] /\ unrefs = <<>> /\ payload = FreeItem
        /\ given = Nil /\ wild = FALSE
    BY DEF DictInit
  <1>2. /\ WellItem(payload) /\ payload.type = "0" /\ payload.sub = Nil /\ payload.last = FALSE
        /\ OwnedCells(payload) = {}
    BY <1>1, FreeItemIsWell
  <1>3. \A d \in DictIds : items[d] = <<>>
    BY <1>1
  <1>4. Arrays(items)
    <2>1. items \in [DictIds -> Seq(Items)]
      BY <1>1, EmptySeq
    <2> QED
      BY <1>3, <2>1, EmptyArray DEF Arrays
  <1>5. DictTypeOK
    <2>1. held \in [DictIds -> 0..MaxHeld]
      BY <1>1, DictAssumption
    <2>2. unrefs \in Seq(DictIds \cup {Nil})
      BY <1>1, EmptySeq
    <2>3. payload \in Items
      BY <1>2 DEF WellItem
    <2>4. items \in [DictIds -> Seq(Items)]
      BY <1>4 DEF Arrays
    <2>5. refs \in [DictIds -> Nat]
      BY <1>1
    <2>6. cells \subseteq Cells
      BY <1>1
    <2>7. given \in DictIds \cup {Nil} /\ wild \in BOOLEAN
      BY <1>1
    <2> QED
      BY <2>1, <2>2, <2>3, <2>4, <2>5, <2>6, <2>7, Zenon DEF DictTypeOK
  <1>6. ASSUME NEW e \in DictIds
        PROVE  refs[e] = held[e] + Cardinality(RefsTo(items, e))
                            + (IF payload.sub = e THEN 1 ELSE 0) + Cardinality(Pending(unrefs, e))
    <2>1. RefsTo(items, e) = {}
      <3>1. \A d \in DictIds : RefIndexes(items[d], e) = {}
        BY <1>3, EmptyArray
      <3> QED
        BY <1>4, <3>1, RefsToAre
    <2>2. Pending(unrefs, e) = {}
      BY <1>1 DEF Pending
    <2>3. payload.sub # e
      BY <1>2, DictAssumption
    <2>4. Cardinality(RefsTo(items, e)) = 0 /\ Cardinality(Pending(unrefs, e)) = 0
      BY <2>1, <2>2, FS_EmptySet
    <2>5. refs[e] = 0 /\ held[e] = 0
      BY <1>1
    <2> QED
      BY <2>3, <2>4, <2>5
  <1>7. Owning(items, payload, cells)
    BY <1>1, <1>2, <1>3, EmptyArray DEF Owning
  <1>8. PayloadKept(items, refs, payload, given)
    BY <1>1, <1>2 DEF PayloadKept, Wrapped
  <1> QED
    BY <1>1, <1>2, <1>3, <1>4, <1>5, <1>6, <1>7, <1>8 DEF DictInv, Counted

LEMMA InitDictKeeps ==
  ASSUME DictInv, NEW d \in DictIds, NEW n \in 0..1, InitDict(d, n)
  PROVE  DictInv'
  <1>1. /\ unrefs = <<>> /\ refs[d] = 0
        /\ refs' = [refs EXCEPT ![d] = 1] /\ held' = [held EXCEPT ![d] = 1]
        /\ items' = [items EXCEPT ![d] = InitItems(n)]
        /\ UNCHANGED <<cells, unrefs, payload, given, wild>>
    BY DEF InitDict, Idle
  <1>2. PICK its : its = items'
    OBVIOUS
  <1>3. PICK rf : rf = refs'
    OBVIOUS
  <1>4. PICK hd : hd = held'
    OBVIOUS
  <1>5. PICK arr : arr = InitItems(n)
    OBVIOUS
  <1>6. /\ Arrays(items) /\ refs \in [DictIds -> Nat] /\ held \in [DictIds -> 0..MaxHeld]
        /\ unrefs \in Seq(DictIds \cup {Nil}) /\ cells \subseteq Cells
        /\ Owning(items, payload, cells) /\ WellItem(payload)
        /\ PayloadKept(items, refs, payload, given)
        /\ \A x \in DictIds : refs[x] = 0 => items[x] = <<>>
        /\ wild = FALSE /\ given \in DictIds \cup {Nil}
        /\ \A e \in DictIds : TermsAreRight(items, refs, held, payload.sub, unrefs, e)
    BY DictFacts
  <1>7. /\ held[d] = 0 /\ Cardinality(RefsTo(items, d)) = 0
        /\ payload.sub # d /\ Cardinality(Pending(unrefs, d)) = 0 /\ items[d] = <<>>
    BY <1>1, UnusedDict
  <1>8. /\ WellArray(arr) /\ OwnedApart(arr) /\ ArrayCells(arr) = {}
        /\ \A e \in DictIds : RefIndexes(arr, e) = {}
    BY <1>5, InitItemsAreWell
  <1>9. IsArraySet(its, items, d, arr)
    BY <1>1, <1>2, <1>5 DEF IsArraySet
  <1>10. Arrays(its) /\ \A x \in DictIds : x # d => its[x] = items[x]
    <2>1. Arrays(items) /\ WellArray(arr) /\ OwnedApart(arr)
      BY <1>6, <1>8
    <2> QED
      BY <1>9, <2>1, ArrayReplaced
  <1>11. rf \in [DictIds -> Nat] /\ hd \in [DictIds -> 0..MaxHeld]
    BY <1>1, <1>3, <1>4, <1>6, DictAssumption
  <1>12. ASSUME NEW e \in DictIds
         PROVE  rf[e] = hd[e] + Cardinality(RefsTo(its, e)) + (IF payload.sub = e THEN 1 ELSE 0)
                           + Cardinality(Pending(unrefs, e))
    <2>1. Cardinality(RefIndexes(arr, e)) = 0 /\ Cardinality(RefIndexes(items[d], e)) = 0
      BY <1>7, <1>8, EmptyArray, FS_EmptySet
    <2>2. /\ Cardinality(RefsTo(items, e)) \in Nat /\ Cardinality(RefsTo(its, e)) \in Nat
          /\ Cardinality(RefsTo(its, e)) + Cardinality(RefIndexes(items[d], e))
                = Cardinality(RefsTo(items, e)) + Cardinality(RefIndexes(arr, e))
      <3>1. Arrays(items) /\ WellArray(arr) /\ OwnedApart(arr)
        BY <1>6, <1>8
      <3> QED
        BY <1>9, <3>1, CountChanges
    <2>3. Cardinality(RefsTo(its, e)) = Cardinality(RefsTo(items, e))
      BY <2>1, <2>2
    <2>4. CASE e = d
      BY <1>1, <1>3, <1>4, <1>6, <1>7, <2>3, <2>4
    <2>5. CASE e # d
      <3>1. rf[e] = refs[e] /\ hd[e] = held[e]
        BY <1>1, <1>3, <1>4, <1>6, <2>5
      <3> QED
        BY <1>6, <2>3, <3>1 DEF TermsAreRight
    <2> QED
      BY <2>4, <2>5
  <1>13. Owning(its, payload, cells)
    <2>1. ArrayCells(items[d]) = {}
      BY <1>7, EmptyArray
    <2> QED
      BY <1>6, <1>8, <1>9, <2>1, OwningChanges
  <1>14. PayloadKept(its, rf, payload, given)
    <2>1. Wrapped(payload) => its[payload.sub] = items[payload.sub]
                                /\ rf[payload.sub] = refs[payload.sub]
      <3>1. Wrapped(payload) => payload.sub \in DictIds
        BY <1>6 DEF PayloadKept, Wrapped
      <3> QED
        BY <1>1, <1>3, <1>6, <1>7, <1>10, <3>1
    <2> QED
      BY <1>6, <2>1, PayloadStays
  <1>15. \A x \in DictIds : rf[x] = 0 => its[x] = <<>>
    BY <1>1, <1>3, <1>6, <1>10
  <1>16. Counted(its, rf, hd, payload.sub, unrefs)
    BY <1>12 DEF Counted
  <1>17. /\ items' = its /\ refs' = rf /\ cells' = cells /\ held' = hd /\ unrefs' = unrefs
         /\ payload' = payload /\ given' = given /\ wild' = FALSE
    BY <1>1, <1>2, <1>3, <1>4, <1>6
  <1> QED
    BY <1>6, <1>10, <1>11, <1>13, <1>14, <1>15, <1>16, <1>17, DictInvEnough

LEMMA NeededFinite ==
  ASSUME NEW shape
  PROVE  IsFiniteSet(CellsNeeded(shape))
  <1>1. IsFiniteSet({}) /\ IsFiniteSet({"data"}) /\ IsFiniteSet({"key"})
    BY FS_EmptySet, FS_Singleton
  <1>2. IsFiniteSet({"data"} \cup {"key"})
    BY <1>1, FS_Union
  <1>3. {"data"} \cup {"key"} = {"data", "key"}
    OBVIOUS
  <1>4. IsFiniteSet({"data", "key"})
    BY <1>2, <1>3
  <1> QED
    BY <1>1, <1>4 DEF CellsNeeded

LEMMA NewItemKeeps ==
  ASSUME DictInv, NEW d \in DictIds, NEW shape \in Shapes, NEW k \in Keys,
         NEW sub \in DictIds \cup {Nil}, NewItem(d, shape, k, sub)
  PROVE  DictInv'
  <1> DEFINE S == CellsNeeded(shape)
  <1>1. PICK c : c = Malloc(S)
    OBVIOUS
  <1>2. PICK a0 : a0 = AllocNextItem(items[d])
    OBVIOUS
  <1>3. PICK j : j = NextIndex(items[d])
    OBVIOUS
  <1>4. PICK it : it = FillItem(a0[j], shape, k, c, sub)
    OBVIOUS
  <1>5. PICK arr : arr = [a0 EXCEPT ![j] = it]
    OBVIOUS
  <1>6. PICK its : its = items'
    OBVIOUS
  <1>7. PICK hd : hd = held'
    OBVIOUS
  <1>8. PICK cs : cs = cells'
    OBVIOUS
  <1>9. /\ unrefs = <<>> /\ held[d] > 0 /\ CanAlloc(S)
        /\ cs = cells \cup {c[x] : x \in S}
        /\ UNCHANGED <<refs, unrefs, payload, given, wild>>
    BY <1>1, <1>8 DEF NewItem, Idle
  <1>10. its = [items EXCEPT ![d] = arr]
    BY <1>1, <1>2, <1>3, <1>4, <1>5, <1>6, Zenon DEF NewItem
  <1>11. /\ shape = "dict" => sub \in DictIds \ {d} /\ held[sub] > 0 /\ hd = [held EXCEPT ![sub] = @ - 1]
         /\ shape # "dict" => sub = Nil /\ hd = held
    BY <1>7 DEF NewItem
  <1>12. /\ Arrays(items) /\ refs \in [DictIds -> Nat] /\ held \in [DictIds -> 0..MaxHeld]
         /\ unrefs \in Seq(DictIds \cup {Nil}) /\ cells \subseteq Cells
         /\ Owning(items, payload, cells) /\ WellItem(payload)
         /\ PayloadKept(items, refs, payload, given)
         /\ WellArray(items[d]) /\ OwnedApart(items[d])
         /\ \A x \in DictIds : refs[x] = 0 => items[x] = <<>>
         /\ wild = FALSE /\ given \in DictIds \cup {Nil}
         /\ \A e \in DictIds : TermsAreRight(items, refs, held, payload.sub, unrefs, e)
    BY DictFacts
  <1>13. c \in [S -> Cells \ cells]
    BY <1>1, <1>9, NeededFinite, MallocIsFresh
  <1>14. /\ WellArray(a0) /\ OwnedApart(a0) /\ j \in 1..Len(a0) /\ a0[j].type = "0"
         /\ ArrayCells(a0) = ArrayCells(items[d])
         /\ \A e \in DictIds : RefIndexes(a0, e) = RefIndexes(items[d], e)
    BY <1>2, <1>3, <1>12, NextItemIsFree
  <1>15. WellItem(a0[j]) /\ FitsAt(a0[j], j, a0)
    BY <1>14 DEF WellArray, FitsAt
  <1>16. shape = "dict" <=> sub # Nil
    BY <1>11, DictAssumption
  <1>17. WellItem(it) /\ it.sub = sub /\ OwnedCells(it) = {c[x] : x \in S} /\ FitsAt(it, j, a0)
    <2>1. shape \in {"badsize", "number", "keycopy", "static", "buffer", "pointer", "dict"}
      BY DictAssumption
    <2>2. k \in Keys \cup PayloadKeys
      OBVIOUS
    <2>3. \A x \in CellsNeeded(shape) : c[x] \in Cells
      BY <1>13
    <2> QED
      BY <1>4, <1>14, <1>15, <1>16, <2>1, <2>2, <2>3, FilledItem
  <1>18. OwnedCells(it) \cap cells = {} /\ OwnedCells(it) \subseteq Cells
    BY <1>13, <1>17
  <1>19. ArrayCells(items[d]) \subseteq cells
    BY <1>12, OwnedAreInUse
  <1>20. /\ WellArray(arr) /\ OwnedApart(arr)
         /\ ArrayCells(arr) = ArrayCells(items[d]) \cup OwnedCells(it)
         /\ \A e \in DictIds : /\ j \notin RefIndexes(items[d], e)
                               /\ RefIndexes(arr, e) = IF sub = e THEN RefIndexes(items[d], e) \cup {j}
                                                       ELSE RefIndexes(items[d], e)
    <2>1. IsSet(arr, a0, j, it)
      BY <1>5 DEF IsSet
    <2>2. OwnedCells(it) \cap ArrayCells(a0) = {}
      BY <1>14, <1>18, <1>19
    <2>3. a0[j].sub = Nil /\ OwnedCells(a0[j]) = {}
      BY <1>14, <1>15, BlankItem
    <2> QED
      BY <1>14, <1>17, <2>1, <2>2, <2>3, ItemIsFilled
  <1>21. IsArraySet(its, items, d, arr)
    BY <1>10 DEF IsArraySet
  <1>22. Arrays(its) /\ \A x \in DictIds : x # d => its[x] = items[x]
    <2>1. Arrays(items) /\ WellArray(arr) /\ OwnedApart(arr)
      BY <1>12, <1>20
    <2> QED
      BY <1>21, <2>1, ArrayReplaced
  <1>23. hd \in [DictIds -> 0..MaxHeld]
    <2>1. CASE shape = "dict"
      <3>1. held[sub] \in 0..MaxHeld /\ held[sub] > 0 /\ MaxHeld \in Nat
        BY <1>11, <1>12, <2>1, DictAssumption
      <3>2. held[sub] - 1 \in 0..MaxHeld
        BY <3>1
      <3> QED
        BY <1>11, <1>12, <2>1, <3>2
    <2>2. CASE shape # "dict"
      BY <1>11, <1>12, <2>2
    <2> QED
      BY <2>1, <2>2
  <1>24. ASSUME NEW e \in DictIds
         PROVE  refs[e] = hd[e] + Cardinality(RefsTo(its, e)) + (IF payload.sub = e THEN 1 ELSE 0)
                            + Cardinality(Pending(unrefs, e))
    <2>1. /\ Cardinality(RefsTo(items, e)) \in Nat /\ Cardinality(RefsTo(its, e)) \in Nat
          /\ Cardinality(RefIndexes(arr, e)) \in Nat /\ Cardinality(RefIndexes(items[d], e)) \in Nat
          /\ Cardinality(RefsTo(its, e)) + Cardinality(RefIndexes(items[d], e))
                = Cardinality(RefsTo(items, e)) + Cardinality(RefIndexes(arr, e))
      <3>1. Arrays(items) /\ WellArray(arr) /\ OwnedApart(arr)
        BY <1>12, <1>20
      <3> QED
        BY <1>21, <3>1, CountChanges
    <2>2. /\ held[e] \in Nat /\ Cardinality(Pending(unrefs, e)) \in Nat
          /\ refs[e] = held[e] + Cardinality(RefsTo(items, e)) + (IF payload.sub = e THEN 1 ELSE 0)
                         + Cardinality(Pending(unrefs, e))
      BY <1>12 DEF TermsAreRight
    <2>3. CASE sub = e
      <3>1. Cardinality(RefIndexes(arr, e)) = Cardinality(RefIndexes(items[d], e)) + 1
        <4>1. PICK S0 : S0 = RefIndexes(items[d], e)
          OBVIOUS
        <4>2. IsFiniteSet(S0)
          BY <1>12, <4>1, RefIndexesFinite
        <4>3. j \notin S0 /\ RefIndexes(arr, e) = S0 \cup {j}
          BY <1>20, <2>3, <4>1
        <4>4. Cardinality(S0 \cup {j}) = Cardinality(S0) + 1
          BY <4>2, <4>3, FS_AddElement
        <4> QED
          BY <4>1, <4>3, <4>4
      <3>2. Cardinality(RefsTo(its, e)) = Cardinality(RefsTo(items, e)) + 1
        BY <2>1, <3>1
      <3>3. hd[e] = held[e] - 1
        BY <1>11, <1>12, <1>16, <2>3, DictAssumption
      <3> QED
        BY <2>1, <2>2, <3>2, <3>3
    <2>4. CASE sub # e
      <3>1. Cardinality(RefsTo(its, e)) = Cardinality(RefsTo(items, e))
        BY <1>20, <2>1, <2>4
      <3>2. hd[e] = held[e]
        BY <1>11, <1>12, <2>4
      <3> QED
        BY <2>2, <3>1, <3>2
    <2> QED
      BY <2>3, <2>4
  <1>25. Owning(its, payload, cs) /\ cs \in SUBSET Cells
    <2>1. cs = (cells \ ArrayCells(items[d])) \cup ArrayCells(arr)
      BY <1>9, <1>17, <1>19, <1>20
    <2>2. ArrayCells(arr) \cap (cells \ ArrayCells(items[d])) = {}
      BY <1>18, <1>20
    <2>3. cs \in SUBSET Cells
      BY <1>9, <1>12, <1>17, <1>18
    <2> QED
      BY <1>12, <1>20, <1>21, <2>1, <2>2, <2>3, OwningChanges
  <1>26. PayloadKept(its, refs, payload, given)
    <2>1. Wrapped(payload) => payload.sub \in DictIds /\ payload.sub # d
      BY <1>9, <1>12, UnusedDict DEF PayloadKept, Wrapped
    <2>2. Wrapped(payload) => its[payload.sub] = items[payload.sub]
      BY <1>22, <2>1
    <2> QED
      BY <1>12, <2>2, PayloadStays
  <1>27. \A x \in DictIds : refs[x] = 0 => its[x] = <<>>
    <2>1. refs[d] # 0
      BY <1>9, UnusedDict
    <2> QED
      BY <1>12, <1>22, <2>1
  <1>28. Counted(its, refs, hd, payload.sub, unrefs)
    BY <1>24 DEF Counted
  <1>29. /\ items' = its /\ refs' = refs /\ cells' = cs /\ held' = hd /\ unrefs' = unrefs
         /\ payload' = payload /\ given' = given /\ wild' = FALSE
    BY <1>6, <1>7, <1>8, <1>9, <1>12
  <1> QED
    BY <1>12, <1>22, <1>23, <1>25, <1>26, <1>27, <1>28, <1>29, DictInvEnough

LEMMA RemoveItemKeeps ==
  ASSUME DictInv, NEW d \in DictIds, NEW k \in Keys, RemoveItem(d, k)
  PROVE  DictInv'
  <1>1. PICK j : j = GetItem(items[d], k)
    OBVIOUS
  <1>2. PICK it : it = items[d][j]
    OBVIOUS
  <1>3. PICK arr : arr = [items[d] EXCEPT ![j] = FreeItem]
    OBVIOUS
  <1>4. PICK its : its = items'
    OBVIOUS
  <1>5. PICK cs : cs = cells'
    OBVIOUS
  <1>6. PICK un : un = unrefs'
    OBVIOUS
  <1>7. /\ unrefs = <<>> /\ held[d] > 0 /\ j > 0 /\ cs = cells \ OwnedCells(it)
        /\ wild' = (wild \/ ~ OwnedCells(it) \subseteq cells) /\ un = <<it.sub>>
        /\ UNCHANGED <<refs, held, payload, given>>
    BY <1>1, <1>2, <1>5, <1>6 DEF RemoveItem, Idle
  <1>8. its = [items EXCEPT ![d] = arr]
    BY <1>1, <1>3, <1>4 DEF RemoveItem
  <1>9. /\ Arrays(items) /\ refs \in [DictIds -> Nat] /\ held \in [DictIds -> 0..MaxHeld]
        /\ unrefs \in Seq(DictIds \cup {Nil}) /\ cells \subseteq Cells
        /\ Owning(items, payload, cells) /\ WellItem(payload)
        /\ PayloadKept(items, refs, payload, given)
        /\ WellArray(items[d]) /\ OwnedApart(items[d])
        /\ \A x \in DictIds : refs[x] = 0 => items[x] = <<>>
        /\ wild = FALSE /\ given \in DictIds \cup {Nil}
        /\ \A e \in DictIds : TermsAreRight(items, refs, held, payload.sub, unrefs, e)
    BY DictFacts
  <1>10. j \in 1..Len(items[d])
    <2> DEFINE a == items[d]
    <2>1. DOMAIN a = 1..Len(a) /\ Len(a) \in Nat
      BY <1>9, ArrayBasics
    <2>2. \E i \in DOMAIN a : a[i].key = k
      BY <1>1, <1>7 DEF GetItem
    <2>3. PICK i \in {x \in DOMAIN a : a[x].key = k} :
                 \A y \in {x \in DOMAIN a : a[x].key = k} : i <= y
      <3>1. {x \in DOMAIN a : a[x].key = k} \subseteq Nat
        BY <2>1
      <3>2. {x \in DOMAIN a : a[x].key = k} # {}
        BY <2>2
      <3> QED
        BY <3>1, <3>2, LeastOf
    <2>4. \A y \in 1..(i - 1) : a[y].key # k
      <3>1. SUFFICES ASSUME NEW y \in 1..(i - 1) PROVE a[y].key # k
        OBVIOUS
      <3>2. i \in 1..Len(a)
        BY <2>1
      <3>3. y \in 1..Len(a) /\ ~(i <= y)
        BY <2>1, <3>2
      <3> QED
        BY <2>1, <2>3, <3>3
    <2>5. j = CHOOSE x \in DOMAIN a : a[x].key = k /\ \A y \in 1..(x - 1) : a[y].key # k
      BY <1>1, <2>2 DEF GetItem
    <2>6. j \in DOMAIN a
      BY <2>3, <2>4, <2>5
    <2> QED
      BY <2>1, <2>6
  <1>11. it.sub \in DictIds \cup {Nil}
    BY <1>2, <1>9, <1>10, ArrayBasics DEF Items
  <1>12. /\ WellArray(arr) /\ OwnedApart(arr)
         /\ ArrayCells(arr) = ArrayCells(items[d]) \ OwnedCells(it)
         /\ OwnedCells(it) \subseteq ArrayCells(items[d])
         /\ \A e \in DictIds : /\ RefIndexes(arr, e) = RefIndexes(items[d], e) \ {j}
                               /\ j \in RefIndexes(items[d], e) <=> it.sub = e
    <2>1. IsSet(arr, items[d], j, FreeItem)
      BY <1>3 DEF IsSet
    <2> QED
      BY <1>2, <1>9, <1>10, <2>1, ItemIsCleared
  <1>13. IsArraySet(its, items, d, arr)
    BY <1>8 DEF IsArraySet
  <1>14. Arrays(its) /\ \A x \in DictIds : x # d => its[x] = items[x]
    <2>1. Arrays(items) /\ WellArray(arr) /\ OwnedApart(arr)
      BY <1>9, <1>12
    <2> QED
      BY <1>13, <2>1, ArrayReplaced
  <1>15. ArrayCells(items[d]) \subseteq cells
    BY <1>9, OwnedAreInUse
  <1>16. wild' = FALSE
    BY <1>7, <1>9, <1>12, <1>15
  <1>17. un \in Seq(DictIds \cup {Nil})
    BY <1>7, <1>11
  <1>18. ASSUME NEW e \in DictIds
         PROVE  refs[e] = held[e] + Cardinality(RefsTo(its, e)) + (IF payload.sub = e THEN 1 ELSE 0)
                            + Cardinality(Pending(un, e))
    <2>1. /\ Cardinality(RefsTo(items, e)) \in Nat /\ Cardinality(RefsTo(its, e)) \in Nat
          /\ Cardinality(RefIndexes(arr, e)) \in Nat /\ Cardinality(RefIndexes(items[d], e)) \in Nat
          /\ Cardinality(RefsTo(its, e)) + Cardinality(RefIndexes(items[d], e))
                = Cardinality(RefsTo(items, e)) + Cardinality(RefIndexes(arr, e))
      <3>1. Arrays(items) /\ WellArray(arr) /\ OwnedApart(arr)
        BY <1>9, <1>12
      <3> QED
        BY <1>13, <3>1, CountChanges
    <2>2. /\ held[e] \in Nat /\ Cardinality(Pending(unrefs, e)) = 0
          /\ refs[e] = held[e] + Cardinality(RefsTo(items, e)) + (IF payload.sub = e THEN 1 ELSE 0)
                         + Cardinality(Pending(unrefs, e))
      BY <1>7, <1>9 DEF TermsAreRight
    <2>3. Cardinality(Pending(un, e)) = IF it.sub = e THEN 1 ELSE 0
      BY <1>7, <1>11, PendingOne
    <2>4. Cardinality(RefIndexes(arr, e)) = IF it.sub = e THEN Cardinality(RefIndexes(items[d], e)) - 1
                                            ELSE Cardinality(RefIndexes(items[d], e))
      <3>1. PICK S0 : S0 = RefIndexes(items[d], e)
        OBVIOUS
      <3>2. IsFiniteSet(S0)
        BY <1>9, <3>1, RefIndexesFinite
      <3>3. RefIndexes(arr, e) = S0 \ {j} /\ (j \in S0 <=> it.sub = e)
        BY <1>12, <3>1
      <3>4. Cardinality(S0 \ {j}) = IF j \in S0 THEN Cardinality(S0) - 1 ELSE Cardinality(S0)
        BY <3>2, FS_RemoveElement
      <3> QED
        BY <3>1, <3>3, <3>4
    <2>5. CASE it.sub = e
      <3>1. Cardinality(RefsTo(items, e)) = Cardinality(RefsTo(its, e)) + 1
        BY <2>1, <2>4, <2>5
      <3> QED
        BY <2>1, <2>2, <2>3, <2>5, <3>1
    <2>6. CASE it.sub # e
      <3>1. Cardinality(RefsTo(items, e)) = Cardinality(RefsTo(its, e))
        BY <2>1, <2>4, <2>6
      <3> QED
        BY <2>1, <2>2, <2>3, <2>6, <3>1
    <2> QED
      BY <2>5, <2>6
  <1>19. Owning(its, payload, cs) /\ cs \in SUBSET Cells
    <2>1. cs = (cells \ ArrayCells(items[d])) \cup ArrayCells(arr)
      BY <1>7, <1>12, <1>15
    <2>2. ArrayCells(arr) \cap (cells \ ArrayCells(items[d])) = {}
      BY <1>12
    <2>3. cs \in SUBSET Cells
      BY <1>7, <1>9
    <2>4. Arrays(items) /\ Owning(items, payload, cells) /\ WellArray(arr)
      BY <1>9, <1>12
    <2> QED
      BY <1>13, <2>1, <2>2, <2>3, <2>4, OwningChanges
  <1>20. PayloadKept(its, refs, payload, given)
    <2>1. Wrapped(payload) => payload.sub \in DictIds /\ payload.sub # d
      BY <1>7, <1>9, UnusedDict DEF PayloadKept, Wrapped
    <2>2. Wrapped(payload) => its[payload.sub] = items[payload.sub]
      BY <1>14, <2>1
    <2> QED
      BY <1>9, <2>2, PayloadStays
  <1>21. \A x \in DictIds : refs[x] = 0 => its[x] = <<>>
    <2>1. refs[d] # 0
      BY <1>7, UnusedDict
    <2> QED
      BY <1>9, <1>14, <2>1
  <1>22. Counted(its, refs, held, payload.sub, un)
    BY <1>18 DEF Counted
  <1>23. /\ items' = its /\ refs' = refs /\ cells' = cs /\ held' = held /\ unrefs' = un
         /\ payload' = payload /\ given' = given
    BY <1>4, <1>5, <1>6, <1>7
  <1> QED
    BY <1>9, <1>14, <1>16, <1>17, <1>19, <1>20, <1>21, <1>22, <1>23, DictInvEnough

LEMMA ToCopyFinite ==
  ASSUME NEW its, WellArray(its), Sized(its)
  PROVE  IsFiniteSet(CellsToCopy(its))
  <1>1. PICK n \in Nat : n = Len(its)
    BY ArrayBasics
  <1>2. IsFiniteSet({"data"}) /\ IsFiniteSet({"key"})
    BY FS_Singleton
  <1>3. IsFiniteSet({"data"} \cup {"key"})
    BY <1>2, FS_Union
  <1>4. IsFiniteSet((1..n) \X ({"data"} \cup {"key"}))
    <2>1. IsFiniteSet(1..n)
      BY FS_Interval
    <2> QED
      BY <1>3, <2>1, FS_Product
  <1>5. CopiedIndexes(its) \subseteq 1..n
    BY <1>1, CopyPlacesDiffer
  <1>6. CellsToCopy(its) \in SUBSET ((1..n) \X ({"data"} \cup {"key"}))
    BY <1>5 DEF CellsToCopy
  <1> QED
    BY <1>4, <1>6, FS_Subset

LEMMA CreateCopyKeeps ==
  ASSUME Misuses = {}, DictInv, NEW d \in DictIds, NEW u \in DictIds, CreateCopy(d, u)
  PROVE  DictInv'
  <1> DEFINE S == CellsToCopy(items[d])
  <1>1. PICK c : c = Malloc(S)
    OBVIOUS
  <1>2. PICK arr : arr = CopiedItems(items[d], c)
    OBVIOUS
  <1>3. PICK its : its = items'
    OBVIOUS
  <1>4. PICK rf : rf = refs'
    OBVIOUS
  <1>5. PICK hd : hd = held'
    OBVIOUS
  <1>6. PICK cs : cs = cells'
    OBVIOUS
  <1>7. /\ unrefs = <<>> /\ held[d] > 0 /\ refs[u] = 0 /\ CanAlloc(S)
        /\ its = [items EXCEPT ![u] = arr] /\ cs = cells \cup {c[x] : x \in S}
        /\ rf = [e \in DictIds |-> IF e = u THEN 1 ELSE refs[e] + CopyRefs(items[d], e)]
        /\ hd = [held EXCEPT ![u] = 1]
        /\ UNCHANGED <<unrefs, payload, given, wild>>
    BY <1>1, <1>2, <1>3, <1>4, <1>5, <1>6, Zenon DEF CreateCopy, Idle
  <1>8. /\ Arrays(items) /\ refs \in [DictIds -> Nat] /\ held \in [DictIds -> 0..MaxHeld]
        /\ unrefs \in Seq(DictIds \cup {Nil}) /\ cells \subseteq Cells
        /\ Owning(items, payload, cells) /\ WellItem(payload)
        /\ PayloadKept(items, refs, payload, given)
        /\ \A x \in DictIds : WellArray(items[x]) /\ OwnedApart(items[x])
        /\ \A x \in DictIds : refs[x] = 0 => items[x] = <<>>
        /\ wild = FALSE /\ given \in DictIds \cup {Nil}
        /\ \A e \in DictIds : TermsAreRight(items, refs, held, payload.sub, unrefs, e)
    BY DictFacts
  <1>9. /\ held[u] = 0 /\ Cardinality(RefsTo(items, u)) = 0
        /\ payload.sub # u /\ Cardinality(Pending(unrefs, u)) = 0 /\ items[u] = <<>>
    BY <1>7, UnusedDict
  <1>9a. Sized(items[d])
    <2>1. ~ \E i \in DOMAIN items[d] : items[d][i].type = "P"
      BY DEF CreateCopy
    <2>2. DOMAIN items[d] = 1..Len(items[d])
      BY <1>8, ArrayBasics
    <2> QED
      BY <2>1, <2>2 DEF Sized
  <1>10. c \in [S -> Cells \ cells] /\ \A x, y \in S : c[x] = c[y] => x = y
    BY <1>1, <1>7, <1>8, <1>9a, ToCopyFinite, MallocIsFresh
  <1>11. /\ WellArray(arr) /\ OwnedApart(arr) /\ ArrayCells(arr) = {c[x] : x \in S}
         /\ \A e \in DictIds : Cardinality(RefIndexes(arr, e)) = Cardinality(RefIndexes(items[d], e))
    <2>1. PICK F \in SUBSET Cells : F = Cells \ cells
      OBVIOUS
    <2>2. PICK a : a = items[d]
      OBVIOUS
    <2>3. WellArray(a) /\ c \in [CellsToCopy(a) -> F] /\ arr = CopiedItems(a, c)
      BY <1>2, <1>8, <1>10, <2>1, <2>2
    <2>4. \A x, y \in CellsToCopy(a) : c[x] = c[y] => x = y
      BY <1>10, <2>2
    <2>5. /\ WellArray(arr) /\ OwnedApart(arr) /\ ArrayCells(arr) = {c[x] : x \in CellsToCopy(a)}
          /\ \A e \in DictIds : Cardinality(RefIndexes(arr, e)) = Cardinality(RefIndexes(a, e))
      BY <1>9a, <2>2, <2>3, <2>4, CopyIsRight
    <2> QED
      BY <2>2, <2>5
  <1>12. ASSUME NEW e \in DictIds
         PROVE  /\ CopyRefs(items[d], e) = Cardinality(RefIndexes(items[d], e))
                /\ CopyRefs(items[d], e) \in Nat
    <2>1. IterEnd(items[d]) = Len(items[d])
      BY <1>8, LoopEnds
    <2>2. CopyRefs(items[d], e) = Cardinality(RefIndexes(items[d], e))
      BY <2>1 DEF CopyRefs, RefIndexes
    <2> QED
      BY <1>8, <2>2, RefIndexesFinite
  <1>13. IsArraySet(its, items, u, arr)
    BY <1>7 DEF IsArraySet
  <1>14. Arrays(its) /\ \A x \in DictIds : x # u => its[x] = items[x]
    <2>1. Arrays(items) /\ WellArray(arr) /\ OwnedApart(arr)
      BY <1>8, <1>11
    <2> QED
      BY <1>13, <2>1, ArrayReplaced
  <1>15. rf \in [DictIds -> Nat] /\ hd \in [DictIds -> 0..MaxHeld]
    <2>1. ASSUME NEW e \in DictIds PROVE (IF e = u THEN 1 ELSE refs[e] + CopyRefs(items[d], e)) \in Nat
      BY <1>8, <1>12
    <2>2. 1 \in 0..MaxHeld
      BY DictAssumption
    <2> QED
      BY <1>7, <1>8, <2>1, <2>2
  <1>16. ASSUME NEW e \in DictIds
         PROVE  rf[e] = hd[e] + Cardinality(RefsTo(its, e)) + (IF payload.sub = e THEN 1 ELSE 0)
                          + Cardinality(Pending(unrefs, e))
    <2>1. /\ Cardinality(RefsTo(items, e)) \in Nat /\ Cardinality(RefsTo(its, e)) \in Nat
          /\ Cardinality(RefsTo(its, e)) + Cardinality(RefIndexes(items[u], e))
                = Cardinality(RefsTo(items, e)) + Cardinality(RefIndexes(arr, e))
      <3>1. Arrays(items) /\ WellArray(arr) /\ OwnedApart(arr)
        BY <1>8, <1>11
      <3> QED
        BY <1>13, <3>1, CountChanges
    <2>2. Cardinality(RefIndexes(items[u], e)) = 0
      BY <1>9, EmptyArray
    <2>3. Cardinality(RefsTo(its, e)) = Cardinality(RefsTo(items, e)) + CopyRefs(items[d], e)
      BY <1>11, <1>12, <2>1, <2>2
    <2>4. /\ refs[e] \in Nat /\ held[e] \in Nat /\ Cardinality(Pending(unrefs, e)) \in Nat
          /\ refs[e] = held[e] + Cardinality(RefsTo(items, e)) + (IF payload.sub = e THEN 1 ELSE 0)
                         + Cardinality(Pending(unrefs, e))
          /\ Cardinality(RefIndexes(items[d], e)) <= Cardinality(RefsTo(items, e))
      BY <1>8 DEF TermsAreRight
    <2>5. CASE e = u
      <3>1. CopyRefs(items[d], e) = 0
        BY <1>9, <1>12, <2>4, <2>5
      <3>2. rf[e] = 1 /\ hd[e] = 1
        BY <1>7, <1>8, <2>5
      <3> QED
        BY <1>9, <2>3, <2>5, <3>1, <3>2
    <2>6. CASE e # u
      <3>1. rf[e] = refs[e] + CopyRefs(items[d], e) /\ hd[e] = held[e]
        BY <1>7, <1>8, <2>6
      <3>2. CopyRefs(items[d], e) \in Nat
        BY <1>12
      <3> QED
        BY <2>1, <2>3, <2>4, <3>1, <3>2
    <2> QED
      BY <2>5, <2>6
  <1>17. Owning(its, payload, cs) /\ cs \in SUBSET Cells
    <2>1. ArrayCells(items[u]) = {}
      BY <1>9, EmptyArray
    <2>2. ArrayCells(arr) \subseteq Cells \ cells
      BY <1>10, <1>11
    <2>3. cs = (cells \ ArrayCells(items[u])) \cup ArrayCells(arr)
      BY <1>7, <1>11, <2>1
    <2>4. ArrayCells(arr) \cap (cells \ ArrayCells(items[u])) = {}
      BY <2>2
    <2>5. cs \in SUBSET Cells
      BY <1>8, <2>2, <2>3
    <2>6. Arrays(items) /\ Owning(items, payload, cells) /\ WellArray(arr)
      BY <1>8, <1>11
    <2> QED
      BY <1>13, <2>3, <2>4, <2>5, <2>6, OwningChanges
  <1>18. PayloadKept(its, rf, payload, given)
    <2>1. SUFFICES ASSUME Wrapped(payload)
                   PROVE  its[payload.sub] = items[payload.sub] /\ rf[payload.sub] = refs[payload.sub]
      BY <1>8, PayloadStays
    <2>2. PICK s \in DictIds : s = payload.sub
      BY <1>8, <2>1 DEF PayloadKept, Wrapped
    <2>3. s # u /\ Cardinality(RefIndexes(items[d], s)) = 0
      BY <1>9, <2>1, <2>2, UnusedDict
    <2>4. rf[s] = refs[s] + 0
      BY <1>7, <1>12, <2>3
    <2>5. rf[s] = refs[s]
      BY <1>8, <2>4
    <2> QED
      BY <1>14, <2>2, <2>3, <2>5
  <1>19. ASSUME NEW x \in DictIds, rf[x] = 0 PROVE its[x] = <<>>
    <2>1. x # u /\ refs[x] + CopyRefs(items[d], x) = 0
      BY <1>7, <1>19
    <2>2. refs[x] = 0
      BY <1>8, <1>12, <2>1
    <2> QED
      BY <1>8, <1>14, <2>1, <2>2
  <1>20. Counted(its, rf, hd, payload.sub, unrefs)
    BY <1>16 DEF Counted
  <1>21. /\ items' = its /\ refs' = rf /\ cells' = cs /\ held' = hd /\ unrefs' = unrefs
         /\ payload' = payload /\ given' = given /\ wild' = FALSE
    BY <1>3, <1>4, <1>5, <1>6, <1>7, <1>8
  <1> QED
    BY <1>8, <1>14, <1>15, <1>17, <1>18, <1>19, <1>20, <1>21, DictInvEnough

LEMMA RefDictKeeps ==
  ASSUME DictInv, NEW d \in DictIds, RefDict(d)
  PROVE  DictInv'
  <1>1. PICK rf : rf = refs'
    OBVIOUS
  <1>2. PICK hd : hd = held'
    OBVIOUS
  <1>3. /\ held[d] \in 1..(MaxHeld - 1)
        /\ rf = [refs EXCEPT ![d] = @ + 1] /\ hd = [held EXCEPT ![d] = @ + 1]
        /\ UNCHANGED <<items, cells, unrefs, payload, given, wild>>
    BY <1>1, <1>2 DEF RefDict
  <1>4. /\ Arrays(items) /\ refs \in [DictIds -> Nat] /\ held \in [DictIds -> 0..MaxHeld]
        /\ unrefs \in Seq(DictIds \cup {Nil}) /\ cells \subseteq Cells
        /\ Owning(items, payload, cells) /\ WellItem(payload)
        /\ PayloadKept(items, refs, payload, given)
        /\ \A x \in DictIds : WellArray(items[x]) /\ OwnedApart(items[x])
        /\ \A x \in DictIds : refs[x] = 0 => items[x] = <<>>
        /\ wild = FALSE /\ given \in DictIds \cup {Nil}
        /\ \A e \in DictIds : TermsAreRight(items, refs, held, payload.sub, unrefs, e)
    BY DictFacts
  <1>5. held[d] > 0 /\ held[d] + 1 \in 0..MaxHeld /\ refs[d] + 1 \in Nat
    BY <1>3, <1>4, DictAssumption
  <1>6. rf \in [DictIds -> Nat] /\ hd \in [DictIds -> 0..MaxHeld]
    BY <1>3, <1>4, <1>5
  <1>7. ASSUME NEW e \in DictIds
        PROVE  rf[e] = hd[e] + Cardinality(RefsTo(items, e)) + (IF payload.sub = e THEN 1 ELSE 0)
                         + Cardinality(Pending(unrefs, e))
    <2>1. /\ refs[e] \in Nat /\ held[e] \in Nat /\ Cardinality(Pending(unrefs, e)) \in Nat
          /\ Cardinality(RefsTo(items, e)) \in Nat
          /\ refs[e] = held[e] + Cardinality(RefsTo(items, e)) + (IF payload.sub = e THEN 1 ELSE 0)
                         + Cardinality(Pending(unrefs, e))
      BY <1>4 DEF TermsAreRight
    <2>2. CASE e = d
      <3>1. rf[e] = refs[e] + 1 /\ hd[e] = held[e] + 1
        BY <1>3, <1>4, <2>2
      <3> QED
        BY <2>1, <3>1
    <2>3. CASE e # d
      <3>1. rf[e] = refs[e] /\ hd[e] = held[e]
        BY <1>3, <1>4, <2>3
      <3> QED
        BY <2>1, <3>1
    <2> QED
      BY <2>2, <2>3
  <1>8. PayloadKept(items, rf, payload, given)
    <2>1. Wrapped(payload) => payload.sub \in DictIds /\ payload.sub # d
      BY <1>4, <1>5, UnusedDict DEF PayloadKept, Wrapped
    <2>2. Wrapped(payload) => rf[payload.sub] = refs[payload.sub]
      BY <1>3, <1>4, <2>1
    <2> QED
      BY <1>4, <2>2, PayloadStays
  <1>9. ASSUME NEW x \in DictIds, rf[x] = 0 PROVE items[x] = <<>>
    <2>1. refs[x] \in Nat
      BY <1>4
    <2>2. rf[x] = IF x = d THEN refs[x] + 1 ELSE refs[x]
      BY <1>3, <1>4
    <2>3. refs[x] = 0
      BY <1>9, <2>1, <2>2
    <2> QED
      BY <1>4, <2>3
  <1>10. Counted(items, rf, hd, payload.sub, unrefs)
    BY <1>7 DEF Counted
  <1>11. /\ items' = items /\ refs' = rf /\ cells' = cells /\ held' = hd /\ unrefs' = unrefs
         /\ payload' = payload /\ given' = given /\ wild' = FALSE
    BY <1>1, <1>2, <1>3, <1>4
  <1> QED
    BY <1>4, <1>6, <1>8, <1>9, <1>10, <1>11, DictInvEnough

LEMMA UnrefDictKeeps ==
  ASSUME DictInv, NEW d \in DictIds, UnrefDict(d)
  PROVE  DictInv'
  <1>1. PICK un : un = unrefs'
    OBVIOUS
  <1>2. PICK hd : hd = held'
    OBVIOUS
  <1>3. /\ unrefs = <<>> /\ held[d] > 0 /\ hd = [held EXCEPT ![d] = @ - 1] /\ un = <<d>>
        /\ UNCHANGED <<items, refs, cells, payload, given, wild>>
    BY <1>1, <1>2 DEF UnrefDict, Idle
  <1>4. /\ Arrays(items) /\ refs \in [DictIds -> Nat] /\ held \in [DictIds -> 0..MaxHeld]
        /\ unrefs \in Seq(DictIds \cup {Nil}) /\ cells \subseteq Cells
        /\ Owning(items, payload, cells) /\ WellItem(payload)
        /\ PayloadKept(items, refs, payload, given)
        /\ \A x \in DictIds : WellArray(items[x]) /\ OwnedApart(items[x])
        /\ \A x \in DictIds : refs[x] = 0 => items[x] = <<>>
        /\ wild = FALSE /\ given \in DictIds \cup {Nil}
        /\ \A e \in DictIds : TermsAreRight(items, refs, held, payload.sub, unrefs, e)
    BY DictFacts
  <1>5. held[d] - 1 \in 0..MaxHeld
    BY <1>3, <1>4, DictAssumption
  <1>6. hd \in [DictIds -> 0..MaxHeld] /\ un \in Seq(DictIds \cup {Nil})
    BY <1>3, <1>4, <1>5
  <1>7. ASSUME NEW e \in DictIds
        PROVE  refs[e] = hd[e] + Cardinality(RefsTo(items, e)) + (IF payload.sub = e THEN 1 ELSE 0)
                           + Cardinality(Pending(un, e))
    <2>1. /\ held[e] \in Nat /\ Cardinality(Pending(unrefs, e)) = 0
          /\ Cardinality(RefsTo(items, e)) \in Nat
          /\ refs[e] = held[e] + Cardinality(RefsTo(items, e)) + (IF payload.sub = e THEN 1 ELSE 0)
                         + Cardinality(Pending(unrefs, e))
      BY <1>3, <1>4 DEF TermsAreRight
    <2>2. Cardinality(Pending(un, e)) = IF d = e THEN 1 ELSE 0
      BY <1>3, PendingOne
    <2>3. CASE e = d
      <3>1. hd[e] = held[e] - 1
        BY <1>3, <1>4, <2>3
      <3> QED
        BY <2>1, <2>2, <2>3, <3>1
    <2>4. CASE e # d
      <3>1. hd[e] = held[e]
        BY <1>3, <1>4, <2>4
      <3> QED
        BY <2>1, <2>2, <2>4, <3>1
    <2> QED
      BY <2>3, <2>4
  <1>8. Counted(items, refs, hd, payload.sub, un)
    BY <1>7 DEF Counted
  <1>9. /\ items' = items /\ refs' = refs /\ cells' = cells /\ held' = hd /\ unrefs' = un
        /\ payload' = payload /\ given' = given /\ wild' = FALSE
    BY <1>1, <1>2, <1>3, <1>4
  <1> QED
    BY <1>4, <1>6, <1>8, <1>9, DictInvEnough

LEMMA FreePayloadKeeps ==
  ASSUME DictInv, FreePayload
  PROVE  DictInv'
  <1>1. PICK un : un = unrefs'
    OBVIOUS
  <1>2. PICK cs : cs = cells'
    OBVIOUS
  <1>3. /\ unrefs = <<>> /\ cs = cells \ OwnedCells(payload)
        /\ wild' = (wild \/ ~ OwnedCells(payload) \subseteq cells)
        /\ un = <<payload.sub>> /\ payload' = FreeItem /\ given' = Nil
        /\ UNCHANGED <<items, refs, held>>
    BY <1>1, <1>2 DEF FreePayload, Idle
  <1>4. /\ Arrays(items) /\ refs \in [DictIds -> Nat] /\ held \in [DictIds -> 0..MaxHeld]
        /\ unrefs \in Seq(DictIds \cup {Nil}) /\ cells \subseteq Cells
        /\ Owning(items, payload, cells) /\ WellItem(payload)
        /\ PayloadKept(items, refs, payload, given)
        /\ \A x \in DictIds : WellArray(items[x]) /\ OwnedApart(items[x])
        /\ \A x \in DictIds : refs[x] = 0 => items[x] = <<>>
        /\ wild = FALSE /\ given \in DictIds \cup {Nil}
        /\ \A e \in DictIds : TermsAreRight(items, refs, held, payload.sub, unrefs, e)
    BY DictFacts
  <1>5. /\ WellItem(FreeItem) /\ FreeItem.type = "0" /\ FreeItem.sub = Nil
        /\ FreeItem.last = FALSE /\ OwnedCells(FreeItem) = {}
    BY FreeItemIsWell
  <1>6. payload.sub \in DictIds \cup {Nil}
    BY <1>4 DEF WellItem, Items
  <1>7. un \in Seq(DictIds \cup {Nil}) /\ cs \in SUBSET Cells
    BY <1>3, <1>4, <1>6
  <1>8. wild' = FALSE
    BY <1>3, <1>4, OwnedAreInUse
  <1>9. Owning(items, FreeItem, cs)
    <2>1. cs = (cells \ OwnedCells(payload)) \cup OwnedCells(FreeItem)
      BY <1>3, <1>5
    <2>2. OwnedCells(FreeItem) \cap (cells \ OwnedCells(payload)) = {}
      BY <1>5
    <2> QED
      BY <1>4, <2>1, <2>2, OwningPayload
  <1>10. ASSUME NEW e \in DictIds
         PROVE  refs[e] = held[e] + Cardinality(RefsTo(items, e)) + (IF FreeItem.sub = e THEN 1 ELSE 0)
                            + Cardinality(Pending(un, e))
    <2>1. /\ held[e] \in Nat /\ Cardinality(Pending(unrefs, e)) = 0
          /\ Cardinality(RefsTo(items, e)) \in Nat
          /\ refs[e] = held[e] + Cardinality(RefsTo(items, e)) + (IF payload.sub = e THEN 1 ELSE 0)
                         + Cardinality(Pending(unrefs, e))
      BY <1>3, <1>4 DEF TermsAreRight
    <2>2. Cardinality(Pending(un, e)) = IF payload.sub = e THEN 1 ELSE 0
      BY <1>3, <1>6, PendingOne
    <2>3. FreeItem.sub # e
      BY <1>5, DictAssumption
    <2> QED
      BY <2>1, <2>2, <2>3
  <1>11. PayloadKept(items, refs, FreeItem, Nil)
    BY <1>5 DEF PayloadKept, Wrapped
  <1>12. Counted(items, refs, held, FreeItem.sub, un)
    BY <1>10 DEF Counted
  <1>13. /\ items' = items /\ refs' = refs /\ cells' = cs /\ held' = held /\ unrefs' = un
         /\ payload' = FreeItem /\ given' = Nil
    BY <1>1, <1>2, <1>3
  <1>14. Nil \in DictIds \cup {Nil}
    OBVIOUS
  <1> QED
    BY <1>4, <1>5, <1>7, <1>8, <1>9, <1>11, <1>12, <1>13, <1>14, DictInvEnough

(* Raw data, a dictionary item and n free items: the dictionary that holds *)
(* both.                                                                   *)
HoldsBoth(arr, raw, it, n) ==
    /\ WellItem(raw) /\ raw.sub = Nil /\ raw.last = FALSE
    /\ WellItem(it) /\ it.type = "D" /\ n \in Nat /\ (it.last => n = 0)
    /\ arr \in Seq(Items) /\ Len(arr) = n + 2 /\ arr[1] = raw /\ arr[2] = it
    /\ \A i \in 3..(n + 2) : arr[i] = InitItems(n)[i - 2]

LEMMA WrapperArray ==
  ASSUME NEW raw, NEW it, NEW n, NEW arr, HoldsBoth(arr, raw, it, n)
  PROVE  /\ WellArray(arr) /\ OwnedApart(arr) /\ ArrayCells(arr) = OwnedCells(raw)
         /\ \A e \in DictIds : Cardinality(RefIndexes(arr, e)) = IF it.sub = e THEN 1 ELSE 0
  <1> USE DEF HoldsBoth
  <1>1. PICK init : init = InitItems(n)
    OBVIOUS
  <1>2. WellArray(init) /\ Len(init) = n /\ \A i \in 1..n : init[i].type = "0"
    BY <1>1, InitItemsAreWell
  <1>3. ASSUME NEW i \in 3..(n + 2)
        PROVE  /\ WellItem(arr[i]) /\ (arr[i].last => i = n + 2)
               /\ arr[i].sub = Nil /\ OwnedCells(arr[i]) = {}
    <2>1. i - 2 \in 1..n /\ (i - 2 = n => i = n + 2)
      OBVIOUS
    <2>2. arr[i] = init[i - 2]
      BY <1>1
    <2>3. WellItem(init[i - 2]) /\ init[i - 2].type = "0" /\ (init[i - 2].last => i - 2 = n)
      BY <1>2, <2>1 DEF WellArray
    <2> QED
      BY <2>1, <2>2, <2>3, BlankItem
  <1>4. OwnedCells(it) = {}
    BY DictAssumption DEF WellItem, OwnedCells
  <1>5. \A i \in 1..(n + 2) : i = 1 \/ i = 2 \/ i \in 3..(n + 2)
    OBVIOUS
  <1>6. 1 \in 1..(n + 2) /\ 2 \in 1..(n + 2) /\ (n = 0 => 2 = n + 2)
    OBVIOUS
  <1>7. WellArray(arr)
    <2>1. ASSUME NEW i \in 1..(n + 2) PROVE WellItem(arr[i]) /\ (arr[i].last => i = n + 2)
      BY <1>3, <1>5, <1>6
    <2> QED
      BY <2>1 DEF WellArray
  <1>8. \A i \in 1..(n + 2) : OwnedCells(arr[i]) = IF i = 1 THEN OwnedCells(raw) ELSE {}
    BY <1>3, <1>4, <1>5
  <1>9. OwnedApart(arr)
    BY <1>8 DEF OwnedApart
  <1>10. ArrayCells(arr) = OwnedCells(raw)
    BY <1>6, <1>8 DEF ArrayCells
  <1>11. ASSUME NEW e \in DictIds
         PROVE  Cardinality(RefIndexes(arr, e)) = IF it.sub = e THEN 1 ELSE 0
    <2>1. Nil # e
      BY DictAssumption
    <2>2. RefIndexes(arr, e) = IF it.sub = e THEN {2} ELSE {}
      BY <1>3, <1>5, <1>6, <2>1 DEF RefIndexes
    <2> QED
      BY <2>2, FS_EmptySet, FS_Singleton
  <1> QED
    BY <1>7, <1>9, <1>10, <1>11

(* The payload that refers to a dictionary.                                *)
LEMMA PayloadDictIsWell ==
  ASSUME NEW k \in PayloadKeys \cup {Nil}, NEW u \in DictIds \cup {Nil}
  PROVE  /\ WellItem(PayloadDict(k, u)) /\ OwnedCells(PayloadDict(k, u)) = {}
         /\ PayloadDict(k, u).type = "D" /\ PayloadDict(k, u).key = k
         /\ PayloadDict(k, u).sub = u /\ PayloadDict(k, u).last = FALSE
  <1>1. PICK pl : pl = PayloadDict(k, u)
    OBVIOUS
  <1>2. /\ pl \in Items /\ pl.type = "D" /\ pl.key = k /\ pl.sub = u
        /\ pl.kcell = Nil /\ pl.last = FALSE
    BY <1>1 DEF PayloadDict, FreeItem, Items, ItemTypes
  <1>3. WellItem(pl) /\ OwnedCells(pl) = {}
    BY <1>2, DictAssumption DEF WellItem, OwnedCells
  <1> QED
    BY <1>1, <1>2, <1>3

LEMMA WrapperPayload ==
  ASSUME NEW u \in DictIds, NEW pl, pl = PayloadDict("crtx_dict_data", u)
  PROVE  /\ WellItem(pl) /\ OwnedCells(pl) = {} /\ pl.type = "D" /\ pl.key = "crtx_dict_data"
         /\ pl.sub = u /\ pl.last = FALSE
  <1>1. /\ pl \in Items /\ pl.type = "D" /\ pl.key = "crtx_dict_data" /\ pl.sub = u
        /\ pl.kcell = Nil /\ pl.last = FALSE
    BY DEF PayloadDict, FreeItem, Items, ItemTypes, PayloadKeys
  <1>2. WellItem(pl) /\ OwnedCells(pl) = {}
    BY <1>1, DictAssumption DEF WellItem, OwnedCells
  <1> QED
    BY <1>1, <1>2

(* The one reference in an array, and that no reference is lost when gv    *)
(* takes the place of the payload.                                         *)
RefersTo(arr, gv) ==
    \A e \in DictIds : Cardinality(RefIndexes(arr, e)) = IF gv = e THEN 1 ELSE 0

Balanced(hd, gv, old, sub) ==
    \A e \in DictIds : hd[e] + (IF gv = e THEN 1 ELSE 0) = old[e] + (IF sub = e THEN 1 ELSE 0)

(* The payload moves, with other data, into a new dictionary u.            *)
LEMMA NewWrapper ==
  ASSUME DictInv, unrefs = <<>>, NEW u \in DictIds, refs[u] = 0,
         NEW gv \in DictIds \cup {Nil},
         NEW arr, WellArray(arr), OwnedApart(arr), Len(arr) >= 2,
         arr[2].type = "D", arr[2].sub = gv, RefersTo(arr, gv),
         NEW cs \in SUBSET Cells, cs = (cells \ OwnedCells(payload)) \cup ArrayCells(arr),
         ArrayCells(arr) \cap (cells \ OwnedCells(payload)) = {},
         NEW hd \in [DictIds -> 0..MaxHeld], Balanced(hd, gv, held, payload.sub),
         refs' = [refs EXCEPT ![u] = 1], items' = [items EXCEPT ![u] = arr],
         payload' = PayloadDict("crtx_dict_data", u), held' = hd, cells' = cs, given' = gv,
         UNCHANGED <<unrefs, wild>>
  PROVE  DictInv'
  <1>1. PICK pl : pl = payload'
    OBVIOUS
  <1>2. PICK its : its = items'
    OBVIOUS
  <1>3. PICK rf : rf = refs'
    OBVIOUS
  <1>4. /\ Arrays(items) /\ refs \in [DictIds -> Nat] /\ held \in [DictIds -> 0..MaxHeld]
        /\ unrefs \in Seq(DictIds \cup {Nil}) /\ cells \subseteq Cells
        /\ Owning(items, payload, cells) /\ WellItem(payload)
        /\ \A x \in DictIds : WellArray(items[x]) /\ OwnedApart(items[x])
        /\ \A x \in DictIds : refs[x] = 0 => items[x] = <<>>
        /\ wild = FALSE
        /\ \A e \in DictIds : TermsAreRight(items, refs, held, payload.sub, unrefs, e)
    BY DictFacts
  <1>5. /\ held[u] = 0 /\ Cardinality(RefsTo(items, u)) = 0 /\ payload.sub # u
        /\ Cardinality(Pending(unrefs, u)) = 0 /\ items[u] = <<>>
    BY UnusedDict
  <1>6. hd[u] = 0 /\ gv # u
    <2>1. hd[u] \in Nat
      BY DictAssumption
    <2>2. hd[u] + (IF gv = u THEN 1 ELSE 0) = 0
      BY <1>5 DEF Balanced
    <2> QED
      BY <2>1, <2>2
  <1>7. /\ WellItem(pl) /\ OwnedCells(pl) = {} /\ pl.type = "D" /\ pl.key = "crtx_dict_data"
        /\ pl.sub = u /\ pl.last = FALSE
    BY <1>1, WrapperPayload
  <1>8. IsArraySet(its, items, u, arr)
    BY <1>2 DEF IsArraySet
  <1>9. Arrays(its) /\ its[u] = arr /\ \A x \in DictIds : x # u => its[x] = items[x]
    BY <1>4, <1>8, ArrayReplaced
  <1>10. /\ rf \in [DictIds -> Nat] /\ rf[u] = 1
         /\ \A x \in DictIds : x # u => rf[x] = refs[x]
    BY <1>3, <1>4
  <1>11. ASSUME NEW e \in DictIds
         PROVE  rf[e] = hd[e] + Cardinality(RefsTo(its, e)) + (IF pl.sub = e THEN 1 ELSE 0)
                          + Cardinality(Pending(unrefs, e))
    <2>1. /\ Cardinality(RefsTo(items, e)) \in Nat /\ Cardinality(RefsTo(its, e)) \in Nat
          /\ Cardinality(RefsTo(its, e)) + Cardinality(RefIndexes(items[u], e))
                = Cardinality(RefsTo(items, e)) + Cardinality(RefIndexes(arr, e))
      <3>1. Arrays(items) /\ WellArray(arr) /\ OwnedApart(arr)
        BY <1>4
      <3> QED
        BY <1>8, <3>1, CountChanges
    <2>2. Cardinality(RefIndexes(items[u], e)) = 0
      BY <1>5, EmptyArray
    <2>3. Cardinality(RefIndexes(arr, e)) = IF gv = e THEN 1 ELSE 0
      BY DEF RefersTo
    <2>4. Cardinality(RefsTo(its, e)) = Cardinality(RefsTo(items, e)) + (IF gv = e THEN 1 ELSE 0)
      BY <2>1, <2>2, <2>3
    <2>5. /\ refs[e] \in Nat /\ held[e] \in Nat /\ Cardinality(Pending(unrefs, e)) \in Nat
          /\ refs[e] = held[e] + Cardinality(RefsTo(items, e)) + (IF payload.sub = e THEN 1 ELSE 0)
                         + Cardinality(Pending(unrefs, e))
      BY <1>4 DEF TermsAreRight
    <2>6. CASE e = u
      <3>1. Cardinality(RefsTo(its, e)) = 0
        BY <1>5, <1>6, <2>4, <2>6
      <3> QED
        BY <1>5, <1>6, <1>7, <1>10, <2>6, <3>1
    <2>7. CASE e # u
      <3>1. rf[e] = refs[e] /\ pl.sub # e
        BY <1>7, <1>10, <2>7
      <3>2. hd[e] \in Nat /\ hd[e] + (IF gv = e THEN 1 ELSE 0)
                                = held[e] + (IF payload.sub = e THEN 1 ELSE 0)
        BY DictAssumption DEF Balanced
      <3>3. PICK r, h, g, a, b, p \in Nat :
               /\ r = refs[e] /\ h = held[e] /\ a = Cardinality(RefsTo(items, e))
               /\ b = Cardinality(Pending(unrefs, e)) /\ g = (IF gv = e THEN 1 ELSE 0)
               /\ p = (IF payload.sub = e THEN 1 ELSE 0)
        <4>1. (IF gv = e THEN 1 ELSE 0) \in Nat /\ (IF payload.sub = e THEN 1 ELSE 0) \in Nat
          OBVIOUS
        <4>2. /\ refs[e] \in Nat /\ held[e] \in Nat /\ Cardinality(RefsTo(items, e)) \in Nat
              /\ Cardinality(Pending(unrefs, e)) \in Nat
          BY <2>1, <2>5
        <4> QED
          BY <4>1, <4>2, Zenon
      <3>4. r = h + a + p + b /\ Cardinality(RefsTo(its, e)) = a + g
        BY <2>4, <2>5, <3>3
      <3>5. PICK k \in Nat : k = hd[e] /\ k + g = h + p
        BY <3>2, <3>3
      <3>6. r = k + (a + g) + 0 + b
        BY <3>4, <3>5
      <3> QED
        BY <3>1, <3>3, <3>4, <3>5, <3>6
    <2> QED
      BY <2>6, <2>7
  <1>12. Owning(its, pl, cs)
    <2>1. PICK cs0 : cs0 = cells \ OwnedCells(payload)
      OBVIOUS
    <2>2. Owning(items, pl, cs0)
      <3>1. cs0 = (cells \ OwnedCells(payload)) \cup OwnedCells(pl)
        BY <1>7, <2>1
      <3>2. OwnedCells(pl) \cap (cells \ OwnedCells(payload)) = {}
        BY <1>7
      <3> QED
        BY <1>4, <3>1, <3>2, OwningPayload
    <2>3. ArrayCells(items[u]) = {}
      BY <1>5, EmptyArray
    <2>4. cs = (cs0 \ ArrayCells(items[u])) \cup ArrayCells(arr)
      BY <2>1, <2>3
    <2>5. ArrayCells(arr) \cap (cs0 \ ArrayCells(items[u])) = {}
      BY <2>1
    <2>6. Arrays(items) /\ WellArray(arr)
      BY <1>4
    <2> QED
      BY <1>8, <2>2, <2>4, <2>5, <2>6, OwningChanges
  <1>13. PayloadKept(its, rf, pl, gv)
    <2>1. pl.key # Nil
      BY <1>7, DictAssumption DEF PayloadKeys
    <2>2. Len(its[pl.sub]) >= 2 /\ its[pl.sub][2].type = "D" /\ its[pl.sub][2].sub = gv
      BY <1>7, <1>9
    <2>3. rf[pl.sub] = 1 /\ pl.sub \in DictIds
      BY <1>7, <1>10
    <2> QED
      BY <1>7, <2>1, <2>2, <2>3 DEF PayloadKept, Wrapped
  <1>14. ASSUME NEW x \in DictIds, rf[x] = 0 PROVE its[x] = <<>>
    <2>1. x # u
      BY <1>10, <1>14
    <2>2. refs[x] = 0 /\ its[x] = items[x]
      BY <1>9, <1>10, <1>14, <2>1
    <2> QED
      BY <1>4, <2>2
  <1>15. Counted(its, rf, hd, pl.sub, unrefs)
    BY <1>11 DEF Counted
  <1>16. /\ items' = its /\ refs' = rf /\ cells' = cs /\ held' = hd /\ unrefs' = unrefs
         /\ payload' = pl /\ given' = gv /\ wild' = FALSE
    BY <1>1, <1>2, <1>3, <1>4
  <1> QED
    BY <1>4, <1>7, <1>9, <1>10, <1>12, <1>13, <1>14, <1>15, <1>16, DictInvEnough

(* crtx_event_set_raw_data.                                                *)
LEMMA SetRawDataKeeps ==
  ASSUME Misuses = {}, DictInv, NEW u \in DictIds, SetRawData(u)
  PROVE  DictInv'
  <1>1. PICK c : c = Malloc({"data"})
    OBVIOUS
  <1>2. PICK raw : raw = FillItem(FreeItem, "buffer", "crtx_raw_data", c, Nil)
    OBVIOUS
  <1>3. PICK cs : cs = cells'
    OBVIOUS
  <1>4. /\ unrefs = <<>> /\ CanAlloc({"data"}) /\ cs = cells \cup {c["data"]}
        /\ UNCHANGED <<held, unrefs, given, wild>>
    BY <1>1, <1>3 DEF SetRawData, Idle
  <1>5. payload.type # "D" => payload.type = "0" /\ payload' = raw /\ UNCHANGED <<items, refs>>
    BY <1>1, <1>2 DEF SetRawData
  <1>6. payload.type = "D" => /\ payload.key = Nil /\ refs[u] = 0
                              /\ refs' = [refs EXCEPT ![u] = 1]
                              /\ items' = [items EXCEPT ![u] = <<raw, payload>>]
                              /\ payload' = PayloadDict("crtx_dict_data", u)
    BY <1>1, <1>2 DEF SetRawData
  <1>7. /\ Arrays(items) /\ refs \in [DictIds -> Nat] /\ held \in [DictIds -> 0..MaxHeld]
        /\ unrefs \in Seq(DictIds \cup {Nil}) /\ cells \subseteq Cells
        /\ Owning(items, payload, cells) /\ WellItem(payload)
        /\ PayloadKept(items, refs, payload, given)
        /\ \A x \in DictIds : refs[x] = 0 => items[x] = <<>>
        /\ wild = FALSE /\ given \in DictIds \cup {Nil}
        /\ \A e \in DictIds : TermsAreRight(items, refs, held, payload.sub, unrefs, e)
    BY DictFacts
  <1>8. CellsNeeded("buffer") = {"data"}
    BY DEF CellsNeeded
  <1>9. c["data"] \in Cells /\ c["data"] \notin cells /\ cs \in SUBSET Cells
    <2>1. IsFiniteSet({"data"})
      BY FS_Singleton
    <2>2. c["data"] \in Cells /\ c["data"] \notin cells
      BY <1>1, <1>4, <2>1, MallocIsFresh
    <2> QED
      BY <1>4, <1>7, <2>2
  <1>10. WellItem(raw) /\ raw.sub = Nil /\ OwnedCells(raw) = {c["data"]}
    <2>1. "crtx_raw_data" \in Keys \cup PayloadKeys
      BY DEF PayloadKeys
    <2>2. \A x \in CellsNeeded("buffer") : c[x] \in Cells
      BY <1>8, <1>9
    <2>3. WellItem(FreeItem) /\ FreeItem.type = "0"
      BY FreeItemIsWell
    <2>4. WellItem(raw) /\ raw.sub = Nil /\ OwnedCells(raw) = {c[x] : x \in CellsNeeded("buffer")}
      BY <1>2, <2>1, <2>2, <2>3, FilledItem
    <2> QED
      BY <1>8, <2>4
  <1>11. raw.last = FALSE /\ raw.type = "p"
    BY <1>2 DEF FillItem, FreeItem
  <1>12. CASE payload.type # "D"
    <2>1. payload.type = "0" /\ payload' = raw /\ items' = items /\ refs' = refs
      BY <1>5, <1>12
    <2>2. payload.sub = Nil /\ OwnedCells(payload) = {}
      BY <1>7, <2>1, BlankItem
    <2>3. Owning(items, raw, cs)
      <3>1. cs = (cells \ OwnedCells(payload)) \cup OwnedCells(raw)
        BY <1>4, <1>10, <2>2
      <3>2. OwnedCells(raw) \cap (cells \ OwnedCells(payload)) = {}
        BY <1>9, <1>10
      <3> QED
        BY <1>7, <3>1, <3>2, OwningPayload
    <2>4. PayloadKept(items, refs, raw, given)
      BY <1>7, <1>11, <1>12 DEF PayloadKept, Wrapped
    <2>5. Counted(items, refs, held, raw.sub, unrefs)
      BY <1>10, <2>2, DictFacts
    <2>6. /\ items' = items /\ refs' = refs /\ cells' = cs /\ held' = held /\ unrefs' = unrefs
          /\ payload' = raw /\ given' = given /\ wild' = FALSE
      BY <1>3, <1>4, <1>7, <2>1
    <2> QED
      BY <1>7, <1>9, <1>10, <2>3, <2>4, <2>5, <2>6, DictInvEnough
  <1>13. CASE payload.type = "D"
    <2>1. PICK arr : arr = <<raw, payload>>
      OBVIOUS
    <2>2. payload.key = Nil /\ given = payload.sub /\ payload.last = FALSE
      BY <1>6, <1>7, <1>13 DEF PayloadKept
    <2>3. OwnedCells(payload) = {}
      BY <1>7, <1>13, DictAssumption DEF WellItem, OwnedCells
    <2>4. arr \in Seq(Items) /\ Len(arr) = 0 + 2 /\ arr[1] = raw /\ arr[2] = payload
      <3>1. raw \in Items /\ payload \in Items
        BY <1>7, <1>10 DEF WellItem
      <3> QED
        BY <2>1, <3>1
    <2>5. \A i \in 3..(0 + 2) : arr[i] = InitItems(0)[i - 2]
      OBVIOUS
    <2>6. /\ WellArray(arr) /\ OwnedApart(arr) /\ ArrayCells(arr) = OwnedCells(raw)
          /\ \A e \in DictIds : Cardinality(RefIndexes(arr, e)) = IF payload.sub = e THEN 1 ELSE 0
      <3>1. PICK n \in Nat : n = 0
        OBVIOUS
      <3>2. Len(arr) = n + 2 /\ (payload.last => n = 0)
        BY <2>4, <3>1
      <3>3. \A i \in 3..(n + 2) : arr[i] = InitItems(n)[i - 2]
        BY <2>5, <3>1
      <3>4. WellItem(raw) /\ raw.sub = Nil /\ raw.last = FALSE /\ WellItem(payload)
        BY <1>7, <1>10, <1>11
      <3> QED
        <4>1. HoldsBoth(arr, raw, payload, n)
          BY <1>13, <2>4, <3>2, <3>3, <3>4 DEF HoldsBoth
        <4> QED
          BY <4>1, WrapperArray
    <2>7. /\ cs = (cells \ OwnedCells(payload)) \cup ArrayCells(arr)
          /\ ArrayCells(arr) \cap (cells \ OwnedCells(payload)) = {}
      BY <1>4, <1>9, <1>10, <2>3, <2>6
    <2>8. /\ refs[u] = 0 /\ refs' = [refs EXCEPT ![u] = 1]
          /\ items' = [items EXCEPT ![u] = arr]
          /\ payload' = PayloadDict("crtx_dict_data", u)
      BY <1>6, <1>13, <2>1
    <2>9. held' = held /\ cells' = cs /\ given' = given /\ UNCHANGED <<unrefs, wild>>
      BY <1>3, <1>4
    <2>10. RefersTo(arr, given) /\ Balanced(held, given, held, payload.sub)
      BY <2>2, <2>6 DEF RefersTo, Balanced
    <2>11. Len(arr) >= 2 /\ arr[2].type = "D" /\ arr[2].sub = given
      BY <1>13, <2>2, <2>4
    <2> QED
      BY <1>4, <1>7, <1>9, <2>6, <2>7, <2>8, <2>9, <2>10, <2>11, NewWrapper
  <1> QED
    BY <1>12, <1>13

(* A reference goes over from the application to the event.                *)
LEMMA ReferenceTaken ==
  ASSUME DictInv, NEW d \in DictIds \cup {Nil}, TakeOver(d)
  PROVE  /\ held' \in [DictIds -> 0..MaxHeld] /\ given' = d /\ (d \in DictIds => held[d] > 0)
         /\ \A e \in DictIds : held'[e] + (IF d = e THEN 1 ELSE 0) = held[e]
  <1>1. held \in [DictIds -> 0..MaxHeld] /\ MaxHeld \in Nat
    BY DictAssumption DEF DictInv, DictTypeOK
  <1>2. d \in DictIds => held[d] > 0
    BY DictAssumption DEF TakeOver
  <1>3. held' = [e \in DictIds |-> IF e = d THEN held[e] - 1 ELSE held[e]] /\ given' = d
    BY DEF TakeOver
  <1>4. ASSUME NEW e \in DictIds
        PROVE  /\ held'[e] \in 0..MaxHeld
               /\ held'[e] + (IF d = e THEN 1 ELSE 0) = held[e]
    <2>1. held[e] \in 0..MaxHeld /\ held'[e] = IF e = d THEN held[e] - 1 ELSE held[e]
      BY <1>1, <1>3
    <2> QED
      BY <1>1, <1>2, <2>1
  <1> QED
    BY <1>2, <1>3, <1>4

(* crtx_event_set_dict.                                                    *)
LEMMA SetDictKeeps ==
  ASSUME Misuses = {}, DictInv, NEW d \in DictIds, SetDict(d)
  PROVE  DictInv'
  <1>1. PICK pl : pl = payload'
    OBVIOUS
  <1>2. PICK hd : hd = held'
    OBVIOUS
  <1>3. /\ payload.type = "0" /\ TakeOver(d) /\ pl = PayloadDict(Nil, d)
        /\ UNCHANGED <<items, refs, cells, unrefs, wild>>
    BY <1>1 DEF SetDict
  <1>4. /\ hd \in [DictIds -> 0..MaxHeld] /\ given' = d
        /\ \A e \in DictIds : hd[e] + (IF d = e THEN 1 ELSE 0) = held[e]
    BY <1>2, <1>3, ReferenceTaken
  <1>5. /\ Arrays(items) /\ refs \in [DictIds -> Nat] /\ held \in [DictIds -> 0..MaxHeld]
        /\ unrefs \in Seq(DictIds \cup {Nil}) /\ cells \subseteq Cells
        /\ Owning(items, payload, cells) /\ WellItem(payload)
        /\ \A x \in DictIds : refs[x] = 0 => items[x] = <<>>
        /\ wild = FALSE
        /\ \A e \in DictIds : TermsAreRight(items, refs, held, payload.sub, unrefs, e)
    BY DictFacts
  <1>6. payload.sub = Nil /\ OwnedCells(payload) = {}
    BY <1>3, <1>5, BlankItem
  <1>7. /\ WellItem(pl) /\ OwnedCells(pl) = {} /\ pl.type = "D" /\ pl.key = Nil
        /\ pl.sub = d /\ pl.last = FALSE
    <2>1. PICK k \in PayloadKeys \cup {Nil} : k = Nil
      OBVIOUS
    <2>2. pl = PayloadDict(k, d)
      BY <1>3, <2>1
    <2> QED
      BY <2>1, <2>2, PayloadDictIsWell
  <1>8. Owning(items, pl, cells)
    <2>1. cells = (cells \ OwnedCells(payload)) \cup OwnedCells(pl)
      BY <1>6, <1>7
    <2>2. OwnedCells(pl) \cap (cells \ OwnedCells(payload)) = {}
      BY <1>7
    <2> QED
      BY <1>5, <2>1, <2>2, OwningPayload
  <1>9. PayloadKept(items, refs, pl, d)
    BY <1>7 DEF PayloadKept, Wrapped
  <1>10. ASSUME NEW e \in DictIds
         PROVE  refs[e] = hd[e] + Cardinality(RefsTo(items, e)) + (IF pl.sub = e THEN 1 ELSE 0)
                            + Cardinality(Pending(unrefs, e))
    <2>1. /\ held[e] \in Nat /\ Cardinality(Pending(unrefs, e)) \in Nat
          /\ Cardinality(RefsTo(items, e)) \in Nat
          /\ refs[e] = held[e] + Cardinality(RefsTo(items, e)) + (IF payload.sub = e THEN 1 ELSE 0)
                         + Cardinality(Pending(unrefs, e))
      BY <1>5 DEF TermsAreRight
    <2>2. payload.sub # e
      BY <1>6, DictAssumption
    <2>3. hd[e] \in Nat /\ hd[e] + (IF pl.sub = e THEN 1 ELSE 0) = held[e]
      BY <1>4, <1>7, DictAssumption
    <2> QED
      BY <2>1, <2>2, <2>3
  <1>11. Counted(items, refs, hd, pl.sub, unrefs)
    BY <1>10 DEF Counted
  <1>12. /\ items' = items /\ refs' = refs /\ cells' = cells /\ held' = hd /\ unrefs' = unrefs
         /\ payload' = pl /\ given' = d /\ wild' = FALSE
    BY <1>1, <1>2, <1>3, <1>4, <1>5
  <1> QED
    BY <1>4, <1>5, <1>7, <1>8, <1>9, <1>11, <1>12, DictInvEnough

(* crtx_event_set_dict_data for an event without a dictionary.             *)
LEMMA SetDictDataNewKeeps ==
  ASSUME DictInv, NEW d \in DictIds \cup {Nil}, NEW u \in DictIds, NEW n \in 0..1,
         SetDictDataNew(d, u, n)
  PROVE  DictInv'
  <1>1. PICK arr : arr = Upgraded(payload, d, n)
    OBVIOUS
  <1>2. PICK hd : hd = held'
    OBVIOUS
  <1>3. /\ unrefs = <<>> /\ payload.type # "D" /\ refs[u] = 0 /\ TakeOver(d)
        /\ refs' = [refs EXCEPT ![u] = 1] /\ items' = [items EXCEPT ![u] = arr]
        /\ payload' = PayloadDict("crtx_dict_data", u) /\ UNCHANGED <<cells, unrefs, wild>>
    BY <1>1 DEF SetDictDataNew, Idle
  <1>4. /\ hd \in [DictIds -> 0..MaxHeld] /\ given' = d
        /\ \A e \in DictIds : hd[e] + (IF d = e THEN 1 ELSE 0) = held[e]
    BY <1>2, <1>3, ReferenceTaken
  <1>5. /\ held \in [DictIds -> 0..MaxHeld] /\ cells \subseteq Cells /\ WellItem(payload)
        /\ Owning(items, payload, cells) /\ PayloadKept(items, refs, payload, given)
    BY DictFacts
  <1>6. payload.sub = Nil /\ payload.last = FALSE
    BY <1>3, <1>5 DEF WellItem, PayloadKept
  <1>7. PICK it : it = [PayloadDict("crtx_dict_data", d) EXCEPT !.last = (n = 0)]
    OBVIOUS
  <1>8. WellItem(it) /\ it.type = "D" /\ it.sub = d /\ (it.last => n = 0)
    <2>1. PICK p0 : p0 = PayloadDict("crtx_dict_data", d)
      OBVIOUS
    <2>2. WellItem(p0) /\ p0.type = "D" /\ p0.sub = d
      BY <2>1, PayloadDictIsWell DEF PayloadKeys
    <2>3. it = [p0 EXCEPT !.last = (n = 0)] /\ p0 \in Items
      BY <1>7, <2>1, <2>2 DEF WellItem
    <2>4. /\ it \in Items /\ it.type = p0.type /\ it.sub = p0.sub /\ it.kcell = p0.kcell
          /\ it.last = (n = 0)
      BY <2>3 DEF Items
    <2> QED
      BY <2>2, <2>4 DEF WellItem
  <1>9. /\ arr \in Seq(Items) /\ Len(arr) = n + 2 /\ arr[1] = payload /\ arr[2] = it
        /\ \A i \in 3..(n + 2) : arr[i] = InitItems(n)[i - 2]
    <2>1. PICK a, b : a = <<payload, it>> /\ b = InitItems(n)
      OBVIOUS
    <2>2. arr = a \o b
      BY <1>1, <1>7, <2>1 DEF Upgraded
    <2>3. payload \in Items /\ it \in Items
      BY <1>5, <1>8 DEF WellItem
    <2>4. a \in Seq(Items) /\ Len(a) = 2 /\ a[1] = payload /\ a[2] = it
      BY <2>1, <2>3
    <2>5. b \in Seq(Items) /\ Len(b) = n
      BY <2>1, InitItemsAreWell DEF WellArray
    <2>6. /\ arr \in Seq(Items) /\ Len(arr) = 2 + n
          /\ \A i \in 1..(2 + n) : arr[i] = IF i <= 2 THEN a[i] ELSE b[i - 2]
      <3>1. /\ a \o b \in Seq(Items) /\ Len(a \o b) = Len(a) + Len(b)
            /\ \A i \in 1..(Len(a) + Len(b)) : (a \o b)[i] = IF i <= Len(a) THEN a[i] ELSE b[i - Len(a)]
        BY <2>4, <2>5, ConcatProperties
      <3> QED
        BY <2>2, <2>4, <2>5, <3>1
    <2>7. 2 + n = n + 2 /\ 1 \in 1..(2 + n) /\ 2 \in 1..(2 + n)
      OBVIOUS
    <2>8. \A i \in 3..(n + 2) : i \in 1..(2 + n) /\ ~(i <= 2)
      OBVIOUS
    <2>9. arr[1] = payload /\ arr[2] = it
      BY <2>4, <2>6, <2>7
    <2>10. \A i \in 3..(n + 2) : arr[i] = InitItems(n)[i - 2]
      BY <2>1, <2>6, <2>8
    <2> QED
      BY <2>6, <2>7, <2>9, <2>10
  <1>10. n \in Nat
    OBVIOUS
  <1>11. /\ WellArray(arr) /\ OwnedApart(arr) /\ ArrayCells(arr) = OwnedCells(payload)
         /\ \A e \in DictIds : Cardinality(RefIndexes(arr, e)) = IF it.sub = e THEN 1 ELSE 0
    <2>1. WellItem(payload)
      BY <1>5
    <2>2. HoldsBoth(arr, payload, it, n)
      BY <1>6, <1>8, <1>9, <1>10, <2>1 DEF HoldsBoth
    <2> QED
      BY <2>2, WrapperArray
  <1>12. /\ cells = (cells \ OwnedCells(payload)) \cup ArrayCells(arr)
         /\ ArrayCells(arr) \cap (cells \ OwnedCells(payload)) = {}
    BY <1>5, <1>11, OwnedAreInUse
  <1>13. Balanced(hd, d, held, payload.sub)
    <2>1. ASSUME NEW e \in DictIds PROVE payload.sub # e /\ held[e] \in Nat
      BY <1>5, <1>6, DictAssumption
    <2> QED
      BY <1>4, <2>1 DEF Balanced
  <1>14. Len(arr) >= 2 /\ arr[2].type = "D" /\ arr[2].sub = d
    BY <1>8, <1>9
  <1>15. cells \in SUBSET Cells /\ cells' = cells /\ held' = hd
    BY <1>2, <1>3, <1>5
  <1>16. RefersTo(arr, d)
    BY <1>8, <1>11 DEF RefersTo
  <1>17. PICK cs \in SUBSET Cells : cs = cells
    BY <1>15
  <1>18. /\ cs = (cells \ OwnedCells(payload)) \cup ArrayCells(arr) /\ cells' = cs
         /\ WellArray(arr) /\ OwnedApart(arr) /\ UNCHANGED <<unrefs, wild>>
         /\ ArrayCells(arr) \cap (cells \ OwnedCells(payload)) = {}
    BY <1>3, <1>11, <1>12, <1>15, <1>17
  <1>19. /\ unrefs = <<>> /\ refs[u] = 0 /\ refs' = [refs EXCEPT ![u] = 1]
         /\ items' = [items EXCEPT ![u] = arr] /\ payload' = PayloadDict("crtx_dict_data", u)
    BY <1>3
  <1>20. given' = d /\ held' = hd /\ hd \in [DictIds -> 0..MaxHeld]
    BY <1>4, <1>15
  <1> QED
    BY <1>13, <1>14, <1>16, <1>18, <1>19, <1>20, NewWrapper

(* crtx_event_set_dict_data for an event whose dictionary has none inside. *)
LEMMA SetDictDataAgainKeeps ==
  ASSUME Misuses = {}, DictInv, NEW d \in DictIds \cup {Nil}, NEW n \in 0..1,
         SetDictDataAgain(d, n)
  PROVE  DictInv'
  <1>1. PICK u : u = payload.sub
    OBVIOUS
  <1>2. PICK a0 : a0 = [items[u] EXCEPT ![2].sub = d]
    OBVIOUS
  <1>3. PICK arr : arr = IF Len(a0) < 2 + n THEN ResizeDict(a0) ELSE a0
    OBVIOUS
  <1>4. PICK its : its = items'
    OBVIOUS
  <1>5. PICK hd : hd = held'
    OBVIOUS
  <1>6. /\ payload.type = "D" /\ payload.key # Nil /\ items[u][2].sub = Nil /\ TakeOver(d)
        /\ its = [items EXCEPT ![u] = arr] /\ wild' = (wild \/ FALSE)
        /\ UNCHANGED <<refs, cells, unrefs, payload>>
    BY <1>1, <1>2, <1>3, <1>4 DEF SetDictDataAgain
  <1>7. /\ Arrays(items) /\ refs \in [DictIds -> Nat] /\ held \in [DictIds -> 0..MaxHeld]
        /\ unrefs \in Seq(DictIds \cup {Nil}) /\ cells \subseteq Cells
        /\ Owning(items, payload, cells) /\ WellItem(payload)
        /\ PayloadKept(items, refs, payload, given)
        /\ \A x \in DictIds : WellArray(items[x]) /\ OwnedApart(items[x])
        /\ \A x \in DictIds : refs[x] = 0 => items[x] = <<>>
        /\ wild = FALSE
        /\ \A e \in DictIds : TermsAreRight(items, refs, held, payload.sub, unrefs, e)
    BY DictFacts
  <1>8. /\ u \in DictIds /\ payload.key = "crtx_dict_data" /\ refs[u] = 1 /\ Len(items[u]) >= 2
        /\ items[u][2].type = "D"
    BY <1>1, <1>6, <1>7 DEF PayloadKept, Wrapped
  <1>9. /\ hd \in [DictIds -> 0..MaxHeld] /\ given' = d /\ (d \in DictIds => held[d] > 0)
        /\ \A e \in DictIds : hd[e] + (IF d = e THEN 1 ELSE 0) = held[e]
    BY <1>5, <1>6, ReferenceTaken
  <1>10. /\ WellArray(items[u]) /\ OwnedApart(items[u]) /\ Len(items[u]) \in Nat
         /\ DOMAIN items[u] = 1..Len(items[u]) /\ 2 \in 1..Len(items[u])
         /\ WellItem(items[u][2]) /\ items[u][2] \in Items
    <2>1. WellArray(items[u]) /\ OwnedApart(items[u])
      BY <1>7, <1>8
    <2>2. Len(items[u]) \in Nat /\ DOMAIN items[u] = 1..Len(items[u])
      BY <2>1, ArrayBasics
    <2>3. 2 \in 1..Len(items[u])
      BY <1>8, <2>2
    <2> QED
      BY <2>1, <2>2, <2>3, ArrayBasics
  <1>11. PICK it : it = [items[u][2] EXCEPT !.sub = d]
    OBVIOUS
  <1>12. /\ it \in Items /\ it.type = "D" /\ it.sub = d /\ it.kcell = items[u][2].kcell
         /\ it.last = items[u][2].last
    BY <1>8, <1>10, <1>11 DEF Items
  <1>13. WellItem(it) /\ OwnedCells(it) = {} /\ OwnedCells(items[u][2]) = {}
         /\ FitsAt(it, 2, items[u])
    <2>1. WellItem(it) /\ it.kcell = Nil
      BY <1>8, <1>10, <1>12 DEF WellItem
    <2>2. OwnedCells(it) = {} /\ OwnedCells(items[u][2]) = {}
      BY <1>8, <1>12, <2>1, DictAssumption DEF OwnedCells
    <2>3. items[u][2].last => 2 = Len(items[u])
      BY <1>10 DEF WellArray
    <2> QED
      BY <1>12, <2>1, <2>2, <2>3 DEF FitsAt
  <1>14. IsSet(a0, items[u], 2, it)
    BY <1>2, <1>11 DEF IsSet
  <1>15. Len(a0) = Len(items[u]) /\ a0[2] = it
    BY <1>10, <1>13, <1>14, ItemIsSet
  <1>16. /\ WellArray(a0) /\ OwnedApart(a0)
         /\ ArrayCells(a0) = ArrayCells(items[u])
         /\ \A e \in DictIds : /\ 2 \notin RefIndexes(items[u], e)
                               /\ RefIndexes(a0, e) = IF d = e THEN RefIndexes(items[u], e) \cup {2}
                                                      ELSE RefIndexes(items[u], e)
    <2>1. OwnedCells(it) \cap ArrayCells(items[u]) = {}
      BY <1>13
    <2>2. /\ WellArray(a0) /\ OwnedApart(a0)
          /\ ArrayCells(a0) = ArrayCells(items[u]) \cup OwnedCells(it)
          /\ \A e \in DictIds : /\ 2 \notin RefIndexes(items[u], e)
                                /\ RefIndexes(a0, e) = IF it.sub = e THEN RefIndexes(items[u], e) \cup {2}
                                                       ELSE RefIndexes(items[u], e)
      <3>1. PICK k \in 1..Len(items[u]) : k = 2
        BY <1>10
      <3>2. items[u][k].sub = Nil /\ OwnedCells(items[u][k]) = {} /\ FitsAt(it, k, items[u])
        BY <1>6, <1>13, <3>1
      <3>3. IsSet(a0, items[u], k, it)
        BY <1>14, <3>1
      <3>4. WellArray(items[u]) /\ OwnedApart(items[u])
        BY <1>10
      <3>5. /\ WellArray(a0) /\ OwnedApart(a0)
            /\ ArrayCells(a0) = ArrayCells(items[u]) \cup OwnedCells(it)
            /\ \A e \in DictIds : /\ k \notin RefIndexes(items[u], e)
                                  /\ RefIndexes(a0, e) = IF it.sub = e
                                                         THEN RefIndexes(items[u], e) \cup {k}
                                                         ELSE RefIndexes(items[u], e)
        BY <2>1, <3>2, <3>3, <3>4, ItemIsFilled
      <3> QED
        BY <3>1, <3>5
    <2> QED
      BY <1>12, <1>13, <2>2
  <1>17. /\ WellArray(arr) /\ OwnedApart(arr) /\ ArrayCells(arr) = ArrayCells(items[u])
         /\ \A e \in DictIds : RefIndexes(arr, e) = RefIndexes(a0, e)
         /\ Len(arr) >= 2 /\ arr[2].type = "D" /\ arr[2].sub = d
    <2>1. CASE Len(a0) < 2 + n
      <3>1. arr = ResizeDict(a0)
        BY <1>3, <2>1
      <3>2. 2 \in 1..Len(a0) /\ Len(a0) + 1 >= 2
        BY <1>10, <1>15
      <3> QED
        BY <1>12, <1>15, <1>16, <3>1, <3>2, ResizedArray
    <2>2. CASE ~(Len(a0) < 2 + n)
      BY <1>3, <1>8, <1>12, <1>15, <1>16, <2>2
    <2> QED
      BY <2>1, <2>2
  <1>18. IsArraySet(its, items, u, arr)
    BY <1>6 DEF IsArraySet
  <1>19. Arrays(its) /\ its[u] = arr /\ \A x \in DictIds : x # u => its[x] = items[x]
    BY <1>7, <1>8, <1>17, <1>18, ArrayReplaced
  <1>20. ASSUME NEW e \in DictIds
         PROVE  refs[e] = hd[e] + Cardinality(RefsTo(its, e)) + (IF payload.sub = e THEN 1 ELSE 0)
                            + Cardinality(Pending(unrefs, e))
    <2>1. /\ Cardinality(RefsTo(items, e)) \in Nat /\ Cardinality(RefsTo(its, e)) \in Nat
          /\ Cardinality(RefIndexes(arr, e)) \in Nat /\ Cardinality(RefIndexes(items[u], e)) \in Nat
          /\ Cardinality(RefsTo(its, e)) + Cardinality(RefIndexes(items[u], e))
                = Cardinality(RefsTo(items, e)) + Cardinality(RefIndexes(arr, e))
      BY <1>7, <1>8, <1>17, <1>18, CountChanges
    <2>2. Cardinality(RefIndexes(arr, e)) = Cardinality(RefIndexes(items[u], e))
                                              + (IF d = e THEN 1 ELSE 0)
      <3>1. PICK S0 : S0 = RefIndexes(items[u], e)
        OBVIOUS
      <3>2. IsFiniteSet(S0) /\ Cardinality(S0) \in Nat
        BY <1>10, <3>1, RefIndexesFinite
      <3>3. 2 \notin S0 /\ RefIndexes(arr, e) = IF d = e THEN S0 \cup {2} ELSE S0
        BY <1>16, <1>17, <3>1
      <3>4. Cardinality(S0 \cup {2}) = Cardinality(S0) + 1
        BY <3>2, <3>3, FS_AddElement
      <3> QED
        BY <3>1, <3>2, <3>3, <3>4
    <2>3. /\ held[e] \in Nat /\ Cardinality(Pending(unrefs, e)) \in Nat
          /\ refs[e] = held[e] + Cardinality(RefsTo(items, e)) + (IF payload.sub = e THEN 1 ELSE 0)
                         + Cardinality(Pending(unrefs, e))
      BY <1>7 DEF TermsAreRight
    <2>4. Cardinality(RefsTo(its, e)) = Cardinality(RefsTo(items, e)) + (IF d = e THEN 1 ELSE 0)
      BY <2>1, <2>2
    <2>5. hd[e] \in Nat /\ hd[e] + (IF d = e THEN 1 ELSE 0) = held[e]
      BY <1>9, DictAssumption
    <2> QED
      BY <2>1, <2>3, <2>4, <2>5
  <1>21. Owning(its, payload, cells)
    <2>1. ArrayCells(items[u]) \subseteq cells
      BY <1>7, <1>8, OwnedAreInUse
    <2>2. cells = (cells \ ArrayCells(items[u])) \cup ArrayCells(arr)
      BY <1>17, <2>1
    <2>3. ArrayCells(arr) \cap (cells \ ArrayCells(items[u])) = {}
      BY <1>17
    <2> QED
      BY <1>7, <1>8, <1>17, <1>18, <2>2, <2>3, OwningChanges
  <1>22. PayloadKept(its, refs, payload, d)
    BY <1>1, <1>6, <1>7, <1>8, <1>17, <1>19 DEF PayloadKept, Wrapped
  <1>23. \A x \in DictIds : refs[x] = 0 => its[x] = <<>>
    BY <1>7, <1>8, <1>19
  <1>24. Counted(its, refs, hd, payload.sub, unrefs)
    BY <1>20 DEF Counted
  <1>25. /\ items' = its /\ refs' = refs /\ cells' = cells /\ held' = hd /\ unrefs' = unrefs
         /\ payload' = payload /\ given' = d /\ wild' = FALSE
    BY <1>4, <1>5, <1>6, <1>7, <1>9
  <1> QED
    BY <1>7, <1>9, <1>19, <1>21, <1>22, <1>23, <1>24, <1>25, DictInvEnough

(* What the references say of the first dictionary to be dropped.          *)
LEMMA HeadTerms ==
  ASSUME DictInv, unrefs # <<>>, NEW d \in DictIds, d = Head(unrefs), NEW e \in DictIds
  PROVE  /\ refs[e] \in Nat /\ held[e] \in Nat /\ Cardinality(RefsTo(items, e)) \in Nat
         /\ Cardinality(Pending(Tail(unrefs), e)) \in Nat
         /\ refs[e] = held[e] + Cardinality(RefsTo(items, e)) + (IF payload.sub = e THEN 1 ELSE 0)
                        + (Cardinality(Pending(Tail(unrefs), e)) + (IF d = e THEN 1 ELSE 0))
         /\ Cardinality(RefIndexes(items[d], e)) \in Nat
         /\ Cardinality(RefIndexes(items[d], e)) <= Cardinality(RefsTo(items, e))
         /\ refs[d] > 0 /\ (Wrapped(payload) => payload.sub # d)
  <1>1. /\ Arrays(items) /\ refs \in [DictIds -> Nat] /\ held \in [DictIds -> 0..MaxHeld]
        /\ unrefs \in Seq(DictIds \cup {Nil}) /\ cells \subseteq Cells
        /\ Owning(items, payload, cells) /\ WellItem(payload)
        /\ PayloadKept(items, refs, payload, given)
        /\ \A x \in DictIds : WellArray(items[x]) /\ OwnedApart(items[x])
        /\ \A x \in DictIds : refs[x] = 0 => items[x] = <<>>
        /\ wild = FALSE /\ given \in DictIds \cup {Nil}
        /\ \A x \in DictIds : TermsAreRight(items, refs, held, payload.sub, unrefs, x)
    BY DictFacts
  <1>2. Tail(unrefs) \in Seq(DictIds \cup {Nil})
    BY <1>1, HeadTailProperties
  <1>3. \A x \in DictIds : Cardinality(Pending(unrefs, x)) = Cardinality(Pending(Tail(unrefs), x))
                                                               + (IF d = x THEN 1 ELSE 0)
    BY <1>1, PendingTail
  <1>4. \A x \in DictIds : Cardinality(Pending(Tail(unrefs), x)) \in Nat
    BY <1>2, PendingFinite
  <1>5. /\ refs[e] \in Nat /\ held[e] \in Nat /\ Cardinality(RefsTo(items, e)) \in Nat
        /\ refs[e] = held[e] + Cardinality(RefsTo(items, e)) + (IF payload.sub = e THEN 1 ELSE 0)
                       + Cardinality(Pending(unrefs, e))
        /\ Cardinality(RefIndexes(items[d], e)) \in Nat
        /\ Cardinality(RefIndexes(items[d], e)) <= Cardinality(RefsTo(items, e))
    BY <1>1 DEF TermsAreRight
  <1>6. Cardinality(Pending(unrefs, d)) > 0
    BY <1>3, <1>4
  <1>7. refs[d] # 0 /\ refs[d] \in Nat
    BY <1>1, <1>6, UnusedDict
  <1>8. Wrapped(payload) => payload.sub # d
    BY <1>6, UnusedDict
  <1>9. refs[d] > 0
    BY <1>7
  <1> QED
    BY <1>3, <1>4, <1>5, <1>8, <1>9

(* crtx_free_dict: the dictionary is freed, and those inside are to be     *)
(* dropped.                                                                *)
LEMMA FreeDictKeeps ==
  ASSUME DictInv, unrefs # <<>>, NEW d \in DictIds, d = Head(unrefs), refs[d] <= 1,
         refs' = [refs EXCEPT ![d] = 0], items' = [items EXCEPT ![d] = <<>>],
         cells' = cells \ ArrayCells(items[d]), wild' = FALSE,
         unrefs' = SubDicts(items[d]) \o Tail(unrefs), UNCHANGED <<held, payload, given>>
  PROVE  DictInv'
  <1>1. PICK rf : rf = refs'
    OBVIOUS
  <1>2. PICK its : its = items'
    OBVIOUS
  <1>3. PICK cs : cs = cells'
    OBVIOUS
  <1>4. PICK un : un = unrefs'
    OBVIOUS
  <1>5. /\ Arrays(items) /\ refs \in [DictIds -> Nat] /\ held \in [DictIds -> 0..MaxHeld]
        /\ unrefs \in Seq(DictIds \cup {Nil}) /\ cells \subseteq Cells
        /\ Owning(items, payload, cells) /\ WellItem(payload)
        /\ PayloadKept(items, refs, payload, given)
        /\ \A x \in DictIds : WellArray(items[x]) /\ OwnedApart(items[x])
        /\ \A x \in DictIds : refs[x] = 0 => items[x] = <<>>
        /\ wild = FALSE /\ given \in DictIds \cup {Nil}
        /\ \A e \in DictIds : TermsAreRight(items, refs, held, payload.sub, unrefs, e)
    BY DictFacts
  <1>6. Tail(unrefs) \in Seq(DictIds \cup {Nil})
    BY <1>5, HeadTailProperties
  <1>7. /\ SubDicts(items[d]) \in Seq(DictIds \cup {Nil})
        /\ \A e : Pending(SubDicts(items[d]), e) = RefIndexes(items[d], e)
    BY <1>5, PendingSubs
  <1>8. /\ un \in Seq(DictIds \cup {Nil})
        /\ \A e : Cardinality(Pending(un, e)) = Cardinality(RefIndexes(items[d], e))
                                                  + Cardinality(Pending(Tail(unrefs), e))
    <2>1. PICK tl \in Seq(DictIds \cup {Nil}) : tl = Tail(unrefs)
      BY <1>6
    <2>2. PICK sd \in Seq(DictIds \cup {Nil}) : sd = SubDicts(items[d])
      BY <1>7
    <2>3. un = sd \o tl
      BY <1>4, <2>1, <2>2
    <2>4. sd \o tl \in Seq(DictIds \cup {Nil})
      BY PendingConcat
    <2>5. ASSUME NEW e
          PROVE  Cardinality(Pending(sd \o tl, e)) = Cardinality(Pending(sd, e))
                                                       + Cardinality(Pending(tl, e))
      BY PendingConcat
    <2> QED
      BY <1>7, <2>1, <2>2, <2>3, <2>4, <2>5
  <1>9. /\ WellArray(<<>>) /\ OwnedApart(<<>>) /\ ArrayCells(<<>>) = {}
        /\ \A e : Cardinality(RefIndexes(<<>>, e)) = 0
    BY EmptyArray
  <1>10. IsArraySet(its, items, d, <<>>)
    BY <1>2 DEF IsArraySet
  <1>11. Arrays(its) /\ its[d] = <<>> /\ \A x \in DictIds : x # d => its[x] = items[x]
    <2>1. PICK arr : arr = <<>>
      OBVIOUS
    <2>2. Arrays(items) /\ WellArray(arr) /\ OwnedApart(arr) /\ IsArraySet(its, items, d, arr)
      BY <1>5, <1>9, <1>10, <2>1
    <2>3. Arrays(its) /\ its[d] = arr /\ \A x \in DictIds : x # d => its[x] = items[x]
      BY <2>2, ArrayReplaced
    <2> QED
      BY <2>1, <2>3
  <1>12. rf \in [DictIds -> Nat]
    BY <1>1, <1>5
  <1>13. ASSUME NEW e \in DictIds
         PROVE  rf[e] = held[e] + Cardinality(RefsTo(its, e)) + (IF payload.sub = e THEN 1 ELSE 0)
                          + Cardinality(Pending(un, e))
    <2>1. /\ Cardinality(RefsTo(its, e)) \in Nat
          /\ Cardinality(RefsTo(its, e)) + Cardinality(RefIndexes(items[d], e))
                = Cardinality(RefsTo(items, e)) + Cardinality(RefIndexes(<<>>, e))
      <3>1. Arrays(items) /\ WellArray(<<>>) /\ OwnedApart(<<>>)
        BY <1>5, <1>9
      <3> QED
        BY <1>10, <3>1, CountChanges
    <2>2. Cardinality(RefIndexes(<<>>, e)) = 0
      BY <1>9
    <2>3. /\ refs[e] \in Nat /\ held[e] \in Nat /\ Cardinality(RefsTo(items, e)) \in Nat
          /\ Cardinality(Pending(Tail(unrefs), e)) \in Nat
          /\ refs[e] = held[e] + Cardinality(RefsTo(items, e)) + (IF payload.sub = e THEN 1 ELSE 0)
                         + (Cardinality(Pending(Tail(unrefs), e)) + (IF d = e THEN 1 ELSE 0))
          /\ Cardinality(RefIndexes(items[d], e)) \in Nat
          /\ Cardinality(RefIndexes(items[d], e)) <= Cardinality(RefsTo(items, e))
      BY HeadTerms
    <2>4. Cardinality(RefsTo(its, e)) + Cardinality(RefIndexes(items[d], e))
             = Cardinality(RefsTo(items, e))
      BY <2>1, <2>2, <2>3
    <2>5. PICK x \in Nat, y \in Nat, z \in Nat, w \in Nat, h \in Nat :
             /\ x = Cardinality(RefsTo(its, e)) /\ y = Cardinality(RefIndexes(items[d], e))
             /\ z = Cardinality(RefsTo(items, e)) /\ w = Cardinality(Pending(Tail(unrefs), e))
             /\ h = held[e]
      BY <2>1, <2>3
    <2>6. x + y = z /\ Cardinality(Pending(un, e)) = y + w
      BY <1>8, <2>4, <2>5
    <2>7. PICK p \in {0, 1} : p = IF payload.sub = e THEN 1 ELSE 0
      OBVIOUS
    <2>8. CASE e = d
      <3>1. rf[e] = 0 /\ refs[e] <= 1
        BY <1>1, <1>5, <2>8
      <3>2. refs[e] = h + z + p + (w + 1)
        BY <2>3, <2>5, <2>7, <2>8
      <3>3. h = 0 /\ z = 0 /\ p = 0 /\ w = 0
        BY <2>3, <3>1, <3>2
      <3>4. 0 = h + x + p + (y + w)
        BY <2>6, <3>3
      <3> QED
        BY <2>5, <2>6, <2>7, <3>1, <3>4
    <2>9. CASE e # d
      <3>1. rf[e] = refs[e]
        BY <1>1, <1>5, <2>9
      <3>2. refs[e] = h + z + p + (w + 0)
        BY <2>3, <2>5, <2>7, <2>9
      <3>3. refs[e] = h + x + p + (y + w)
        BY <2>6, <3>2
      <3> QED
        BY <2>5, <2>6, <2>7, <3>1, <3>3
    <2> QED
      BY <2>8, <2>9
  <1>14. Owning(its, payload, cs) /\ cs \in SUBSET Cells
    <2>1. cs = (cells \ ArrayCells(items[d])) \cup ArrayCells(<<>>)
      BY <1>3, <1>9
    <2>2. ArrayCells(<<>>) \cap (cells \ ArrayCells(items[d])) = {}
      BY <1>9
    <2>3. cs \in SUBSET Cells
      BY <1>3, <1>5
    <2>4. Arrays(items) /\ Owning(items, payload, cells) /\ WellArray(<<>>)
      BY <1>5, <1>9
    <2> QED
      BY <1>10, <2>1, <2>2, <2>3, <2>4, OwningChanges
  <1>15. PayloadKept(its, rf, payload, given)
    <2>1. SUFFICES ASSUME Wrapped(payload)
                   PROVE  its[payload.sub] = items[payload.sub] /\ rf[payload.sub] = refs[payload.sub]
      BY <1>5, PayloadStays
    <2>2. payload.sub \in DictIds /\ payload.sub # d
      BY <1>5, <2>1, HeadTerms DEF PayloadKept, Wrapped
    <2> QED
      BY <1>1, <1>5, <1>11, <2>2
  <1>16. \A x \in DictIds : rf[x] = 0 => its[x] = <<>>
    BY <1>1, <1>5, <1>11
  <1>17. Counted(its, rf, held, payload.sub, un)
    BY <1>13 DEF Counted
  <1>18. /\ items' = its /\ refs' = rf /\ cells' = cs /\ held' = held /\ unrefs' = un
         /\ payload' = payload /\ given' = given /\ wild' = FALSE
    BY <1>1, <1>2, <1>3, <1>4
  <1> QED
    BY <1>5, <1>8, <1>11, <1>12, <1>14, <1>15, <1>16, <1>17, <1>18, DictInvEnough

LEMMA UnrefStepKeeps ==
  ASSUME DictInv, UnrefStep
  PROVE  DictInv'
  <1>1. PICK d : d = Head(unrefs)
    OBVIOUS
  <1>2. PICK sq : sq = SubSeq(items[d], 1, IterEnd(items[d]))
    OBVIOUS
  <1>3. PICK owned : owned = UNION {OwnedCells(sq[i]) : i \in DOMAIN sq}
    OBVIOUS
  <1>4. unrefs # <<>> /\ UNCHANGED <<held, payload, given>>
    BY DEF UnrefStep
  <1>5. /\ d = Nil => unrefs' = Tail(unrefs) /\ UNCHANGED <<items, refs, cells, wild>>
        /\ d # Nil /\ refs[d] > 1 => /\ refs' = [refs EXCEPT ![d] = @ - 1] /\ unrefs' = Tail(unrefs)
                                     /\ UNCHANGED <<items, cells, wild>>
    BY <1>1 DEF UnrefStep
  <1>6. /\ Arrays(items) /\ refs \in [DictIds -> Nat] /\ held \in [DictIds -> 0..MaxHeld]
        /\ unrefs \in Seq(DictIds \cup {Nil}) /\ cells \subseteq Cells
        /\ Owning(items, payload, cells) /\ WellItem(payload)
        /\ PayloadKept(items, refs, payload, given)
        /\ \A x \in DictIds : WellArray(items[x]) /\ OwnedApart(items[x])
        /\ \A x \in DictIds : refs[x] = 0 => items[x] = <<>>
        /\ wild = FALSE /\ given \in DictIds \cup {Nil}
        /\ \A e \in DictIds : TermsAreRight(items, refs, held, payload.sub, unrefs, e)
    BY DictFacts
  <1>7. d \in DictIds \cup {Nil} /\ Tail(unrefs) \in Seq(DictIds \cup {Nil})
    BY <1>1, <1>4, <1>6, HeadTailProperties
  <1>8. PICK un : un = Tail(unrefs)
    OBVIOUS
  <1>9. CASE d = Nil
    <2>1. /\ unrefs' = un /\ UNCHANGED <<items, refs, cells, wild>>
      BY <1>5, <1>8, <1>9
    <2>2. ASSUME NEW e \in DictIds
          PROVE  refs[e] = held[e] + Cardinality(RefsTo(items, e)) + (IF payload.sub = e THEN 1 ELSE 0)
                             + Cardinality(Pending(un, e))
      <3>1. /\ Cardinality(Pending(un, e)) \in Nat
            /\ Cardinality(Pending(unrefs, e)) = Cardinality(Pending(un, e))
                                                   + (IF Head(unrefs) = e THEN 1 ELSE 0)
        BY <1>4, <1>6, <1>7, <1>8, PendingTail, PendingFinite
      <3>2. Head(unrefs) # e
        BY <1>1, <1>9, DictAssumption
      <3>3. Cardinality(Pending(unrefs, e)) = Cardinality(Pending(un, e))
        BY <3>1, <3>2
      <3> QED
        BY <1>6, <3>3 DEF TermsAreRight
    <2>3. Counted(items, refs, held, payload.sub, un)
      BY <2>2 DEF Counted
    <2>4. /\ items' = items /\ refs' = refs /\ cells' = cells /\ held' = held /\ unrefs' = un
          /\ payload' = payload /\ given' = given /\ wild' = FALSE
      BY <1>4, <1>6, <2>1
    <2> QED
      BY <1>6, <1>7, <1>8, <2>3, <2>4, DictInvEnough
  <1>10. CASE d # Nil /\ refs[d] > 1
    <2>1. d \in DictIds
      BY <1>7, <1>10
    <2>2. PICK rf : rf = refs'
      OBVIOUS
    <2>3. /\ rf = [refs EXCEPT ![d] = @ - 1] /\ unrefs' = un /\ UNCHANGED <<items, cells, wild>>
      BY <1>5, <1>8, <1>10, <2>2
    <2>4. refs[d] \in Nat /\ refs[d] - 1 \in Nat /\ refs[d] - 1 # 0
      BY <1>6, <1>10, <2>1
    <2>5. rf \in [DictIds -> Nat] /\ \A x \in DictIds : rf[x] = IF x = d THEN refs[d] - 1 ELSE refs[x]
      BY <1>6, <2>1, <2>3, <2>4
    <2>6. ASSUME NEW e \in DictIds
          PROVE  rf[e] = held[e] + Cardinality(RefsTo(items, e)) + (IF payload.sub = e THEN 1 ELSE 0)
                           + Cardinality(Pending(un, e))
      <3>1. /\ refs[e] \in Nat /\ held[e] \in Nat /\ Cardinality(RefsTo(items, e)) \in Nat
            /\ Cardinality(Pending(un, e)) \in Nat
            /\ refs[e] = held[e] + Cardinality(RefsTo(items, e)) + (IF payload.sub = e THEN 1 ELSE 0)
                           + (Cardinality(Pending(un, e)) + (IF d = e THEN 1 ELSE 0))
        BY <1>1, <1>4, <1>8, <2>1, HeadTerms
      <3>2. CASE e = d
        <4>1. rf[e] = refs[e] - 1
          BY <2>5, <3>2
        <4> QED
          BY <3>1, <3>2, <4>1
      <3>3. CASE e # d
        <4>1. rf[e] = refs[e]
          BY <2>5, <3>3
        <4> QED
          BY <3>1, <3>3, <4>1
      <3> QED
        BY <3>2, <3>3
    <2>7. Counted(items, rf, held, payload.sub, un)
      BY <2>6 DEF Counted
    <2>8. PayloadKept(items, rf, payload, given)
      <3>1. Wrapped(payload) => payload.sub \in DictIds /\ payload.sub # d
        BY <1>1, <1>4, <1>6, <2>1, HeadTerms DEF PayloadKept, Wrapped
      <3>2. Wrapped(payload) => rf[payload.sub] = refs[payload.sub]
        BY <2>5, <3>1
      <3> QED
        BY <1>6, <3>2, PayloadStays
    <2>9. \A x \in DictIds : rf[x] = 0 => items[x] = <<>>
      BY <1>6, <2>4, <2>5
    <2>10. /\ items' = items /\ refs' = rf /\ cells' = cells /\ held' = held /\ unrefs' = un
           /\ payload' = payload /\ given' = given /\ wild' = FALSE
      BY <1>4, <1>6, <2>2, <2>3
    <2> QED
      BY <1>6, <1>7, <1>8, <2>5, <2>7, <2>8, <2>9, <2>10, DictInvEnough
  <1>11. CASE d # Nil /\ ~(refs[d] > 1)
    <2>1. d \in DictIds
      BY <1>7, <1>11
    <2>2. sq = items[d]
      <3>1. items[d] \in Seq(Items) /\ IterEnd(items[d]) = Len(items[d])
        BY <1>6, <2>1, LoopEnds, ArrayBasics
      <3> QED
        BY <1>2, <3>1, SubSeqFull
    <2>3. owned = ArrayCells(items[d])
      <3>1. DOMAIN items[d] = 1..Len(items[d])
        BY <1>6, <2>1, ArrayBasics
      <3> QED
        BY <1>3, <2>2, <3>1 DEF ArrayCells
    <2>4. refs[d] > 0 /\ refs[d] \in Nat
      BY <1>1, <1>4, <2>1, HeadTerms
    <2>5. refs[d] <= 1 /\ refs[d] # 0
      BY <1>11, <2>4
    <2>6. owned \subseteq cells
      BY <1>6, <2>1, <2>3, OwnedAreInUse
    <2>7. /\ refs' = [refs EXCEPT ![d] = 0] /\ items' = [items EXCEPT ![d] = <<>>]
          /\ cells' = cells \ owned /\ wild' = (wild \/ refs[d] = 0 \/ ~ owned \subseteq cells)
          /\ unrefs' = SubDicts(sq) \o Tail(unrefs)
      <3> DEFINE a == SubSeq(items[Head(unrefs)], 1, IterEnd(items[Head(unrefs)]))
                 o == UNION {OwnedCells(a[i]) : i \in DOMAIN a}
      <3>1. Head(unrefs) # Nil /\ ~(refs[Head(unrefs)] > 1)
        BY <1>1, <1>11
      <3>2. /\ refs' = [refs EXCEPT ![Head(unrefs)] = 0]
            /\ items' = [items EXCEPT ![Head(unrefs)] = <<>>]
            /\ cells' = cells \ o /\ wild' = (wild \/ refs[Head(unrefs)] = 0 \/ ~ o \subseteq cells)
            /\ unrefs' = SubDicts(a) \o Tail(unrefs)
        BY <3>1, Zenon DEF UnrefStep
      <3>3. a = sq
        BY <1>1, <1>2
      <3>4. o = owned
        BY <1>3, <3>3
      <3> HIDE DEF a, o
      <3> QED
        BY <1>1, <3>2, <3>3, <3>4
    <2>8. wild' = FALSE
      BY <1>6, <2>5, <2>6, <2>7
    <2>9. cells' = cells \ ArrayCells(items[d]) /\ unrefs' = SubDicts(items[d]) \o Tail(unrefs)
      BY <2>2, <2>3, <2>7
    <2> QED
      BY <1>1, <1>4, <2>1, <2>5, <2>7, <2>8, <2>9, FreeDictKeeps
  <1> QED
    BY <1>9, <1>10, <1>11

LEMMA DictStutters ==
  ASSUME DictInv, UNCHANGED dictVars
  PROVE  DictInv'
  BY DEF DictInv, DictTypeOK, dictVars

LEMMA DictStep ==
  ASSUME Misuses = {}, DictInv, [DictNext]_dictVars
  PROVE  DictInv'
  <1>1. CASE UnrefStep
    BY <1>1, UnrefStepKeeps
  <1>2. ASSUME NEW d \in DictIds, SetRawData(d) \/ SetDict(d) PROVE DictInv'
    BY <1>2, SetRawDataKeeps, SetDictKeeps
  <1>3. CASE FreePayload
    BY <1>3, FreePayloadKeeps
  <1>4. ASSUME NEW d \in DictIds, NEW n \in 0..1, InitDict(d, n) PROVE DictInv'
    BY <1>4, InitDictKeeps
  <1>5. ASSUME NEW d \in DictIds, NEW k \in Keys, NEW shape \in Shapes, NEW sub \in DictIds \cup {Nil},
               NewItem(d, shape, k, sub)
        PROVE  DictInv'
    BY <1>5, NewItemKeeps
  <1>6. ASSUME NEW d \in DictIds, NEW k \in Keys, RemoveItem(d, k) PROVE DictInv'
    BY <1>6, RemoveItemKeeps
  <1>7. ASSUME NEW d \in DictIds, RefDict(d) \/ UnrefDict(d) PROVE DictInv'
    BY <1>7, RefDictKeeps, UnrefDictKeeps
  <1>8. ASSUME NEW d \in DictIds, NEW e \in DictIds, CreateCopy(d, e) PROVE DictInv'
    BY <1>8, CreateCopyKeeps
  <1>10. ASSUME NEW d \in DictIds, NEW e \in DictIds \cup {Nil}, NEW n \in 0..1,
                SetDictDataNew(e, d, n) \/ SetDictDataAgain(e, n)
         PROVE  DictInv'
    BY <1>10, SetDictDataNewKeeps, SetDictDataAgainKeeps
  <1>9. CASE UNCHANGED dictVars
    BY <1>9, DictStutters
  <1> QED
    BY <1>1, <1>2, <1>3, <1>4, <1>5, <1>6, <1>7, <1>8, <1>9, <1>10 DEF DictNext

(* The cells each have one owner.                                          *)
OwnersOf(its, c) == {p \in PlacesOf(its) : c \in OwnedCells(its[p[1]][p[2]])}

LEMMA OneOwner ==
  ASSUME NEW its, Arrays(its), NEW pl, NEW cs, Owning(its, pl, cs), NEW c
  PROVE  Cardinality(OwnersOf(its, c)) + (IF c \in OwnedCells(pl) THEN 1 ELSE 0)
            = (IF c \in cs THEN 1 ELSE 0)
  <1>1. \A d \in DictIds : DOMAIN its[d] = 1..Len(its[d])
    BY ArrayBasics DEF Arrays
  <1>2. ASSUME NEW p \in OwnersOf(its, c)
        PROVE  \E d \in DictIds : \E i \in 1..Len(its[d]) : p = <<d, i>> /\ c \in OwnedCells(its[d][i])
    <2>1. PICK d \in DictIds : p \in {<<d, i>> : i \in DOMAIN its[d]}
      BY DEF OwnersOf, PlacesOf
    <2>2. PICK i \in DOMAIN its[d] : p = <<d, i>>
      BY <2>1
    <2>3. p[1] = d /\ p[2] = i /\ i \in 1..Len(its[d])
      BY <1>1, <2>2
    <2>4. c \in OwnedCells(its[d][i])
      BY <2>3 DEF OwnersOf
    <2> QED
      BY <2>2, <2>3, <2>4
  <1>3. ASSUME NEW d \in DictIds, NEW i \in 1..Len(its[d]), c \in OwnedCells(its[d][i])
        PROVE  c \in ArrayCells(its[d]) /\ <<d, i>> \in OwnersOf(its, c)
    <2>1. c \in ArrayCells(its[d])
      BY <1>3 DEF ArrayCells
    <2>2. <<d, i>> \in PlacesOf(its)
      BY <1>1 DEF PlacesOf
    <2>3. <<d, i>> \in OwnersOf(its, c)
      BY <1>3, <2>2 DEF OwnersOf
    <2> QED
      BY <2>1, <2>3
  <1>4. /\ \A d, e \in DictIds : d # e => ArrayCells(its[d]) \cap ArrayCells(its[e]) = {}
        /\ \A d \in DictIds : ArrayCells(its[d]) \cap OwnedCells(pl) = {}
        /\ c \in cs <=> c \in OwnedCells(pl) \/ \E d \in DictIds : c \in ArrayCells(its[d])
    BY DEF Owning
  <1>5. CASE \E d \in DictIds : c \in ArrayCells(its[d])
    <2>1. PICK d \in DictIds : c \in ArrayCells(its[d])
      BY <1>5
    <2>2. PICK i \in 1..Len(its[d]) : c \in OwnedCells(its[d][i])
      BY <2>1 DEF ArrayCells
    <2>3. <<d, i>> \in OwnersOf(its, c)
      BY <1>3, <2>2
    <2>4. ASSUME NEW p \in OwnersOf(its, c) PROVE p = <<d, i>>
      <3>1. PICK e \in DictIds : \E j \in 1..Len(its[e]) : p = <<e, j>> /\ c \in OwnedCells(its[e][j])
        BY <1>2
      <3>2. PICK j \in 1..Len(its[e]) : p = <<e, j>> /\ c \in OwnedCells(its[e][j])
        BY <3>1
      <3>3. e = d
        BY <1>3, <1>4, <2>1, <3>2
      <3>4. j = i
        BY <2>2, <3>2, <3>3 DEF Arrays, OwnedApart
      <3> QED
        BY <3>2, <3>3, <3>4
    <2>5. OwnersOf(its, c) = {<<d, i>>}
      BY <2>3, <2>4
    <2>6. Cardinality(OwnersOf(its, c)) = 1
      BY <2>5, FS_Singleton
    <2>7. c \notin OwnedCells(pl) /\ c \in cs
      BY <1>4, <2>1
    <2> QED
      BY <2>6, <2>7
  <1>6. CASE ~ \E d \in DictIds : c \in ArrayCells(its[d])
    <2>1. OwnersOf(its, c) = {}
      BY <1>2, <1>3, <1>6
    <2>2. Cardinality(OwnersOf(its, c)) = 0
      BY <2>1, FS_EmptySet
    <2>3. c \in cs <=> c \in OwnedCells(pl)
      BY <1>4, <1>6
    <2> QED
      BY <2>2, <2>3
  <1> QED
    BY <1>5, <1>6

LEMMA DictInvMemory == DictInv => DictMemory
  <1> SUFFICES ASSUME DictInv PROVE DictMemory
    OBVIOUS
  <1>1. DictTypeOK
    BY DEF DictInv
  <1>2. /\ Arrays(items) /\ refs \in [DictIds -> Nat] /\ held \in [DictIds -> 0..MaxHeld]
        /\ unrefs \in Seq(DictIds \cup {Nil}) /\ cells \subseteq Cells
        /\ Owning(items, payload, cells) /\ WellItem(payload)
        /\ PayloadKept(items, refs, payload, given)
        /\ \A x \in DictIds : WellArray(items[x]) /\ OwnedApart(items[x])
        /\ \A x \in DictIds : refs[x] = 0 => items[x] = <<>>
        /\ wild = FALSE /\ given \in DictIds \cup {Nil}
        /\ \A e \in DictIds : TermsAreRight(items, refs, held, payload.sub, unrefs, e)
    BY DictFacts
  <1>3. Places = PlacesOf(items)
    BY DEF Places, PlacesOf
  <1>4. RefsAreCounted
    <2>1. ASSUME NEW e \in DictIds
          PROVE  refs[e] = held[e] + Cardinality({p \in Places : items[p[1]][p[2]].sub = e})
                             + (IF payload.sub = e THEN 1 ELSE 0)
                             + Cardinality({i \in DOMAIN unrefs : unrefs[i] = e})
      <3>1. RefsTo(items, e) = {p \in Places : items[p[1]][p[2]].sub = e}
        BY <1>3 DEF RefsTo
      <3>2. Pending(unrefs, e) = {i \in DOMAIN unrefs : unrefs[i] = e}
        BY DEF Pending
      <3>3. refs[e] = held[e] + Cardinality(RefsTo(items, e)) + (IF payload.sub = e THEN 1 ELSE 0)
                        + Cardinality(Pending(unrefs, e))
        BY <1>2 DEF TermsAreRight
      <3> QED
        BY <3>1, <3>2, <3>3, Zenon
    <2> QED
      BY <2>1, Zenon DEF RefsAreCounted
  <1>5. MemoryIsOwned
    <2>1. ASSUME NEW c \in Cells
          PROVE  Cardinality({p \in Places : c \in OwnedCells(items[p[1]][p[2]])})
                    + (IF c \in OwnedCells(payload) THEN 1 ELSE 0) = (IF c \in cells THEN 1 ELSE 0)
      <3>1. OwnersOf(items, c) = {p \in Places : c \in OwnedCells(items[p[1]][p[2]])}
        BY <1>3 DEF OwnersOf
      <3>2. Cardinality(OwnersOf(items, c)) + (IF c \in OwnedCells(payload) THEN 1 ELSE 0)
              = (IF c \in cells THEN 1 ELSE 0)
        BY <1>2, OneOwner
      <3> QED
        BY <3>1, <3>2, Zenon
    <2>2. ~wild
      BY <1>2
    <2> QED
      BY <2>1, <2>2, Zenon DEF MemoryIsOwned
  <1> QED
    BY <1>1, <1>4, <1>5 DEF DictMemory

LEMMA DictInvFound == DictInv => StoredIsFound
  <1> SUFFICES ASSUME DictInv PROVE StoredIsFound
    OBVIOUS
  <1>1. LoopsSeeAllItems
    BY DictFacts, LoopEnds DEF LoopsSeeAllItems
  <1>2. PayloadIsFound
    <2>1. PayloadKept(items, refs, payload, given)
      BY DictFacts
    <2> QED
      BY <2>1 DEF PayloadKept, Wrapped, PayloadIsFound, GetPayload
  <1> QED
    BY <1>1, <1>2 DEF StoredIsFound

(* dict.c and crtx_event_set_* of core.c: as long as no data of an event   *)
(* is set over other data and no pointer without a size is copied, over    *)
(* every sequence of calls on any number of dictionaries that are nested,  *)
(* shared by copies and attached to events, every reference counter equals *)
(* the number of references and every heap cell in use has exactly one     *)
(* owner: nothing is lost, freed twice or used after it was freed.         *)
THEOREM DictMemoryIsRight ==
  ASSUME Misuses = {}
  PROVE  DictSpec => []DictMemory
  <1>1. DictInit => DictInv
    BY DictInitially
  <1>2. DictInv /\ [DictNext]_dictVars => DictInv'
    BY DictStep
  <1>3. DictInv => DictMemory
    BY DictInvMemory
  <1> QED
    BY <1>1, <1>2, <1>3, PTL DEF DictSpec

(* dict.c and core.c: a loop over the items never stops before the last    *)
(* one, and crtx_event_get_payload returns the dictionary that was         *)
(* attached, over every sequence of calls in which no data of an event is  *)
(* set over other data, no pointer without a size is copied and raw data   *)
(* does not follow crtx_event_set_dict_data.                               *)
THEOREM StoredStaysFound ==
  ASSUME Misuses = {}
  PROVE  DictSpec => []StoredIsFound
  <1>1. DictInit => DictInv
    BY DictInitially
  <1>2. DictInv /\ [DictNext]_dictVars => DictInv'
    BY DictStep
  <1>3. DictInv => StoredIsFound
    BY DictInvFound
  <1> QED
    BY <1>1, <1>2, <1>3, PTL DEF DictSpec

=============================================================================
