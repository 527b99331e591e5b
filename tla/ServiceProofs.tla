--------------------------- MODULE ServiceProofs ---------------------------
(***************************************************************************)
(* Proofs about the services of the event loop, for any sets of signals,   *)
(* listeners, timers and states and any bounds: StateMachine, Signals,     *)
(* Timer and WriteQueue.  Each part has its own inductive invariant.       *)
(***************************************************************************)
EXTENDS StateMachine, Signals, Timer, WriteQueue, SequenceTheorems, TLAPS

---------------------------------------------------------------------------
(* StateMachine.  n_schedules is the number of changes in the control      *)
(* pipe; a machine that is being released has one scheduled, or is about   *)
(* to schedule one, until release_cb was called.                           *)
SmInv ==
    /\ cur \in SmStates \cup {NoState}
    /\ smq \in Seq(SmStates)
    /\ Len(smq) <= MaxScheduled + 1
    /\ nsched = Len(smq)
    /\ relflag \in BOOLEAN
    /\ relcheck \in BOOLEAN
    /\ relcalls \in {0, 1}
    /\ relcheck => relflag /\ relcalls = 0 /\ (cur # NoState \/ nsched > 0)
    /\ relcalls = 1 => relflag /\ nsched = 0

LEMMA SmInit == StateMachineInit => SmInv
  <1>1. <<>> \in Seq(SmStates) /\ Len(<<>>) = 0
    BY EmptySeq
  <1>2. 0 <= MaxScheduled + 1
    BY StateMachineAssumption
  <1> SUFFICES ASSUME StateMachineInit PROVE SmInv
    OBVIOUS
  <1>3. ~relflag /\ ~relcheck /\ relflag \in BOOLEAN /\ relcheck \in BOOLEAN
    BY Zenon DEF StateMachineInit
  <1>4. smq = <<>> /\ nsched = 0 /\ relcalls = 0 /\ cur = NoState
    BY DEF StateMachineInit
  <1> QED
    BY <1>1, <1>2, <1>3, <1>4 DEF SmInv

LEMMA SmStep ==
  ASSUME ~OtherThread, SmInv, [StateMachineNext]_smVars
  PROVE  SmInv'
  <1> USE StateMachineAssumption DEF SmInv
  <1>1. ASSUME NEW s \in SmStates, ChangeState(s) PROVE SmInv'
    BY <1>1 DEF ChangeState
  <1>2. CASE ReleaseFlag
    BY <1>2 DEF ReleaseFlag
  <1>3. CASE ReleaseCheck
    <2>1. CASE nsched = 0
      <3>1. cur \in SmStates
        BY <1>3, <2>1 DEF ReleaseCheck
      <3>2. smq' = Append(smq, cur) /\ nsched' = nsched + 1 /\ relcheck' = FALSE
        BY <1>3, <2>1 DEF ReleaseCheck, ReleaseSchedules
      <3>3. smq' \in Seq(SmStates) /\ Len(smq') = Len(smq) + 1
        BY <3>1, <3>2, AppendProperties
      <3>4. nsched' = Len(smq') /\ Len(smq') <= MaxScheduled + 1
        BY <2>1, <3>2, <3>3
      <3>5. /\ UNCHANGED <<cur, relcalls>>
            /\ ~relcheck' /\ relcheck' \in BOOLEAN
            /\ relflag' /\ relflag' \in BOOLEAN
            /\ relcalls = 0
        BY <1>3, Zenon DEF ReleaseCheck
      <3> QED
        BY <3>1, <3>3, <3>4, <3>5
    <2>2. CASE nsched # 0
      BY <1>3, <2>2 DEF ReleaseCheck, ReleaseSchedules
    <2> QED
      BY <2>1, <2>2
  <1>4. CASE ChangeSms
    <2>1. /\ smq' \in Seq(SmStates)
          /\ Len(smq') = Len(smq) - 1
          /\ Head(smq) \in SmStates
          /\ ~relcheck
      BY <1>4 DEF ChangeSms
    <2>2. nsched' = Len(smq') /\ Len(smq') <= MaxScheduled + 1
      BY <1>4, <2>1 DEF ChangeSms
    <2> QED
      BY <1>4, <2>1, <2>2 DEF ChangeSms, LastSchedule
  <1>5. CASE UNCHANGED smVars
    BY <1>5 DEF smVars
  <1> QED
    BY <1>1, <1>2, <1>3, <1>4, <1>5 DEF StateMachineNext

LEMMA SmImplies == SmInv => NothingAfterRelease
  BY StateMachineAssumption DEF SmInv, NothingAfterRelease, StateMachineTypeOK

(* sm.c: when crtx_release_sm is called in the thread of the event loop,   *)
(* release_cb is called at most once, and nothing touches the machine      *)
(* after it, however many changes were scheduled.                          *)
THEOREM MachineIsReleasedOnce ==
  ASSUME ~OtherThread
  PROVE  StateMachineSpec => []NothingAfterRelease
  <1>1. SmInv /\ [StateMachineNext]_smVars => SmInv'
    BY SmStep
  <1> QED
    BY <1>1, SmInit, SmImplies, PTL DEF StateMachineSpec

---------------------------------------------------------------------------
(* Signals.  A signal of the table has the handler as its action exactly   *)
(* while somebody listens, and the kernel has the action of the table.     *)
Asked(s) == \E l \in up : s \in SigsOf[l]

Listed ==
    \A s \in Sigs, l \in SigLstnrs :
        table[s].nodes[l] = (IF l \in up /\ s \in SigsOf[l] THEN 1 ELSE 0)

Installed ==
    \A s \in Sigs :
        /\ table[s].action = "pipe" <=> Asked(s)
        /\ disp[s] # "ign" => (disp[s] = "pipe" <=> Asked(s))

SigInv ==
    /\ SignalsTypeOK
    /\ Listed
    /\ Installed
    /\ ending => up = {}

LEMMA SigInit == SignalsInit => SigInv
  <1> SUFFICES ASSUME SignalsInit PROVE SigInv
    OBVIOUS
  <1>1. spipe \in Seq(Sigs) /\ inbox \in [SigLstnrs -> Seq(Sigs)]
    BY EmptySeq DEF SignalsInit
  <1>2. SignalsTypeOK
    BY <1>1 DEF SignalsInit, SignalsTypeOK, NoEntry
  <1>3. Listed
    BY DEF SignalsInit, Listed, NoEntry
  <1>4. Installed
    BY DEF SignalsInit, Installed, Asked, NoEntry
  <1> QED
    BY <1>2, <1>3, <1>4 DEF SignalsInit, SigInv

LEMMA SigNodes ==
  ASSUME SigInv, NEW s \in Sigs
  PROVE  NoNodes(table[s].nodes) <=> ~Asked(s)
  BY DEF SigInv, SignalsTypeOK, Listed, Asked, NoNodes

LEMMA SigStart ==
  ASSUME SigInv, NEW l \in SigLstnrs, StartSubListener(l)
  PROVE  SigInv'
  <1> DEFINE t == WithListener(table, l)
  <1> USE SignalsAssumption DEF SigInv, StartSubListener
  <1>1. t \in [Sigs -> [nodes : [SigLstnrs -> Nat], action : {"none", "dfl", "pipe"}]]
    BY DEF WithListener, SignalsTypeOK
  <1>2. Listed'
    BY DEF Listed, WithListener, SignalsTypeOK
  <1>3. \A s \in Sigs : Asked(s)' <=> Asked(s) \/ s \in SigsOf[l]
    BY DEF Asked
  <1>4. \A s \in Sigs : t[s].action = IF s \in SigsOf[l] THEN "pipe" ELSE table[s].action
    BY DEF WithListener
  <1>5. disp' \in [Sigs -> {"dfl", "ign", "pipe"}]
    BY <1>1 DEF UpdateSignals, SignalsTypeOK
  <1>6. Installed'
    <2>1. CASE StartChanges(l)
      BY <1>1, <1>3, <1>4, <2>1 DEF Installed, UpdateSignals, SignalsTypeOK
    <2>2. CASE ~StartChanges(l)
      <3>1. \A s \in SigsOf[l] : s \in Sigs /\ Asked(s)
        BY <2>2, SigNodes DEF StartChanges
      <3> QED
        BY <1>3, <1>4, <2>2, <3>1 DEF Installed, Asked
    <2> QED
      BY <2>1, <2>2
  <1> QED
    BY <1>1, <1>2, <1>5, <1>6 DEF SignalsTypeOK

LEMMA SigStop ==
  ASSUME SigInv, NEW L \in SUBSET up, StopListeners(L)
  PROVE  /\ up' \subseteq SigLstnrs
         /\ table' \in [Sigs -> [nodes : [SigLstnrs -> Nat], action : {"none", "dfl", "pipe"}]]
         /\ disp' \in [Sigs -> {"dfl", "ign", "pipe"}]
         /\ Listed'
         /\ Installed'
  <1> DEFINE t == [s \in Sigs |-> IF \E l \in L : s \in SigsOf[l] THEN StopEntry(s, L)
                                 ELSE table[s]]
  <1> USE SignalsAssumption DEF SigInv
  <1>0. up' = up \ L /\ table' = t /\ disp' = UpdateSignals(t)
    BY DEF StopListeners
  <1>1. ASSUME NEW s \in Sigs
        PROVE  /\ Unlinked(s, L) \in [SigLstnrs -> Nat]
               /\ \A l \in SigLstnrs : Unlinked(s, L)[l] =
                     (IF l \in up \ L /\ s \in SigsOf[l] THEN 1 ELSE 0)
    BY DEF Unlinked, Listed, SignalsTypeOK
  <1>2. \A s \in Sigs : Asked(s)' <=> \E l \in up \ L : s \in SigsOf[l]
    BY <1>0 DEF Asked
  <1>3. ASSUME NEW s \in Sigs
        PROVE  NoNodes(Unlinked(s, L)) <=> ~Asked(s)'
    BY <1>1, <1>2 DEF NoNodes, SignalsTypeOK
  <1>4. t \in [Sigs -> [nodes : [SigLstnrs -> Nat], action : {"none", "dfl", "pipe"}]]
    BY <1>1 DEF StopEntry, SignalsTypeOK
  <1>5. ASSUME NEW s \in Sigs
        PROVE  t[s].action = "pipe" <=> Asked(s)'
    <2>1. CASE \E l \in L : s \in SigsOf[l]
      BY <1>2, <1>3, <2>1 DEF StopEntry, Installed, Asked
    <2>2. CASE ~\E l \in L : s \in SigsOf[l]
      BY <1>2, <2>2 DEF Installed, Asked
    <2> QED
      BY <2>1, <2>2
  <1>6. ASSUME NEW s \in Sigs
        PROVE  disp'[s] # "ign" => (disp'[s] = "pipe" <=> Asked(s)')
    <2>1. CASE t[s].action = "none"
      <3>1. ~\E l \in L : s \in SigsOf[l]
        BY <1>3, <2>1 DEF StopEntry, Installed, Asked
      <3> QED
        BY <1>0, <1>2, <2>1, <3>1 DEF UpdateSignals, Installed, Asked
    <2>2. CASE t[s].action # "none"
      BY <1>0, <1>4, <1>5, <2>2 DEF UpdateSignals
    <2> QED
      BY <2>1, <2>2
  <1>7. disp' \in [Sigs -> {"dfl", "ign", "pipe"}]
    BY <1>0, <1>4 DEF UpdateSignals, SignalsTypeOK
  <1>8. Listed'
    BY <1>0, <1>1 DEF Listed, StopEntry
  <1> QED
    BY <1>0, <1>4, <1>5, <1>6, <1>7, <1>8 DEF Installed, SignalsTypeOK

LEMMA SigStep == SigInv /\ [SignalsNext]_sigVars => SigInv'
  <1> SUFFICES ASSUME SigInv, [SignalsNext]_sigVars PROVE SigInv'
    OBVIOUS
  <1>1. ASSUME NEW l \in SigLstnrs, StartSubListener(l) PROVE SigInv'
    BY <1>1, SigStart
  <1>2. ASSUME NEW l \in SigLstnrs, StopSubListener(l) PROVE SigInv'
    <2>1. StopListeners({l}) /\ {l} \in SUBSET up
      BY <1>2 DEF StopSubListener
    <2>2. UNCHANGED <<spipe, inbox, ending, killed>> /\ up' \subseteq up
      BY <1>2, <2>1 DEF StopSubListener, StopListeners
    <2> QED
      BY <2>1, <2>2, SigStop DEF SigInv, SignalsTypeOK
  <1>3. ASSUME NEW s \in Sigs, RaiseSignal(s) PROVE SigInv'
    BY <1>3 DEF RaiseSignal, SigInv, SignalsTypeOK, Listed, Installed, Asked
  <1>4. CASE DispatchSignal
    <2>1. spipe' \in Seq(Sigs) /\ Head(spipe) \in Sigs
      BY <1>4 DEF DispatchSignal, SigInv, SignalsTypeOK
    <2>2. inbox' \in [SigLstnrs -> Seq(Sigs)]
      BY <1>4, <2>1 DEF DispatchSignal, SigInv, SignalsTypeOK
    <2> QED
      BY <1>4, <2>1, <2>2 DEF DispatchSignal, SigInv, SignalsTypeOK, Listed, Installed, Asked
  <1>5. ASSUME NEW l \in SigLstnrs, HandleSignal(l) PROVE SigInv'
    <2>1. inbox' \in [SigLstnrs -> Seq(Sigs)] /\ UNCHANGED <<spipe, killed>>
      BY <1>5 DEF HandleSignal, SigInv, SignalsTypeOK
    <2>2. CASE l = StdLstnr /\ ~ending
      <3>1. StopListeners(up) /\ ending' = TRUE /\ up' = {}
        BY <1>5, <2>2 DEF HandleSignal, StopListeners
      <3> QED
        BY <2>1, <3>1, SigStop DEF SigInv, SignalsTypeOK
    <2>3. CASE ~(l = StdLstnr /\ ~ending)
      BY <1>5, <2>1, <2>3 DEF HandleSignal, SigInv, SignalsTypeOK, Listed, Installed, Asked
    <2> QED
      BY <2>2, <2>3
  <1>6. CASE RestartSignals
    <2>1. spipe' \in Seq(Sigs) /\ inbox' \in [SigLstnrs -> Seq(Sigs)]
      BY <1>6, EmptySeq DEF RestartSignals
    <2>2. SignalsTypeOK'
      BY <1>6, <2>1 DEF RestartSignals, SigInv, SignalsTypeOK, NoEntry
    <2>3. Listed' /\ Installed'
      BY <1>6 DEF RestartSignals, SigInv, Listed, Installed, Asked, NoEntry
    <2> QED
      BY <1>6, <2>2, <2>3 DEF RestartSignals, SigInv
  <1>7. CASE UNCHANGED sigVars
    BY <1>7 DEF sigVars, SigInv, SignalsTypeOK, Listed, Installed, Asked
  <1> QED
    BY <1>1, <1>2, <1>3, <1>4, <1>5, <1>6, <1>7 DEF SignalsNext

LEMMA SigImplies == SigInv => HandlersFollowListeners
  BY DEF SigInv, HandlersFollowListeners, Listed, Installed, Asked

(* signals.c: the handler is installed exactly for the signals a started   *)
(* listener asked for, through every sequence of starts, stops, signals    *)
(* and restarts of the library.                                            *)
THEOREM SignalsFollowListeners == SignalsSpec => []HandlersFollowListeners
  BY SigInit, SigStep, SigImplies, PTL DEF SignalsSpec

---------------------------------------------------------------------------
(* Timer.  A oneshot is allocated and started, or it has been called and   *)
(* waits in the self pipe, or it is free.  An expiration that is handled   *)
(* belongs to the latest time that was set.                                *)
Waits(t) == \E i \in DOMAIN selfq : selfq[i] = t

OneshotLife ==
    \A t \in Oneshots :
        /\ tm[t].armed # "cyclic"
        /\ tm[t].on => tm[t].mem
        /\ t \in handled => tm[t].on
        /\ Waits(t) <=> tm[t].mem /\ (~tm[t].on \/ t \in handled)
        /\ ~Waits(t) => calls[t] = 0

QueuedOnce == \A i, j \in DOMAIN selfq : selfq[i] = selfq[j] => i = j

(* The handler of an expiration finds no newer time to expire once.        *)
NotArmedAgain ==
    \A t \in Timers : tm[t].expired \/ t \in handled => tm[t].armed # "once"

Watched == StartedTimerFires /\ ArmedTimerIsWatched /\ NotArmedAgain

TimerInv ==
    /\ TimerTypeOK
    /\ calls \in [Oneshots -> 0..1]
    /\ OneshotLife
    /\ QueuedOnce
    /\ Watched

TimerRec == [mem : BOOLEAN, on : BOOLEAN, armed : {"off", "once", "cyclic"},
             expired : BOOLEAN]

LEMMA TimInit == TimerInit => TimerInv
  <1> SUFFICES ASSUME TimerInit PROVE TimerInv
    OBVIOUS
  <1> USE TimerAssumption DEF TimerInit, NoTimer
  <1>1. selfq \in Seq(Oneshots) /\ DOMAIN selfq = {}
    BY EmptySeq
  <1>2. TimerTypeOK
    <2>1. tevents \in [Timers -> 0..MaxTimerEvents] /\ fails \in 0..MaxStartFails
      OBVIOUS
    <2>2. handled \subseteq Timers /\ halted \subseteq Timers
      BY DEF Timers
    <2> QED
      BY <1>1, <2>1, <2>2 DEF TimerTypeOK
  <1>3. OneshotLife /\ QueuedOnce
    BY <1>1 DEF OneshotLife, QueuedOnce, Waits, Timers
  <1>4. Watched /\ calls \in [Oneshots -> 0..1]
    BY DEF Watched, StartedTimerFires, ArmedTimerIsWatched, NotArmedAgain
  <1> QED
    BY <1>2, <1>3, <1>4 DEF TimerInv

(* A step that leaves the oneshots and the self pipe alone.                *)
LEMMA TimSame ==
  ASSUME TimerInv, TimerTypeOK', Watched', UNCHANGED <<selfq, calls>>,
         \A t \in Oneshots : /\ UNCHANGED <<tm[t].on, tm[t].mem>>
                             /\ t \in handled' <=> t \in handled
                             /\ tm'[t].armed # "cyclic"
  PROVE  TimerInv'
  <1>1. OneshotLife'
    BY DEF TimerInv, OneshotLife, Waits
  <1>2. QueuedOnce'
    BY DEF TimerInv, QueuedOnce
  <1> QED
    BY <1>1, <1>2 DEF TimerInv

(* A step that sets one timer, which is watched afterwards.                *)
LEMMA TimWatched ==
  ASSUME TimerInv, NEW t \in Timers, NEW r \in TimerRec,
         tm' = [tm EXCEPT ![t] = r],
         handled' \ {t} = handled \ {t}, halted' \ {t} = halted \ {t},
         r.on => r.armed # "off" \/ r.expired \/ t \in handled',
         r.armed # "off" => r.on \/ t \in halted',
         r.expired \/ t \in handled' => r.armed # "once"
  PROVE  /\ Watched'
         /\ tm' \in [Timers -> TimerRec]
         /\ tm'[t] = r
         /\ \A u \in Timers \ {t} : tm'[u] = tm[u]
  <1>1. /\ tm' \in [Timers -> TimerRec] /\ tm'[t] = r
        /\ \A u \in Timers \ {t} : tm'[u] = tm[u]
    BY DEF TimerInv, TimerTypeOK, TimerRec
  <1>2. \A u \in Timers \ {t} : /\ u \in handled' <=> u \in handled
                                /\ u \in halted' <=> u \in halted
    OBVIOUS
  <1> QED
    BY <1>1, <1>2 DEF TimerInv, Watched, StartedTimerFires, ArmedTimerIsWatched, NotArmedAgain

(* crtx_start_listener of the target.                                      *)
LEMMA TimTarget ==
  ASSUME TimerTypeOK, StartTarget \/ UNCHANGED <<target, fails>>
  PROVE  target' \in BOOLEAN /\ fails' \in 0..MaxStartFails
  <1>1. target' \in BOOLEAN
    BY DEF TimerTypeOK, StartTarget
  <1>2. fails \in 0..MaxStartFails /\ MaxStartFails \in Nat
    BY TimerAssumption DEF TimerTypeOK
  <1>3. fails' \in 0..MaxStartFails
    BY <1>2 DEF StartTarget
  <1> QED
    BY <1>1, <1>3

LEMMA TimStop ==
  ASSUME TimerInv, TargetStops
  PROVE  TimerInv'
  <1> USE TimerAssumption DEF TimerInv
  <1>0. UNCHANGED <<tevents, selfq, calls, handled, halted, fails>> /\ target' = FALSE
    BY DEF TargetStops
  <1>1. CASE UNCHANGED tm
    <2>1. TimerTypeOK' /\ Watched'
      BY <1>0, <1>1 DEF TimerTypeOK, Watched, StartedTimerFires, ArmedTimerIsWatched,
         NotArmedAgain
    <2> QED
      BY <1>0, <1>1, <2>1, TimSame DEF OneshotLife
  <1>2. ASSUME NEW t \in Oneshots, ~tm[t].mem,
               tm' = [tm EXCEPT ![t] = Armed(OneshotMode)]
        PROVE  TimerInv'
    <2>0. /\ t \in Timers /\ t \notin handled /\ ~Waits(t) /\ calls[t] = 0
          /\ Armed(OneshotMode) \in TimerRec
      BY <1>2 DEF OneshotLife, Timers, Armed, OneshotMode, TimerRec
    <2>1. /\ Watched' /\ tm' \in [Timers -> TimerRec]
          /\ tm'[t] = Armed(OneshotMode) /\ \A u \in Timers \ {t} : tm'[u] = tm[u]
      BY <1>0, <1>2, <2>0, TimWatched DEF Armed, OneshotMode
    <2>2. TimerTypeOK'
      BY <1>0, <2>1 DEF TimerTypeOK, TimerRec
    <2>3. OneshotLife'
      BY <1>0, <1>2, <2>0, <2>1 DEF OneshotLife, Waits, Armed, OneshotMode, Timers
    <2>4. QueuedOnce' /\ calls' \in [Oneshots -> 0..1]
      BY <1>0 DEF QueuedOnce
    <2> QED
      BY <2>1, <2>2, <2>3, <2>4
  <1> QED
    BY <1>1, <1>2 DEF TargetStops

(* The expiration is read and the handler calls back.                      *)
LEMMA TimHandle ==
  ASSUME TimerInv, NEW t \in Timers, TimerHandler(t)
  PROVE  TimerInv'
  <1> USE TimerAssumption DEF TimerInv
  <1> DEFINE r == [tm[t] EXCEPT !.expired = FALSE]
  <1>0. /\ Watched' /\ tm' \in [Timers -> TimerRec]
        /\ tm'[t] = r /\ \A u \in Timers \ {t} : tm'[u] = tm[u]
    <2>1. tm[t] \in TimerRec /\ tm[t].on /\ tm[t].expired /\ t \notin handled
      BY DEF TimerHandler, TimerTypeOK, TimerRec
    <2>2. r \in TimerRec /\ r.on /\ ~r.expired /\ r.armed = tm[t].armed
      BY <2>1 DEF TimerRec
    <2>3. /\ tm' = [tm EXCEPT ![t] = r] /\ handled' = handled \cup {t}
          /\ halted' = halted
      BY DEF TimerHandler, TimerTypeOK
    <2>4. r.armed # "once"
      BY <2>1, <2>2 DEF Watched, NotArmedAgain
    <2> HIDE DEF r
    <2> QED
      BY <2>2, <2>3, <2>4, TimWatched
  <1>1. /\ handled' = handled \cup {t} /\ UNCHANGED halted
        /\ target' \in BOOLEAN /\ fails' \in 0..MaxStartFails
    BY TimTarget DEF TimerHandler
  <1>2. CASE t \in Oneshots
    <2>1. /\ ~Waits(t) /\ tm[t].mem /\ calls[t] = 0
          /\ tm'[t].mem /\ tm'[t].on /\ tm'[t].armed # "cyclic"
          /\ \A u \in Oneshots \ {t} : tm'[u] = tm[u]
      BY <1>0, <1>2 DEF TimerHandler, OneshotLife, TimerTypeOK, Timers
    <2>2. /\ selfq' \in Seq(Oneshots)
          /\ Len(selfq') = Len(selfq) + 1
          /\ \A i \in 1..Len(selfq) : selfq'[i] = selfq[i]
          /\ selfq'[Len(selfq) + 1] = t
      <3>1. selfq' = Append(selfq, t) /\ selfq \in Seq(Oneshots)
        BY <1>2 DEF TimerHandler, FreeLater, TimerTypeOK
      <3> QED
        BY <1>2, <3>1, AppendProperties
    <2>3. DOMAIN selfq = 1..Len(selfq) /\ DOMAIN selfq' = 1..(Len(selfq) + 1)
          /\ Len(selfq) \in Nat
      BY <2>2, LenProperties DEF TimerTypeOK
    <2>4. TimerTypeOK' /\ calls' \in [Oneshots -> 0..1]
      <3>1. tevents' = tevents /\ calls' = [calls EXCEPT ![t] = 1]
        BY <1>2, <2>1 DEF TimerHandler
      <3>2. calls' \in [Oneshots -> 0..1]
        BY <1>2, <3>1
      <3> QED
        BY <1>0, <1>1, <2>2, <3>1, <3>2 DEF TimerTypeOK, TimerRec
    <2>5. \A u \in Oneshots : Waits(u)' <=> Waits(u) \/ u = t
      BY <2>2, <2>3 DEF Waits
    <2>6. OneshotLife'
      BY <1>1, <1>2, <2>1, <2>5 DEF TimerHandler, OneshotLife
    <2>7. QueuedOnce'
      BY <2>1, <2>2, <2>3 DEF QueuedOnce, Waits
    <2> QED
      BY <1>0, <2>4, <2>6, <2>7
  <1>3. CASE t \notin Oneshots
    <2>1. TimerTypeOK'
      <3>0. /\ tevents[t] < MaxTimerEvents
            /\ tevents' = [tevents EXCEPT ![t] = @ + 1]
            /\ UNCHANGED selfq
        BY <1>3 DEF TimerHandler
      <3>1. tevents' \in [Timers -> 0..MaxTimerEvents]
        <4>1. tevents \in [Timers -> 0..MaxTimerEvents] /\ MaxTimerEvents \in Nat
          BY DEF TimerTypeOK
        <4>2. tevents[t] + 1 \in 0..MaxTimerEvents
          BY <3>0, <4>1
        <4> HIDE DEF TimerInv
        <4> QED
          BY <3>0, <4>1, <4>2
      <3> QED
        BY <1>0, <1>1, <3>0, <3>1 DEF TimerTypeOK, TimerRec
    <2>2. \A u \in Oneshots : tm'[u] = tm[u] /\ (u \in handled' <=> u \in handled)
      BY <1>0, <1>1, <1>3 DEF Timers
    <2> QED
      BY <1>0, <1>3, <2>1, <2>2, TimSame DEF TimerHandler, OneshotLife
  <1> QED
    BY <1>2, <1>3

(* The handler goes on and stops a timer without an interval.              *)
LEMMA TimEnds ==
  ASSUME TimerInv, NEW t \in Timers, HandlerEnds(t)
  PROVE  TimerInv'
  <1> USE TimerAssumption DEF TimerInv
  <1> DEFINE r == AfterExpiry(tm[t])
  <1>0. /\ UNCHANGED <<tevents, selfq, calls, halted, target, fails>>
        /\ t \in handled /\ handled' = handled \ {t} /\ tm' = [tm EXCEPT ![t] = r]
    BY DEF HandlerEnds
  <1>1. /\ tm[t] \in TimerRec /\ r \in TimerRec
        /\ r.mem = tm[t].mem /\ r.armed = tm[t].armed /\ r.expired = tm[t].expired
        /\ r.on = (tm[t].on /\ tm[t].armed = "cyclic")
    <2>1. tm[t] \in TimerRec
      BY DEF TimerTypeOK, TimerRec
    <2>2. PICK b \in BOOLEAN : b = (tm[t].on /\ tm[t].armed = "cyclic")
      OBVIOUS
    <2>3. r = [tm[t] EXCEPT !.on = b]
      BY <2>2 DEF AfterExpiry
    <2> HIDE DEF TimerInv, r
    <2>4. /\ r \in TimerRec /\ r.mem = tm[t].mem /\ r.armed = tm[t].armed
          /\ r.expired = tm[t].expired /\ r.on = b
      BY <2>1, <2>3 DEF TimerRec
    <2> QED
      BY <2>1, <2>2, <2>4
  <1>2. /\ r.on => r.armed # "off"
        /\ r.armed # "off" => r.on \/ t \in halted
        /\ r.armed # "once"
    <2>1. tm[t].armed # "once" /\ (tm[t].armed # "off" => tm[t].on \/ t \in halted)
      BY <1>0 DEF Watched, NotArmedAgain, ArmedTimerIsWatched
    <2> HIDE DEF r
    <2> QED
      BY <1>1, <2>1 DEF TimerRec
  <1>3. /\ Watched' /\ tm' \in [Timers -> TimerRec]
        /\ tm'[t] = r /\ \A u \in Timers \ {t} : tm'[u] = tm[u]
    <2> HIDE DEF r
    <2> QED
      BY <1>0, <1>1, <1>2, TimWatched
  <1>4. TimerTypeOK'
    BY <1>0, <1>3 DEF TimerTypeOK, TimerRec
  <1>5. OneshotLife'
    <2>1. \A u \in Oneshots : Waits(u)' <=> Waits(u)
      BY <1>0 DEF Waits
    <2> HIDE DEF r
    <2> QED
      BY <1>0, <1>1, <1>3, <2>1 DEF OneshotLife, Timers
  <1>6. QueuedOnce' /\ calls' \in [Oneshots -> 0..1]
    BY <1>0 DEF QueuedOnce
  <1> QED
    BY <1>3, <1>4, <1>5, <1>6

LEMMA TimFree ==
  ASSUME TimerInv, FreeOneshot
  PROVE  TimerInv'
  <1> DEFINE t == Head(selfq)
  <1> USE TimerAssumption DEF TimerInv
  <1>1. /\ t \in Oneshots /\ t = selfq[1]
        /\ selfq' \in Seq(Oneshots)
        /\ Len(selfq') = Len(selfq) - 1
        /\ \A i \in 1..Len(selfq') : selfq'[i] = selfq[i + 1]
    BY HeadTailProperties DEF FreeOneshot, TimerTypeOK
  <1>2. /\ Len(selfq) \in Nat \ {0}
        /\ DOMAIN selfq = 1..Len(selfq)
        /\ DOMAIN selfq' = 1..(Len(selfq) - 1)
    BY <1>1, EmptySeq, LenProperties DEF FreeOneshot, TimerTypeOK
  <1>3. /\ Watched' /\ TimerTypeOK' /\ calls' \in [Oneshots -> 0..1]
        /\ tm'[t] = NoTimer /\ \A u \in Timers \ {t} : tm'[u] = tm[u]
    <2>1. t \in Timers /\ NoTimer \in TimerRec /\ t \notin handled
      BY <1>1 DEF FreeOneshot, Timers, NoTimer, TimerRec
    <2>2. /\ Watched' /\ tm' \in [Timers -> TimerRec]
          /\ tm'[t] = NoTimer /\ \A u \in Timers \ {t} : tm'[u] = tm[u]
      BY <2>1, TimWatched DEF FreeOneshot, NoTimer
    <2>3. calls' \in [Oneshots -> 0..1]
      BY <1>1 DEF FreeOneshot
    <2> QED
      BY <1>1, <2>2, <2>3 DEF FreeOneshot, TimerTypeOK, TimerRec
  <1>4. \A u \in Oneshots : Waits(u)' <=> Waits(u) /\ u # t
    <2>1. ASSUME NEW u \in Oneshots, Waits(u)' PROVE Waits(u) /\ u # t
      <3>1. PICK i \in 1..(Len(selfq) - 1) : selfq'[i] = u
        BY <1>2, <2>1 DEF Waits
      <3>2. selfq[i + 1] = u /\ i + 1 \in 1..Len(selfq) /\ i + 1 # 1
        BY <1>1, <1>2, <3>1
      <3> QED
        BY <1>1, <1>2, <3>2 DEF Waits, QueuedOnce
    <2>2. ASSUME NEW u \in Oneshots, Waits(u), u # t PROVE Waits(u)'
      <3>1. PICK i \in 1..Len(selfq) : selfq[i] = u
        BY <1>2, <2>2 DEF Waits
      <3>2. i - 1 \in 1..(Len(selfq) - 1) /\ i = (i - 1) + 1
        BY <1>1, <1>2, <2>2, <3>1
      <3> QED
        BY <1>1, <1>2, <3>1, <3>2 DEF Waits
    <2> QED
      BY <2>1, <2>2
  <1>5. OneshotLife'
    BY <1>1, <1>3, <1>4 DEF FreeOneshot, OneshotLife, NoTimer, Timers
  <1>6. QueuedOnce'
    <2>1. ASSUME NEW i \in 1..(Len(selfq) - 1), NEW j \in 1..(Len(selfq) - 1),
                 selfq'[i] = selfq'[j]
          PROVE  i = j
      <3>1. i + 1 \in DOMAIN selfq /\ j + 1 \in DOMAIN selfq
        BY <1>2
      <3>2. selfq[i + 1] = selfq[j + 1]
        BY <1>1, <2>1
      <3>3. i + 1 = j + 1
        BY <3>1, <3>2 DEF QueuedOnce
      <3> QED
        BY <3>3
    <2> QED
      BY <1>2, <2>1 DEF QueuedOnce
  <1> QED
    BY <1>3, <1>5, <1>6

LEMMA TimStep ==
  ASSUME ~EarlyRearms, TimerInv, [TimerNext]_timerVars
  PROVE  TimerInv'
  <1> USE TimerAssumption
  <1>1. CASE TargetStops
    BY <1>1, TimStop
  <1>2. ASSUME UNCHANGED <<tm, selfq, calls, handled, halted>>,
               target' \in BOOLEAN, fails' \in 0..MaxStartFails,
               tevents' \in [Timers -> 0..MaxTimerEvents]
        PROVE  TimerInv'
    <2>1. TimerTypeOK' /\ Watched'
      BY <1>2 DEF TimerInv, TimerTypeOK, Watched, StartedTimerFires, ArmedTimerIsWatched,
         NotArmedAgain
    <2> QED
      BY <1>2, <2>1, TimSame DEF TimerInv, OneshotLife
  <1>3. CASE TargetStarts \/ UNCHANGED timerVars
    <2>1. target' \in BOOLEAN /\ fails' \in 0..MaxStartFails
      BY <1>3, TimTarget DEF TimerInv, TargetStarts, timerVars
    <2> QED
      BY <1>2, <1>3, <2>1 DEF TimerInv, TimerTypeOK, TargetStarts, timerVars
  <1>4. CASE FreeOneshot
    BY <1>4, TimFree
  <1>5. ASSUME NEW t \in Timers, TimerExpires(t) PROVE TimerInv'
    <2>1. tm[t] \in TimerRec /\ tm[t].armed # "off"
      BY <1>5 DEF TimerExpires, TimerInv, TimerTypeOK, TimerRec
    <2>2. PICK a \in {"off", "once", "cyclic"} :
             a = IF tm[t].armed = "once" THEN "off" ELSE tm[t].armed
      BY <2>1 DEF TimerRec
    <2> DEFINE r == [tm[t] EXCEPT !.expired = TRUE, !.armed = a]
    <2>3. /\ r \in TimerRec /\ r.expired /\ r.armed = a /\ r.mem = tm[t].mem
          /\ r.on = tm[t].on
      BY <2>1 DEF TimerRec
    <2>4. tm' = [tm EXCEPT ![t] = r]
      BY <1>5, <2>2 DEF TimerExpires, TimerInv, TimerTypeOK
    <2>5. tm[t].on \/ t \in halted
      BY <2>1 DEF TimerInv, Watched, ArmedTimerIsWatched
    <2> HIDE DEF r
    <2>6. /\ Watched' /\ tm' \in [Timers -> TimerRec]
          /\ tm'[t] = r /\ \A u \in Timers \ {t} : tm'[u] = tm[u]
      BY <1>5, <2>2, <2>3, <2>4, <2>5, TimWatched DEF TimerExpires
    <2>7. TimerTypeOK'
      BY <1>5, <2>6 DEF TimerExpires, TimerInv, TimerTypeOK, TimerRec
    <2>8. \A u \in Oneshots : /\ UNCHANGED <<tm[u].on, tm[u].mem>>
                              /\ tm'[u].armed # "cyclic"
      <3>1. ASSUME NEW u \in Oneshots
            PROVE  UNCHANGED <<tm[u].on, tm[u].mem>> /\ tm'[u].armed # "cyclic"
        <4>1. u \in Timers /\ tm[u].armed # "cyclic"
          BY DEF TimerInv, OneshotLife, Timers
        <4> QED
          BY <2>2, <2>3, <2>6, <4>1
      <3> QED
        BY <3>1
    <2> QED
      BY <1>5, <2>6, <2>7, <2>8, TimSame DEF TimerExpires
  <1>6. ASSUME NEW t \in Timers, TimerHandler(t) PROVE TimerInv'
    BY <1>6, TimHandle
  <1>7. ASSUME NEW t \in Timers, HandlerEnds(t) PROVE TimerInv'
    BY <1>7, TimEnds
  <1>8. ASSUME NEW t \in Timers, TimerTask(t) PROVE TimerInv'
    <2>1. target' \in BOOLEAN /\ fails' \in 0..MaxStartFails
      BY <1>8, TimTarget DEF TimerInv, TimerTask
    <2>2. tevents' \in [Timers -> 0..MaxTimerEvents]
      BY <1>8 DEF TimerInv, TimerTask, TimerTypeOK
    <2> QED
      BY <1>2, <1>8, <2>1, <2>2 DEF TimerTask
  <1>9. ASSUME NEW t \in AppTimers \cup {Retry}, NEW r \in TimerRec,
               tm' = [tm EXCEPT ![t] = r],
               halted' \in SUBSET Timers, halted' \ {t} = halted \ {t},
               UNCHANGED <<tevents, selfq, calls, handled, target, fails>>,
               r.on => r.armed # "off" \/ r.expired \/ t \in handled,
               r.armed # "off" => r.on \/ t \in halted',
               r.expired \/ t \in handled => r.armed # "once"
        PROVE  TimerInv'
    <2>1. /\ Watched' /\ tm' \in [Timers -> TimerRec]
          /\ \A u \in Timers \ {t} : tm'[u] = tm[u]
      BY <1>9, TimWatched DEF Timers
    <2>2. TimerTypeOK'
      BY <1>9, <2>1 DEF TimerInv, TimerTypeOK, TimerRec
    <2>3. \A u \in Oneshots : tm'[u] = tm[u]
      BY <1>9, <2>1 DEF Timers
    <2> QED
      BY <1>9, <2>1, <2>2, <2>3, TimSame DEF TimerInv, OneshotLife
  <1>10. ASSUME NEW t \in AppTimers \cup {Retry}, StopTimer(t) PROVE TimerInv'
    <2> DEFINE r == [tm[t] EXCEPT !.on = FALSE]
    <2>1. /\ tm[t] \in TimerRec /\ t \in Timers
          /\ tm[t].expired \/ t \in handled => tm[t].armed # "once"
      BY DEF TimerInv, TimerTypeOK, TimerRec, Timers, Watched, NotArmedAgain
    <2>2. /\ r \in TimerRec /\ ~r.on /\ r.armed = tm[t].armed
          /\ r.expired = tm[t].expired
      BY <2>1 DEF TimerRec
    <2>3. tm' = [tm EXCEPT ![t] = r] /\ halted' = halted \cup {t}
      BY <1>10 DEF StopTimer, TimerInv, TimerTypeOK
    <2>4. halted' \in SUBSET Timers
      BY <2>1, <2>3 DEF TimerInv, TimerTypeOK
    <2> HIDE DEF r
    <2> QED
      BY <1>9, <1>10, <2>1, <2>2, <2>3, <2>4 DEF StopTimer
  <1>11. ASSUME NEW t \in AppTimers \cup {Retry}, NEW mode \in {"once", "cyclic"},
                SetTimer(t, mode)
         PROVE  TimerInv'
    <2>1. Armed(mode) \in TimerRec /\ halted' \in SUBSET Timers
      BY <1>11 DEF SetTimer, TimerInv, TimerTypeOK, Armed, TimerRec
    <2> QED
      BY <1>9, <1>11, <2>1 DEF SetTimer, Armed
  <1> QED
    BY <1>1, <1>3, <1>4, <1>5, <1>6, <1>7, <1>8, <1>10, <1>11 DEF TimerNext, StartRetry

LEMMA TimImplies == TimerInv => TimersFire
  <1> SUFFICES ASSUME TimerInv PROVE OneshotOnce
    BY DEF TimerInv, Watched, TimersFire
  <1>1. \A t \in Oneshots : calls[t] <= 1
    BY DEF TimerInv
  <1>2. ASSUME NEW i \in DOMAIN selfq PROVE tm[selfq[i]].mem
    <2>1. selfq[i] \in Oneshots
      BY ElementOfSeq, LenProperties DEF TimerInv, TimerTypeOK
    <2> QED
      BY <2>1 DEF TimerInv, OneshotLife, Waits
  <1> QED
    BY <1>1, <1>2 DEF OneshotOnce, TimerInv, QueuedOnce

(* timer.c: no started timer is without an expiration to come or to read,  *)
(* an armed one is watched unless the application stopped it, a oneshot    *)
(* calls its function at most once, and the self pipe gets each of them    *)
(* once and before it is freed.  A timer that is set to expire once while  *)
(* its own handler runs is excluded: the handler stops it.                 *)
THEOREM TimersAreSound ==
  ASSUME ~EarlyRearms
  PROVE  TimerSpec => []TimersFire
  <1>1. TimerInv /\ [TimerNext]_timerVars => TimerInv'
    BY TimStep
  <1> QED
    BY <1>1, TimInit, TimImplies, PTL DEF TimerSpec

---------------------------------------------------------------------------
(* WriteQueue.  What was sent and what is queued are, together, the items  *)
(* in the order they were added.  Every trigger, an enabled callback and   *)
(* an item that was not announced yet stem from different items: their     *)
(* number bounds the triggers.                                             *)
Flag(b) == IF b THEN 1 ELSE 0

InOrder ==
    /\ \A i \in 1..Len(sent) : sent[i] = <<i, TRUE>>
    /\ \A i \in 1..Len(wq) : wq[i] = Len(sent) + i
    /\ Len(sent) + Len(wq) = added.n

WqTypes ==
    /\ added \in [n : 0..MaxItems, tell : BOOLEAN]
    /\ wq \in Seq(1..MaxItems)
    /\ enabled \in BOOLEAN
    /\ trigs \in Nat
    /\ room \in 0..Room
    /\ sent \in Seq((1..MaxItems) \X BOOLEAN)

WqInv ==
    /\ WqTypes
    /\ InOrder
    /\ trigs + Flag(enabled) + Flag(added.tell) <= added.n

LEMMA FlagBit ==
  ASSUME NEW b PROVE Flag(b) \in 0..1 /\ (b => Flag(b) = 1) /\ (~b => Flag(b) = 0)
  BY DEF Flag

LEMMA WqInit == WriteQueueInit => WqInv
  <1> SUFFICES ASSUME WriteQueueInit PROVE WqInv
    OBVIOUS
  <1>1. /\ <<>> \in Seq(1..MaxItems) /\ <<>> \in Seq((1..MaxItems) \X BOOLEAN)
        /\ Len(<<>>) = 0
    BY EmptySeq
  <1>2. WqTypes
    <2>1. added \in [n : 0..MaxItems, tell : BOOLEAN] /\ room \in 0..Room
      BY WriteQueueAssumption DEF WriteQueueInit
    <2>2. trigs \in Nat /\ enabled \in BOOLEAN
      BY DEF WriteQueueInit
    <2> QED
      BY <1>1, <2>1, <2>2 DEF WriteQueueInit, WqTypes
  <1>3. InOrder
    BY <1>1 DEF WriteQueueInit, InOrder
  <1> QED
    BY <1>2, <1>3 DEF WriteQueueInit, WqInv, Flag

LEMMA WqAdd ==
  ASSUME WqInv, AddItem
  PROVE  WqInv'
  <1> DEFINE k == added.n + 1
  <1> USE WriteQueueAssumption DEF WqInv
  <1>1. k \in 1..MaxItems /\ added' = [n |-> k, tell |-> TRUE] /\ added.n \in Nat
    BY DEF AddItem, WqTypes
  <1>2. wq \in Seq(1..MaxItems) /\ wq' = Append(wq, k)
    BY DEF AddItem, WqTypes
  <1>3. /\ wq' \in Seq(1..MaxItems) /\ Len(wq') = Len(wq) + 1
        /\ \A i \in 1..Len(wq) : wq'[i] = wq[i]
        /\ wq'[Len(wq) + 1] = k
    BY <1>1, <1>2, AppendProperties
  <1>4. WqTypes'
    BY <1>1, <1>3 DEF AddItem, WqTypes
  <1>5. Len(wq) \in Nat /\ Len(sent) \in Nat /\ UNCHANGED sent
    BY LenProperties DEF WqTypes, AddItem
  <1>6. InOrder'
    <2>1. ASSUME NEW i \in 1..Len(wq') PROVE wq'[i] = Len(sent) + i
      <3>1. CASE i = Len(wq) + 1
        BY <1>1, <1>3, <1>5, <3>1 DEF InOrder
      <3>2. CASE i \in 1..Len(wq)
        BY <1>3, <1>5, <3>2 DEF InOrder
      <3> QED
        BY <1>3, <1>5, <3>1, <3>2
    <2>2. Len(sent) + Len(wq') = k
      BY <1>1, <1>3, <1>5 DEF InOrder
    <2> QED
      BY <1>1, <1>5, <2>1, <2>2 DEF InOrder
  <1>7. (trigs + Flag(enabled) + Flag(added.tell) <= added.n)'
    BY <1>1 DEF AddItem, WqTypes, Flag
  <1> QED
    BY <1>4, <1>6, <1>7

(* n items are written, and an error other than a partial write ends it.   *)
LEMMA WqWrite ==
  ASSUME ~Partial, WqInv, NEW n \in 0..Len(wq), NEW err \in Errors, NEW k \in Nat,
         WriteItems(n, err, k), k + 1 <= trigs + Flag(enabled)
  PROVE  WqInv'
  <1> DEFINE new == [i \in 1..n |-> <<wq[i], TRUE>>]
  <1> DEFINE Sent == (1..MaxItems) \X BOOLEAN
  <1> USE WriteQueueAssumption DEF WqInv
  <1>0. /\ err \in {"none", "EAGAIN", "ENOBUFS", "EIO"}
        /\ wq' = SubSeq(wq, n + 1, Len(wq))
        /\ sent' = (sent \o new) \o <<>>
        /\ UNCHANGED added
    BY DEF WriteItems, Errors, Leftover
  <1>1. /\ wq \in Seq(1..MaxItems) /\ sent \in Seq(Sent)
        /\ Len(wq) \in Nat /\ Len(sent) \in Nat /\ n \in Nat
        /\ \A i \in 1..Len(wq) : wq[i] \in 1..MaxItems
    BY LenProperties, ElementOfSeq DEF WqTypes
  <1>2. new \in Seq(Sent) /\ Len(new) = n
    <2> HIDE DEF WqInv
    <2>1. ASSUME NEW i \in 1..n PROVE <<wq[i], TRUE>> \in Sent
      <3>1. i \in 1..Len(wq)
        BY <1>1
      <3> QED
        BY <1>1, <3>1
    <2>2. new \in [1..n -> Sent]
      BY <2>1
    <2> HIDE DEF Sent, new
    <2> QED
      BY <1>1, <2>2, LenProperties
  <1>3. /\ sent' \in Seq(Sent)
        /\ Len(sent') = Len(sent) + n
        /\ \A i \in 1..(Len(sent) + n) :
              sent'[i] = IF i <= Len(sent) THEN sent[i] ELSE new[i - Len(sent)]
    <2>1. /\ sent \o new \in Seq(Sent)
          /\ Len(sent \o new) = Len(sent) + n
          /\ \A i \in 1..(Len(sent) + n) :
                (sent \o new)[i] = IF i <= Len(sent) THEN sent[i] ELSE new[i - Len(sent)]
      <3> HIDE DEF WqInv, new, Sent
      <3> QED
        BY <1>1, <1>2, ConcatProperties
    <2>2. sent' = sent \o new
      BY <1>0, <2>1, ConcatEmptySeq
    <2> QED
      BY <2>1, <2>2
  <1>4. /\ wq' \in Seq(1..MaxItems)
        /\ Len(wq') = Len(wq) - n
        /\ \A i \in 1..(Len(wq) - n) : wq'[i] = wq[n + i]
    <2>1. \A i \in (n + 1)..Len(wq) : wq[i] \in 1..MaxItems
      BY <1>1
    <2>2. /\ SubSeq(wq, n + 1, Len(wq)) \in Seq(1..MaxItems)
          /\ Len(SubSeq(wq, n + 1, Len(wq)))
                = IF n + 1 <= Len(wq) THEN Len(wq) - (n + 1) + 1 ELSE 0
          /\ \A i \in 1..(Len(wq) - (n + 1) + 1) :
                SubSeq(wq, n + 1, Len(wq))[i] = wq[n + 1 + i - 1]
      <3> HIDE DEF WqInv
      <3>1. n + 1 \in Int /\ Len(wq) \in Int
        BY <1>1
      <3> QED
        BY <2>1, <3>1, SubSeqProperties
    <2> HIDE DEF WqInv
    <2>3. n <= Len(wq) /\ \A i \in 1..(Len(wq) - n) : n + 1 + i - 1 = n + i
      BY <1>1
    <2>4. 1..(Len(wq) - (n + 1) + 1) = 1..(Len(wq) - n)
      BY <1>1
    <2> QED
      BY <1>0, <1>1, <2>2, <2>3, <2>4
  <1>5. InOrder'
    <2>0. /\ \A i \in 1..Len(sent) : sent[i] = <<i, TRUE>>
          /\ \A i \in 1..Len(wq) : wq[i] = Len(sent) + i
          /\ Len(sent) + Len(wq) = added.n
      BY DEF InOrder
    <2>n. \A i \in 1..n : new[i] = <<wq[i], TRUE>>
      OBVIOUS
    <2> HIDE DEF WqInv, new, Sent
    <2>1. ASSUME NEW i \in 1..Len(sent') PROVE sent'[i] = <<i, TRUE>>
      <3>0. i \in 1..(Len(sent) + n)
        BY <1>3
      <3>1. CASE i <= Len(sent)
        <4>1. i \in 1..Len(sent)
          BY <1>1, <3>0, <3>1
        <4> QED
          BY <1>3, <2>0, <3>0, <3>1, <4>1
      <3>2. CASE ~(i <= Len(sent))
        <4>1. i - Len(sent) \in 1..n /\ i - Len(sent) \in 1..Len(wq)
          BY <1>1, <3>0, <3>2
        <4>2. sent'[i] = new[i - Len(sent)]
          BY <1>3, <3>0, <3>2
        <4>3. wq[i - Len(sent)] = i
          <5>1. wq[i - Len(sent)] = Len(sent) + (i - Len(sent))
            BY <2>0, <4>1
          <5>2. Len(sent) + (i - Len(sent)) = i
            BY <1>1, <3>0
          <5> QED
            BY <5>1, <5>2
        <4> QED
          BY <2>n, <4>1, <4>2, <4>3
      <3> QED
        BY <3>1, <3>2
    <2>2. ASSUME NEW i \in 1..Len(wq') PROVE wq'[i] = Len(sent') + i
      <3>1. n + i \in 1..Len(wq) /\ wq'[i] = wq[n + i]
        BY <1>1, <1>4
      <3> QED
        BY <1>1, <1>3, <2>0, <3>1
    <2>3. Len(sent') + Len(wq') = added'.n
      <3>1. Len(sent') + Len(wq') = Len(sent) + Len(wq)
        BY <1>1, <1>3, <1>4
      <3> QED
        BY <1>0, <2>0, <3>1
    <2> QED
      BY <2>1, <2>2, <2>3 DEF InOrder
  <1>6. trigs' \in Nat /\ room' \in 0..Room /\ enabled' \in BOOLEAN
    <2>1. trigs' \in Nat
      BY DEF WriteItems
    <2>2. room' \in 0..Room
      BY <1>1 DEF WriteItems, WqTypes
    <2>3. enabled' \in BOOLEAN
      BY DEF WriteItems, KeepsGoing
    <2> QED
      BY <2>1, <2>2, <2>3
  <1>7. trigs' + Flag(enabled') <= k + 1
    BY DEF WriteItems, KeepsGoing, Flag
  <1>8. (trigs + Flag(enabled) + Flag(added.tell) <= added.n)'
    <2>1. added.n \in Nat /\ trigs \in Nat
      BY DEF WqTypes
    <2>2. trigs + Flag(enabled) + Flag(added.tell) <= added.n
      OBVIOUS
    <2>3. Flag(added'.tell) = Flag(added.tell) /\ added'.n = added.n
      BY <1>0
    <2>4. /\ Flag(enabled) \in 0..1 /\ Flag(enabled') \in 0..1
          /\ Flag(added.tell) \in 0..1
      BY FlagBit
    <2> HIDE DEF WqInv
    <2>5. trigs' + Flag(enabled') + Flag(added.tell) <= added.n
      BY <1>6, <1>7, <2>1, <2>2, <2>4
    <2> QED
      BY <2>3, <2>5
  <1> QED
    BY <1>0, <1>3, <1>4, <1>5, <1>6, <1>8 DEF WqTypes

(* A step that leaves the queue, what was sent and the number of items.    *)
LEMMA WqKeeps ==
  ASSUME WqInv, UNCHANGED <<wq, sent, added.n>>,
         added' \in [n : 0..MaxItems, tell : BOOLEAN],
         enabled' \in BOOLEAN, trigs' \in Nat, room' \in 0..Room,
         trigs' + Flag(enabled') + Flag(added'.tell)
            <= trigs + Flag(enabled) + Flag(added.tell)
  PROVE  WqInv'
  <1>1. WqTypes' /\ InOrder'
    BY DEF WqInv, WqTypes, InOrder
  <1>2. (trigs + Flag(enabled) + Flag(added.tell) <= added.n)'
    <2>1. /\ Flag(enabled) \in 0..1 /\ Flag(enabled') \in 0..1
          /\ Flag(added.tell) \in 0..1 /\ Flag(added'.tell) \in 0..1
      BY FlagBit
    <2>2. added.n \in Nat /\ trigs \in Nat
          /\ trigs + Flag(enabled) + Flag(added.tell) <= added.n /\ added'.n = added.n
      BY DEF WqInv, WqTypes
    <2> QED
      BY <2>1, <2>2
  <1> QED
    BY <1>1, <1>2 DEF WqInv

LEMMA WqStep ==
  ASSUME ~Partial, WqInv, [WriteQueueNext]_wqVars
  PROVE  WqInv'
  <1> USE WriteQueueAssumption DEF WqInv
  <1>1. CASE AddItem
    BY <1>1, WqAdd
  <1>2. CASE StartQueue
    <2>1. /\ added \in [n : 0..MaxItems, tell : BOOLEAN] /\ added.tell
          /\ added' = [added EXCEPT !.tell = FALSE] /\ enabled' = TRUE
          /\ trigs \in Nat /\ room \in 0..Room /\ UNCHANGED <<wq, trigs, room, sent>>
      BY <1>2 DEF StartQueue, WqTypes
    <2> HIDE DEF WqInv
    <2>2. /\ added' \in [n : 0..MaxItems, tell : BOOLEAN]
          /\ added'.n = added.n /\ ~added'.tell
      BY <2>1
    <2>3. /\ Flag(added.tell) = 1 /\ Flag(added'.tell) = 0
          /\ Flag(enabled') \in 0..1 /\ Flag(enabled) \in 0..1
      BY <2>1, <2>2, FlagBit
    <2>4. trigs' + Flag(enabled') + Flag(added'.tell)
             <= trigs + Flag(enabled) + Flag(added.tell)
      <3>1. trigs \in Nat /\ trigs' = trigs
        BY <2>1
      <3> QED
        BY <2>3, <3>1
    <2> QED
      BY <2>1, <2>2, <2>4, WqKeeps
  <1>3. CASE TriggerQueue
    <2>1. /\ added \in [n : 0..MaxItems, tell : BOOLEAN] /\ added.tell
          /\ added' = [added EXCEPT !.tell = FALSE] /\ trigs' = trigs + 1
          /\ trigs \in Nat /\ room \in 0..Room /\ enabled \in BOOLEAN
          /\ UNCHANGED <<wq, enabled, room, sent>>
      BY <1>3 DEF TriggerQueue, WqTypes
    <2> HIDE DEF WqInv
    <2>2. /\ added' \in [n : 0..MaxItems, tell : BOOLEAN]
          /\ added'.n = added.n /\ ~added'.tell
      BY <2>1
    <2>3. /\ Flag(added.tell) = 1 /\ Flag(added'.tell) = 0
          /\ Flag(enabled') = Flag(enabled) /\ Flag(enabled) \in 0..1
      BY <2>1, <2>2, FlagBit
    <2>4. /\ trigs' \in Nat
          /\ trigs' + Flag(enabled') + Flag(added'.tell)
                <= trigs + Flag(enabled) + Flag(added.tell)
      <3>1. trigs \in Nat /\ trigs' = trigs + 1
        BY <2>1
      <3> QED
        BY <2>3, <3>1
    <2> QED
      BY <2>1, <2>2, <2>4, WqKeeps
  <1>4. CASE WriteHandler
    <2>1. PICK n \in 0..Len(wq), err \in Errors : WriteItems(n, err, trigs)
      BY <1>4 DEF WriteHandler
    <2>2. trigs \in Nat /\ trigs + 1 <= trigs + Flag(enabled)
      BY <1>4 DEF WriteHandler, WqTypes, Flag
    <2> QED
      BY <2>1, <2>2, WqWrite
  <1>5. CASE TriggeredHandler
    <2>1. PICK n \in 0..Len(wq), err \in Errors : WriteItems(n, err, trigs - 1)
      BY <1>5 DEF TriggeredHandler
    <2>2. trigs - 1 \in Nat /\ (trigs - 1) + 1 <= trigs + Flag(enabled)
      BY <1>5 DEF TriggeredHandler, WqTypes, Flag
    <2> QED
      BY <2>1, <2>2, WqWrite
  <1>6. CASE ReaderReads \/ UNCHANGED wqVars
    <2>1. UNCHANGED <<added, wq, enabled, trigs, sent>> /\ room' \in 0..Room
      BY <1>6 DEF ReaderReads, wqVars, WqTypes
    <2> QED
      BY <2>1 DEF WqTypes, InOrder
  <1> QED
    BY <1>1, <1>2, <1>3, <1>4, <1>5, <1>6 DEF WriteQueueNext

LEMMA WqImplies == WqInv => SentInOrder
  <1> SUFFICES ASSUME WqInv PROVE SentInOrder
    OBVIOUS
  <1>1. trigs \in 0..(MaxItems + 1)
    BY WriteQueueAssumption DEF WqInv, WqTypes, Flag
  <1>2. DOMAIN sent = 1..Len(sent)
    BY LenProperties DEF WqInv, WqTypes
  <1> QED
    BY <1>1, <1>2 DEF WqInv, WqTypes, InOrder, SentInOrder, WriteQueueTypeOK

(* writequeue.c: when write() takes items as a whole, the reader gets them *)
(* in the order they were added, none twice and none left out, whichever   *)
(* errors interrupt the queue and whoever starts or triggers it again.     *)
THEOREM ItemsAreSentInOrder ==
  ASSUME ~Partial
  PROVE  WriteQueueSpec => []SentInOrder
  <1>1. WqInv /\ [WriteQueueNext]_wqVars => WqInv'
    BY WqStep
  <1> QED
    BY <1>1, WqInit, WqImplies, PTL DEF WriteQueueSpec

=============================================================================
