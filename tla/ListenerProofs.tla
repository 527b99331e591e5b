--------------------------- MODULE ListenerProofs ---------------------------
(***************************************************************************)
(* Proofs about Listener: type correctness, at most one completion of a    *)
(* shutdown, quiet listeners after a stop, and no mutex that is kept       *)
(* between two calls, for any listeners and any number of threads.         *)
(***************************************************************************)
EXTENDS Listener, TLAPS

(* What the proofs require of the application and that the code does not   *)
(* check.  A listener whose descriptor may report an error is started once *)
(* (the error callback releases it, and a second start that waits for      *)
(* state_mutex would revive it).  A listener whose start may fail, or that *)
(* has a thread of its own, has no dependants (a refused stop leaves it    *)
(* STOPPING and running: a start that fails then declares it STOPPED, and  *)
(* one that succeeds overwrites eloop_thread).                             *)
Once(l) == StartBound(l) <= 1

Alone(l) == l \in MayFail \/ "thread" \in Modes[l]

SafeUse ==
    /\ \A l \in MayBreak : Once(l)
    /\ \A r \in Deps : ~Alone(r[2])

---------------------------------------------------------------------------
(* The inductive invariant.                                                *)

StartPCs == {"start_lock", "start_cb", "start_event"}

StoppingPCs == {"stop_deps", "stop_cb", "stop_join", "stop_done"}

(* The part of a shutdown between SHUTTING_DOWN and its end.               *)
Releasing == {"sd_remove", "sd_unlist", "sd_check", "sd_delay", "sd_intern"}

(* Where a thread holds state_mutex.                                       *)
Holding == {"start_cb", "start_event", "stop_event", "sd_queue"} \cup StoppingPCs

(* Threads stay in their program and know their listener.                  *)
Programs ==
    /\ \A t \in Threads :
          /\ t # Loop => pc[t] \in OpPCs \cup {"idle"}
          /\ on[t] \in Listeners <=> pc[t] \in OpPCs
          /\ op[t] = "start" <=> pc[t] \in StartPCs
          /\ pc[t] \in {"sd_lock", "sd_queue"} \cup Releasing => op[t] = "shutdown"
    /\ pc[Loop] \in LoopPCs \ {"idle"} => cb \in Listeners
    /\ pc[Loop] = "idle" => cb = NoListener

(* state_mutex protects the state while a start or a stop is under way.    *)
Locked ==
    \A t \in Threads :
        /\ pc[t] \in Holding => sm[on[t]] = t
        /\ pc[t] = "start_cb" => state[on[t]] = STARTING
        /\ pc[t] = "start_event" => state[on[t]] \in {STARTED, STOPPED}
        /\ pc[t] \in StoppingPCs => state[on[t]] = STOPPING
        /\ pc[t] = "stop_event" => state[on[t]] = STOPPED
        /\ pc[t] = "sd_queue" => state[on[t]] = SHUTDOWN /\ graph[on[t]]

(* Only threads that are at such a place own a mutex, unless the shutdown  *)
(* was completed.                                                          *)
Owners ==
    \A l \in Listeners, t \in Threads :
        /\ sm[l] = t => ~graph[l] \/ (on[t] = l /\ pc[t] \in Holding)
        /\ qm[l] = t => ~graph[l] \/ (t = Loop /\ cb = l /\ pc[t] \in {"check", "unlock"})

(* A released listener is not about to be started, and one thread at most  *)
(* releases it.                                                            *)
Releases ==
    /\ \A t \in Threads :
          /\ op[t] = "shutdown" => released[on[t]]
          /\ pc[t] = "start_lock" => ~released[on[t]]
          /\ pc[t] \in Releasing =>
                /\ state[on[t]] = SHUTTING_DOWN
                /\ graph[on[t]]
                /\ \A u \in Threads : pc[u] \in Releasing /\ on[u] = on[t] => u = t
    /\ \A l \in Listeners : state[l] \in {SHUTTING_DOWN, SHUTDOWN} => released[l]

(* A completed shutdown is final.                                          *)
Completed ==
    \A l \in Listeners :
        /\ interned[l] = IF graph[l] THEN 0 ELSE 1
        /\ ~graph[l] => \/ state[l] = SHUTTING_DOWN
                        \/ state[l] = SHUTDOWN /\ sm[l] # NoThread

Off(l) == ~active[l] /\ thread[l] = "none"

(* What is stopped is off, and so is a listener without dependants when    *)
(* its start begins; no thread is lost.                                    *)
Quieted ==
    /\ \A l \in Listeners :
          /\ ~orphan[l]
          /\ Inactive(state[l]) => Off(l)
          /\ Alone(l) /\ state[l] \in {STARTING, STOPPING} => sm[l] # NoThread
    /\ \A t \in Threads :
          /\ pc[t] \in {"stop_join", "stop_done"} => ~active[on[t]]
          /\ pc[t] = "stop_done" => thread[on[t]] = "none"
          /\ pc[t] = "start_cb" /\ Alone(on[t]) => Off(on[t])

Untouched(l) == state[l] = STOPPED /\ Off(l) /\ queued[l] = 0 /\ cb # l

(* Before its only start has taken the mutex, nothing happened to a        *)
(* listener.                                                               *)
Fresh ==
    \A l \in Listeners : Once(l) /\ ~released[l] =>
        /\ starts[l] = 0 => Untouched(l) /\ \A u \in Threads : on[u] # l
        /\ \A t \in Threads : pc[t] = "start_lock" /\ on[t] = l =>
              Untouched(l) /\ \A u \in Threads : on[u] = l => u = t

LifeInv ==
    /\ TypeOK
    /\ Programs
    /\ Locked
    /\ Owners
    /\ Releases
    /\ Completed
    /\ Quieted
    /\ Fresh

---------------------------------------------------------------------------
LEMMA StatesDiffer ==
    /\ STARTING \in States /\ STARTED \in States /\ STOPPING \in States
    /\ STOPPED \in States /\ SHUTTING_DOWN \in States /\ SHUTDOWN \in States
    /\ STARTING \notin {STARTED, STOPPING, STOPPED, SHUTTING_DOWN, SHUTDOWN}
    /\ STARTED \notin {STOPPING, STOPPED, SHUTTING_DOWN, SHUTDOWN}
    /\ STOPPING \notin {STOPPED, SHUTTING_DOWN, SHUTDOWN}
    /\ STOPPED \notin {SHUTTING_DOWN, SHUTDOWN}
    /\ SHUTTING_DOWN # SHUTDOWN
  BY DEF States, STARTING, STARTED, STOPPING, STOPPED, SHUTTING_DOWN, SHUTDOWN

LEMMA LifeInit == Init => LifeInv
  <1> SUFFICES ASSUME Init PROVE LifeInv
    OBVIOUS
  <1> USE ListenerAssumptions, StatesDiffer
  <1>1. TypeOK
    BY DEF Init, TypeOK, LoopPCs, Threads
  <1>2. Programs
    BY DEF Init, Programs, OpPCs, StartPCs, LoopPCs, Releasing, Threads
  <1>3. Locked /\ Owners
    BY DEF Init, Locked, Owners, Holding, StoppingPCs, Threads
  <1>4. Releases
    BY DEF Init, Releases, Releasing, Threads
  <1>5. Completed
    BY DEF Init, Completed
  <1>6. Quieted
    BY DEF Init, Quieted, Off, Threads
  <1>7. Fresh
    BY DEF Init, Fresh, Untouched, Off, Threads
  <1> QED
    BY <1>1, <1>2, <1>3, <1>4, <1>5, <1>6, <1>7 DEF LifeInv

(* A thread returns from a function and holds no mutex.                    *)
LEMMA LifeReturn ==
  ASSUME LifeInv, NEW t \in Threads, Return(t), pc[t] \in OpPCs \ Holding,
         UNCHANGED <<state, sm, queueVars, graph, sourceVars, interned, boundVars, cb>>
  PROVE  LifeInv'
  <1> USE ListenerAssumptions, StatesDiffer
      DEF LifeInv, Return, Goto, queueVars, sourceVars, boundVars, OpPCs, LoopPCs, StartPCs,
          StoppingPCs, Releasing, Holding
  <1>0. pc[t] \in OpPCs \ Holding
    BY DEF Programs
  <1>1. TypeOK'
    BY <1>0 DEF TypeOK
  <1>2. Programs'
    BY <1>0 DEF TypeOK, Programs
  <1>3. Locked'
    BY <1>0 DEF TypeOK, Locked, Programs
  <1>4. Owners'
    BY <1>0 DEF TypeOK, Owners, Programs
  <1>5. Releases'
    BY <1>0 DEF TypeOK, Releases, Programs
  <1>6. Completed'
    BY <1>0 DEF TypeOK, Completed, Releases
  <1>7. Quieted'
    BY <1>0 DEF TypeOK, States, Quieted, Off, Inactive, Programs
  <1>8. Fresh'
    BY <1>0 DEF TypeOK, Fresh, Untouched, Off, Programs
  <1> QED
    BY <1>1, <1>2, <1>3, <1>4, <1>5, <1>6, <1>7, <1>8

(* crtx_start_listener takes state_mutex.                                  *)
LEMMA LifeStartLock ==
  ASSUME LifeInv, NEW t \in Threads, StartLock(t), state[on[t]] # STARTED
  PROVE  LifeInv'
  <1> USE ListenerAssumptions, StatesDiffer
      DEF LifeInv, Return, Goto, queueVars, sourceVars, boundVars, OpPCs, LoopPCs, StartPCs,
          StoppingPCs, Releasing, Holding
  <1>0. /\ on[t] \in Listeners /\ pc[t] = "start_lock" /\ op[t] = "start"
        /\ sm[on[t]] = NoThread /\ pc' = [pc EXCEPT ![t] = "start_cb"]
        /\ UNCHANGED <<op, on, cb>>
    BY DEF StartLock, Programs, StartPCs, Releasing, OpPCs, TypeOK
  <1>1. TypeOK'
    BY <1>0 DEF StartLock, TypeOK
  <1>2. Programs'
    BY <1>0 DEF TypeOK, Programs
  <1>3. Locked'
    BY <1>0 DEF StartLock, TypeOK, Locked, Programs
  <1>4. Owners'
    BY <1>0 DEF StartLock, TypeOK, Owners, Programs
  <1>5. Releases'
    BY <1>0 DEF StartLock, TypeOK, Releases, Programs
  <1>6. Completed'
    BY <1>0 DEF StartLock, TypeOK, Completed, Releases
  <1>7. Quieted'
    BY <1>0 DEF StartLock, TypeOK, States, Quieted, Off, Inactive, Programs
  <1>8. Fresh'
    BY <1>0 DEF StartLock, TypeOK, Fresh, Untouched, Off, Programs
  <1> QED
    BY <1>1, <1>2, <1>3, <1>4, <1>5, <1>6, <1>7, <1>8

(* The callback of the listener refuses to start.                          *)
LEMMA LifeStartFails ==
  ASSUME LifeInv, NEW t \in Threads, StartFails(t)
  PROVE  LifeInv'
  <1> USE ListenerAssumptions, StatesDiffer
      DEF LifeInv, Return, Goto, queueVars, sourceVars, boundVars, OpPCs, LoopPCs, StartPCs,
          StoppingPCs, Releasing, Holding
  <1>0. on[t] \in Listeners /\ pc[t] = "start_cb" /\ op[t] = "start"
    BY DEF StartFails, Programs, StartPCs, Releasing, OpPCs, TypeOK
  <1>1. TypeOK'
    BY <1>0 DEF StartFails, TypeOK
  <1>2. Programs'
    BY <1>0 DEF StartFails, TypeOK, Programs
  <1>3. Locked'
    BY <1>0 DEF StartFails, TypeOK, Locked, Programs
  <1>4. Owners'
    BY <1>0 DEF StartFails, TypeOK, Owners, Programs
  <1>5. Releases'
    BY <1>0 DEF StartFails, TypeOK, Releases, Locked, Programs
  <1>6. Completed'
    BY <1>0 DEF StartFails, TypeOK, Completed, Locked, Releases
  <1>7. Quieted'
    BY <1>0 DEF StartFails, TypeOK, States, Quieted, Off, Inactive, Programs, Alone
  <1>8. Fresh'
    BY <1>0 DEF StartFails, TypeOK, Fresh, Untouched, Off, Programs
  <1> QED
    BY <1>1, <1>2, <1>3, <1>4, <1>5, <1>6, <1>7, <1>8

(* The thread is started or the descriptor is watched.                     *)
LEMMA LifeStartSucceeds ==
  ASSUME LifeInv, NEW t \in Threads, StartSucceeds(t)
  PROVE  LifeInv'
  <1> USE ListenerAssumptions, StatesDiffer
      DEF LifeInv, Return, Goto, queueVars, sourceVars, boundVars, OpPCs, LoopPCs, StartPCs,
          StoppingPCs, Releasing, Holding
  <1>0. /\ on[t] \in Listeners /\ pc[t] = "start_cb" /\ op[t] = "start"
        /\ pc' = [pc EXCEPT ![t] = "start_event"]
        /\ UNCHANGED <<op, on, cb>>
    BY DEF StartSucceeds, Programs, StartPCs, Releasing, OpPCs, TypeOK
  <1>00. UNCHANGED orphan
    <2>1. CASE ~Alone(on[t])
      BY <2>1 DEF StartSucceeds, Alone
    <2>2. CASE Alone(on[t])
      <3>1. thread[on[t]] = "none" /\ orphan[on[t]] = FALSE
        BY <1>0, <2>2 DEF Quieted, Off, TypeOK
      <3>2. [orphan EXCEPT ![on[t]] = @ \/ thread[on[t]] = "running"] = orphan
        BY <1>0, <3>1 DEF TypeOK
      <3> QED
        BY <3>2 DEF StartSucceeds
    <2> QED
      BY <2>1, <2>2
  <1>1. TypeOK'
    <2>0. /\ active' \in {active, [active EXCEPT ![on[t]] = TRUE]}
          /\ thread' \in {thread, [thread EXCEPT ![on[t]] = "running"]}
      BY DEF StartSucceeds
    <2>1. /\ active' \in [Listeners -> BOOLEAN]
          /\ thread' \in [Listeners -> {"none", "running", "finished"}]
      <3>1. active' \in [Listeners -> BOOLEAN]
        BY <1>0, <2>0 DEF TypeOK
      <3>2. thread' \in [Listeners -> {"none", "running", "finished"}]
        BY <1>0, <2>0 DEF TypeOK
      <3> QED
        BY <3>1, <3>2
    <2>2. UNCHANGED <<sm, queueVars, graph, fd, inlist, orphan, rev, interned, boundVars,
                      op, on, cb>>
      BY <1>00 DEF StartSucceeds
    <2>3. state' \in [Listeners -> States] /\ pc' \in [Threads -> OpPCs \cup LoopPCs]
      BY <1>0 DEF StartSucceeds, TypeOK
    <2> QED
      BY <2>1, <2>2, <2>3 DEF TypeOK
  <1>2. Programs'
    BY <1>0 DEF TypeOK, Programs
  <1>3. Locked'
    BY <1>0 DEF StartSucceeds, TypeOK, Locked, Programs
  <1>4. Owners'
    BY <1>0 DEF StartSucceeds, TypeOK, Owners, Programs
  <1>5. Releases'
    BY <1>0 DEF StartSucceeds, TypeOK, Releases, Locked, Programs
  <1>6. Completed'
    BY <1>0 DEF StartSucceeds, TypeOK, Completed, Locked, Releases
  <1>7. Quieted'
    <2>1. /\ state'[on[t]] = STARTED /\ UNCHANGED sm /\ sm[on[t]] = t
          /\ \A l \in Listeners \ {on[t]} :
                state'[l] = state[l] /\ active'[l] = active[l] /\ thread'[l] = thread[l]
      BY <1>0 DEF StartSucceeds, TypeOK, Locked
    <2>2. \A l \in Listeners :
             /\ ~orphan'[l]
             /\ Inactive(state'[l]) => Off(l)'
             /\ Alone(l) /\ state'[l] \in {STARTING, STOPPING} => sm'[l] # NoThread
      BY <1>00, <2>1 DEF Quieted, Off, Inactive, States
    <2>3. ASSUME NEW u \in Threads \ {t}, pc[u] \in Holding
          PROVE  on[u] \in Listeners \ {on[t]}
      BY <1>0, <2>1, <2>3 DEF Locked, Programs
    <2>4. \A u \in Threads :
             /\ pc'[u] \in {"stop_join", "stop_done"} => ~active'[on[u]]
             /\ pc'[u] = "stop_done" => thread'[on[u]] = "none"
             /\ pc'[u] = "start_cb" /\ Alone(on[u]) => Off(on[u])'
      BY <1>0, <2>1, <2>3 DEF TypeOK, Quieted, Off
    <2> QED
      BY <1>0, <2>2, <2>4 DEF Quieted
  <1>8. Fresh'
    BY <1>0 DEF StartSucceeds, TypeOK, Fresh, Untouched, Off, Programs
  <1> QED
    BY <1>1, <1>2, <1>3, <1>4, <1>5, <1>6, <1>7, <1>8

(* crtx_stop_listener takes state_mutex.                                   *)
LEMMA LifeStopLock ==
  ASSUME LifeInv, NEW t \in Threads, StopLock(t), ~Inactive(state[on[t]])
  PROVE  LifeInv'
  <1> USE ListenerAssumptions, StatesDiffer
      DEF LifeInv, Return, Goto, queueVars, sourceVars, boundVars, OpPCs, LoopPCs, StartPCs,
          StoppingPCs, Releasing, Holding
  <1>0. /\ on[t] \in Listeners /\ pc[t] = "stop_lock" /\ op[t] # "start"
        /\ sm[on[t]] = NoThread /\ pc' = [pc EXCEPT ![t] = "stop_deps"]
        /\ UNCHANGED <<op, on, cb>>
    BY DEF StopLock, Inactive, Programs, StartPCs, Releasing, OpPCs, TypeOK
  <1>1. TypeOK'
    BY <1>0 DEF StopLock, Inactive, TypeOK
  <1>2. Programs'
    BY <1>0 DEF TypeOK, Programs
  <1>3. Locked'
    BY <1>0 DEF StopLock, Inactive, TypeOK, Locked, Programs
  <1>4. Owners'
    BY <1>0 DEF StopLock, Inactive, TypeOK, Owners, Programs
  <1>5. Releases'
    BY <1>0 DEF StopLock, Inactive, TypeOK, Releases, Programs
  <1>6. Completed'
    BY <1>0 DEF StopLock, Inactive, TypeOK, Completed, Releases
  <1>7. Quieted'
    BY <1>0 DEF StopLock, Inactive, TypeOK, States, Quieted, Off, Programs
  <1>8. Fresh'
    BY <1>0 DEF StopLock, Inactive, TypeOK, Fresh, Untouched, Off, Programs
  <1> QED
    BY <1>1, <1>2, <1>3, <1>4, <1>5, <1>6, <1>7, <1>8

(* The listener is off and becomes STOPPED.                                *)
LEMMA LifeStopDone ==
  ASSUME LifeInv, NEW t \in Threads, StopDone(t)
  PROVE  LifeInv'
  <1> USE ListenerAssumptions, StatesDiffer
      DEF LifeInv, Return, Goto, queueVars, sourceVars, boundVars, OpPCs, LoopPCs, StartPCs,
          StoppingPCs, Releasing, Holding
  <1>0. on[t] \in Listeners /\ pc[t] = "stop_done" /\ op[t] # "start"
    BY DEF StopDone, Programs, StartPCs, Releasing, OpPCs, TypeOK
  <1>1. TypeOK'
    BY <1>0 DEF StopDone, TypeOK
  <1>2. Programs'
    BY <1>0 DEF StopDone, TypeOK, Programs
  <1>3. Locked'
    BY <1>0 DEF StopDone, TypeOK, Locked, Programs
  <1>4. Owners'
    BY <1>0 DEF StopDone, TypeOK, Owners, Programs
  <1>5. Releases'
    BY <1>0 DEF StopDone, TypeOK, Releases, Locked, Programs
  <1>6. Completed'
    BY <1>0 DEF StopDone, TypeOK, Completed, Locked, Releases
  <1>7. Quieted'
    BY <1>0 DEF StopDone, TypeOK, States, Quieted, Off, Inactive, Programs
  <1>8. Fresh'
    BY <1>0 DEF StopDone, TypeOK, Fresh, Untouched, Off, Programs
  <1> QED
    BY <1>1, <1>2, <1>3, <1>4, <1>5, <1>6, <1>7, <1>8

(* The descriptor is not watched any more.                                 *)
LEMMA LifeStopCallbacks ==
  ASSUME LifeInv, NEW t \in Threads, StopCallbacks(t)
  PROVE  LifeInv'
  <1> USE ListenerAssumptions, StatesDiffer
      DEF LifeInv, Return, Goto, queueVars, sourceVars, boundVars, OpPCs, LoopPCs, StartPCs,
          StoppingPCs, Releasing, Holding
  <1>0. on[t] \in Listeners /\ pc[t] = "stop_cb" /\ op[t] # "start"
    BY DEF StopCallbacks, Programs, StartPCs, Releasing, OpPCs, TypeOK
  <1>1. TypeOK'
    BY <1>0 DEF StopCallbacks, TypeOK
  <1>2. Programs'
    BY <1>0 DEF StopCallbacks, TypeOK, Programs
  <1>3. Locked'
    BY <1>0 DEF StopCallbacks, TypeOK, Locked, Programs
  <1>4. Owners'
    BY <1>0 DEF StopCallbacks, TypeOK, Owners, Programs
  <1>5. Releases'
    BY <1>0 DEF StopCallbacks, TypeOK, Releases, Locked, Programs
  <1>6. Completed'
    BY <1>0 DEF StopCallbacks, TypeOK, Completed, Locked, Releases
  <1>7. Quieted'
    BY <1>0 DEF StopCallbacks, TypeOK, States, Quieted, Off, Inactive, Programs
  <1>8. Fresh'
    BY <1>0 DEF StopCallbacks, TypeOK, Fresh, Untouched, Off, Programs
  <1> QED
    BY <1>1, <1>2, <1>3, <1>4, <1>5, <1>6, <1>7, <1>8

(* The thread of the listener has ended.                                   *)
LEMMA LifeStopJoin ==
  ASSUME LifeInv, NEW t \in Threads, StopJoin(t)
  PROVE  LifeInv'
  <1> USE ListenerAssumptions, StatesDiffer
      DEF LifeInv, Return, Goto, queueVars, sourceVars, boundVars, OpPCs, LoopPCs, StartPCs,
          StoppingPCs, Releasing, Holding
  <1>0. on[t] \in Listeners /\ pc[t] = "stop_join" /\ op[t] # "start"
    BY DEF StopJoin, Programs, StartPCs, Releasing, OpPCs, TypeOK
  <1>1. TypeOK'
    BY <1>0 DEF StopJoin, TypeOK
  <1>2. Programs'
    BY <1>0 DEF StopJoin, TypeOK, Programs
  <1>3. Locked'
    BY <1>0 DEF StopJoin, TypeOK, Locked, Programs
  <1>4. Owners'
    BY <1>0 DEF StopJoin, TypeOK, Owners, Programs
  <1>5. Releases'
    BY <1>0 DEF StopJoin, TypeOK, Releases, Locked, Programs
  <1>6. Completed'
    BY <1>0 DEF StopJoin, TypeOK, Completed, Locked, Releases
  <1>7. Quieted'
    BY <1>0 DEF StopJoin, TypeOK, States, Quieted, Off, Inactive, Programs
  <1>8. Fresh'
    BY <1>0 DEF StopJoin, TypeOK, Fresh, Untouched, Off, Programs
  <1> QED
    BY <1>1, <1>2, <1>3, <1>4, <1>5, <1>6, <1>7, <1>8

(* The callbacks are removed, the descriptor is closed.                    *)
LEMMA LifeShutdownRemove ==
  ASSUME LifeInv, NEW t \in Threads, ShutdownRemove(t)
  PROVE  LifeInv'
  <1> USE ListenerAssumptions, StatesDiffer
      DEF LifeInv, Return, Goto, queueVars, sourceVars, boundVars, OpPCs, LoopPCs, StartPCs,
          StoppingPCs, Releasing, Holding
  <1>0. on[t] \in Listeners /\ pc[t] = "sd_remove" /\ op[t] = "shutdown"
    BY DEF ShutdownRemove, Programs, StartPCs, Releasing, OpPCs, TypeOK
  <1>1. TypeOK'
    BY <1>0 DEF ShutdownRemove, TypeOK
  <1>2. Programs'
    BY <1>0 DEF ShutdownRemove, TypeOK, Programs
  <1>3. Locked'
    BY <1>0 DEF ShutdownRemove, TypeOK, Locked, Programs
  <1>4. Owners'
    BY <1>0 DEF ShutdownRemove, TypeOK, Owners, Programs
  <1>5. Releases'
    BY <1>0 DEF ShutdownRemove, TypeOK, Releases, Programs
  <1>6. Completed'
    BY <1>0 DEF ShutdownRemove, TypeOK, Completed, Releases
  <1>7. Quieted'
    BY <1>0 DEF ShutdownRemove, TypeOK, States, Quieted, Off, Inactive, Programs
  <1>8. Fresh'
    BY <1>0 DEF ShutdownRemove, TypeOK, Fresh, Untouched, Off, Programs
  <1> QED
    BY <1>1, <1>2, <1>3, <1>4, <1>5, <1>6, <1>7, <1>8

(* The listener leaves the global list.                                    *)
LEMMA LifeShutdownUnlist ==
  ASSUME LifeInv, NEW t \in Threads, ShutdownUnlist(t)
  PROVE  LifeInv'
  <1> USE ListenerAssumptions, StatesDiffer
      DEF LifeInv, Return, Goto, queueVars, sourceVars, boundVars, OpPCs, LoopPCs, StartPCs,
          StoppingPCs, Releasing, Holding
  <1>0. on[t] \in Listeners /\ pc[t] = "sd_unlist" /\ op[t] = "shutdown"
    BY DEF ShutdownUnlist, Programs, StartPCs, Releasing, OpPCs, TypeOK
  <1>1. TypeOK'
    BY <1>0 DEF ShutdownUnlist, TypeOK
  <1>2. Programs'
    BY <1>0 DEF ShutdownUnlist, TypeOK, Programs
  <1>3. Locked'
    BY <1>0 DEF ShutdownUnlist, TypeOK, Locked, Programs
  <1>4. Owners'
    BY <1>0 DEF ShutdownUnlist, TypeOK, Owners, Programs
  <1>5. Releases'
    BY <1>0 DEF ShutdownUnlist, TypeOK, Releases, Programs
  <1>6. Completed'
    BY <1>0 DEF ShutdownUnlist, TypeOK, Completed, Releases
  <1>7. Quieted'
    BY <1>0 DEF ShutdownUnlist, TypeOK, States, Quieted, Off, Inactive, Programs
  <1>8. Fresh'
    BY <1>0 DEF ShutdownUnlist, TypeOK, Fresh, Untouched, Off, Programs
  <1> QED
    BY <1>1, <1>2, <1>3, <1>4, <1>5, <1>6, <1>7, <1>8

(* Pending events delay the completion.                                    *)
LEMMA LifeShutdownCheck ==
  ASSUME LifeInv, NEW t \in Threads, ShutdownCheck(t)
  PROVE  LifeInv'
  <1> USE ListenerAssumptions, StatesDiffer
      DEF LifeInv, Return, Goto, queueVars, sourceVars, boundVars, OpPCs, LoopPCs, StartPCs,
          StoppingPCs, Releasing, Holding
  <1>0. on[t] \in Listeners /\ pc[t] = "sd_check" /\ op[t] = "shutdown"
    BY DEF ShutdownCheck, Programs, StartPCs, Releasing, OpPCs, TypeOK
  <1>1. TypeOK'
    BY <1>0 DEF ShutdownCheck, TypeOK
  <1>2. Programs'
    BY <1>0 DEF ShutdownCheck, TypeOK, Programs
  <1>3. Locked'
    BY <1>0 DEF ShutdownCheck, TypeOK, Locked, Programs
  <1>4. Owners'
    BY <1>0 DEF ShutdownCheck, TypeOK, Owners, Programs
  <1>5. Releases'
    BY <1>0 DEF ShutdownCheck, TypeOK, Releases, Programs
  <1>6. Completed'
    BY <1>0 DEF ShutdownCheck, TypeOK, Completed, Releases
  <1>7. Quieted'
    BY <1>0 DEF ShutdownCheck, TypeOK, States, Quieted, Off, Inactive, Programs
  <1>8. Fresh'
    BY <1>0 DEF ShutdownCheck, TypeOK, Fresh, Untouched, Off, Programs
  <1> QED
    BY <1>1, <1>2, <1>3, <1>4, <1>5, <1>6, <1>7, <1>8

(* Nothing was pending: the only releasing thread completes the shutdown.  *)
LEMMA LifeShutdownIntern ==
  ASSUME LifeInv, NEW t \in Threads, ShutdownIntern(t)
  PROVE  LifeInv'
  <1> USE ListenerAssumptions, StatesDiffer
      DEF LifeInv, Return, Goto, queueVars, sourceVars, boundVars, OpPCs, LoopPCs, StartPCs,
          StoppingPCs, Releasing, Holding
  <1>0. on[t] \in Listeners /\ pc[t] = "sd_intern" /\ op[t] = "shutdown"
    BY DEF ShutdownIntern, Intern, Programs, StartPCs, Releasing, OpPCs, TypeOK
  <1>1. TypeOK'
    BY <1>0 DEF ShutdownIntern, Intern, TypeOK
  <1>2. Programs'
    BY <1>0 DEF ShutdownIntern, Intern, TypeOK, Programs
  <1>3. Locked'
    BY <1>0 DEF ShutdownIntern, Intern, TypeOK, Locked, Releases, Programs
  <1>4. Owners'
    BY <1>0 DEF ShutdownIntern, Intern, TypeOK, Owners, Programs
  <1>5. Releases'
    BY <1>0 DEF ShutdownIntern, Intern, TypeOK, Releases, Programs
  <1>6. Completed'
    BY <1>0 DEF ShutdownIntern, Intern, TypeOK, Completed, Releases, Owners, Locked
  <1>7. Quieted'
    BY <1>0 DEF ShutdownIntern, Intern, TypeOK, States, Quieted, Off, Inactive, Programs
  <1>8. Fresh'
    BY <1>0 DEF ShutdownIntern, Intern, TypeOK, Fresh, Untouched, Off, Programs
  <1> QED
    BY <1>1, <1>2, <1>3, <1>4, <1>5, <1>6, <1>7, <1>8

(* SHUTDOWN without state_mutex: nobody holds it in SHUTTING_DOWN.         *)
LEMMA LifeShutdownDelay ==
  ASSUME LifeInv, NEW t \in Threads, ShutdownDelay(t)
  PROVE  LifeInv'
  <1> USE ListenerAssumptions, StatesDiffer
      DEF LifeInv, Return, Goto, queueVars, sourceVars, boundVars, OpPCs, LoopPCs, StartPCs,
          StoppingPCs, Releasing, Holding
  <1>0. on[t] \in Listeners /\ pc[t] = "sd_delay" /\ op[t] = "shutdown"
    BY DEF ShutdownDelay, Unlock, Programs, StartPCs, Releasing, OpPCs, TypeOK
  <1>1. TypeOK'
    BY <1>0 DEF ShutdownDelay, Unlock, TypeOK
  <1>2. Programs'
    BY <1>0 DEF ShutdownDelay, Unlock, TypeOK, Programs
  <1>3. Locked'
    BY <1>0 DEF ShutdownDelay, Unlock, TypeOK, Locked, Releases, Programs
  <1>4. Owners'
    BY <1>0 DEF ShutdownDelay, Unlock, TypeOK, Owners, Programs
  <1>5. Releases'
    BY <1>0 DEF ShutdownDelay, Unlock, TypeOK, Releases, Programs
  <1>6. Completed'
    BY <1>0 DEF ShutdownDelay, Unlock, TypeOK, Completed, Releases, Owners, Locked
  <1>7. Quieted'
    BY <1>0 DEF ShutdownDelay, Unlock, TypeOK, States, Quieted, Off, Inactive,
       Programs, Releases, Locked
  <1>8. Fresh'
    BY <1>0 DEF ShutdownDelay, Unlock, TypeOK, Fresh, Untouched, Off, Programs
  <1> QED
    BY <1>1, <1>2, <1>3, <1>4, <1>5, <1>6, <1>7, <1>8

(* The end of crtx_start_listener.                                         *)
LEMMA LifeStartEvent ==
  ASSUME LifeInv, NEW t \in Threads, StartEvent(t)
  PROVE  LifeInv'
  <1> USE ListenerAssumptions, StatesDiffer
      DEF LifeInv, Return, Goto, queueVars, sourceVars, boundVars, OpPCs, LoopPCs, StartPCs,
          StoppingPCs, Releasing, Holding
  <1>0. on[t] \in Listeners /\ pc[t] = "start_event"
    BY DEF StartEvent, Programs, StartPCs, Releasing, OpPCs, TypeOK
  <1>1. TypeOK'
    BY <1>0 DEF StartEvent, StateEvent, Unlock, TypeOK
  <1>2. Programs'
    BY <1>0 DEF StartEvent, StateEvent, Unlock, TypeOK, Programs
  <1>3. Locked'
    BY <1>0 DEF StartEvent, StateEvent, Unlock, TypeOK, Locked, Programs
  <1>4. Owners'
    BY <1>0 DEF StartEvent, StateEvent, Unlock, TypeOK, Owners, Programs
  <1>5. Releases'
    BY <1>0 DEF StartEvent, StateEvent, Unlock, TypeOK, Releases, Programs
  <1>6. Completed'
    BY <1>0 DEF StartEvent, StateEvent, Unlock, TypeOK, Completed, Locked, Releases
  <1>7. Quieted'
    BY <1>0 DEF StartEvent, StateEvent, Unlock, TypeOK, States, Quieted, Off, Inactive,
       Programs, Locked
  <1>8. Fresh'
    BY <1>0 DEF StartEvent, StateEvent, Unlock, TypeOK, Fresh, Untouched, Off, Programs
  <1> QED
    BY <1>1, <1>2, <1>3, <1>4, <1>5, <1>6, <1>7, <1>8

(* A stop that was refused or is complete returns to the caller,           *)
LEMMA LifeStopReturns ==
  ASSUME LifeInv, NEW t \in Threads, pc[t] \in {"stop_deps", "stop_event"},
         Unlock(sm, on[t]), Return(t), op[t] # "shutdown",
         ~Alone(on[t]) \/ state[on[t]] # STOPPING,
         queued' \in {queued, [queued EXCEPT ![on[t]] = @ + 1]},
         UNCHANGED <<state, qm, claimed, graph, sourceVars, interned, boundVars, cb>>
  PROVE  LifeInv'
  <1> USE ListenerAssumptions, StatesDiffer
      DEF LifeInv, Return, Goto, queueVars, sourceVars, boundVars, OpPCs, LoopPCs, StartPCs,
          StoppingPCs, Releasing, Holding
  <1>0. on[t] \in Listeners /\ pc[t] \in {"stop_deps", "stop_event"}
    BY DEF Programs, StartPCs, Releasing, OpPCs, TypeOK
  <1>1. TypeOK'
    BY <1>0 DEF Unlock, TypeOK
  <1>2. Programs'
    BY <1>0 DEF Unlock, TypeOK, Programs
  <1>3. Locked'
    BY <1>0 DEF Unlock, TypeOK, Locked, Programs
  <1>4. Owners'
    BY <1>0 DEF Unlock, TypeOK, Owners, Programs
  <1>5. Releases'
    BY <1>0 DEF Unlock, TypeOK, Releases, Programs
  <1>6. Completed'
    BY <1>0 DEF Unlock, TypeOK, Completed, Locked, Releases
  <1>7. Quieted'
    BY <1>0 DEF Unlock, TypeOK, States, Quieted, Off, Inactive, Programs, Locked
  <1>8. Fresh'
    BY <1>0 DEF Unlock, TypeOK, Fresh, Untouched, Off, Programs
  <1> QED
    BY <1>1, <1>2, <1>3, <1>4, <1>5, <1>6, <1>7, <1>8

(* or to crtx_shutdown_listener.                                           *)
LEMMA LifeStopGoesOn ==
  ASSUME LifeInv, NEW t \in Threads, pc[t] \in {"stop_deps", "stop_event"},
         Unlock(sm, on[t]), Goto(t, "sd_lock"), op[t] = "shutdown",
         ~Alone(on[t]) \/ state[on[t]] # STOPPING,
         queued' \in {queued, [queued EXCEPT ![on[t]] = @ + 1]},
         UNCHANGED <<state, qm, claimed, graph, sourceVars, interned, boundVars,
                     op, on, cb>>
  PROVE  LifeInv'
  <1> USE ListenerAssumptions, StatesDiffer
      DEF LifeInv, Return, Goto, queueVars, sourceVars, boundVars, OpPCs, LoopPCs, StartPCs,
          StoppingPCs, Releasing, Holding
  <1>0. on[t] \in Listeners /\ pc[t] \in {"stop_deps", "stop_event"}
    BY DEF Programs, StartPCs, Releasing, OpPCs, TypeOK
  <1>1. TypeOK'
    BY <1>0 DEF Unlock, TypeOK
  <1>2. Programs'
    BY <1>0 DEF Unlock, TypeOK, Programs
  <1>3. Locked'
    BY <1>0 DEF Unlock, TypeOK, Locked, Programs
  <1>4. Owners'
    BY <1>0 DEF Unlock, TypeOK, Owners, Programs
  <1>5. Releases'
    BY <1>0 DEF Unlock, TypeOK, Releases, Programs
  <1>6. Completed'
    BY <1>0 DEF Unlock, TypeOK, Completed, Locked, Releases
  <1>7. Quieted'
    BY <1>0 DEF Unlock, TypeOK, States, Quieted, Off, Inactive, Programs, Locked
  <1>8. Fresh'
    BY <1>0 DEF Unlock, TypeOK, Fresh, Untouched, Off, Programs
  <1> QED
    BY <1>1, <1>2, <1>3, <1>4, <1>5, <1>6, <1>7, <1>8

(* A stop that is not refused deregisters at its dependencies.             *)
LEMMA LifeStopDependencies ==
  ASSUME LifeInv, NEW t \in Threads, pc[t] = "stop_deps", rev' \subseteq rev, Goto(t, "stop_cb"),
         UNCHANGED <<state, sm, queueVars, graph, active, fd, inlist, thread, orphan,
                     interned, boundVars, op, on, cb>>
  PROVE  LifeInv'
  <1> USE ListenerAssumptions, StatesDiffer
      DEF LifeInv, Return, Goto, queueVars, sourceVars, boundVars, OpPCs, LoopPCs, StartPCs,
          StoppingPCs, Releasing, Holding
  <1>0. on[t] \in Listeners /\ pc[t] = "stop_deps"
    BY DEF Programs, StartPCs, Releasing, OpPCs, TypeOK
  <1>1. TypeOK'
    BY <1>0 DEF TypeOK
  <1>2. Programs'
    BY <1>0 DEF TypeOK, Programs
  <1>3. Locked'
    BY <1>0 DEF TypeOK, Locked, Programs
  <1>4. Owners'
    BY <1>0 DEF TypeOK, Owners, Programs
  <1>5. Releases'
    BY <1>0 DEF TypeOK, Releases, Locked, Programs
  <1>6. Completed'
    BY <1>0 DEF TypeOK, Completed, Locked, Releases
  <1>7. Quieted'
    BY <1>0 DEF TypeOK, States, Quieted, Off, Inactive, Programs
  <1>8. Fresh'
    BY <1>0 DEF TypeOK, Fresh, Untouched, Off, Programs
  <1> QED
    BY <1>1, <1>2, <1>3, <1>4, <1>5, <1>6, <1>7, <1>8

(* The first shutdown of a stopped listener.                               *)
LEMMA LifeShutdownLock ==
  ASSUME LifeInv, NEW t \in Threads, ShutdownLock(t), state[on[t]] = STOPPED
  PROVE  LifeInv'
  <1> USE ListenerAssumptions, StatesDiffer
      DEF LifeInv, Return, Goto, queueVars, sourceVars, boundVars, OpPCs, LoopPCs, StartPCs,
          StoppingPCs, Releasing, Holding
  <1>0. /\ on[t] \in Listeners /\ pc[t] = "sd_lock" /\ op[t] = "shutdown"
        /\ sm[on[t]] = NoThread
        /\ pc' = [pc EXCEPT ![t] = "sd_remove"]
        /\ UNCHANGED <<op, on, cb>>
    BY DEF ShutdownLock, Programs, StartPCs, Releasing, OpPCs, TypeOK
  <1>1. TypeOK'
    BY <1>0 DEF ShutdownLock, TypeOK
  <1>2. Programs'
    BY <1>0 DEF TypeOK, Programs
  <1>3. Locked'
    BY <1>0 DEF ShutdownLock, TypeOK, Locked, Programs
  <1>4. Owners'
    BY <1>0 DEF ShutdownLock, TypeOK, Owners, Programs
  <1>5. Releases'
    BY <1>0 DEF ShutdownLock, TypeOK, Releases, Locked, Programs, Completed
  <1>6. Completed'
    BY <1>0 DEF ShutdownLock, TypeOK, Completed, Locked, Releases
  <1>7. Quieted'
    BY <1>0 DEF ShutdownLock, TypeOK, States, Quieted, Off, Inactive, Programs
  <1>8. Fresh'
    BY <1>0 DEF ShutdownLock, TypeOK, Fresh, Untouched, Off, Programs
  <1> QED
    BY <1>1, <1>2, <1>3, <1>4, <1>5, <1>6, <1>7, <1>8

(* A shutdown of a listener in SHUTDOWN keeps both mutexes,                *)
LEMMA LifeShutdownRepeats ==
  ASSUME LifeInv, NEW t \in Threads, ShutdownLock(t), state[on[t]] = SHUTDOWN, graph[on[t]]
  PROVE  LifeInv'
  <1> USE ListenerAssumptions, StatesDiffer
      DEF LifeInv, Return, Goto, queueVars, sourceVars, boundVars, OpPCs, LoopPCs, StartPCs,
          StoppingPCs, Releasing, Holding
  <1>0. /\ on[t] \in Listeners /\ pc[t] = "sd_lock" /\ op[t] = "shutdown"
        /\ sm[on[t]] = NoThread
        /\ pc' = [pc EXCEPT ![t] = "sd_queue"]
        /\ UNCHANGED <<op, on, cb>>
    BY DEF ShutdownLock, Programs, StartPCs, Releasing, OpPCs, TypeOK
  <1>1. TypeOK'
    BY <1>0 DEF ShutdownLock, TypeOK
  <1>2. Programs'
    BY <1>0 DEF TypeOK, Programs
  <1>3. Locked'
    BY <1>0 DEF ShutdownLock, TypeOK, Locked, Programs
  <1>4. Owners'
    BY <1>0 DEF ShutdownLock, TypeOK, Owners, Programs
  <1>5. Releases'
    BY <1>0 DEF ShutdownLock, TypeOK, Releases, Locked, Programs
  <1>6. Completed'
    BY <1>0 DEF ShutdownLock, TypeOK, Completed, Locked, Releases
  <1>7. Quieted'
    BY <1>0 DEF ShutdownLock, TypeOK, States, Quieted, Off, Inactive, Programs
  <1>8. Fresh'
    BY <1>0 DEF ShutdownLock, TypeOK, Fresh, Untouched, Off, Programs
  <1> QED
    BY <1>1, <1>2, <1>3, <1>4, <1>5, <1>6, <1>7, <1>8

(* gives them back while events are pending,                               *)
LEMMA LifeShutdownPending ==
  ASSUME LifeInv, NEW t \in Threads, ShutdownAgain(t), Pending(on[t])
  PROVE  LifeInv'
  <1> USE ListenerAssumptions, StatesDiffer
      DEF LifeInv, Return, Goto, queueVars, sourceVars, boundVars, OpPCs, LoopPCs, StartPCs,
          StoppingPCs, Releasing, Holding
  <1>0. on[t] \in Listeners /\ pc[t] = "sd_queue" /\ state[on[t]] = SHUTDOWN /\ graph[on[t]]
    BY DEF ShutdownAgain, Locked, Programs, StartPCs, Releasing, OpPCs, TypeOK
  <1>1. TypeOK'
    BY <1>0 DEF ShutdownAgain, Unlock, TypeOK
  <1>2. Programs'
    BY <1>0 DEF ShutdownAgain, Unlock, TypeOK, Programs
  <1>3. Locked'
    BY <1>0 DEF ShutdownAgain, Unlock, TypeOK, Locked, Programs
  <1>4. Owners'
    BY <1>0 DEF ShutdownAgain, Unlock, TypeOK, Owners, Programs
  <1>5. Releases'
    BY <1>0 DEF ShutdownAgain, Unlock, TypeOK, Releases, Locked, Programs
  <1>6. Completed'
    BY <1>0 DEF ShutdownAgain, Unlock, TypeOK, Completed, Locked, Releases
  <1>7. Quieted'
    BY <1>0 DEF ShutdownAgain, Unlock, TypeOK, States, Quieted, Off, Inactive, Programs
  <1>8. Fresh'
    BY <1>0 DEF ShutdownAgain, Unlock, TypeOK, Fresh, Untouched, Off, Programs
  <1> QED
    BY <1>1, <1>2, <1>3, <1>4, <1>5, <1>6, <1>7, <1>8

(* or completes the shutdown.                                              *)
LEMMA LifeShutdownCompletes ==
  ASSUME LifeInv, NEW t \in Threads, ShutdownAgain(t), ~Pending(on[t])
  PROVE  LifeInv'
  <1> USE ListenerAssumptions, StatesDiffer
      DEF LifeInv, Return, Goto, queueVars, sourceVars, boundVars, OpPCs, LoopPCs, StartPCs,
          StoppingPCs, Releasing, Holding
  <1>0. /\ on[t] \in Listeners /\ pc[t] = "sd_queue" /\ state[on[t]] = SHUTDOWN /\ graph[on[t]]
        /\ Intern(on[t]) /\ Return(t) /\ qm' = [qm EXCEPT ![on[t]] = t]
        /\ sm[on[t]] = t /\ interned[on[t]] = 0
        /\ UNCHANGED <<state, sm, queued, claimed, sourceVars, boundVars, cb>>
    BY DEF ShutdownAgain, Locked, Completed, Holding, Programs, StartPCs, Releasing,
       OpPCs, TypeOK
  <1>1. TypeOK'
    BY <1>0 DEF Intern, TypeOK
  <1>2. Programs'
    BY <1>0 DEF Intern, TypeOK, Programs
  <1>3. Locked'
    BY <1>0 DEF Intern, TypeOK, Locked, Programs
  <1>4. Owners'
    BY <1>0 DEF Intern, TypeOK, Owners, Programs
  <1>5. Releases'
    BY <1>0 DEF Intern, TypeOK, Releases, Locked, Programs
  <1>6. Completed'
    BY <1>0 DEF Intern, TypeOK, Completed, Locked, Releases
  <1>7. Quieted'
    BY <1>0 DEF Intern, TypeOK, States, Quieted, Off, Inactive, Programs
  <1>8. Fresh'
    BY <1>0 DEF Intern, TypeOK, Fresh, Untouched, Off, Programs
  <1> QED
    BY <1>1, <1>2, <1>3, <1>4, <1>5, <1>6, <1>7, <1>8

(* Calls of the API.                                                       *)
LEMMA LifeCallStart ==
  ASSUME LifeInv, NEW t \in Threads, NEW l \in Listeners, CallStart(t, l)
  PROVE  LifeInv'
  <1> USE ListenerAssumptions, StatesDiffer
      DEF LifeInv, Return, Goto, queueVars, sourceVars, boundVars, OpPCs, LoopPCs, StartPCs,
          StoppingPCs, Releasing, Holding
  <1>0. pc[t] = "idle" /\ on[t] \notin Listeners
    BY DEF CallStart, Programs, OpPCs
  <1>1. TypeOK'
    <2>1. starts[l] < StartBound(l) /\ starts[l] \in 0..MaxStarts
      BY DEF CallStart, TypeOK
    <2>2. starts[l] + 1 \in 0..MaxStarts
      BY <2>1 DEF StartBound
    <2>3. starts' \in [Listeners -> 0..MaxStarts]
      BY <2>2 DEF CallStart, TypeOK
    <2> QED
      BY <1>0, <2>3 DEF CallStart, TypeOK
  <1>2. Programs'
    BY <1>0 DEF CallStart, TypeOK, Programs
  <1>3. Locked'
    BY <1>0 DEF CallStart, TypeOK, Locked, Programs
  <1>4. Owners'
    BY <1>0 DEF CallStart, TypeOK, Owners, Programs
  <1>5. Releases'
    BY <1>0 DEF CallStart, TypeOK, Releases, Programs
  <1>6. Completed'
    BY <1>0 DEF CallStart, TypeOK, Completed, Releases
  <1>7. Quieted'
    BY <1>0 DEF CallStart, TypeOK, States, Quieted, Off, Inactive, Programs
  <1>8. Fresh'
    BY <1>0 DEF CallStart, TypeOK, Fresh, Once, StartBound, Untouched, Off, Programs
  <1> QED
    BY <1>1, <1>2, <1>3, <1>4, <1>5, <1>6, <1>7, <1>8

LEMMA LifeCallStop ==
  ASSUME LifeInv, NEW t \in Threads, NEW l \in Listeners, CallStop(t, l)
  PROVE  LifeInv'
  <1> USE ListenerAssumptions, StatesDiffer
      DEF LifeInv, Return, Goto, queueVars, sourceVars, boundVars, OpPCs, LoopPCs, StartPCs,
          StoppingPCs, Releasing, Holding
  <1>0. pc[t] \in {"idle", "handle"} /\ on[t] \notin Listeners
    BY DEF CallStop, Programs, OpPCs
  <1>1. TypeOK'
    BY <1>0 DEF CallStop, TypeOK
  <1>2. Programs'
    BY <1>0 DEF CallStop, TypeOK, Programs
  <1>3. Locked'
    BY <1>0 DEF CallStop, TypeOK, Locked, Programs
  <1>4. Owners'
    BY <1>0 DEF CallStop, TypeOK, Owners, Programs
  <1>5. Releases'
    BY <1>0 DEF CallStop, TypeOK, Releases, Programs
  <1>6. Completed'
    BY <1>0 DEF CallStop, TypeOK, Completed, Releases
  <1>7. Quieted'
    BY <1>0 DEF CallStop, TypeOK, States, Quieted, Off, Inactive, Programs
  <1>8. Fresh'
    BY <1>0 DEF CallStop, TypeOK, Fresh, Untouched, Off, Programs
  <1> QED
    BY <1>1, <1>2, <1>3, <1>4, <1>5, <1>6, <1>7, <1>8

(* A shutdown begins: by a call, an error or free_after_event.             *)
LEMMA LifeRelease ==
  ASSUME LifeInv, NEW t \in Threads, NEW l \in Listeners, on[t] \notin Listeners,
         \A u \in Threads : pc[u] = "start_lock" => on[u] # l,
         \/ pc[t] \in {"idle", "handle"} /\ UNCHANGED <<cb, qm>>
         \/ /\ t = Loop /\ pc[t] = "unlock" /\ cb' = NoListener
            /\ Unlock(qm, cb) \/ (~graph[cb] /\ UNCHANGED qm),
         released' = [released EXCEPT ![l] = TRUE], op' = [op EXCEPT ![t] = "shutdown"],
         on' = [on EXCEPT ![t] = l], Goto(t, "stop_lock"),
         UNCHANGED <<state, sm, queued, claimed, graph, sourceVars, interned, produced, starts>>
  PROVE  LifeInv'
  <1> USE ListenerAssumptions, StatesDiffer
      DEF LifeInv, Return, Goto, queueVars, sourceVars, boundVars, OpPCs, LoopPCs, StartPCs,
          StoppingPCs, Releasing, Holding
  <1>0. on[t] \notin Listeners /\ pc[t] \notin OpPCs
    BY DEF Programs
  <1>1. TypeOK'
    BY <1>0 DEF Unlock, TypeOK
  <1>2. Programs'
    BY <1>0 DEF Unlock, TypeOK, Programs
  <1>3. Locked'
    BY <1>0 DEF Unlock, TypeOK, Locked, Programs
  <1>4. Owners'
    <2>1. /\ UNCHANGED <<sm, graph>> /\ pc'[t] = "stop_lock"
          /\ \A u \in Threads : u # t => pc'[u] = pc[u] /\ on'[u] = on[u]
      BY DEF TypeOK
    <2>2. ASSUME NEW k \in Listeners, NEW u \in Threads, sm[k] = u
          PROVE  ~graph[k] \/ (on'[u] = k /\ pc'[u] \in Holding)
      BY <1>0, <2>1, <2>2 DEF Owners
    <2>3. ASSUME NEW k \in Listeners, NEW u \in Threads, qm'[k] = u
          PROVE  ~graph[k] \/ (u = Loop /\ cb' = k /\ pc'[u] \in {"check", "unlock"})
      <3>1. CASE pc[t] \in {"idle", "handle"} /\ UNCHANGED <<cb, qm>>
        BY <1>0, <2>1, <2>3, <3>1 DEF Owners, Programs
      <3>2. CASE t = Loop /\ Unlock(qm, cb)
        BY <2>3, <3>2 DEF Owners, Unlock, TypeOK
      <3>3. CASE t = Loop /\ ~graph[cb] /\ UNCHANGED qm
        BY <2>3, <3>3 DEF Owners
      <3> QED
        BY <3>1, <3>2, <3>3
    <2> QED
      BY <2>1, <2>2, <2>3 DEF Owners
  <1>5. Releases'
    BY <1>0 DEF Unlock, TypeOK, Releases, Programs
  <1>6. Completed'
    BY <1>0 DEF Unlock, TypeOK, Completed, Releases
  <1>7. Quieted'
    BY <1>0 DEF Unlock, TypeOK, States, Quieted, Off, Inactive, Programs
  <1>8. Fresh'
    BY <1>0 DEF Unlock, TypeOK, Fresh, Untouched, Off, Programs
  <1> QED
    BY <1>1, <1>2, <1>3, <1>4, <1>5, <1>6, <1>7, <1>8

(* The event loop and the sources of events.                               *)
LEMMA LifeProduce ==
  ASSUME LifeInv, NEW l \in Listeners, Produce(l), ~Off(l)
  PROVE  LifeInv'
  <1> USE ListenerAssumptions, StatesDiffer
      DEF LifeInv, Return, Goto, queueVars, sourceVars, boundVars, OpPCs, LoopPCs, StartPCs,
          StoppingPCs, Releasing, Holding
  <1>1. TypeOK'
    BY LifeInv DEF Produce, TypeOK
  <1>2. Programs'
    BY LifeInv DEF Produce, TypeOK, Programs
  <1>3. Locked'
    BY LifeInv DEF Produce, TypeOK, Locked, Programs
  <1>4. Owners'
    BY LifeInv DEF Produce, TypeOK, Owners, Programs
  <1>5. Releases'
    BY LifeInv DEF Produce, TypeOK, Releases, Programs
  <1>6. Completed'
    BY LifeInv DEF Produce, TypeOK, Completed, Releases
  <1>7. Quieted'
    BY LifeInv DEF Produce, TypeOK, States, Quieted, Off, Inactive, Programs
  <1>8. Fresh'
    BY LifeInv DEF Produce, TypeOK, Fresh, Untouched, Off, Programs
  <1> QED
    BY <1>1, <1>2, <1>3, <1>4, <1>5, <1>6, <1>7, <1>8

LEMMA LifeThreadEnds ==
  ASSUME LifeInv, NEW l \in Listeners, ThreadEnds(l)
  PROVE  LifeInv'
  <1> USE ListenerAssumptions, StatesDiffer
      DEF LifeInv, Return, Goto, queueVars, sourceVars, boundVars, OpPCs, LoopPCs, StartPCs,
          StoppingPCs, Releasing, Holding
  <1>1. TypeOK'
    BY LifeInv DEF ThreadEnds, TypeOK
  <1>2. Programs'
    BY LifeInv DEF ThreadEnds, TypeOK, Programs
  <1>3. Locked'
    BY LifeInv DEF ThreadEnds, TypeOK, Locked, Programs
  <1>4. Owners'
    BY LifeInv DEF ThreadEnds, TypeOK, Owners, Programs
  <1>5. Releases'
    BY LifeInv DEF ThreadEnds, TypeOK, Releases, Programs
  <1>6. Completed'
    BY LifeInv DEF ThreadEnds, TypeOK, Completed, Releases
  <1>7. Quieted'
    BY LifeInv DEF ThreadEnds, TypeOK, States, Quieted, Off, Inactive, Programs
  <1>8. Fresh'
    BY LifeInv DEF ThreadEnds, TypeOK, Fresh, Untouched, Off, Programs
  <1> QED
    BY <1>1, <1>2, <1>3, <1>4, <1>5, <1>6, <1>7, <1>8

LEMMA LifeClaim ==
  ASSUME LifeInv, NEW l \in Listeners, ClaimEvent(l)
  PROVE  LifeInv'
  <1> USE ListenerAssumptions, StatesDiffer
      DEF LifeInv, Return, Goto, queueVars, sourceVars, boundVars, OpPCs, LoopPCs, StartPCs,
          StoppingPCs, Releasing, Holding
  <1>0. pc[Loop] = "idle" /\ Loop \in Threads /\ on[Loop] \notin Listeners
    BY DEF ClaimEvent, Threads, Programs, OpPCs
  <1>1. TypeOK'
    BY <1>0 DEF ClaimEvent, TypeOK
  <1>2. Programs'
    BY <1>0 DEF ClaimEvent, TypeOK, Programs
  <1>3. Locked'
    BY <1>0 DEF ClaimEvent, TypeOK, Locked, Programs
  <1>4. Owners'
    BY <1>0 DEF ClaimEvent, TypeOK, Owners, Programs
  <1>5. Releases'
    BY <1>0 DEF ClaimEvent, TypeOK, Releases, Programs
  <1>6. Completed'
    BY <1>0 DEF ClaimEvent, TypeOK, Completed, Releases
  <1>7. Quieted'
    BY <1>0 DEF ClaimEvent, TypeOK, States, Quieted, Off, Inactive, Programs
  <1>8. Fresh'
    BY <1>0 DEF ClaimEvent, TypeOK, Fresh, Untouched, Off, Programs
  <1> QED
    BY <1>1, <1>2, <1>3, <1>4, <1>5, <1>6, <1>7, <1>8

LEMMA LifeHandlerReturns ==
  ASSUME LifeInv, HandlerReturns
  PROVE  LifeInv'
  <1> USE ListenerAssumptions, StatesDiffer
      DEF LifeInv, Return, Goto, queueVars, sourceVars, boundVars, OpPCs, LoopPCs, StartPCs,
          StoppingPCs, Releasing, Holding
  <1>0. pc[Loop] = "handle" /\ cb \in Listeners /\ Loop \in Threads
    BY DEF HandlerReturns, Threads, Programs, LoopPCs
  <1>1. TypeOK'
    BY <1>0 DEF HandlerReturns, TypeOK
  <1>2. Programs'
    BY <1>0 DEF HandlerReturns, TypeOK, Programs
  <1>3. Locked'
    BY <1>0 DEF HandlerReturns, TypeOK, Locked, Programs
  <1>4. Owners'
    <2>1. /\ UNCHANGED <<sm, on, graph>> /\ on[Loop] \notin Listeners
          /\ qm' = qm /\ cb' = cb
          /\ \A u \in Threads : u # Loop => pc'[u] = pc[u]
      BY <1>0 DEF HandlerReturns, Unlock, Programs, TypeOK
    <2>2. ASSUME NEW l \in Listeners, NEW t \in Threads, sm[l] = t
          PROVE  ~graph[l] \/ (on[t] = l /\ pc'[t] \in Holding)
      BY <2>1, <2>2 DEF Owners
    <2>3. ASSUME NEW l \in Listeners, NEW t \in Threads, qm'[l] = t
          PROVE  ~graph[l] \/ (t = Loop /\ cb' = l /\ pc'[t] \in {"check", "unlock"})
      BY <1>0, <2>1, <2>3 DEF Owners, TypeOK
    <2> QED
      BY <2>1, <2>2, <2>3 DEF Owners
  <1>5. Releases'
    BY <1>0 DEF HandlerReturns, TypeOK, Releases, Programs
  <1>6. Completed'
    BY <1>0 DEF HandlerReturns, TypeOK, Completed, Releases
  <1>7. Quieted'
    BY <1>0 DEF HandlerReturns, TypeOK, States, Quieted, Off, Inactive, Programs
  <1>8. Fresh'
    BY <1>0 DEF HandlerReturns, TypeOK, Fresh, Untouched, Off, Programs
  <1> QED
    BY <1>1, <1>2, <1>3, <1>4, <1>5, <1>6, <1>7, <1>8

LEMMA LifeUnlink ==
  ASSUME LifeInv, UnlinkEvent
  PROVE  LifeInv'
  <1> USE ListenerAssumptions, StatesDiffer
      DEF LifeInv, Return, Goto, queueVars, sourceVars, boundVars, OpPCs, LoopPCs, StartPCs,
          StoppingPCs, Releasing, Holding
  <1>0. pc[Loop] = "unlink" /\ cb \in Listeners /\ Loop \in Threads
    BY DEF UnlinkEvent, Threads, Programs, LoopPCs
  <1>1. TypeOK'
    BY <1>0 DEF UnlinkEvent, Lock, TypeOK
  <1>2. Programs'
    BY <1>0 DEF UnlinkEvent, Lock, TypeOK, Programs
  <1>3. Locked'
    BY <1>0 DEF UnlinkEvent, Lock, TypeOK, Locked, Programs
  <1>4. Owners'
    BY <1>0 DEF UnlinkEvent, Lock, TypeOK, Owners, Programs
  <1>5. Releases'
    BY <1>0 DEF UnlinkEvent, Lock, TypeOK, Releases, Programs
  <1>6. Completed'
    BY <1>0 DEF UnlinkEvent, Lock, TypeOK, Completed, Releases
  <1>7. Quieted'
    BY <1>0 DEF UnlinkEvent, Lock, TypeOK, States, Quieted, Off, Inactive, Programs
  <1>8. Fresh'
    BY <1>0 DEF UnlinkEvent, Lock, TypeOK, Fresh, Untouched, Off, Programs
  <1> QED
    BY <1>1, <1>2, <1>3, <1>4, <1>5, <1>6, <1>7, <1>8

LEMMA LifeCheckNothing ==
  ASSUME LifeInv, CheckShutdown, UNCHANGED <<sm, graph, interned>>
  PROVE  LifeInv'
  <1> USE ListenerAssumptions, StatesDiffer
      DEF LifeInv, Return, Goto, queueVars, sourceVars, boundVars, OpPCs, LoopPCs, StartPCs,
          StoppingPCs, Releasing, Holding
  <1>0. pc[Loop] = "check" /\ cb \in Listeners /\ Loop \in Threads
    BY DEF CheckShutdown, Threads, Programs, LoopPCs
  <1>1. TypeOK'
    BY <1>0 DEF CheckShutdown, TypeOK
  <1>2. Programs'
    BY <1>0 DEF CheckShutdown, TypeOK, Programs
  <1>3. Locked'
    BY <1>0 DEF CheckShutdown, TypeOK, Locked, Programs
  <1>4. Owners'
    BY <1>0 DEF CheckShutdown, TypeOK, Owners, Programs
  <1>5. Releases'
    BY <1>0 DEF CheckShutdown, TypeOK, Releases, Programs
  <1>6. Completed'
    BY <1>0 DEF CheckShutdown, TypeOK, Completed, Releases
  <1>7. Quieted'
    BY <1>0 DEF CheckShutdown, TypeOK, States, Quieted, Off, Inactive, Programs
  <1>8. Fresh'
    BY <1>0 DEF CheckShutdown, TypeOK, Fresh, Untouched, Off, Programs
  <1> QED
    BY <1>1, <1>2, <1>3, <1>4, <1>5, <1>6, <1>7, <1>8

(* The last pending event completes a delayed shutdown.                    *)
LEMMA LifeCheckCompletes ==
  ASSUME LifeInv, CheckShutdown, state[cb] = SHUTDOWN, ~Pending(cb)
  PROVE  LifeInv'
  <1> USE ListenerAssumptions, StatesDiffer
      DEF LifeInv, Return, Goto, queueVars, sourceVars, boundVars, OpPCs, LoopPCs, StartPCs,
          StoppingPCs, Releasing, Holding
  <1>0. /\ pc[Loop] = "check" /\ cb \in Listeners /\ Loop \in Threads
        /\ sm[cb] = NoThread /\ graph[cb] /\ interned[cb] = 0
        /\ sm' = [sm EXCEPT ![cb] = Loop] /\ Intern(cb) /\ Goto(Loop, "unlock")
        /\ UNCHANGED <<state, queueVars, sourceVars, boundVars, op, on, cb>>
    BY DEF CheckShutdown, Threads, Programs, LoopPCs, Completed
  <1>1. TypeOK'
    BY <1>0 DEF Intern, TypeOK
  <1>2. Programs'
    BY <1>0 DEF Intern, TypeOK, Programs
  <1>3. Locked'
    BY <1>0 DEF Intern, TypeOK, Locked, Programs
  <1>4. Owners'
    BY <1>0 DEF Intern, TypeOK, Owners, Programs
  <1>5. Releases'
    BY <1>0 DEF Intern, TypeOK, Releases, Locked, Programs
  <1>6. Completed'
    BY <1>0 DEF Intern, TypeOK, Completed, Locked, Releases
  <1>7. Quieted'
    BY <1>0 DEF Intern, TypeOK, States, Quieted, Off, Inactive, Programs
  <1>8. Fresh'
    BY <1>0 DEF Intern, TypeOK, Fresh, Untouched, Off, Programs
  <1> QED
    BY <1>1, <1>2, <1>3, <1>4, <1>5, <1>6, <1>7, <1>8

LEMMA LifeUnlock ==
  ASSUME LifeInv, pc[Loop] = "unlock", Goto(Loop, "idle"), cb' = NoListener,
         Unlock(qm, cb) \/ (~graph[cb] /\ UNCHANGED qm),
         UNCHANGED <<state, sm, queued, claimed, graph, sourceVars, interned, boundVars,
                     op, on>>
  PROVE  LifeInv'
  <1> USE ListenerAssumptions, StatesDiffer
      DEF LifeInv, Return, Goto, queueVars, sourceVars, boundVars, OpPCs, LoopPCs, StartPCs,
          StoppingPCs, Releasing, Holding
  <1>0. pc[Loop] = "unlock" /\ cb \in Listeners /\ Loop \in Threads
    BY DEF Threads, Programs, LoopPCs
  <1>1. TypeOK'
    BY <1>0 DEF Unlock, TypeOK
  <1>2. Programs'
    BY <1>0 DEF Unlock, TypeOK, Programs
  <1>3. Locked'
    BY <1>0 DEF Unlock, TypeOK, Locked, Programs
  <1>4. Owners'
    <2>1. /\ UNCHANGED <<sm, on, graph>> /\ on[Loop] \notin Listeners
          /\ qm' = [qm EXCEPT ![cb] = NoThread] \/ (~graph[cb] /\ qm' = qm)
          /\ \A u \in Threads : u # Loop => pc'[u] = pc[u]
      BY <1>0 DEF Unlock, Programs, TypeOK
    <2>2. ASSUME NEW l \in Listeners, NEW t \in Threads, sm[l] = t
          PROVE  ~graph[l] \/ (on[t] = l /\ pc'[t] \in Holding)
      BY <2>1, <2>2 DEF Owners
    <2>3. ASSUME NEW l \in Listeners, NEW t \in Threads, qm'[l] = t
          PROVE  ~graph[l] \/ (t = Loop /\ cb' = l /\ pc'[t] \in {"check", "unlock"})
      BY <1>0, <2>1, <2>3 DEF Owners, TypeOK
    <2> QED
      BY <2>1, <2>2, <2>3 DEF Owners
  <1>5. Releases'
    BY <1>0 DEF Unlock, TypeOK, Releases, Programs
  <1>6. Completed'
    BY <1>0 DEF Unlock, TypeOK, Completed, Releases
  <1>7. Quieted'
    BY <1>0 DEF Unlock, TypeOK, States, Quieted, Off, Inactive, Programs
  <1>8. Fresh'
    BY <1>0 DEF Unlock, TypeOK, Fresh, Untouched, Off, Programs
  <1> QED
    BY <1>1, <1>2, <1>3, <1>4, <1>5, <1>6, <1>7, <1>8

(* crtx_shutdown_listener finds the listener stopped.                      *)
LEMMA LifeStopSkipped ==
  ASSUME LifeInv, NEW t \in Threads, pc[t] = "stop_lock", op[t] = "shutdown", Goto(t, "sd_lock"),
         UNCHANGED <<state, sm, queueVars, graph, sourceVars, interned, boundVars, op, on, cb>>
  PROVE  LifeInv'
  <1> USE ListenerAssumptions, StatesDiffer
      DEF LifeInv, Return, Goto, queueVars, sourceVars, boundVars, OpPCs, LoopPCs, StartPCs,
          StoppingPCs, Releasing, Holding
  <1>0. on[t] \in Listeners /\ pc[t] = "stop_lock"
    BY DEF Programs, StartPCs, Releasing, OpPCs, TypeOK
  <1>1. TypeOK'
    BY <1>0 DEF TypeOK
  <1>2. Programs'
    BY <1>0 DEF TypeOK, Programs
  <1>3. Locked'
    BY <1>0 DEF TypeOK, Locked, Programs
  <1>4. Owners'
    BY <1>0 DEF TypeOK, Owners, Programs
  <1>5. Releases'
    BY <1>0 DEF TypeOK, Releases, Programs
  <1>6. Completed'
    BY <1>0 DEF TypeOK, Completed, Releases
  <1>7. Quieted'
    BY <1>0 DEF TypeOK, States, Quieted, Off, Inactive, Programs
  <1>8. Fresh'
    BY <1>0 DEF TypeOK, Fresh, Untouched, Off, Programs
  <1> QED
    BY <1>1, <1>2, <1>3, <1>4, <1>5, <1>6, <1>7, <1>8

---------------------------------------------------------------------------
LEMMA LifeStopStep ==
  ASSUME SafeUse, LifeInv, NEW t \in Threads,
         StopLock(t) \/ StopDependencies(t) \/ StopEvent(t)
  PROVE  LifeInv'
  <1> USE ListenerAssumptions
  <1>1. CASE StopLock(t)
    <2>1. CASE ~Inactive(state[on[t]])
      BY <1>1, <2>1, LifeStopLock
    <2>2. CASE Inactive(state[on[t]]) /\ op[t] # "shutdown"
      <3>1. /\ pc[t] \in OpPCs \ Holding
            /\ Return(t)
            /\ UNCHANGED <<state, sm, queueVars, graph, sourceVars, interned, boundVars, cb>>
        BY <1>1, <2>2 DEF StopLock, AfterStop, OpPCs, Holding, StoppingPCs
      <3> QED
        BY <3>1, LifeReturn
    <2>3. CASE Inactive(state[on[t]]) /\ op[t] = "shutdown"
      <3>1. /\ pc[t] = "stop_lock" /\ Goto(t, "sd_lock")
            /\ UNCHANGED <<state, sm, queueVars, graph, sourceVars, interned, boundVars,
                           op, on, cb>>
        BY <1>1, <2>3 DEF StopLock, AfterStop
      <3> QED
        BY <2>3, <3>1, LifeStopSkipped
    <2> QED
      BY <2>1, <2>2, <2>3
  <1>2. CASE StopDependencies(t)
    <2> DEFINE Refused == \E d \in Listeners : <<d, on[t]>> \in rev /\ ~Inactive(state[d])
    <2>1. CASE Refused
      <3>1. /\ pc[t] = "stop_deps" /\ Unlock(sm, on[t]) /\ AfterStop(t)
            /\ UNCHANGED <<state, queueVars, graph, sourceVars, interned, boundVars, cb>>
        BY <1>2, <2>1 DEF StopDependencies, sourceVars
      <3>2. ~Alone(on[t])
        <4>1. PICK d \in Listeners : <<d, on[t]>> \in rev
          BY <2>1
        <4>2. <<d, on[t]>> \in Deps
          BY <4>1 DEF LifeInv, TypeOK
        <4> QED
          BY <4>2 DEF SafeUse
      <3> QED
        BY <3>1, <3>2, LifeStopReturns, LifeStopGoesOn DEF AfterStop, queueVars
    <2>2. CASE ~Refused
      <3>1. /\ pc[t] = "stop_deps" /\ rev' \subseteq rev /\ Goto(t, "stop_cb")
            /\ UNCHANGED <<state, sm, queueVars, graph, active, fd, inlist, thread, orphan,
                           interned, boundVars, op, on, cb>>
        BY <1>2, <2>2 DEF StopDependencies
      <3> QED
        BY <3>1, LifeStopDependencies
    <2> QED
      BY <2>1, <2>2
  <1>3. CASE StopEvent(t)
    <2>1. /\ pc[t] = "stop_event" /\ Unlock(sm, on[t]) /\ AfterStop(t)
          /\ queued' \in {queued, [queued EXCEPT ![on[t]] = @ + 1]}
          /\ UNCHANGED <<state, qm, claimed, graph, sourceVars, interned, boundVars, cb>>
      BY <1>3 DEF StopEvent, StateEvent
    <2>2. state[on[t]] # STOPPING
      BY <2>1, StatesDiffer DEF LifeInv, Locked
    <2> QED
      BY <2>1, <2>2, LifeStopReturns, LifeStopGoesOn DEF AfterStop
  <1> QED
    BY <1>1, <1>2, <1>3

LEMMA LifeThreadStep ==
  ASSUME SafeUse, LifeInv, NEW t \in Threads, Step(t)
  PROVE  LifeInv'
  <1> USE ListenerAssumptions
  <1>1. CASE StartLock(t)
    <2>1. CASE state[on[t]] # STARTED
      BY <1>1, <2>1, LifeStartLock
    <2>2. CASE state[on[t]] = STARTED
      <3>1. /\ pc[t] \in OpPCs \ Holding
            /\ Return(t)
            /\ UNCHANGED <<state, sm, queueVars, graph, sourceVars, interned, boundVars, cb>>
        BY <1>1, <2>2 DEF StartLock, OpPCs, Holding, StoppingPCs
      <3> QED
        BY <3>1, LifeReturn
    <2> QED
      BY <2>1, <2>2
  <1>2. CASE StartFails(t) \/ StartSucceeds(t) \/ StartEvent(t)
    BY <1>2, LifeStartFails, LifeStartSucceeds, LifeStartEvent
  <1>3. CASE StopLock(t) \/ StopDependencies(t) \/ StopEvent(t)
    BY <1>3, LifeStopStep
  <1>4. CASE StopCallbacks(t) \/ StopJoin(t) \/ StopDone(t)
    BY <1>4, LifeStopCallbacks, LifeStopJoin, LifeStopDone
  <1>5. CASE ShutdownLock(t)
    <2>1. CASE state[on[t]] = STOPPED
      BY <1>5, <2>1, LifeShutdownLock
    <2>2. CASE state[on[t]] = SHUTDOWN /\ graph[on[t]]
      BY <1>5, <2>2, LifeShutdownRepeats
    <2>3. CASE ~(state[on[t]] = STOPPED) /\ ~(state[on[t]] = SHUTDOWN /\ graph[on[t]])
      <3>1. /\ pc[t] \in OpPCs \ Holding
            /\ Return(t)
            /\ UNCHANGED <<state, sm, queueVars, graph, sourceVars, interned, boundVars, cb>>
        BY <1>5, <2>3 DEF ShutdownLock, OpPCs, Holding, StoppingPCs
      <3> QED
        BY <3>1, LifeReturn
    <2> QED
      BY <2>1, <2>2, <2>3
  <1>6. CASE ShutdownAgain(t)
    BY <1>6, LifeShutdownPending, LifeShutdownCompletes
  <1>7. CASE ShutdownRemove(t) \/ ShutdownUnlist(t) \/ ShutdownCheck(t)
    BY <1>7, LifeShutdownRemove, LifeShutdownUnlist, LifeShutdownCheck
  <1>8. CASE ShutdownDelay(t) \/ ShutdownIntern(t)
    BY <1>8, LifeShutdownDelay, LifeShutdownIntern
  <1> QED
    BY <1>1, <1>2, <1>3, <1>4, <1>5, <1>6, <1>7, <1>8 DEF Step

LEMMA LifeStep == SafeUse /\ LifeInv /\ [Next]_vars => LifeInv'
  <1> SUFFICES ASSUME SafeUse, LifeInv, [Next]_vars PROVE LifeInv'
    OBVIOUS
  <1> USE ListenerAssumptions
  <1>0. Loop \in Threads
    BY DEF Threads
  <1>1. ASSUME NEW t \in Threads, NEW l \in Listeners, CallStart(t, l) \/ CallStop(t, l)
        PROVE  LifeInv'
    BY <1>1, LifeCallStart, LifeCallStop
  <1>2. ASSUME NEW t \in Threads, NEW l \in Listeners, CallShutdown(t, l) PROVE LifeInv'
    <2>1. on[t] \notin Listeners
      BY <1>2 DEF CallShutdown, LifeInv, Programs, OpPCs
    <2>2. \A u \in Threads : pc[u] = "start_lock" => on[u] # l
      BY <1>2 DEF CallShutdown, Starting, LifeInv, Programs, StartPCs
    <2>3. /\ released' = [released EXCEPT ![l] = TRUE] /\ op' = [op EXCEPT ![t] = "shutdown"]
          /\ on' = [on EXCEPT ![t] = l] /\ Goto(t, "stop_lock") /\ UNCHANGED <<cb, qm>>
          /\ pc[t] \in {"idle", "handle"}
          /\ UNCHANGED <<state, sm, queued, claimed, graph, sourceVars, interned, produced, starts>>
      BY <1>2 DEF CallShutdown, queueVars
    <2> QED
      BY <1>0, <2>1, <2>2, <2>3, LifeRelease
  <1>3. ASSUME NEW t \in Threads, Step(t) PROVE LifeInv'
    BY <1>3, LifeThreadStep
  <1>4. ASSUME NEW l \in Listeners, LoopCallback(l) \/ ThreadCallback(l) PROVE LifeInv'
    <2>1. Produce(l) /\ ~Off(l)
      BY <1>4 DEF LoopCallback, ThreadCallback, Off, LifeInv, Quieted
    <2> QED
      BY <2>1, LifeProduce
  <1>5. ASSUME NEW l \in Listeners, ThreadEnds(l) PROVE LifeInv'
    BY <1>5, LifeThreadEnds
  <1>6. ASSUME NEW l \in Listeners, ErrorCallback(l) PROVE LifeInv'
    <2>1. on[Loop] \notin Listeners
      BY <1>0, <1>6 DEF ErrorCallback, LifeInv, Programs, OpPCs
    <2>2. \A u \in Threads : pc[u] = "start_lock" => on[u] # l
      BY <1>6 DEF ErrorCallback, SafeUse, LifeInv, Fresh, Untouched, Off, Releases
    <2>3. /\ released' = [released EXCEPT ![l] = TRUE] /\ op' = [op EXCEPT ![Loop] = "shutdown"]
          /\ on' = [on EXCEPT ![Loop] = l] /\ Goto(Loop, "stop_lock") /\ UNCHANGED <<cb, qm>>
          /\ pc[Loop] \in {"idle", "handle"}
          /\ UNCHANGED <<state, sm, queued, claimed, graph, sourceVars, interned, produced, starts>>
      BY <1>6 DEF ErrorCallback, queueVars
    <2> QED
      BY <1>0, <2>1, <2>2, <2>3, LifeRelease
  <1>7. ASSUME NEW l \in Listeners, ClaimEvent(l) PROVE LifeInv'
    BY <1>7, LifeClaim
  <1>8. CASE HandlerReturns \/ UnlinkEvent
    BY <1>8, LifeHandlerReturns, LifeUnlink
  <1>9. CASE CheckShutdown
    <2>1. CASE state[cb] = SHUTDOWN /\ ~Pending(cb)
      BY <1>9, <2>1, LifeCheckCompletes
    <2>2. CASE ~(state[cb] = SHUTDOWN /\ ~Pending(cb))
      <3>1. UNCHANGED <<sm, graph, interned>>
        BY <1>9, <2>2 DEF CheckShutdown
      <3> QED
        BY <1>9, <3>1, LifeCheckNothing
    <2> QED
      BY <2>1, <2>2
  <1>10. CASE UnlockQueue
    <2>0. /\ cb \in Listeners /\ on[Loop] \notin Listeners /\ pc[Loop] = "unlock"
          /\ Unlock(qm, cb) \/ (~graph[cb] /\ UNCHANGED qm)
          /\ cb' = NoListener
          /\ UNCHANGED <<state, sm, queued, claimed, graph, sourceVars, interned, produced,
                         starts>>
      BY <1>0, <1>10 DEF UnlockQueue, LifeInv, Programs, OpPCs, LoopPCs
    <2>1. CASE cb \in FreeAfter /\ on' = [on EXCEPT ![Loop] = cb] /\ Goto(Loop, "stop_lock")
               /\ released' = [released EXCEPT ![cb] = TRUE]
               /\ op' = [op EXCEPT ![Loop] = "shutdown"]
      <3>1. \A u \in Threads : pc[u] = "start_lock" => on[u] # cb
        <4>1. Once(cb)
          BY <2>1 DEF Once, StartBound
        <4> QED
          BY <2>0, <4>1 DEF LifeInv, Fresh, Untouched, Releases
      <3> QED
        BY <1>0, <2>0, <2>1, <3>1, LifeRelease
    <2>2. CASE Goto(Loop, "idle") /\ UNCHANGED <<released, op, on>>
      BY <2>0, <2>2, LifeUnlock DEF boundVars
    <2> QED
      BY <1>10, <2>1, <2>2 DEF UnlockQueue
  <1>11. CASE UNCHANGED vars
    BY <1>11 DEF vars, LifeInv, TypeOK, Programs, Locked, Owners, Releases, Completed,
       Quieted,
       Off, Inactive, Fresh, Untouched
  <1> QED
    BY <1>1, <1>2, <1>3, <1>4, <1>5, <1>6, <1>7, <1>8, <1>9, <1>10, <1>11
       DEF Next, LoopStep

---------------------------------------------------------------------------
(* core.c, the life cycle functions and crtx_process_one_event: program    *)
(* counters, owners of the two mutexes, state and completion of every      *)
(* listener fit together in every reachable state.                         *)
THEOREM LifeCycleInvariance ==
  ASSUME SafeUse
  PROVE  Spec => []LifeInv
  <1>1. LifeInv /\ [Next]_vars => LifeInv'
    BY LifeStep
  <1> QED
    BY <1>1, LifeInit, PTL DEF Spec

(* Type correctness of the life cycle for any listeners and threads.       *)
THEOREM LifeCycleTypes ==
  ASSUME SafeUse
  PROVE  Spec => []TypeOK
  <1>1. LifeInv => TypeOK
    BY DEF LifeInv
  <1> QED
    BY <1>1, LifeCycleInvariance, PTL

(* shutdown_listener_intern is called at most once per listener by its     *)
(* three callers, for any number of threads that shut listeners down.      *)
THEOREM ShutdownCompletesOnce ==
  ASSUME SafeUse
  PROVE  Spec => []InternedOnce
  <1>1. LifeInv => InternedOnce
    BY DEF LifeInv, Completed, InternedOnce
  <1> QED
    BY <1>1, LifeCycleInvariance, PTL

(* crtx_stop_listener leaves neither a watched descriptor nor a thread.    *)
THEOREM StopsAreQuiet ==
  ASSUME SafeUse
  PROVE  Spec => []StoppedIsQuiet
  <1>1. LifeInv => StoppedIsQuiet
    BY DEF LifeInv, Quieted, Off, StoppedIsQuiet
  <1> QED
    BY <1>1, LifeCycleInvariance, PTL

(* No exit of the life cycle functions keeps state_mutex or queue_mutex,   *)
(* apart from those that have completed the shutdown.                      *)
THEOREM LocksAreReturned ==
  ASSUME SafeUse
  PROVE  Spec => []NoLockLeaked
  <1>1. LifeInv => NoLockLeaked
    BY DEF LifeInv, Owners, Completed, Holding, StoppingPCs, NoLockLeaked
  <1> QED
    BY <1>1, LifeCycleInvariance, PTL

=============================================================================
