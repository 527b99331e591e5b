-------------------------- MODULE ThreadPoolProofs --------------------------
(***************************************************************************)
(* Proofs about ThreadPool, for any users, kinds of jobs and bounds: an    *)
(* entry of the pool has one user at a time and runs the job of that user. *)
(*                                                                         *)
(* That an entry is not recycled while somebody stops it or waits for it   *)
(* rests on n_refs: whoever waits holds a reference (Referenced), so the   *)
(* thread can leave its reset only when nobody is left (Recycling).  That  *)
(* a thread does not run the next job before it is set rests on the start  *)
(* signal: it is reset with the entry, so it is off in every entry that is *)
(* free or not yet started, unless the thread was stopped (Free, Pending). *)
(***************************************************************************)
EXTENDS ThreadPool, TLAPS

(* Where a thread is that has no job to run.                               *)
Resting == {"none", "test", "wait", "exited"}

(* A user between taking an entry and starting its job.                    *)
Preparing == {"set_job", "ref", "start"}

(* A user that has started its job and not yet dropped its reference.      *)
Holding == {"running", "stop_flag", "stop_start", "wait", "deref"}

(* An entry that is free, or not yet part of the pool.                     *)
Free ==
    \A t \in Slots :
        /\ t > n_threads => ~in_use[t]
        /\ ~in_use[t] => /\ tpc[t] \in Resting
                         /\ job[t] = NoUser
                         /\ start[t] => stop[t]

(* A user has an entry from crtx_thread_assign_job on, and no other has it.*)
Owned ==
    /\ \A u \in Users : thr[u] = NoSlot <=> upc[u] = "idle"
    /\ \A u \in Users : thr[u] # NoSlot => in_use[thr[u]]
    /\ \A u, v \in Users : u # v /\ thr[u] # NoSlot => thr[u] # thr[v]

(* The entry of a user that has not started its job is at rest.            *)
Pending ==
    \A u \in Users :
        upc[u] \in Preparing =>
            /\ tpc[thr[u]] \in Resting
            /\ start[thr[u]] => stop[thr[u]]
            /\ upc[u] # "set_job" => job[thr[u]] = u

(* The entry of a user that has started its job keeps that job.            *)
Kept == \A u \in Users : upc[u] \in Holding => job[thr[u]] = u

(* The user has referenced the finished signal of its entry.               *)
HasRef(u) == upc[u] \in Holding \/ (upc[u] = "start" /\ Managed(u))

(* Whoever waits for the finished signal has the one reference to it, and  *)
(* a signal nobody waits for has none.                                     *)
Referenced ==
    /\ \A u \in Users :
          /\ upc[u] \in Holding \cup {"ref"} => Managed(u)
          /\ HasRef(u) => n_refs[thr[u]] = 1
    /\ \A t \in Slots :
          n_refs[t] # 0 => \E u \in Users : thr[u] = t /\ HasRef(u)

(* A thread that gives its entry back is alone with it.                    *)
Recycling == \A t \in Slots, u \in Users : tpc[t] = "recycle" => thr[u] # t

(* A thread that was started and not stopped has a job.                    *)
Startable ==
    \A t \in Slots :
        /\ tpc[t] = "run" => job[t] # NoUser
        /\ start[t] /\ ~stop[t] /\ tpc[t] \in {"test", "wait"} => job[t] # NoUser

Shape == Free /\ Owned /\ Pending /\ Kept /\ Referenced /\ Recycling /\ Startable

(* The inductive invariant.                                                *)
PoolInv == TypeOK /\ Shape

---------------------------------------------------------------------------
LEMMA InitPool == Init => PoolInv
  <1> SUFFICES ASSUME Init PROVE PoolInv
    OBVIOUS
  <1>1. TypeOK
    <2>1. n_threads \in 0..MaxThreads
      BY PoolAssumptions DEF Init
    <2>2. runs \in [Users -> 0..MaxRuns] /\ ran \in [Users -> 0..MaxRuns]
      BY PoolAssumptions DEF Init
    <2>3. n_refs \in [Slots -> {0, 1}]
      BY DEF Init
    <2> QED
      BY <2>1, <2>2, <2>3 DEF Init, TypeOK, ThreadPCs, UserPCs
  <1>2. Free
    BY DEF Init, Free, Slots, Resting
  <1>3. Owned /\ Pending /\ Kept /\ Referenced
    BY DEF Init, Owned, Pending, Kept, Referenced, HasRef, NoSlot, Preparing, Holding
  <1>4. Recycling /\ Startable
    BY DEF Init, Recycling, Startable
  <1> QED
    BY <1>1, <1>2, <1>3, <1>4 DEF PoolInv, Shape

(* Types.                                                                  *)
LEMMA TypeStep == PoolInv /\ [Next]_vars => TypeOK'
  <1> SUFFICES ASSUME TypeOK, Owned, Referenced, [Next]_vars PROVE TypeOK'
    BY DEF PoolInv, Shape
  <1>0. \A u \in Users : upc[u] # "idle" => thr[u] \in Slots
    BY DEF TypeOK, Owned
  <1> USE PoolAssumptions DEF TypeOK, Slots, NoSlot, ThreadPCs, UserPCs
  <1>1. ASSUME NEW u \in Users, NEW t \in Slots, GetThread(u, t) PROVE TypeOK'
    <2>1. n_threads' \in 0..MaxThreads /\ runs' \in [Users -> 0..MaxRuns]
      BY <1>1 DEF GetThread
    <2>2. tpc' \in [Slots -> ThreadPCs]
      BY <1>1 DEF GetThread, TGoto
    <2> QED
      BY <1>1, <2>1, <2>2 DEF GetThread, UGoto, poolVars
  <1>2. ASSUME NEW u \in Users, SetJob(u) PROVE TypeOK'
    BY <1>2 DEF SetJob, UGoto, poolVars
  <1>3. ASSUME NEW u \in Users, ReferenceFinished(u) PROVE TypeOK'
    <2>1. ~HasRef(u)
      BY <1>3 DEF ReferenceFinished, HasRef, Holding
    <2>2. \A v \in Users : thr[v] = thr[u] => ~HasRef(v)
      BY <1>0, <1>3, <2>1 DEF ReferenceFinished, Owned
    <2>3. n_refs[thr[u]] = 0
      BY <1>0, <1>3, <2>2 DEF ReferenceFinished, Referenced
    <2>4. n_refs' \in [Slots -> {0, 1}]
      BY <1>0, <1>3, <2>3 DEF ReferenceFinished
    <2> QED
      BY <1>3, <2>4 DEF ReferenceFinished, UGoto, poolVars
  <1>4. ASSUME NEW u \in Users, StartJob(u) PROVE TypeOK'
    BY <1>4 DEF StartJob, UGoto, poolVars
  <1>5. ASSUME NEW u \in Users, CallStop(u) PROVE TypeOK'
    BY <1>5 DEF CallStop, UGoto, threadVars, poolVars
  <1>6. ASSUME NEW u \in Users, StopFlag(u) PROVE TypeOK'
    BY <1>6 DEF StopFlag, UGoto, poolVars
  <1>7. ASSUME NEW u \in Users, StopStart(u) PROVE TypeOK'
    BY <1>7 DEF StopStart, UGoto, poolVars
  <1>8. ASSUME NEW u \in Users, WaitFinished(u) PROVE TypeOK'
    BY <1>8 DEF WaitFinished, UGoto, threadVars, poolVars
  <1>9. ASSUME NEW u \in Users, DereferenceFinished(u) PROVE TypeOK'
    <2>1. n_refs' \in [Slots -> {0, 1}]
      BY <1>0, <1>9 DEF DereferenceFinished
    <2> QED
      BY <1>9, <2>1 DEF DereferenceFinished, UGoto, poolVars
  <1>10. ASSUME NEW t \in Slots, TestStop(t) PROVE TypeOK'
    BY <1>10 DEF TestStop, TGoto, userVars, poolVars
  <1>11. ASSUME NEW t \in Slots, WakeUp(t) PROVE TypeOK'
    BY <1>11 DEF WakeUp, TGoto, userVars, poolVars
  <1>12. ASSUME NEW t \in Slots, JobReturns(t) \/ JobEndsEarly(t) PROVE TypeOK'
    <2>1. job[t] \in Users /\ Returned(t)
      BY <1>12 DEF JobReturns, JobEndsEarly
    <2> QED
      BY <2>1 DEF Returned, TGoto, poolVars
  <1>13. ASSUME NEW t \in Slots, JobCancelled(t) PROVE TypeOK'
    BY <1>13 DEF JobCancelled, TGoto, poolVars
  <1>14. ASSUME NEW t \in Slots, ResetFinished(t) PROVE TypeOK'
    BY <1>14 DEF ResetFinished, TGoto, userVars, poolVars
  <1>15. ASSUME NEW t \in Slots, Recycle(t) PROVE TypeOK'
    BY <1>15 DEF Recycle, TGoto, userVars, poolVars
  <1>16. ASSUME StopAll PROVE TypeOK'
    BY <1>16 DEF StopAll, threadVars, userVars
  <1>17. ASSUME NEW t \in Slots, StopOne(t) PROVE TypeOK'
    BY <1>17 DEF StopOne
  <1>18. ASSUME StopAllDone \/ JoinAll PROVE TypeOK'
    BY <1>18 DEF StopAllDone, JoinAll, threadVars, userVars
  <1>19. ASSUME UNCHANGED vars PROVE TypeOK'
    BY <1>19 DEF vars
  <1>. QED
    BY <1>1, <1>2, <1>3, <1>4, <1>5, <1>6, <1>7, <1>8, <1>9, <1>10, <1>11, <1>12, <1>13,
       <1>14, <1>15, <1>16, <1>17, <1>18, <1>19
       DEF Next, UserStep, ThreadStep, FinishStep

---------------------------------------------------------------------------
(* Each action keeps the shape of the pool.                                *)

(* A user at work has an entry.                                            *)
LEMMA HasEntry ==
  ASSUME PoolInv
  PROVE  \A u \in Users : upc[u] # "idle" => thr[u] \in Slots /\ thr[u] # NoSlot
  BY DEF PoolInv, TypeOK, Shape, Owned

LEMMA NoSlotIsNone == NoSlot \notin Slots
  BY PoolAssumptions DEF NoSlot, Slots

LEMMA GetThreadShape ==
  ASSUME PoolInv, NEW u \in Users, NEW t \in Slots, GetThread(u, t)
  PROVE  Shape'
  <1> USE DEF PoolInv, TypeOK, Shape, GetThread, UGoto, TGoto
  <1>0. ~in_use[t] /\ t # NoSlot /\ thr[u] = NoSlot
    BY DEF Free, Owned, Slots, NoSlot
  <1>1. Free'
    <2>1. \A s \in Slots : s > n_threads' => s > n_threads /\ s # t
      BY PoolAssumptions DEF Slots
    <2>2. \A s \in Slots : s > n_threads' => ~in_use'[s]
      BY <2>1 DEF Free
    <2>3. \A s \in Slots : ~in_use'[s] => s # t /\ ~in_use[s]
      OBVIOUS
    <2> QED
      BY <2>2, <2>3 DEF Free, Resting
  <1>2. Owned'
    BY <1>0 DEF Owned
  <1>3. Pending'
    BY <1>0 DEF Pending, Owned, Preparing, Resting, Free
  <1>4. Kept'
    BY <1>0 DEF Kept, Owned, Holding
  <1>5. Referenced'
    <2>1. \A v \in Users : HasRef(v)' <=> HasRef(v) /\ v # u
      BY DEF HasRef, Holding, Managed
    <2>2. \A v \in Users : v # u => thr'[v] = thr[v]
      OBVIOUS
    <2>3. ~HasRef(u)
      BY DEF HasRef, Holding
    <2> QED
      BY <2>1, <2>2, <2>3 DEF Referenced, Holding, Managed
  <1>6. Recycling'
    BY <1>0 DEF Recycling, Free, Resting
  <1>7. Startable'
    BY <1>0 DEF Startable, Free, Resting
  <1> QED
    BY <1>1, <1>2, <1>3, <1>4, <1>5, <1>6, <1>7

(* A step of a user that has an entry.                                     *)
LEMMA UserShape ==
  ASSUME PoolInv, NEW u \in Users, UserStep(u) \/ CallStop(u)
  PROVE  Shape'
  <1> USE PoolAssumptions DEF PoolInv, TypeOK, Shape, UGoto
  <1>0. upc[u] # "idle" /\ thr[u] \in Slots /\ thr[u] # NoSlot
    BY DEF UserStep, SetJob, ReferenceFinished, StartJob, CallStop, StopFlag, StopStart,
           WaitFinished, DereferenceFinished, Owned
  <1>1. CASE SetJob(u)
    <2>1. Free' /\ Owned' /\ Recycling' /\ Startable'
      BY <1>0, <1>1 DEF SetJob, Free, Owned, Recycling, Startable
    <2>2. Pending' /\ Kept'
      BY <1>0, <1>1 DEF SetJob, Pending, Kept, Owned, Preparing, Holding, Managed
    <2>3. \A v \in Users : HasRef(v)' <=> HasRef(v)
      BY <1>1 DEF SetJob, HasRef, Holding, Managed
    <2>4. Referenced'
      BY <1>1, <2>3 DEF SetJob, Referenced, Holding, Managed
    <2> QED
      BY <2>1, <2>2, <2>4
  <1>2. CASE ReferenceFinished(u)
    <2>1. Free' /\ Owned' /\ Recycling' /\ Startable'
      BY <1>0, <1>2 DEF ReferenceFinished, Free, Owned, Recycling, Startable
    <2>2. Pending' /\ Kept'
      BY <1>0, <1>2 DEF ReferenceFinished, Pending, Kept, Owned, Preparing, Holding
    <2>3. ~HasRef(u) /\ HasRef(u)' /\ Managed(u)
      BY <1>2 DEF ReferenceFinished, HasRef, Referenced, Holding, Managed
    <2>4. \A v \in Users : v # u => HasRef(v)' = HasRef(v) /\ thr[v] # thr[u]
      BY <1>0, <1>2 DEF ReferenceFinished, HasRef, Holding, Managed, Owned
    <2>5. n_refs[thr[u]] = 0
      BY <1>0, <2>3, <2>4 DEF Referenced
    <2>6. Referenced'
      BY <1>0, <1>2, <2>3, <2>4, <2>5 DEF ReferenceFinished, Referenced, Holding, Managed
    <2> QED
      BY <2>1, <2>2, <2>6
  <1>3. CASE StartJob(u)
    <2>1. /\ in_use[thr[u]] /\ job[thr[u]] = u /\ u # NoUser
          /\ \A t \in Slots : t # thr[u] => start'[t] = start[t]
          /\ \A v \in Users : v # u => thr'[v] = thr[v] /\ upc'[v] = upc[v]
          /\ thr'[u] = NoSlot <=> upc'[u] = "idle"
          /\ thr'[u] \in {thr[u], NoSlot}
          /\ UNCHANGED <<n_threads, stop, in_use, job, tpc>>
      BY <1>0, <1>3 DEF StartJob, Owned, Pending, Preparing
    <2>2. Free' /\ Startable'
      BY <2>1 DEF Free, Startable
    <2>3. Owned'
      <3>1. \A v \in Users : thr'[v] = NoSlot <=> upc'[v] = "idle"
        BY <2>1 DEF Owned
      <3>2. \A v \in Users : thr'[v] # NoSlot => thr'[v] = thr[v]
        BY <2>1
      <3> QED
        BY <2>1, <3>1, <3>2 DEF Owned
    <2>4. Recycling'
      BY <2>1, NoSlotIsNone DEF Recycling
    <2>5. Pending' /\ Kept'
      BY <1>0, <1>3
         DEF StartJob, Pending, Kept, Owned, Preparing, Holding, Managed
    <2>6. \A v \in Users : /\ HasRef(v)' <=> HasRef(v)
                           /\ HasRef(v) => thr'[v] = thr[v]
      BY <1>3 DEF StartJob, HasRef, Holding, Managed
    <2>7. \A v \in Users : upc'[v] \in Holding \cup {"ref"} => Managed(v)
      BY <1>3 DEF StartJob, Referenced, Holding, Managed
    <2>8. n_refs' = n_refs
      BY <1>3 DEF StartJob
    <2>9. Referenced'
      BY <2>6, <2>7, <2>8 DEF Referenced, Managed
    <2> QED
      BY <2>2, <2>3, <2>4, <2>5, <2>9
  <1>4. CASE CallStop(u) \/ WaitFinished(u)
    <2>1. Free' /\ Owned' /\ Recycling' /\ Startable' /\ Pending' /\ Kept'
      BY <1>0, <1>4 DEF CallStop, WaitFinished, threadVars, Free, Owned, Recycling, Startable,
         Pending, Kept, Preparing, Holding
    <2>2. \A v \in Users : HasRef(v)' <=> HasRef(v)
      BY <1>4 DEF CallStop, WaitFinished, threadVars, HasRef, Holding, Managed
    <2>3. Referenced'
      BY <1>4, <2>2 DEF CallStop, WaitFinished, threadVars, Referenced, Holding, Managed
    <2> QED
      BY <2>1, <2>3
  <1>5. CASE StopFlag(u)
    <2>1. Free' /\ Owned' /\ Recycling' /\ Startable' /\ Pending' /\ Kept'
      BY <1>0, <1>5 DEF StopFlag, Free, Owned, Recycling, Startable,
         Pending, Kept, Preparing, Holding
    <2>2. \A v \in Users : HasRef(v)' <=> HasRef(v)
      BY <1>5 DEF StopFlag, HasRef, Holding, Managed
    <2>3. Referenced'
      BY <1>5, <2>2 DEF StopFlag, Referenced, Holding, Managed
    <2> QED
      BY <2>1, <2>3
  <1>6. CASE StopStart(u)
    <2>1. Free' /\ Owned' /\ Recycling' /\ Startable' /\ Pending' /\ Kept'
      BY <1>0, <1>6 DEF StopStart, Free, Owned, Recycling, Startable,
         Pending, Kept, Preparing, Holding
    <2>2. \A v \in Users : HasRef(v)' <=> HasRef(v)
      BY <1>6 DEF StopStart, HasRef, Holding, Managed
    <2>3. Referenced'
      BY <1>6, <2>2 DEF StopStart, Referenced, Holding, Managed
    <2> QED
      BY <2>1, <2>3
  <1>7. CASE DereferenceFinished(u)
    <2>1. Free' /\ Owned' /\ Recycling' /\ Startable'
      BY <1>0, <1>7, NoSlotIsNone DEF DereferenceFinished, Free, Owned, Recycling, Startable
    <2>2. Pending' /\ Kept'
      BY <1>0, <1>7
         DEF DereferenceFinished, Pending, Kept, Owned, Preparing, Holding, Managed
    <2>3. HasRef(u) /\ ~HasRef(u)' /\ n_refs[thr[u]] = 1
      BY <1>7 DEF DereferenceFinished, HasRef, Holding, Referenced
    <2>4. \A v \in Users : v # u => HasRef(v)' = HasRef(v) /\ thr[v] # thr[u]
      BY <1>0, <1>7 DEF DereferenceFinished, HasRef, Holding, Managed, Owned
    <2>5. Referenced'
      BY <1>0, <1>7, <2>3, <2>4 DEF DereferenceFinished, Referenced, Holding, Managed
    <2> QED
      BY <2>1, <2>2, <2>5
  <1> QED
    BY <1>1, <1>2, <1>3, <1>4, <1>5, <1>6, <1>7 DEF UserStep

(* A step of a pool thread.                                                *)
LEMMA ThreadShape ==
  ASSUME PoolInv, NEW t \in Slots, ThreadStep(t) \/ JobEndsEarly(t)
  PROVE  Shape'
  <1> USE PoolAssumptions DEF PoolInv, TypeOK, Shape, TGoto, userVars
  <1>0. \A u \in Users : upc[u] # "idle" => thr[u] \in Slots /\ thr[u] # NoSlot
    BY HasEntry
  <1>1. CASE TestStop(t) \/ WakeUp(t)
    <2>1. Free' /\ Owned' /\ Kept' /\ Referenced'
      BY <1>1 DEF TestStop, WakeUp, Free, Owned, Kept, Referenced, HasRef, Resting, Managed
    <2>2. Pending' /\ Recycling' /\ Startable'
      BY <1>0, <1>1 DEF TestStop, WakeUp, Pending, Recycling, Startable, Resting, Preparing
    <2> QED
      BY <2>1, <2>2
  <1>2. CASE JobReturns(t) \/ JobEndsEarly(t) \/ JobCancelled(t)
    <2>1. Free' /\ Owned' /\ Kept' /\ Referenced'
      BY <1>2 DEF JobReturns, JobEndsEarly, JobCancelled, Returned, Free, Owned, Kept, Referenced, HasRef, Resting, Managed
    <2>2. Pending' /\ Recycling' /\ Startable'
      BY <1>0, <1>2 DEF JobReturns, JobEndsEarly, JobCancelled, Returned, Pending, Recycling, Startable, Resting,
         Preparing
    <2> QED
      BY <2>1, <2>2
  <1>3. CASE ResetFinished(t)
    <2>1. ASSUME NEW u \in Users, thr[u] = t PROVE FALSE
      <3>1. upc[u] \in Preparing \cup Holding
        BY <2>1, NoSlotIsNone DEF Owned, Preparing, Holding, UserPCs
      <3>2. upc[u] \notin Preparing
        BY <1>3, <2>1 DEF ResetFinished, Pending, Resting
      <3>3. upc[u] \notin Holding
        BY <1>3, <2>1 DEF ResetFinished, Referenced, HasRef
      <3> QED
        BY <3>1, <3>2, <3>3
    <2>2. Free' /\ Owned' /\ Kept' /\ Referenced'
      BY <1>3 DEF ResetFinished, Free, Owned, Kept, Referenced, HasRef, Resting, Managed
    <2>3. Pending' /\ Recycling' /\ Startable'
      BY <1>3, <2>1 DEF ResetFinished, Pending, Recycling, Startable, Resting
    <2> QED
      BY <2>2, <2>3
  <1>4. CASE Recycle(t)
    <2>1. \A u \in Users : thr[u] # t
      BY <1>4 DEF Recycle, Recycling
    <2>2. Free' /\ Owned' /\ Kept' /\ Referenced'
      BY <1>4, <2>1
         DEF Recycle, Free, Owned, Kept, Referenced, HasRef, Resting, Holding, Managed, NoSlot
    <2>3. Pending' /\ Recycling' /\ Startable'
      BY <1>4, <2>1 DEF Recycle, Pending, Recycling, Startable, Resting, Preparing
    <2> QED
      BY <2>2, <2>3
  <1> QED
    BY <1>1, <1>2, <1>3, <1>4 DEF ThreadStep

(* A step of crtx_finish.                                                  *)
LEMMA FinishShape ==
  ASSUME PoolInv, StopAll \/ FinishStep
  PROVE  Shape'
  <1> USE DEF PoolInv, TypeOK, Shape
  <1>1. ASSUME NEW t \in Slots, StopOne(t) PROVE Shape'
    BY <1>1 DEF StopOne, Free, Owned, Recycling, Startable, Pending, Kept, Referenced, HasRef, Managed
  <1>2. CASE StopAll \/ StopAllDone \/ JoinAll
    BY <1>2 DEF StopAll, StopAllDone, JoinAll, threadVars, userVars, Free, Owned, Recycling,
       Startable, Pending, Kept, Referenced, HasRef, Managed
  <1> QED
    BY <1>1, <1>2 DEF FinishStep

---------------------------------------------------------------------------
(* The inductive invariant holds in every reachable state.                 *)
THEOREM PoolInvariance == Spec => []PoolInv
  <1>1. PoolInv /\ [Next]_vars => PoolInv'
    <2> SUFFICES ASSUME PoolInv, [Next]_vars PROVE Shape'
      BY TypeStep DEF PoolInv
    <2>1. CASE UNCHANGED vars
      BY <2>1 DEF vars, PoolInv, Shape, Free, Owned, Recycling, Startable, Pending, Kept,
         Referenced, HasRef, Managed
    <2>2. CASE Next
      BY <2>2, GetThreadShape, UserShape, ThreadShape, FinishShape DEF Next
    <2> QED
      BY <2>1, <2>2
  <1> QED
    BY <1>1, InitPool, PTL DEF Spec

(* threads.c, types: crtx_threads_stop_all and the users address existing  *)
(* entries of the pool only, and a finished signal has at most one         *)
(* reference.                                                              *)
THEOREM PoolTypeCorrect == Spec => []TypeOK
  <1>1. PoolInv => TypeOK
    BY DEF PoolInv
  <1> QED
    BY <1>1, PoolInvariance, PTL

(* threads.c: no thread runs without a job, no entry is recycled under the *)
(* hands of somebody who stops it or waits for it, no entry has two users  *)
(* and no job is replaced while it runs.                                   *)
THEOREM JobsStayExclusive == Spec => []JobsAreExclusive
  <1>1. PoolInv => JobsAreExclusive
    <2> SUFFICES ASSUME PoolInv PROVE JobsAreExclusive
      OBVIOUS
    <2>1. NoNullJob
      BY DEF NoNullJob, PoolInv, Shape, Startable
    <2>2. HeldThreadKeepsJob
      BY DEF HeldThreadKeepsJob, PoolInv, Shape, Kept, Owned, Holding
    <2>3. ExclusiveThread
      BY DEF ExclusiveThread, PoolInv, Shape, Owned, Pending, Preparing, Resting
    <2> QED
      BY <2>1, <2>2, <2>3 DEF JobsAreExclusive
  <1> QED
    BY <1>1, PoolInvariance, PTL

=============================================================================
