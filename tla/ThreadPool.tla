---------------------------- MODULE ThreadPool ----------------------------
(***************************************************************************)
(* The thread pool and its signals (src/threads.c), used the way           *)
(* crtx_start_listener and crtx_stop_listener (src/core.c) use it for a    *)
(* listener with a thread of its own, and the way crtx_add_event uses it   *)
(* for the workers of a graph, which nobody waits for.                     *)
(*                                                                         *)
(* A signal is a condition that is set under its mutex and awaited in a    *)
(* loop under the same mutex: waiting is a guard on the condition.  The    *)
(* finished signal also counts its references; its producer resets it only *)
(* when no consumer is left.                                               *)
(***************************************************************************)
EXTENDS Naturals, FiniteSets

CONSTANTS
    MaxThreads, \* bound on the number of threads in the pool
    Users,      \* threads that run jobs in the pool, one job each
    NoUser,
    Kind,       \* Kind[u]: how the job of u ends, see JobKinds
    MaxRuns     \* bound: how often a user starts its job

(* short      a job of the application (threads.h), which returns by       *)
(*            itself and nobody waits for                                  *)
(* graph      process_graph_tmain: nobody waits for it, and it never       *)
(*            returns, as nothing reads the graph->stop that do_stop sets  *)
(* until_stop returns after do_stop was called, or before                  *)
(* cancel     do_stop cancels the thread (nf_queue)                        *)
JobKinds == {"short", "graph", "until_stop", "cancel"}

ASSUME PoolAssumptions ==
    /\ Kind \in [Users -> JobKinds]
    /\ NoUser \notin Users
    /\ MaxThreads \in Nat
    /\ MaxRuns \in Nat

(* The entries of the pool, a linked list, by their position.              *)
Slots == 1..MaxThreads

NoSlot == 0

VARIABLES
    n_threads, \* length of the pool
    stop,      \* thread->stop
    in_use,    \* thread->in_use
    job,       \* thread->job, named by the user it belongs to
    start,     \* condition of thread->start
    finished,  \* condition of thread->finished
    n_refs,    \* thread->finished.n_refs
    tpc,       \* program counter of a pool thread
    upc,       \* program counter of a user
    thr,       \* the pool entry a user got (listener->eloop_thread)
    told,      \* do_stop was called for the current run of the user's job
    runs,      \* number of runs of the user's job that were started
    ran,       \* number of runs that were executed
    pool_stop,
    fpc,       \* crtx_finish: "idle", "join" or "done"
    victims    \* entries crtx_threads_stop_all still has to stop

vars == <<n_threads, stop, in_use, job, start, finished, n_refs, tpc, upc, thr,
          told, runs, ran, pool_stop, fpc, victims>>

threadVars == <<n_threads, stop, in_use, job, start, finished, n_refs, tpc>>
userVars   == <<upc, thr, told, runs, ran>>
poolVars   == <<pool_stop, fpc, victims>>

ThreadPCs == {"none", "test", "wait", "run", "reset", "recycle",
              "exited"}
UserPCs   == {"idle", "set_job", "ref", "start", "running", "stop_flag",
              "stop_start", "wait", "deref"}

TypeOK ==
    /\ n_threads \in 0..MaxThreads
    /\ stop \in [Slots -> BOOLEAN]
    /\ in_use \in [Slots -> BOOLEAN]
    /\ job \in [Slots -> Users \cup {NoUser}]
    /\ start \in [Slots -> BOOLEAN]
    /\ finished \in [Slots -> BOOLEAN]
    /\ n_refs \in [Slots -> {0, 1}] \* at most one consumer
    /\ tpc \in [Slots -> ThreadPCs]
    /\ upc \in [Users -> UserPCs]
    /\ thr \in [Users -> Slots \cup {NoSlot}]
    /\ told \in [Users -> BOOLEAN]
    /\ runs \in [Users -> 0..MaxRuns]
    /\ ran \in [Users -> 0..MaxRuns]
    /\ pool_stop \in BOOLEAN
    /\ fpc \in {"idle", "stopping", "join", "done"}
    /\ victims \in SUBSET Slots

Init ==
    /\ n_threads = 0
    /\ stop = [t \in Slots |-> FALSE]
    /\ in_use = [t \in Slots |-> FALSE]
    /\ job = [t \in Slots |-> NoUser]
    /\ start = [t \in Slots |-> FALSE]
    /\ finished = [t \in Slots |-> FALSE]
    /\ n_refs = [t \in Slots |-> 0]
    /\ tpc = [t \in Slots |-> "none"]
    /\ upc = [u \in Users |-> "idle"]
    /\ thr = [u \in Users |-> NoSlot]
    /\ told = [u \in Users |-> FALSE]
    /\ runs = [u \in Users |-> 0]
    /\ ran = [u \in Users |-> 0]
    /\ pool_stop = FALSE
    /\ fpc = "idle"
    /\ victims = {}

UGoto(u, l) == upc' = [upc EXCEPT ![u] = l]
TGoto(t, l) == tpc' = [tpc EXCEPT ![t] = l]

(* The job of u is one that somebody stops and waits for.                  *)
Managed(u) == Kind[u] \in {"until_stop", "cancel"}

---------------------------------------------------------------------------
(* crtx_thread_assign_job: under pool_mutex get_thread_intern takes the    *)
(* first unused entry of the pool, or spawns a thread if there is none.    *)
(* With pool_stop it returns a null pointer that the caller dereferences:  *)
(* nobody may start a job once crtx_finish was called.                     *)

(* Faulty variant: the entry is not marked as used.                        *)
GetThreadUnmarked(u, t) ==
    /\ upc[u] = "idle"
    /\ ~pool_stop
    /\ runs[u] < MaxRuns
    /\ \A s \in 1..(t - 1) : s <= n_threads /\ in_use[s]
    /\ \/ /\ t <= n_threads /\ ~in_use[t]
          /\ UNCHANGED <<n_threads, tpc>>
       \/ /\ t = n_threads + 1
          /\ n_threads' = t
          /\ TGoto(t, "test")
    /\ thr' = [thr EXCEPT ![u] = t]
    /\ runs' = [runs EXCEPT ![u] = @ + 1]
    /\ told' = [told EXCEPT ![u] = FALSE]
    /\ UGoto(u, "set_job")
    /\ UNCHANGED <<stop, in_use, job, start, finished, n_refs, ran, poolVars>>

GetThread(u, t) ==
    /\ upc[u] = "idle"
    /\ ~pool_stop
    /\ runs[u] < MaxRuns
    /\ \A s \in 1..(t - 1) : s <= n_threads /\ in_use[s]
    /\ \/ /\ t <= n_threads /\ ~in_use[t]
          /\ UNCHANGED <<n_threads, tpc>>
       \/ /\ t = n_threads + 1
          /\ n_threads' = t
          /\ TGoto(t, "test")
    /\ in_use' = [in_use EXCEPT ![t] = TRUE]
    /\ thr' = [thr EXCEPT ![u] = t]
    /\ runs' = [runs EXCEPT ![u] = @ + 1]
    /\ told' = [told EXCEPT ![u] = FALSE]
    /\ UGoto(u, "set_job")
    /\ UNCHANGED <<stop, job, start, finished, n_refs, ran, poolVars>>

(* crtx_thread_assign_job: t->job is set outside of pool_mutex.            *)
SetJob(u) ==
    /\ upc[u] = "set_job"
    /\ job' = [job EXCEPT ![thr[u]] = u]
    /\ UGoto(u, IF Managed(u) THEN "ref" ELSE "start")
    /\ UNCHANGED <<n_threads, stop, in_use, start, finished, n_refs, tpc, thr,
                   told, runs, ran, poolVars>>

(* crtx_start_listener: crtx_reference_signal(finished).                   *)
ReferenceFinished(u) ==
    /\ upc[u] = "ref"
    /\ n_refs' = [n_refs EXCEPT ![thr[u]] = @ + 1]
    /\ UGoto(u, "start")
    /\ UNCHANGED <<n_threads, stop, in_use, job, start, finished, tpc, thr, told,
                   runs, ran, poolVars>>

(* Faulty variant: the condition of the start signal is not set.           *)
StartJobUnsignalled(u) ==
    /\ upc[u] = "start"
    /\ IF Managed(u)
       THEN UGoto(u, "running") /\ UNCHANGED thr
       ELSE UGoto(u, "idle") /\ thr' = [thr EXCEPT ![u] = NoSlot]
    /\ UNCHANGED <<n_threads, stop, in_use, job, start, finished, n_refs, tpc,
                   told, runs, ran, poolVars>>

(* crtx_thread_start_job.                                                  *)
StartJob(u) ==
    /\ upc[u] = "start"
    /\ start' = [start EXCEPT ![thr[u]] = TRUE]
    /\ IF Managed(u)
       THEN UGoto(u, "running") /\ UNCHANGED thr
       ELSE UGoto(u, "idle") /\ thr' = [thr EXCEPT ![u] = NoSlot]
    /\ UNCHANGED <<n_threads, stop, in_use, job, finished, n_refs, tpc, told,
                   runs, ran, poolVars>>

---------------------------------------------------------------------------
(* crtx_stop_listener: crtx_threads_stop(eloop_thread), then wait for the  *)
(* finished signal and drop the reference.                                 *)

(* Faulty variant: the stop takes one more reference before it waits.      *)
CallStopReferences(u) ==
    /\ upc[u] = "running"
    /\ n_refs' = [n_refs EXCEPT ![thr[u]] = @ + 1]
    /\ UGoto(u, "stop_flag")
    /\ UNCHANGED <<n_threads, stop, in_use, job, start, finished, tpc, thr, told,
                   runs, ran, poolVars>>

CallStop(u) ==
    /\ upc[u] = "running"
    /\ UGoto(u, "stop_flag")
    /\ UNCHANGED <<threadVars, thr, told, runs, ran, poolVars>>

StopFlag(u) ==
    /\ upc[u] = "stop_flag"
    /\ stop' = [stop EXCEPT ![thr[u]] = TRUE]
    /\ UGoto(u, "stop_start")
    /\ UNCHANGED <<n_threads, in_use, job, start, finished, n_refs, tpc, thr,
                   told, runs, ran, poolVars>>

(* The start signal wakes the thread up; t->job is read without a lock and *)
(* its do_stop is called, if any.                                          *)
StopStart(u) ==
    /\ upc[u] = "stop_start"
    /\ start' = [start EXCEPT ![thr[u]] = TRUE]
    /\ told' = IF job[thr[u]] = NoUser THEN told
               ELSE [told EXCEPT ![job[thr[u]]] = TRUE]
    /\ UGoto(u, "wait")
    /\ UNCHANGED <<n_threads, stop, in_use, job, finished, n_refs, tpc, thr,
                   runs, ran, poolVars>>

WaitFinished(u) ==
    /\ upc[u] = "wait"
    /\ finished[thr[u]]
    /\ UGoto(u, "deref")
    /\ UNCHANGED <<threadVars, thr, told, runs, ran, poolVars>>

DereferenceFinished(u) ==
    /\ upc[u] = "deref"
    /\ n_refs' = [n_refs EXCEPT ![thr[u]] = IF @ = 0 THEN 0 ELSE @ - 1]
    /\ thr' = [thr EXCEPT ![u] = NoSlot]
    /\ UGoto(u, "idle")
    /\ UNCHANGED <<n_threads, stop, in_use, job, start, finished, tpc, told,
                   runs, ran, poolVars>>

---------------------------------------------------------------------------
(* crtx_thread_tmain.                                                      *)

TestStop(t) ==
    /\ tpc[t] = "test"
    /\ TGoto(t, IF stop[t] THEN "exited" ELSE "wait")
    /\ UNCHANGED <<n_threads, stop, in_use, job, start, finished, n_refs,
                   userVars, poolVars>>

(* The start signal arrived.  With stop set the thread ends: finished is   *)
(* sent, in_use and job are left alone.                                    *)
WakeUp(t) ==
    /\ tpc[t] = "wait"
    /\ start[t]
    /\ IF stop[t]
       THEN /\ finished' = [finished EXCEPT ![t] = TRUE]
            /\ TGoto(t, "exited")
       ELSE /\ TGoto(t, "run")
            /\ UNCHANGED finished
    /\ UNCHANGED <<n_threads, stop, in_use, job, start, n_refs, userVars,
                   poolVars>>

(* The job of the thread returns and finished is sent.                     *)
Returned(t) ==
    /\ ran' = [ran EXCEPT ![job[t]] = runs[job[t]]]
    /\ finished' = [finished EXCEPT ![t] = TRUE]
    /\ TGoto(t, "reset")
    /\ UNCHANGED <<n_threads, stop, in_use, job, start, n_refs, upc, thr, told,
                   runs, poolVars>>

(* A job that is done or was told to stop returns.                         *)
JobReturns(t) ==
    /\ tpc[t] = "run"
    /\ job[t] # NoUser
    /\ \/ Kind[job[t]] = "short"
       \/ Kind[job[t]] = "until_stop" /\ told[job[t]]
    /\ Returned(t)

(* A job that is to run until it is stopped returns by itself, after an    *)
(* error or, as the detached event loop, after crtx_evloop_stop.           *)
JobEndsEarly(t) ==
    /\ tpc[t] = "run"
    /\ job[t] # NoUser
    /\ Kind[job[t]] = "until_stop" /\ ~told[job[t]]
    /\ Returned(t)

(* pthread_cancel: crtx_thread_tmain_cleanup sends finished, nothing else. *)
JobCancelled(t) ==
    /\ tpc[t] = "run"
    /\ job[t] # NoUser
    /\ Kind[job[t]] = "cancel" /\ told[job[t]]
    /\ ran' = [ran EXCEPT ![job[t]] = runs[job[t]]]
    /\ finished' = [finished EXCEPT ![t] = TRUE]
    /\ TGoto(t, "exited")
    /\ UNCHANGED <<n_threads, stop, in_use, job, start, n_refs, upc, thr, told,
                   runs, poolVars>>

(* Faulty variant: the reset does not wait for the references.             *)
ResetFinishedAtOnce(t) ==
    /\ tpc[t] = "reset"
    /\ finished' = [finished EXCEPT ![t] = FALSE]
    /\ TGoto(t, "recycle")
    /\ UNCHANGED <<n_threads, stop, in_use, job, start, n_refs, userVars,
                   poolVars>>

(* crtx_reset_signal(finished) waits until it is not referenced any more.  *)
ResetFinished(t) ==
    /\ tpc[t] = "reset"
    /\ n_refs[t] = 0
    /\ finished' = [finished EXCEPT ![t] = FALSE]
    /\ TGoto(t, "recycle")
    /\ UNCHANGED <<n_threads, stop, in_use, job, start, n_refs, userVars,
                   poolVars>>

(* Faulty variant: the start signal of the last job is not reset.          *)
RecycleKeepsStart(t) ==
    /\ tpc[t] = "recycle"
    /\ in_use' = [in_use EXCEPT ![t] = FALSE]
    /\ job' = [job EXCEPT ![t] = NoUser]
    /\ TGoto(t, "test")
    /\ UNCHANGED <<n_threads, stop, start, finished, n_refs, userVars, poolVars>>

(* Under pool_mutex: reset start, give the entry back.                     *)
Recycle(t) ==
    /\ tpc[t] = "recycle"
    /\ start' = [start EXCEPT ![t] = FALSE]
    /\ in_use' = [in_use EXCEPT ![t] = FALSE]
    /\ job' = [job EXCEPT ![t] = NoUser]
    /\ TGoto(t, "test")
    /\ UNCHANGED <<n_threads, stop, finished, n_refs, userVars, poolVars>>

---------------------------------------------------------------------------
(* crtx_finish: crtx_threads_stop_all calls crtx_threads_stop for every    *)
(* entry while it holds pool_mutex, so no entry is recycled or taken       *)
(* meanwhile; crtx_threads_finish joins the threads.                       *)

StopAll ==
    /\ fpc = "idle"
    /\ pool_stop' = TRUE
    /\ victims' = 1..n_threads
    /\ fpc' = "stopping"
    /\ UNCHANGED <<threadVars, userVars>>

(* Faulty variant: a sleeping thread is not woken up.                      *)
StopOneSilently(t) ==
    /\ fpc = "stopping"
    /\ t \in victims
    /\ \A s \in victims : t <= s
    /\ victims' = victims \ {t}
    /\ stop' = [stop EXCEPT ![t] = TRUE]
    /\ told' = IF job[t] = NoUser THEN told ELSE [told EXCEPT ![job[t]] = TRUE]
    /\ UNCHANGED <<n_threads, in_use, job, start, finished, n_refs, tpc, upc,
                   thr, runs, ran, pool_stop, fpc>>

StopOne(t) ==
    /\ fpc = "stopping"
    /\ t \in victims
    /\ \A s \in victims : t <= s
    /\ victims' = victims \ {t}
    /\ stop' = [stop EXCEPT ![t] = TRUE]
    /\ start' = [start EXCEPT ![t] = TRUE]
    /\ told' = IF job[t] = NoUser THEN told ELSE [told EXCEPT ![job[t]] = TRUE]
    /\ UNCHANGED <<n_threads, in_use, job, finished, n_refs, tpc, upc, thr, runs,
                   ran, pool_stop, fpc>>

StopAllDone ==
    /\ fpc = "stopping"
    /\ victims = {}
    /\ fpc' = "join"
    /\ UNCHANGED <<threadVars, userVars, pool_stop, victims>>

JoinAll ==
    /\ fpc = "join"
    /\ \A t \in 1..n_threads : tpc[t] = "exited"
    /\ fpc' = "done"
    /\ UNCHANGED <<threadVars, userVars, pool_stop, victims>>

---------------------------------------------------------------------------
UserStep(u) ==
    \/ SetJob(u) \/ ReferenceFinished(u) \/ StartJob(u)
    \/ StopFlag(u) \/ StopStart(u) \/ WaitFinished(u)
    \/ DereferenceFinished(u)

(* pool_mutex is held by crtx_threads_stop_all: nobody recycles.           *)
ThreadStep(t) ==
    \/ TestStop(t) \/ WakeUp(t) \/ JobReturns(t) \/ JobCancelled(t)
    \/ ResetFinished(t)
    \/ fpc # "stopping" /\ Recycle(t)

FinishStep == (\E t \in Slots : StopOne(t)) \/ StopAllDone \/ JoinAll

Next ==
    \/ \E u \in Users, t \in Slots : GetThread(u, t)
    \/ \E u \in Users : UserStep(u) \/ CallStop(u)
    \/ \E t \in Slots : ThreadStep(t) \/ JobEndsEarly(t)
    \/ StopAll
    \/ FinishStep

Spec == Init /\ [][Next]_vars

(* The scheduler runs every thread; a user with a running job stops it     *)
(* once crtx_finish was called (crtx_init_shutdown stops all listeners).   *)
FairSpec ==
    /\ Spec
    /\ \A u \in Users : WF_vars(UserStep(u))
    /\ \A u \in Users : WF_vars(pool_stop /\ CallStop(u))
    /\ \A t \in Slots : WF_vars(ThreadStep(t))
    /\ WF_vars(FinishStep)

---------------------------------------------------------------------------
(* Properties.                                                             *)

(* A pool thread never runs without a job: thread->job is dereferenced     *)
(* without a test after the start signal.                                  *)
NoNullJob == \A t \in Slots : tpc[t] = "run" => job[t] # NoUser

(* From crtx_thread_start_job to crtx_dereference_signal an entry keeps    *)
(* the job of its user: it is not recycled under the hands of somebody who *)
(* stops it or waits for it.                                               *)
HeldThreadKeepsJob ==
    \A u \in Users :
        upc[u] \in {"running", "stop_flag", "stop_start", "wait", "deref"}
            => in_use[thr[u]] /\ job[thr[u]] = u

(* No pool entry is given to two users at the same time, and the job of an *)
(* entry is never replaced while it runs.                                  *)
ExclusiveThread ==
    \A u, v \in Users :
        (u # v /\ thr[u] # NoSlot) =>
            /\ thr[u] # thr[v]
            /\ (upc[u] = "set_job" => tpc[thr[u]] # "run")

(* A pool entry belongs to one user and runs the job of that user only.    *)
JobsAreExclusive == NoNullJob /\ HeldThreadKeepsJob /\ ExclusiveThread

(* The start signal is not lost: a started job is executed unless its      *)
(* thread was told to stop.                                                *)
StartIsNotLost ==
    \A u \in Users :
        upc[u] = "running" ~> ran[u] = runs[u] \/ upc[u] # "running"
                              \/ stop[thr[u]] \/ tpc[thr[u]] = "run"

(* core.c: crtx_stop_listener is to "deactivate a listener": the call for  *)
(* a listener with a thread of its own returns.                            *)
StopReturns ==
    \A u \in Users : upc[u] = "stop_flag" ~> upc[u] = "idle"

(* The thread is a worker of a graph.                                      *)
ServesGraph(t) ==
    tpc[t] = "run" /\ job[t] # NoUser /\ Kind[job[t]] = "graph"

(* Once the pool was told to stop, every thread leaves crtx_thread_tmain,  *)
(* crtx_threads_finish joins them all and crtx_finish goes on, unless a    *)
(* thread is a worker of a graph.                                          *)
FinishReturns == pool_stop ~> fpc = "done" \/ \E t \in Slots : ServesGraph(t)

=============================================================================
