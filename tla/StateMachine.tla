---------------------------- MODULE StateMachine ----------------------------
(***************************************************************************)
(* State machines (src/sm.c) on callbacks that the event loop calls once   *)
(* and frees (crtx_evloop_schedule_callback in src/evloop.c).  A change of *)
(* state is scheduled and counted in n_schedules; crtx_release_sm sets a   *)
(* flag, and the last scheduled change calls release_cb, which may free    *)
(* the machine.                                                            *)
(***************************************************************************)
EXTENDS Naturals, Sequences

CONSTANTS
    SmStates,     \* states of the machine
    NoState,      \* cur_state of a machine that has not started
    MaxScheduled, \* bound: changes that are scheduled at a time
    OtherThread   \* crtx_release_sm is called outside the event loop's thread

ASSUME StateMachineAssumption ==
    /\ NoState \notin SmStates
    /\ MaxScheduled \in Nat
    /\ OtherThread \in BOOLEAN

VARIABLES
    cur,       \* cur_state
    nsched,    \* n_schedules
    smq,       \* scheduled changes in the control pipe
    relflag,   \* CRTX_SMF_RELEASE
    relcheck,  \* crtx_release_sm has set the flag and not read n_schedules
    relcalls   \* calls of release_cb

smVars == <<cur, nsched, smq, relflag, relcheck, relcalls>>

StateMachineInit ==
    /\ cur = NoState
    /\ nsched = 0
    /\ smq = <<>>
    /\ relflag = FALSE
    /\ relcheck = FALSE
    /\ relcalls = 0

(* crtx_change_state, as long as the application owns the machine.  Nobody *)
(* releases one that was never given a state: change_sms would be called   *)
(* with a null pointer.                                                    *)
ChangeState(s) ==
    /\ ~relflag
    /\ Len(smq) < MaxScheduled
    /\ nsched' = nsched + 1
    /\ smq' = Append(smq, s)
    /\ UNCHANGED <<cur, relflag, relcheck, relcalls>>

(* crtx_release_sm: the flag is set ...                                    *)
ReleaseFlag ==
    /\ ~relflag
    /\ cur # NoState \/ nsched > 0
    /\ relflag' = TRUE
    /\ relcheck' = TRUE
    /\ UNCHANGED <<cur, nsched, smq, relcalls>>

(* ... and a change to the current state is scheduled if none is.          *)
ReleaseSchedules == nsched = 0

ReleaseCheck ==
    /\ relcheck
    /\ relcheck' = FALSE
    /\ IF ReleaseSchedules
       THEN nsched' = nsched + 1 /\ smq' = Append(smq, cur)
       ELSE UNCHANGED <<nsched, smq>>
    /\ UNCHANGED <<cur, relflag, relcalls>>

(* Faulty variant: every scheduled change calls release_cb.                *)
LastScheduleAny(n) == TRUE

(* change_sms: release_cb is called by the last scheduled change.          *)
LastSchedule(n) == n = 0

(* change_sms: trigger, or leave and enter, or the release.                *)
ChangeSms ==
    /\ smq # <<>>
    /\ relcheck => OtherThread
    /\ smq' = Tail(smq)
    /\ nsched' = nsched - 1
    /\ IF relflag
       THEN /\ relcalls' = IF LastSchedule(nsched - 1) THEN relcalls + 1 ELSE relcalls
            /\ UNCHANGED cur
       ELSE /\ cur' = Head(smq)
            /\ UNCHANGED relcalls
    /\ UNCHANGED <<relflag, relcheck>>

StateMachineNext ==
    \/ ReleaseFlag \/ ReleaseCheck \/ ChangeSms
    \/ \E s \in SmStates : ChangeState(s)

StateMachineFairness == WF_smVars(ReleaseCheck) /\ WF_smVars(ChangeSms)

StateMachineSpec ==
    StateMachineInit /\ [][StateMachineNext]_smVars /\ StateMachineFairness

---------------------------------------------------------------------------
(* Properties.                                                             *)

StateMachineTypeOK ==
    /\ cur \in SmStates \cup {NoState}
    /\ nsched \in 0..(MaxScheduled + 1)
    /\ smq \in Seq(SmStates)
    /\ relflag \in BOOLEAN
    /\ relcheck \in BOOLEAN
    /\ relcalls \in 0..2

(* sm.c, change_sms: release_cb, which may free the machine, is called     *)
(* once, and after it no scheduled change and no unfinished                *)
(* crtx_release_sm touches the machine.                                    *)
NothingAfterRelease ==
    /\ StateMachineTypeOK
    /\ relcalls > 0 => (relcalls = 1 /\ smq = <<>> /\ ~relcheck)

(* sm.c, crtx_release_sm: a machine that is released calls release_cb, with*)
(* changes scheduled or without.                                           *)
ReleaseIsCalled == relflag ~> (relcalls = 1)

=============================================================================
