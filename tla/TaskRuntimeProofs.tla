------------------------- MODULE TaskRuntimeProofs -------------------------
(***************************************************************************)
(* Proofs about TaskRuntime for every set of jobs, nonces and backends.    *)
(*                                                                         *)
(* TypeOK comes first.  Every other result looks only at how a step        *)
(* changes the records, so lemma RecordSteps first sorts the actions into  *)
(* eight kinds of record change; each invariant is then proved over those  *)
(* kinds.                                                                  *)
(***************************************************************************)
EXTENDS TaskRuntimeRefinement, TLAPS

records == <<state, revision, token, registered, finished, issued, runs>>

-----------------------------------------------------------------------------

LEMMA TransitionsType ==
  ASSUME NEW s \in JobStates \cup {"absent"}
  PROVE  /\ Transitions[s] \subseteq JobStates
         /\ s \in Terminal => Transitions[s] = {}
         /\ s = "absent" => Transitions[s] = {}
         /\ s = "cancelling" => Transitions[s] = {"cancelled"}
         /\ "completed" \in Transitions[s] => s \in {"running", "paused"}
         /\ "running" \in Transitions[s] => s \in {"queued", "paused"}
         /\ "paused" \in Transitions[s] => s = "running"
         /\ "failed" \in Transitions[s] => s \in {"running", "paused"}
         /\ "cancelling" \in Transitions[s] => s \in {"running", "paused"}
         /\ "queued" \notin Transitions[s]
         /\ "cancelled" \in Transitions[s] => s \in {"queued", "cancelling"}
BY DEF Transitions, JobStates, Terminal

LEMMA MoveType ==
  ASSUME TypeOK, NEW j \in Jobs, NEW to \in JobStates, Move(j, to)
  PROVE  /\ state' \in [Jobs -> JobStates \cup {"absent"}]
         /\ revision' \in [Jobs -> Nat]
         /\ registered' \subseteq issued
         /\ finished' \in [Jobs -> Nat]
BY DEF TypeOK, Move

\* The part of TypeOK that transitions touch.
RecordType ==
  /\ state \in [Jobs -> JobStates \cup {"absent"}]
  /\ revision \in [Jobs -> Nat]
  /\ token \in [Jobs -> BOOLEAN]
  /\ cleanupError \in [Jobs -> BOOLEAN]
  /\ checkpointRequested \in [Jobs -> BOOLEAN]
  /\ registered \subseteq issued
  /\ finished \in [Jobs -> Nat]

LEMMA TransitionRecordType ==
  ASSUME TypeOK, issued' = issued, NEW j \in Jobs,
         \/ \E to \in JobStates : Transition(j, to)
         \/ \E to \in JobStates : TransitionOrIgnore(j, to)
         \/ \E preserve \in BOOLEAN : CancelTransition(j, preserve)
         \/ RecordUnchanged
  PROVE  RecordType'
<1>1. CASE \E to \in JobStates : Transition(j, to)
  BY <1>1, MoveType DEF Transition, TypeOK, RecordType
<1>2. CASE RecordUnchanged
  BY <1>2 DEF RecordUnchanged, TypeOK, RecordType
<1>3. CASE \E to \in JobStates : TransitionOrIgnore(j, to)
  <2>1. PICK to \in JobStates : TransitionOrIgnore(j, to)
    BY <1>3
  <2>2. CASE Transition(j, to)
    BY <2>2, <1>1
  <2>3. CASE ~Allowed(j, to) /\ UNCHANGED <<state, revision, registered, finished, token,
                                             cleanupError, checkpointRequested>>
    BY <2>3, <1>2 DEF RecordUnchanged
  <2> QED
    BY <2>1, <2>2, <2>3 DEF TransitionOrIgnore
<1>4. CASE \E preserve \in BOOLEAN : CancelTransition(j, preserve)
  <2>1. PICK preserve \in BOOLEAN : CancelTransition(j, preserve)
    BY <1>4
  <2>2. CancelTarget(j) \in JobStates
    BY DEF CancelTarget, JobStates
  <2>3. /\ state' \in [Jobs -> JobStates \cup {"absent"}]
        /\ revision' \in [Jobs -> Nat]
        /\ registered' \subseteq issued
        /\ finished' \in [Jobs -> Nat]
    BY <2>1, <2>2, MoveType DEF CancelTransition
  <2>4. /\ token' \in [Jobs -> BOOLEAN]
        /\ checkpointRequested' \in [Jobs -> BOOLEAN]
        /\ cleanupError' \in [Jobs -> BOOLEAN]
    BY <2>1 DEF CancelTransition, TypeOK
  <2> QED
    BY <2>3, <2>4 DEF RecordType
<1> QED
  BY <1>1, <1>2, <1>3, <1>4

\* What remains of TypeOK once the records are typed.
LEMMA TypeFromParts ==
  ASSUME RecordType', UNCHANGED <<bound, dispatching, sched>>, UNCHANGED closeVars,
         UNCHANGED <<issued, runs>>, TypeOK,
         worker' \in [Jobs -> WorkerPC], signal' \in [Jobs -> SignalPC]
  PROVE  TypeOK'
BY DEF RecordType, closeVars, TypeOK

LEMMA ApiType ==
  ASSUME TypeOK, NEW j \in Jobs, Api(j)
  PROVE  TypeOK'
<1>1. CASE Submit(j)
  BY <1>1 DEF Submit, permitVars, execVars, closeVars, TypeOK, JobStates
<1>2. CASE UpdateProgress(j)
  BY <1>2 DEF UpdateProgress, permitVars, execVars, closeVars, TypeOK
<1>3. CASE \/ Start(j) \/ Pause(j) \/ Resume(j) \/ Complete(j) \/ Fail(j) \/ FinishCancelled(j)
  <2>1. ApiFrame /\ \E to \in JobStates : Transition(j, to)
    BY <1>3 DEF Start, Pause, Resume, Complete, Fail, FinishCancelled, JobStates
  <2>2. RecordType'
    BY <2>1, TransitionRecordType DEF ApiFrame, permitVars
  <2> QED
    BY <2>1, <2>2, TypeFromParts DEF ApiFrame, permitVars, execVars, TypeOK
<1>4. CASE \E preserve \in BOOLEAN : Cancel(j, preserve)
  <2>1. PICK preserve \in BOOLEAN : Cancel(j, preserve)
    BY <1>4
  <2>2. RecordType'
    BY <2>1, TransitionRecordType DEF Cancel, permitVars
  <2>3. signal' \in [Jobs -> SignalPC]
    BY <2>1 DEF Cancel, TypeOK, SignalPC
  <2> QED
    BY <2>1, <2>2, <2>3, TypeFromParts DEF Cancel, permitVars, execVars, TypeOK
<1>5. CASE \E n \in Nonces : IssuePermit(j, n)
  <2>1. PICK n \in Nonces : IssuePermit(j, n)
    BY <1>5
  <2>2. [nonce |-> n, run |-> j, rev |-> revision[j]] \in Permit
    BY DEF Permit, TypeOK
  <2> QED
    BY <2>1, <2>2 DEF IssuePermit, execVars, closeVars, TypeOK
<1> QED
  BY <1>1, <1>2, <1>3, <1>4, <1>5 DEF Api

LEMMA CommitType ==
  ASSUME TypeOK, NEW p \in issued,
         CommitIgnored(p) \/ \E raises \in BOOLEAN : CommitAccepted(p, raises)
  PROVE  TypeOK'
<1>1. CASE CommitIgnored(p)
  BY <1>1 DEF CommitIgnored, permitVars, execVars, closeVars, TypeOK
<1>2. CASE \E raises \in BOOLEAN : CommitAccepted(p, raises)
  <2>1. PICK raises \in BOOLEAN : CommitAccepted(p, raises)
    BY <1>2
  <2>2. p.run \in Jobs /\ p.nonce \in Nonces
    BY DEF TypeOK, Permit
  <2>3. /\ state' \in [Jobs -> JobStates \cup {"absent"}]
        /\ revision' \in [Jobs -> Nat]
        /\ registered' \subseteq issued
        /\ finished' \in [Jobs -> Nat]
    BY <2>1, <2>2, MoveType DEF CommitAccepted, JobStates
  <2>4. runs' \in [Nonces -> Nat]
    BY <2>1, <2>2 DEF CommitAccepted, TypeOK
  <2> QED
    BY <2>1, <2>3, <2>4 DEF CommitAccepted, execVars, closeVars, TypeOK
<1> QED
  BY <1>1, <1>2

LEMMA ScheduleType ==
  ASSUME TypeOK, NEW j \in Jobs, ScheduleEnter(j) \/ ScheduleStep(j)
  PROVE  TypeOK'
<1>1. CASE ScheduleEnter(j)
  BY <1>1 DEF ScheduleEnter, permitVars, closeVars, TypeOK, SchedPC
<1>2. CASE ScheduleStep(j)
  <2>1. SchedFrame
    BY <1>2 DEF ScheduleStep, ScheduleStart, ScheduleLaunch, ScheduleRefused, ScheduleFail,
                ScheduleLeave
  <2>2. RecordUnchanged \/ \E to \in JobStates : TransitionOrIgnore(j, to)
    BY <1>2 DEF ScheduleStep, ScheduleStart, ScheduleLaunch, ScheduleRefused, ScheduleFail,
                ScheduleLeave, RecordUnchanged, JobStates
  <2>3. RecordType'
    BY <2>1, <2>2, TransitionRecordType DEF SchedFrame, permitVars
  <2>4. /\ sched' \in [Jobs -> SchedPC]
        /\ worker' \in [Jobs -> WorkerPC]
        /\ dispatching' \in [Jobs -> BOOLEAN]
    BY <1>2 DEF ScheduleStep, ScheduleStart, ScheduleLaunch, ScheduleRefused, ScheduleFail,
                ScheduleLeave, TypeOK, SchedPC, WorkerPC, Live
  <2> QED
    BY <2>1, <2>3, <2>4 DEF SchedFrame, permitVars, closeVars, RecordType, TypeOK
<1> QED
  BY <1>1, <1>2

WorkerStep(j) ==
  \/ PoolBegin(j) \/ PreparedBegin(j) \/ FinishStep(j)
  \/ \E outcome \in Outcomes : WorkloadEnds(j, outcome)

LEMMA WorkerType ==
  ASSUME TypeOK, NEW j \in Jobs, WorkerStep(j)
  PROVE  TypeOK'
<1>1. WorkerFrame
  BY DEF WorkerStep, PoolBegin, PreparedBegin, FinishStep, WorkloadEnds, FinishCleanup,
         FinishSelfCancel, FinishConfirm, FinishFail, FinishComplete
<1>2. \E pc \in WorkerPC : GoTo(j, pc)
  <2>1. CASE \E outcome \in Outcomes : WorkloadEnds(j, outcome)
    BY <2>1 DEF WorkloadEnds, WorkerPC, Live, Finishing
  <2>2. CASE PoolBegin(j) \/ PreparedBegin(j) \/ FinishStep(j)
    BY <2>2 DEF PoolBegin, PreparedBegin, FinishStep, FinishCleanup, FinishSelfCancel,
       FinishConfirm, FinishFail, FinishComplete, WorkerPC, Live, Finishing
  <2> QED
    BY <2>1, <2>2 DEF WorkerStep
<1>3. worker' \in [Jobs -> WorkerPC]
  BY <1>2 DEF GoTo, TypeOK
<1>4. RecordType'
  <2>1. CASE FinishCleanup(j)
    <3>1. CASE Move(j, "failed")
      BY <2>1, <3>1, MoveType DEF FinishCleanup, WorkerFrame, permitVars, RecordType, TypeOK, JobStates
    <3>2. CASE UNCHANGED <<state, revision, registered, finished>>
      BY <2>1, <3>2 DEF FinishCleanup, WorkerFrame, permitVars, RecordType, TypeOK
    <3> QED
      BY <2>1, <3>1, <3>2 DEF FinishCleanup
  <2>2. CASE FinishSelfCancel(j)
    BY <1>1, <2>2, TransitionRecordType DEF FinishSelfCancel, WorkerFrame, permitVars
  <2>3. CASE FinishConfirm(j) \/ FinishFail(j) \/ FinishComplete(j)
    <3>1. \E to \in JobStates : TransitionOrIgnore(j, to)
      BY <2>3 DEF FinishConfirm, FinishFail, FinishComplete, JobStates
    <3> QED
      BY <1>1, <3>1, TransitionRecordType DEF WorkerFrame, permitVars
  <2>4. CASE RecordUnchanged
    BY <1>1, <2>4, TransitionRecordType DEF WorkerFrame, permitVars
  <2> QED
    BY <2>1, <2>2, <2>3, <2>4 DEF WorkerStep, PoolBegin, PreparedBegin, FinishStep, WorkloadEnds
<1> QED
  BY <1>1, <1>3, <1>4, TypeFromParts DEF WorkerFrame, permitVars, TypeOK

LEMMA SignalType ==
  ASSUME TypeOK, NEW j \in Jobs, SignalStep(j)
  PROVE  TypeOK'
<1>1. SignalFrame
  BY DEF SignalStep, SignalHint, SignalJoin, SignalObserve, SignalConfirm
<1>2. signal' \in [Jobs -> SignalPC] /\ worker' \in [Jobs -> WorkerPC]
  BY DEF SignalStep, SignalHint, SignalJoin, SignalObserve, SignalConfirm, GoTo, TypeOK,
         SignalPC, WorkerPC
<1>3. RecordUnchanged \/ \E to \in JobStates : TransitionOrIgnore(j, to)
  BY DEF SignalStep, SignalHint, SignalJoin, SignalObserve, SignalConfirm, JobStates
<1>4. RecordType'
  BY <1>1, <1>3, TransitionRecordType DEF SignalFrame, permitVars
<1> QED
  BY <1>1, <1>2, <1>4, TypeFromParts DEF SignalFrame, permitVars

CloseStep(j) == CloseCancel(j) \/ WaitStep(j) \/ WaitTimeout(j)

LEMMA CloseType ==
  ASSUME TypeOK, Close \/ \E j \in Jobs : CloseStep(j)
  PROVE  TypeOK'
<1>1. CASE Close
  <2>1. RecordUnchanged /\ CloseFrame /\ UNCHANGED signal
    BY <1>1 DEF Close, PrepareClose, DrainReady, DrainAbort, FinishShutdown, BeginShutdown
  <2>2. closePolicy' \in Policies
    <3>1. CASE closePolicy' = closePolicy
      BY <3>1 DEF TypeOK
    <3>2. CASE closePolicy' = "checkpoint-and-cancel"
      BY <3>2 DEF Policies
    <3>3. CASE \E policy \in ShutdownPolicies : closePolicy' = policy
      BY <3>3, BoundAssumption DEF Policies
    <3> QED
      BY <1>1, <3>1, <3>2, <3>3 DEF Close, PrepareClose, DrainReady, DrainAbort, FinishShutdown,
         BeginShutdown
  <2>3. closer' \in CloserPC /\ backendClosed' \in BOOLEAN
    BY <1>1 DEF Close, PrepareClose, DrainReady, DrainAbort, FinishShutdown, BeginShutdown,
                CloserPC, TypeOK
  <2>4. /\ targets' \subseteq Jobs /\ toCancel' \subseteq targets'
        /\ waiting' \in [Jobs -> WaitPC]
    BY <1>1 DEF Close, PrepareClose, DrainReady, DrainAbort, FinishShutdown, BeginShutdown,
                Known, WaitPC, TypeOK
  <2> QED
    BY <2>1, <2>2, <2>3, <2>4 DEF RecordUnchanged, CloseFrame, permitVars, execVars, TypeOK
<1>2. CASE \E j \in Jobs : CloseStep(j)
  <2>1. PICK j \in Jobs : CloseStep(j)
    BY <1>2
  <2>2. CloseFrame /\ UNCHANGED <<closer, closePolicy, targets, backendClosed>>
    BY <2>1 DEF CloseStep, CloseCancel, WaitStep, WaitJoin, WaitObserve, WaitConfirm, WaitSettle,
                WaitTimeout, WaitGoTo
  <2>3. /\ toCancel' \subseteq targets
        /\ waiting' \in [Jobs -> WaitPC]
        /\ signal' \in [Jobs -> SignalPC]
    BY <2>1 DEF CloseStep, CloseCancel, WaitStep, WaitJoin, WaitObserve, WaitConfirm, WaitSettle,
                WaitTimeout, WaitGoTo, TypeOK, WaitPC, SignalPC
  <2>4. \/ RecordUnchanged
        \/ \E to \in JobStates : TransitionOrIgnore(j, to)
        \/ \E preserve \in BOOLEAN : CancelTransition(j, preserve)
    BY <2>1 DEF CloseStep, CloseCancel, WaitStep, WaitJoin, WaitObserve, WaitConfirm, WaitSettle,
                WaitTimeout, JobStates
  <2>5. RecordType'
    BY <2>2, <2>4, TransitionRecordType DEF CloseFrame, permitVars
  <2> QED
    BY <2>2, <2>3, <2>5 DEF CloseFrame, permitVars, execVars, RecordType, TypeOK
<1> QED
  BY <1>1, <1>2

\* Every variable keeps its type: TypeOK is inductive on its own.
LEMMA TypeStep == TypeOK /\ [Next]_vars => TypeOK'
<1> SUFFICES ASSUME TypeOK, [Next]_vars PROVE TypeOK'
  OBVIOUS
<1>1. CASE UNCHANGED vars
  BY <1>1 DEF vars, TypeOK
<1>2. CASE Next
  BY <1>2, ApiType, CommitType, ScheduleType, WorkerType, SignalType, CloseType
     DEF Next, WorkerStep, CloseStep
<1> QED
  BY <1>1, <1>2

LEMMA TypeInit == Init => TypeOK
<1> SUFFICES ASSUME Init PROVE TypeOK
  OBVIOUS
<1>1. /\ state \in [Jobs -> JobStates \cup {"absent"}] /\ sched \in [Jobs -> SchedPC]
      /\ worker \in [Jobs -> WorkerPC] /\ signal \in [Jobs -> SignalPC]
      /\ waiting \in [Jobs -> WaitPC]
  BY DEF Init, SchedPC, WorkerPC, SignalPC, WaitPC
<1>2. closer \in CloserPC /\ closePolicy \in Policies
  BY DEF Init, CloserPC, Policies
<1> QED
  BY <1>1, <1>2 DEF Init, TypeOK

\* The runtime's variables always have their types, for any jobs, backends and bounds.
THEOREM TypeCorrect == Spec => []TypeOK
BY TypeInit, TypeStep, PTL DEF Spec

-----------------------------------------------------------------------------
(* How a step changes the records. *)

Settling == {"cancelling"} \cup Terminal

\* Whoever is about to confirm a cancellation saw a job that had left its active states.
ConfirmInv ==
  \A j \in Jobs :
    signal[j] = "confirm" \/ worker[j] = "confirm" \/ waiting[j] = "confirm"
      => state[j] \in Settling

NoCommit == UNCHANGED <<issued, runs>>

PlainTransition(j, to) ==
  /\ Transition(j, to) /\ NoCommit
  /\ to \in {"running", "paused", "completed", "failed", "cancelled"}
  /\ to = "cancelled" => state[j] = "cancelling"

CleanupFailure(j) ==
  /\ Move(j, "failed") /\ NoCommit /\ UNCHANGED token
  /\ Allowed(j, "failed") \/ state[j] = "cancelling"

RecordStep ==
  \/ UNCHANGED records
  \/ \E j \in Jobs :
       \/ \E to \in JobStates : PlainTransition(j, to)
       \/ \E preserve \in BOOLEAN : CancelTransition(j, preserve) /\ NoCommit
       \/ Submit(j)
       \/ UpdateProgress(j)
       \/ \E n \in Nonces : IssuePermit(j, n)
       \/ CleanupFailure(j)
  \/ \E p \in issued : CommitIgnored(p) \/ \E raises \in BOOLEAN : CommitAccepted(p, raises)

LEMMA ConfirmStep ==
  ASSUME TypeOK, ConfirmInv, NEW j \in Jobs, NoCommit,
         TransitionOrIgnore(j, "cancelled"), state[j] \in Settling
  PROVE  RecordStep
<1>1. CASE Transition(j, "cancelled")
  <2>1. state[j] = "cancelling"
    BY <1>1, TransitionsType DEF Transition, Allowed, TypeOK, Settling
  <2> QED
    BY <1>1, <2>1 DEF PlainTransition, RecordStep, JobStates
<1>2. CASE UNCHANGED <<state, revision, registered, finished, token, cleanupError,
                       checkpointRequested>>
  BY <1>2 DEF RecordStep, records, NoCommit
<1> QED
  BY <1>1, <1>2 DEF TransitionOrIgnore

LEMMA OtherStep ==
  ASSUME NEW j \in Jobs, NEW to \in {"running", "completed", "failed"}, NoCommit,
         TransitionOrIgnore(j, to)
  PROVE  RecordStep
<1>1. CASE Transition(j, to)
  BY <1>1 DEF PlainTransition, RecordStep, JobStates
<1>2. CASE UNCHANGED <<state, revision, registered, finished, token, cleanupError,
                       checkpointRequested>>
  BY <1>2 DEF RecordStep, records, NoCommit
<1> QED
  BY <1>1, <1>2 DEF TransitionOrIgnore

LEMMA QuietStep ==
  ASSUME RecordUnchanged, NoCommit
  PROVE  RecordStep
BY DEF RecordUnchanged, NoCommit, RecordStep, records

LEMMA RecordSteps ==
  ASSUME TypeOK, ConfirmInv, [Next]_vars
  PROVE  RecordStep
<1>1. ASSUME NEW j \in Jobs, Api(j) PROVE RecordStep
  <2>1. CASE Start(j) \/ Pause(j) \/ Resume(j) \/ Complete(j) \/ Fail(j) \/ FinishCancelled(j)
    <3>1. NoCommit
      BY <2>1 DEF Start, Pause, Resume, Complete, Fail, FinishCancelled, ApiFrame, permitVars,
                  NoCommit
    <3>2. \E to \in JobStates :
            /\ Transition(j, to)
            /\ to \in {"running", "paused", "completed", "failed", "cancelled"}
            /\ to = "cancelled" => state[j] = "cancelling"
      BY <2>1 DEF Start, Pause, Resume, Complete, Fail, FinishCancelled, JobStates
    <3> QED
      BY <3>1, <3>2 DEF PlainTransition, RecordStep
  <2>2. CASE \E preserve \in BOOLEAN : Cancel(j, preserve)
    BY <2>2 DEF Cancel, permitVars, NoCommit, RecordStep
  <2>3. CASE Submit(j) \/ UpdateProgress(j) \/ \E n \in Nonces : IssuePermit(j, n)
    BY <2>3 DEF RecordStep
  <2> QED
    BY <1>1, <2>1, <2>2, <2>3 DEF Api
<1>2. ASSUME NEW j \in Jobs, ScheduleEnter(j) \/ ScheduleStep(j) PROVE RecordStep
  <2>1. NoCommit
    BY <1>2 DEF ScheduleEnter, ScheduleStep, ScheduleStart, ScheduleLaunch, ScheduleRefused,
                ScheduleFail, ScheduleLeave, SchedFrame, permitVars, NoCommit
  <2>2. \/ RecordUnchanged
        \/ TransitionOrIgnore(j, "running") \/ TransitionOrIgnore(j, "failed")
    BY <1>2 DEF ScheduleEnter, ScheduleStep, ScheduleStart, ScheduleLaunch, ScheduleRefused,
                ScheduleFail, ScheduleLeave, RecordUnchanged
  <2> QED
    BY <2>1, <2>2, OtherStep, QuietStep
<1>3. ASSUME NEW j \in Jobs, WorkerStep(j) PROVE RecordStep
  <2>1. NoCommit
    BY <1>3 DEF WorkerStep, PoolBegin, PreparedBegin, FinishStep, WorkloadEnds, FinishCleanup,
                FinishSelfCancel, FinishConfirm, FinishFail, FinishComplete, WorkerFrame,
                permitVars, NoCommit
  <2>2. CASE FinishConfirm(j)
    BY <2>1, <2>2, ConfirmStep DEF FinishConfirm, ConfirmInv
  <2>3. CASE FinishFail(j) \/ FinishComplete(j)
    BY <2>1, <2>3, OtherStep DEF FinishFail, FinishComplete
  <2>4. CASE FinishSelfCancel(j)
    <3>1. CASE CancelTransition(j, FALSE)
      BY <2>1, <3>1 DEF RecordStep
    <3> QED
      BY <2>1, <2>4, <3>1, QuietStep DEF FinishSelfCancel
  <2>5. CASE FinishCleanup(j)
    <3>1. CASE Allowed(j, "failed") \/ state[j] = "cancelling"
      BY <2>1, <2>5, <3>1 DEF FinishCleanup, CleanupFailure, RecordStep
    <3>2. CASE ~(Allowed(j, "failed") \/ state[j] = "cancelling")
      BY <2>1, <2>5, <3>2 DEF FinishCleanup, RecordStep, records, NoCommit
    <3> QED
      BY <3>1, <3>2
  <2>6. CASE RecordUnchanged
    BY <2>1, <2>6, QuietStep
  <2> QED
    BY <1>3, <2>2, <2>3, <2>4, <2>5, <2>6 DEF WorkerStep, PoolBegin, PreparedBegin, FinishStep,
       WorkloadEnds
<1>4. ASSUME NEW j \in Jobs, SignalStep(j) PROVE RecordStep
  <2>1. NoCommit
    BY <1>4 DEF SignalStep, SignalHint, SignalJoin, SignalObserve, SignalConfirm, SignalFrame,
                permitVars, NoCommit
  <2>2. CASE SignalConfirm(j)
    BY <2>1, <2>2, ConfirmStep DEF SignalConfirm, ConfirmInv
  <2>3. CASE RecordUnchanged
    BY <2>1, <2>3, QuietStep
  <2> QED
    BY <1>4, <2>2, <2>3 DEF SignalStep, SignalHint, SignalJoin, SignalObserve
<1>5. ASSUME NEW j \in Jobs, CloseStep(j) PROVE RecordStep
  <2>1. NoCommit
    BY <1>5 DEF CloseStep, CloseCancel, WaitStep, WaitJoin, WaitObserve, WaitConfirm, WaitSettle,
                WaitTimeout, WaitGoTo, CloseFrame, permitVars, NoCommit
  <2>2. CASE WaitConfirm(j)
    BY <2>1, <2>2, ConfirmStep DEF WaitConfirm, WaitEnabled, ConfirmInv
  <2>3. CASE RecordUnchanged
    BY <2>1, <2>3, QuietStep
  <2>4. CASE \E preserve \in BOOLEAN : CancelTransition(j, preserve)
    BY <2>1, <2>4 DEF RecordStep
  <2> QED
    BY <1>5, <2>2, <2>3, <2>4 DEF CloseStep, CloseCancel, WaitStep, WaitJoin, WaitObserve,
       WaitSettle, WaitTimeout
<1>6. ASSUME Close PROVE RecordStep
  BY <1>6, QuietStep DEF Close, PrepareClose, DrainReady, DrainAbort, FinishShutdown,
     BeginShutdown, CloseFrame, permitVars, NoCommit
<1>7. ASSUME UNCHANGED vars PROVE RecordStep
  BY <1>7 DEF vars, RecordStep, records
<1>8. ASSUME \E p \in issued : CommitIgnored(p) \/ \E raises \in BOOLEAN : CommitAccepted(p, raises)
      PROVE  RecordStep
  BY <1>8 DEF RecordStep
<1> QED
  BY <1>1, <1>2, <1>3, <1>4, <1>5, <1>6, <1>7, <1>8 DEF Next, WorkerStep, CloseStep

-----------------------------------------------------------------------------
(* The inductive invariant. *)

\* A permit is never newer than its job, and one that has been used is behind it.
PermitInv ==
  /\ \A p \in issued :
       /\ p.rev <= revision[p.run]
       /\ runs[p.nonce] > 0 => p \notin registered /\ p.rev < revision[p.run]
  /\ \A p, q \in issued : p.nonce = q.nonce => p = q
  /\ \A n \in Nonces : runs[n] > 0 => \E p \in issued : p.nonce = n

IInv ==
  /\ TypeOK /\ ConfirmInv /\ CancelBarrier /\ PermitsLive /\ PermitInv
  /\ OneEffectPerRevision /\ FinishedOnce

\* What every kind of record change does to the jobs' states.
LEMMA StateStep ==
  ASSUME TypeOK, CancelBarrier, RecordStep, NEW j \in Jobs
  PROVE  /\ state[j] \in Terminal => state'[j] = state[j] /\ revision'[j] = revision[j]
                                    /\ finished'[j] = finished[j]
         /\ state[j] \notin Terminal => finished'[j] = IF state'[j] \in Terminal
                                         THEN finished[j] + 1 ELSE finished[j]
         /\ state[j] = "cancelling" => state'[j] \in Settling
         /\ revision'[j] >= revision[j]
         /\ state'[j] \in {"absent", "queued", "running", "paused", "completed"}
              => ~token'[j]
         /\ state'[j] \in {"cancelling", "cancelled"} => token'[j]
<1> DEFINE G == /\ state[j] \in Terminal => state'[j] = state[j] /\ revision'[j] = revision[j]
                                    /\ finished'[j] = finished[j]
                /\ state[j] \notin Terminal => finished'[j] = IF state'[j] \in Terminal
                                         THEN finished[j] + 1 ELSE finished[j]
                /\ state[j] = "cancelling" => state'[j] \in Settling
                /\ revision'[j] >= revision[j]
                /\ state'[j] \in {"absent", "queued", "running", "paused", "completed"}
                     => ~token'[j]
                /\ state'[j] \in {"cancelling", "cancelled"} => token'[j]
<1>0. /\ state[j] \in {"absent", "queued", "running", "paused", "completed"} => ~token[j]
      /\ state[j] \in {"cancelling", "cancelled"} => token[j]
      /\ state[j] \in JobStates \cup {"absent"} /\ revision[j] \in Nat
  BY DEF CancelBarrier, TypeOK
<1>1. CASE /\ UNCHANGED state /\ UNCHANGED token /\ UNCHANGED finished
           /\ revision' = revision \/ (state[j] \notin Terminal /\ revision'[j] = revision[j] + 1)
  BY <1>0, <1>1 DEF Settling
<1>2. CASE \E k \in Jobs : UpdateProgress(k)
  <2>1. PICK k \in Jobs : UpdateProgress(k)
    BY <1>2
  <2>2. revision'[j] = (IF j = k THEN revision[j] + 1 ELSE revision[j])
    BY <2>1 DEF UpdateProgress, TypeOK
  <2> QED
    BY <1>0, <2>1, <2>2 DEF UpdateProgress, Settling
<1>3. CASE \E k \in Jobs : \E to \in JobStates : PlainTransition(k, to)
  <2>1. PICK k \in Jobs, to \in JobStates : PlainTransition(k, to)
    BY <1>3
  <2>2. CASE j = k
    <3>1. /\ state'[j] = to /\ revision'[j] = revision[j] + 1 /\ token'[j] = token[j]
          /\ finished'[j] = IF to \in Terminal THEN finished[j] + 1 ELSE finished[j]
          /\ to \in Transitions[state[j]]
          /\ to \in {"running", "paused", "completed", "failed", "cancelled"}
          /\ to = "cancelled" => state[j] = "cancelling"
      BY <2>1, <2>2 DEF PlainTransition, Transition, Move, Allowed, TypeOK
    <3>2. /\ state[j] \notin Terminal
          /\ to \in {"running", "paused", "completed"} => state[j] \in {"queued", "running", "paused"}
          /\ state[j] = "cancelling" => to = "cancelled"
      <4>1. state[j] \in JobStates \cup {"absent"}
        BY <1>0
      <4> QED
        BY ONLY <3>1, <4>1, TransitionsType DEF JobStates, Terminal
    <3> QED
      BY <1>0, <3>1, <3>2 DEF Settling, Terminal
  <2>3. CASE j # k
    BY <1>0, <2>1, <2>3 DEF PlainTransition, Transition, Move, TypeOK, Settling
  <2> QED
    BY <2>2, <2>3
<1>4. CASE \E k \in Jobs : \E preserve \in BOOLEAN : CancelTransition(k, preserve)
  <2>1. PICK k \in Jobs, preserve \in BOOLEAN : CancelTransition(k, preserve)
    BY <1>4
  <2>2. CASE j = k
    <3>1. /\ state'[j] = CancelTarget(j) /\ revision'[j] = revision[j] + 1 /\ token'[j]
          /\ finished'[j] = IF CancelTarget(j) \in Terminal THEN finished[j] + 1 ELSE finished[j]
          /\ CancelTarget(j) \in Transitions[state[j]]
      BY <2>1, <2>2 DEF CancelTransition, Cancellable, Move, Allowed, TypeOK
    <3>2. CancelTarget(j) \in {"cancelled", "cancelling"}
      BY DEF CancelTarget
    <3> QED
      BY <1>0, <3>1, <3>2, TransitionsType DEF Settling, Terminal
  <2>3. CASE j # k
    BY <1>0, <2>1, <2>3 DEF CancelTransition, Move, TypeOK, Settling
  <2> QED
    BY <2>2, <2>3
<1>5. CASE \E k \in Jobs : Submit(k)
  BY <1>0, <1>5 DEF Submit, TypeOK, Settling, Terminal
<1>6. CASE \E k \in Jobs : CleanupFailure(k)
  <2>1. PICK k \in Jobs : CleanupFailure(k)
    BY <1>6
  <2>2. CASE j = k
    <3>1. /\ state'[j] = "failed" /\ revision'[j] = revision[j] + 1
          /\ finished'[j] = finished[j] + 1
          /\ "failed" \in Transitions[state[j]] \/ state[j] = "cancelling"
      BY <2>1, <2>2 DEF CleanupFailure, Move, Allowed, TypeOK, Terminal
    <3> QED
      BY <1>0, <3>1, TransitionsType DEF Settling, Terminal
  <2>3. CASE j # k
    BY <1>0, <2>1, <2>3 DEF CleanupFailure, Move, TypeOK, Settling
  <2> QED
    BY <2>2, <2>3
<1>7. CASE \E p \in issued, raises \in BOOLEAN : CommitAccepted(p, raises)
  <2>1. PICK p \in issued, raises \in BOOLEAN : CommitAccepted(p, raises)
    BY <1>7
  <2>2. p.run \in Jobs
    BY DEF TypeOK, Permit
  <2>3. CASE j = p.run
    <3>1. /\ state'[j] = IF raises THEN "failed" ELSE "running"
          /\ revision'[j] = revision[j] + 1 /\ token'[j] = token[j] /\ state[j] = "running"
          /\ finished'[j] = IF raises THEN finished[j] + 1 ELSE finished[j]
      BY <2>1, <2>3 DEF CommitAccepted, CommitAllowed, Move, TypeOK, Terminal
    <3> QED
      BY <1>0, <3>1 DEF Settling, Terminal
  <2>4. CASE j # p.run
    BY <1>0, <2>1, <2>2, <2>4 DEF CommitAccepted, Move, TypeOK, Settling
  <2> QED
    BY <2>3, <2>4
<1>8. CASE \/ UNCHANGED records
           \/ \E k \in Jobs : \E n \in Nonces : IssuePermit(k, n)
           \/ \E p \in issued : CommitIgnored(p)
  BY <1>1, <1>8 DEF records, IssuePermit, CommitIgnored
<1> QED
  BY <1>2, <1>3, <1>4, <1>5, <1>6, <1>7, <1>8 DEF RecordStep

LEMMA ConfirmKept ==
  ASSUME IInv, RecordStep, [Next]_vars
  PROVE  ConfirmInv'
<1> SUFFICES ASSUME NEW j \in Jobs,
                    signal'[j] = "confirm" \/ worker'[j] = "confirm" \/ waiting'[j] = "confirm"
             PROVE  state'[j] \in Settling
  BY DEF ConfirmInv
<1>0. TypeOK /\ ConfirmInv /\ CancelBarrier
  BY DEF IInv
<1>1. state[j] \in Settling => state'[j] \in Settling
  BY <1>0, StateStep DEF Settling
<1>2. CASE signal[j] = "confirm" \/ worker[j] = "confirm" \/ waiting[j] = "confirm"
  BY <1>0, <1>1, <1>2 DEF ConfirmInv
<1>3. CASE /\ signal[j] # "confirm" /\ worker[j] # "confirm" /\ waiting[j] # "confirm"
  \* Somebody began to confirm in this step.
  <2> USE <1>0 DEF TypeOK
  <2>1. ASSUME NEW k \in Jobs, Api(k) \/ ScheduleEnter(k) \/ ScheduleStep(k) PROVE FALSE
    BY <1>3, <2>1 DEF Api, Submit, UpdateProgress, Start, Pause, Resume, Complete, Fail,
       FinishCancelled, Cancel, IssuePermit, ApiFrame, execVars, closeVars, ScheduleEnter,
       ScheduleStep, ScheduleStart, ScheduleLaunch, ScheduleRefused, ScheduleFail, ScheduleLeave,
       SchedFrame
  <2>2. ASSUME NEW k \in Jobs, WorkerStep(k) PROVE state'[j] \in Settling
    <3>1. signal' = signal /\ waiting' = waiting
      BY <2>2 DEF WorkerStep, PoolBegin, PreparedBegin, FinishStep, WorkloadEnds, FinishCleanup,
         FinishSelfCancel, FinishConfirm, FinishFail, FinishComplete, WorkerFrame, closeVars
    <3>2. worker'[j] = "confirm"
      BY <1>3, <3>1
    <3>3. CASE PreparedBegin(k)
      BY <1>1, <1>3, <3>2, <3>3 DEF PreparedBegin, GoTo, Settling
    <3>4. CASE \E outcome \in Outcomes : WorkloadEnds(k, outcome)
      <4>1. j = k
        BY <1>3, <3>2, <3>4 DEF WorkloadEnds, GoTo
      <4>2. worker'[k] = "confirm" => state[k] = "cancelling"
        BY <3>4 DEF WorkloadEnds, GoTo
      <4> QED
        BY <1>1, <3>2, <4>1, <4>2 DEF Settling
    <3>5. CASE FinishSelfCancel(k)
      <4>1. j = k /\ CancelTransition(k, FALSE)
        BY <1>3, <3>2, <3>5 DEF FinishSelfCancel, GoTo
      <4>2. state'[j] = CancelTarget(j)
        BY <4>1 DEF CancelTransition, Move
      <4> QED
        BY <4>2 DEF CancelTarget, Settling, Terminal
    <3>6. CASE PoolBegin(k) \/ FinishCleanup(k) \/ FinishConfirm(k) \/ FinishFail(k) \/ FinishComplete(k)
      BY <1>3, <3>2, <3>6 DEF PoolBegin, FinishCleanup, FinishConfirm, FinishFail, FinishComplete,
         GoTo
    <3> QED
      BY <2>2, <3>3, <3>4, <3>5, <3>6 DEF WorkerStep, FinishStep
  <2>3. ASSUME NEW k \in Jobs, SignalStep(k) PROVE state'[j] \in Settling
    <3>1. signal'[j] = "confirm"
      BY <1>3, <2>3 DEF SignalStep, SignalHint, SignalJoin, SignalObserve, SignalConfirm,
         SignalFrame, closeVars, GoTo
    <3>2. j = k /\ SignalObserve(k) /\ state[k] = "cancelling"
      BY <1>3, <2>3, <3>1 DEF SignalStep, SignalHint, SignalJoin, SignalObserve, SignalConfirm
    <3> QED
      BY <1>1, <3>2 DEF Settling
  <2>4. ASSUME NEW k \in Jobs, CloseStep(k) PROVE state'[j] \in Settling
    <3>1. waiting'[j] = "confirm"
      BY <1>3, <2>4 DEF CloseStep, CloseCancel, WaitStep, WaitJoin, WaitObserve, WaitConfirm,
         WaitSettle, WaitTimeout, WaitGoTo, CloseFrame, execVars
    <3>2. j = k /\ WaitObserve(k) /\ state[k] = "cancelling"
      BY <1>3, <2>4, <3>1 DEF CloseStep, CloseCancel, WaitStep, WaitJoin, WaitObserve, WaitConfirm,
         WaitSettle, WaitTimeout, WaitGoTo
    <3> QED
      BY <1>1, <3>2 DEF Settling
  <2>5. ASSUME Close PROVE FALSE
    BY <1>3, <2>5 DEF Close, PrepareClose, DrainReady, DrainAbort, FinishShutdown, BeginShutdown,
       CloseFrame, execVars
  <2>6. ASSUME NEW p \in issued, CommitIgnored(p) \/ \E raises \in BOOLEAN : CommitAccepted(p, raises)
        PROVE  FALSE
    BY <1>3, <2>6 DEF CommitIgnored, CommitAccepted, execVars, closeVars
  <2>7. ASSUME UNCHANGED vars PROVE FALSE
    BY <1>3, <2>7 DEF vars
  <2> QED
    BY <2>1, <2>2, <2>3, <2>4, <2>5, <2>6, <2>7 DEF Next, WorkerStep, CloseStep
<1> QED
  BY <1>2, <1>3

PermitPart == PermitsLive /\ PermitInv /\ OneEffectPerRevision

LEMMA PermitsKept ==
  ASSUME IInv, TypeOK', RecordStep
  PROVE  PermitPart'
<1>0. TypeOK /\ PermitsLive /\ PermitInv /\ OneEffectPerRevision /\ CancelBarrier
  BY DEF IInv
<1>1. CASE /\ NoCommit /\ registered' \subseteq registered
           /\ \A p \in registered' : state'[p.run] = "running"
           /\ \A j \in Jobs : revision'[j] >= revision[j]
  <2>1. \A p \in issued : p.run \in Jobs /\ p.nonce \in Nonces /\ p.rev \in Nat
    BY <1>0 DEF TypeOK, Permit
  <2>2. \A j \in Jobs : revision[j] \in Nat /\ revision'[j] \in Nat
    BY <1>0 DEF TypeOK
  <2>3. PermitsLive'
    BY <1>0, <1>1, <2>1, <2>2 DEF PermitsLive, TypeOK
  <2>4. PermitInv'
    BY <1>0, <1>1, <2>1, <2>2 DEF PermitInv, NoCommit
  <2>5. OneEffectPerRevision'
    BY <1>0, <1>1 DEF OneEffectPerRevision, NoCommit
  <2> QED
    BY <2>3, <2>4, <2>5 DEF PermitPart
<1>2. ASSUME NEW j \in Jobs, NEW to \in JobStates, Move(j, to), NoCommit
      PROVE  PermitPart'
  <2>1. registered' \subseteq registered
    BY <1>2 DEF Move
  <2>2. \A p \in registered' : state'[p.run] = "running"
    BY <1>0, <1>2 DEF Move, PermitsLive, TypeOK, Permit
  <2>3. \A k \in Jobs : revision'[k] >= revision[k]
    BY <1>0, <1>2 DEF Move, TypeOK
  <2> QED
    BY <1>1, <1>2, <2>1, <2>2, <2>3
<1>3. CASE UNCHANGED records
  BY <1>0, <1>3, <1>1 DEF records, NoCommit, PermitsLive, TypeOK
<1>4. ASSUME NEW j \in Jobs, NEW to \in JobStates, PlainTransition(j, to) PROVE PermitPart'
  BY <1>2, <1>4 DEF PlainTransition, Transition
<1>5. ASSUME NEW j \in Jobs, NEW preserve \in BOOLEAN, CancelTransition(j, preserve), NoCommit
      PROVE  PermitPart'
  BY <1>2, <1>5 DEF CancelTransition, CancelTarget, JobStates
<1>6. ASSUME NEW j \in Jobs, CleanupFailure(j) PROVE PermitPart'
  BY <1>2, <1>6 DEF CleanupFailure, JobStates
<1>7. ASSUME NEW j \in Jobs, Submit(j) PROVE PermitPart'
  <2>1. \A p \in registered : p.run # j
    BY <1>0, <1>7 DEF Submit, PermitsLive
  <2> QED
    BY <1>0, <1>1, <1>7, <2>1 DEF Submit, permitVars, NoCommit, PermitsLive, TypeOK, Permit
<1>8. ASSUME NEW j \in Jobs, UpdateProgress(j) PROVE PermitPart'
  BY <1>0, <1>1, <1>8 DEF UpdateProgress, permitVars, NoCommit, PermitsLive, TypeOK
<1>9. ASSUME NEW p \in issued, CommitIgnored(p) PROVE PermitPart'
  BY <1>0, <1>1, <1>9 DEF CommitIgnored, permitVars, NoCommit, PermitsLive, TypeOK
<1>10. ASSUME NEW j \in Jobs, NEW n \in Nonces, IssuePermit(j, n) PROVE PermitPart'
  <2> DEFINE new == [nonce |-> n, run |-> j, rev |-> revision[j]]
  <2>1. /\ issued' = issued \cup {new} /\ registered' = registered \cup {new}
        /\ UNCHANGED <<state, revision, runs>>
        /\ state[j] = "running" /\ \A p \in issued : p.nonce # n
    BY <1>10 DEF IssuePermit
  <2>2. new.nonce = n /\ new.run = j /\ new.rev = revision[j] /\ revision[j] \in Nat
    BY <1>0 DEF TypeOK
  <2>3. runs[n] = 0
    BY <1>0, <2>1 DEF PermitInv, TypeOK
  <2> HIDE DEF new
  <2>4. PermitsLive'
    BY <1>0, <2>1, <2>2 DEF PermitsLive
  <2>5. PermitInv'
    <3>1. \A p \in issued' : /\ p.rev <= revision'[p.run]
                             /\ runs'[p.nonce] > 0 => p \notin registered' /\ p.rev < revision'[p.run]
      BY <1>0, <2>1, <2>2, <2>3 DEF PermitInv
    <3>2. \A p, q \in issued' : p.nonce = q.nonce => p = q
      BY <1>0, <2>1, <2>2 DEF PermitInv
    <3>3. \A m \in Nonces : runs'[m] > 0 => \E p \in issued' : p.nonce = m
      BY <1>0, <2>1 DEF PermitInv
    <3> QED
      BY <3>1, <3>2, <3>3 DEF PermitInv
  <2>6. OneEffectPerRevision'
    BY <1>0, <2>1, <2>2, <2>3 DEF OneEffectPerRevision
  <2> QED
    BY <2>4, <2>5, <2>6 DEF PermitPart
<1>11. ASSUME NEW p \in issued, NEW raises \in BOOLEAN, CommitAccepted(p, raises)
       PROVE  PermitPart'
  <2>0. /\ \A q \in issued : q.run \in Jobs /\ q.nonce \in Nonces /\ q.rev \in Nat
        /\ \A j \in Jobs : revision[j] \in Nat
        /\ \A n \in Nonces : runs[n] \in Nat
    BY <1>0 DEF TypeOK, Permit
  <2>1. /\ p \in registered /\ p.rev = revision[p.run]
        /\ issued' = issued
        /\ registered' = {q \in registered : q.run # p.run}
        /\ \A n \in Nonces : runs'[n] = IF n = p.nonce THEN runs[n] + 1 ELSE runs[n]
        /\ \A j \in Jobs : revision'[j] = IF j = p.run THEN revision[j] + 1 ELSE revision[j]
        /\ \A j \in Jobs : j # p.run => state'[j] = state[j]
    BY <1>0, <1>11, <2>0 DEF CommitAccepted, CommitAllowed, Move, TypeOK
  <2>2. runs[p.nonce] = 0
    BY <1>0, <2>0, <2>1 DEF PermitInv
  <2>3. \A q \in issued : q.nonce = p.nonce => q = p
    BY <1>0 DEF PermitInv
  <2>4. PermitsLive'
    BY <1>0, <2>0, <2>1 DEF PermitsLive, TypeOK
  <2>5. PermitInv'
    <3>1. ASSUME NEW q \in issued
          PROVE  /\ q.rev <= revision'[q.run]
                 /\ runs'[q.nonce] > 0 => q \notin registered' /\ q.rev < revision'[q.run]
      BY <1>0, <2>0, <2>1, <2>2, <2>3 DEF PermitInv
    <3>2. \A q, r \in issued : q.nonce = r.nonce => q = r
      BY <1>0 DEF PermitInv
    <3>3. \A m \in Nonces : runs'[m] > 0 => \E q \in issued : q.nonce = m
      BY <1>0, <2>0, <2>1 DEF PermitInv
    <3> QED
      BY <2>1, <3>1, <3>2, <3>3 DEF PermitInv
  <2>6. OneEffectPerRevision'
    <3>1. \A n \in Nonces : runs'[n] <= 1
      BY <1>0, <2>0, <2>1, <2>2 DEF OneEffectPerRevision
    <3>2. ASSUME NEW q \in issued, q.run = p.run, q.rev = p.rev, runs'[q.nonce] > 0
          PROVE  q = p
      BY <1>0, <2>0, <2>1, <2>3, <3>2 DEF PermitInv
    <3>3. ASSUME NEW q \in issued, NEW r \in issued, q.run = r.run, q.rev = r.rev,
                 runs'[q.nonce] > 0, runs'[r.nonce] > 0
          PROVE  q = r
      <4>1. CASE q = p \/ r = p
        BY <3>2, <3>3, <4>1
      <4>2. CASE q # p /\ r # p
        <5>1. runs[q.nonce] > 0 /\ runs[r.nonce] > 0
          BY <2>0, <2>1, <2>3, <3>3, <4>2
        <5> QED
          BY <1>0, <3>3, <5>1 DEF OneEffectPerRevision
      <4> QED
        BY <4>1, <4>2
    <3> QED
      BY <2>1, <3>1, <3>3 DEF OneEffectPerRevision
  <2> QED
    BY <2>4, <2>5, <2>6 DEF PermitPart
<1> QED
  BY <1>3, <1>4, <1>5, <1>6, <1>7, <1>8, <1>9, <1>10, <1>11 DEF RecordStep

LEMMA InvariantStep == IInv /\ [Next]_vars => IInv'
<1> SUFFICES ASSUME IInv, [Next]_vars PROVE IInv'
  OBVIOUS
<1>1. TypeOK /\ ConfirmInv /\ CancelBarrier /\ FinishedOnce
  BY DEF IInv
<1>2. TypeOK'
  BY <1>1, TypeStep
<1>3. RecordStep
  BY <1>1, RecordSteps
<1>4. ConfirmInv'
  BY <1>3, ConfirmKept
<1>5. PermitPart'
  BY <1>2, <1>3, PermitsKept
<1>6. CancelBarrier'
  BY <1>1, <1>3, StateStep DEF CancelBarrier
<1>7. FinishedOnce'
  <2> SUFFICES ASSUME NEW j \in Jobs
               PROVE  finished'[j] = IF state'[j] \in Terminal THEN 1 ELSE 0
    BY DEF FinishedOnce
  <2> QED
    BY <1>1, <1>3, StateStep DEF FinishedOnce
<1> QED
  BY <1>2, <1>4, <1>5, <1>6, <1>7 DEF IInv, PermitPart

LEMMA InvariantInit == Init => IInv
<1> SUFFICES ASSUME Init PROVE IInv
  OBVIOUS
<1>1. TypeOK
  BY TypeInit
<1>2. ConfirmInv /\ CancelBarrier /\ FinishedOnce
  BY DEF Init, ConfirmInv, CancelBarrier, FinishedOnce, Terminal
<1>3. PermitsLive /\ PermitInv /\ OneEffectPerRevision
  BY DEF Init, PermitsLive, PermitInv, OneEffectPerRevision
<1> QED
  BY <1>1, <1>2, <1>3 DEF IInv

LEMMA Invariant == Spec => []IInv
BY InvariantInit, InvariantStep, PTL DEF Spec

-----------------------------------------------------------------------------
(* The results. *)

\* A set token and a cancelled (or cancelling) state always go together, so no job ever
\* completes after a cancel request was accepted, whatever threads interleave.
THEOREM CancelBarrierCorrect == Spec => []CancelBarrier
BY Invariant, PTL DEF IInv

\* The runtime never honours a permit of a job that is not running.
THEOREM PermitsLiveCorrect == Spec => []PermitsLive
BY Invariant, PTL DEF IInv

\* For any number of permits and any order of presenting them, a mutation is executed at
\* most once and a revision of a job carries at most one.
THEOREM OneEffectCorrect == Spec => []OneEffectPerRevision
BY Invariant, PTL DEF IInv

\* Every job that ends publishes exactly one FINISHED event.
THEOREM FinishedOnceCorrect == Spec => []FinishedOnce
BY Invariant, PTL DEF IInv

\* No late thread ever changes the state or the revision of a job that has ended.
THEOREM TerminalIsFinalCorrect == Spec => TerminalIsFinal
<1> DEFINE Final == \A j \in Jobs : state[j] \in Terminal =>
                      state'[j] = state[j] /\ revision'[j] = revision[j]
<1>1. IInv /\ [Next]_vars => [Final]_vars
  <2> SUFFICES ASSUME IInv, [Next]_vars PROVE Final
    OBVIOUS
  <2>1. TypeOK /\ ConfirmInv /\ CancelBarrier
    BY DEF IInv
  <2>2. RecordStep
    BY <2>1, RecordSteps
  <2> QED
    BY <2>1, <2>2, StateStep
<1> QED
  BY <1>1, Invariant, PTL DEF Spec, TerminalIsFinal
-----------------------------------------------------------------------------
(* TaskRuntime implements TaskLifecycle: each kind of record change of     *)
(* RecordStep is one step of the lifecycle or leaves it alone.             *)

LEMMA PhaseFacts ==
  /\ PhaseOf["absent"] = "none"
  /\ \A s \in {"queued", "running", "paused"} : PhaseOf[s] = "active"
  /\ PhaseOf["cancelling"] = "cancelRequested"
  /\ \A s \in {"cancelled", "completed", "failed"} : PhaseOf[s] = s
BY DEF PhaseOf

SetState(j, to)    == state' = [state EXCEPT ![j] = to]
SetPhase(j, phase) == phaseBar' = [phaseBar EXCEPT ![j] = phase]

LEMMA PhaseMove ==
  ASSUME TypeOK, NEW j \in Jobs, NEW to, SetState(j, to)
  PROVE  SetPhase(j, PhaseOf[to])
BY DEF TypeOK, phaseBar, SetState, SetPhase

LEMMA PhaseAt == \A j \in Jobs : phaseBar[j] = PhaseOf[state[j]]
BY DEF phaseBar

LEMMA EffectsSame ==
  ASSUME NoCommit
  PROVE  effectsBar' = effectsBar
BY DEF NoCommit, effectsBar

\* A job that leaves its last active state ends the lifecycle's job with the same result.
LEMMA EndStep ==
  ASSUME TypeOK, NoCommit, NEW j \in Jobs, NEW to \in {"cancelled", "completed", "failed"},
         Move(j, to),
         \/ state[j] \in {"queued", "running", "paused"}
         \/ state[j] = "cancelling" /\ to # "completed"
  PROVE  Lifecycle!End(j)
<1>1. SetPhase(j, to) /\ phaseBar[j] = PhaseOf[state[j]]
  <2>1. SetState(j, to)
    BY DEF Move, SetState
  <2>2. PhaseOf[to] = to
    BY PhaseFacts
  <2> QED
    BY <2>1, <2>2, PhaseMove, PhaseAt
<1>2. \/ phaseBar[j] = "active"
      \/ phaseBar[j] = "cancelRequested" /\ to \in {"cancelled", "failed"}
  BY <1>1, PhaseFacts
<1> QED
  BY <1>1, <1>2, EffectsSame DEF SetPhase, Lifecycle!End, Lifecycle!Become, Lifecycle!Results

LEMMA PlainRefines ==
  ASSUME TypeOK, NEW j \in Jobs, NEW to \in JobStates, PlainTransition(j, to)
  PROVE  Lifecycle!End(j) \/ UNCHANGED <<phaseBar, effectsBar>>
<1>1. /\ Move(j, to) /\ NoCommit /\ to \in Transitions[state[j]]
      /\ to \in {"running", "paused", "completed", "failed", "cancelled"}
      /\ to = "cancelled" => state[j] = "cancelling"
      /\ state[j] \in JobStates \cup {"absent"}
  BY DEF PlainTransition, Transition, Allowed, TypeOK
<1>2. CASE to \in {"running", "paused"}
  <2>1. state[j] \in {"queued", "running", "paused"}
    BY <1>1, <1>2, TransitionsType
  <2>2. SetState(j, to) /\ PhaseOf[to] = "active" /\ PhaseOf[state[j]] = "active"
    BY <1>1, <1>2, <2>1, PhaseFacts DEF Move, SetState
  <2>3. SetPhase(j, "active") /\ phaseBar[j] = "active"
    BY <2>2, PhaseMove, PhaseAt
  <2>4. phaseBar' = phaseBar
    BY <2>3 DEF phaseBar, SetPhase
  <2> QED
    BY <1>1, <2>4, EffectsSame
<1>3. CASE to \in {"completed", "failed", "cancelled"}
  <2>1. to \in {"completed", "failed"} => state[j] \in {"running", "paused"}
    <3>1. CASE to = "completed"
      BY <1>1, <3>1, TransitionsType
    <3>2. CASE to = "failed"
      BY <1>1, <3>2, TransitionsType
    <3> QED
      BY <3>1, <3>2
  <2> QED
    BY <1>1, <1>3, <2>1, EndStep
<1> QED
  BY <1>1, <1>2, <1>3

LEMMA CancelRefines ==
  ASSUME TypeOK, NEW j \in Jobs, NEW preserve \in BOOLEAN, CancelTransition(j, preserve), NoCommit
  PROVE  Lifecycle!End(j) \/ Lifecycle!RequestCancel(j)
<1>1. /\ Move(j, CancelTarget(j)) /\ CancelTarget(j) \in Transitions[state[j]]
      /\ state[j] \in JobStates \cup {"absent"}
  BY DEF CancelTransition, Cancellable, Allowed, TypeOK
<1>2. CASE state[j] = "queued"
  BY <1>1, <1>2, EndStep DEF CancelTarget
<1>3. CASE state[j] # "queued"
  <2>1. CancelTarget(j) = "cancelling" /\ state[j] \in {"running", "paused"}
    BY <1>1, <1>3, TransitionsType DEF CancelTarget
  <2>2. /\ SetState(j, "cancelling")
        /\ PhaseOf["cancelling"] = "cancelRequested" /\ PhaseOf[state[j]] = "active"
    BY <1>1, <2>1, PhaseFacts DEF Move, SetState
  <2>3. SetPhase(j, "cancelRequested") /\ phaseBar[j] = "active"
    BY <2>2, PhaseMove, PhaseAt
  <2> QED
    BY <2>3, EffectsSame DEF SetPhase, Lifecycle!RequestCancel, Lifecycle!Become
<1> QED
  BY <1>2, <1>3

LEMMA SubmitRefines ==
  ASSUME TypeOK, NEW j \in Jobs, Submit(j)
  PROVE  Lifecycle!Admit(j)
<1>1. NoCommit /\ SetState(j, "queued") /\ state[j] = "absent"
  BY DEF Submit, permitVars, NoCommit, SetState
<1>2. PhaseOf["queued"] = "active" /\ PhaseOf[state[j]] = "none"
  BY <1>1, PhaseFacts
<1>3. SetPhase(j, "active") /\ phaseBar[j] = "none"
  BY <1>1, <1>2, PhaseMove, PhaseAt
<1> QED
  BY <1>1, <1>3, EffectsSame DEF SetPhase, Lifecycle!Admit, Lifecycle!Become

\* A fresh permit has executed nothing.
LEMMA IssueRefines ==
  ASSUME IInv, NEW j \in Jobs, NEW n \in Nonces, IssuePermit(j, n)
  PROVE  UNCHANGED <<phaseBar, effectsBar>>
<1> DEFINE new == [nonce |-> n, run |-> j, rev |-> revision[j]]
<1>1. /\ issued' = issued \cup {new} /\ UNCHANGED <<state, runs>>
      /\ \A p \in issued : p.nonce # n
  BY DEF IssuePermit
<1>2. runs[n] = 0
  BY <1>1 DEF IInv, PermitInv, TypeOK
<1>3. new.nonce = n
  OBVIOUS
<1> HIDE DEF new
<1>4. effectsBar' = effectsBar
  BY <1>1, <1>2, <1>3 DEF effectsBar
<1> QED
  BY <1>1, <1>4 DEF phaseBar

\* An accepted commit is a mutation of a ticket that no job has used.
LEMMA CommitRefines ==
  ASSUME IInv, NEW p \in issued, NEW raises \in BOOLEAN, CommitAccepted(p, raises)
  PROVE  p.run \in Jobs /\ p.nonce \in Nonces /\ Lifecycle!Mutate(p.run, p.nonce)
<1>0. /\ TypeOK /\ PermitInv
      /\ \A q \in issued : q.run \in Jobs /\ q.nonce \in Nonces
  BY DEF IInv, TypeOK, Permit
<1>1. /\ p \in registered /\ state[p.run] = "running" /\ issued' = issued
      /\ runs' = [runs EXCEPT ![p.nonce] = @ + 1]
      /\ SetState(p.run, IF raises THEN "failed" ELSE "running")
  BY DEF CommitAccepted, CommitAllowed, Move, SetState
<1>2. runs[p.nonce] = 0 /\ \A q \in issued : q.nonce = p.nonce => q = p
  BY <1>0, <1>1 DEF PermitInv, TypeOK
<1>3. \A n \in Nonces : runs'[n] > 0 <=> (n = p.nonce \/ runs[n] > 0)
  BY <1>0, <1>1, <1>2 DEF TypeOK
<1>4. effectsBar' = [effectsBar EXCEPT ![p.run] = @ \cup {p.nonce}]
  <2> SUFFICES ASSUME NEW j \in Jobs
               PROVE  effectsBar'[j] = IF j = p.run THEN effectsBar[j] \cup {p.nonce}
                                       ELSE effectsBar[j]
    BY <1>0 DEF effectsBar
  <2>1. effectsBar'[j] = {n \in Nonces : (n = p.nonce \/ runs[n] > 0)
                                         /\ \E q \in issued : q.nonce = n /\ q.run = j}
    BY <1>1, <1>3 DEF effectsBar
  <2>2. effectsBar[j] = {n \in Nonces : runs[n] > 0
                                        /\ \E q \in issued : q.nonce = n /\ q.run = j}
    BY DEF effectsBar
  <2>3. (\E q \in issued : q.nonce = p.nonce /\ q.run = j) <=> j = p.run
    BY <1>2
  <2> QED
    BY <1>0, <2>1, <2>2, <2>3
<1>5. phaseBar[p.run] = "active"
      /\ SetPhase(p.run, IF raises THEN "failed" ELSE "active")
  <2>1. PhaseOf[IF raises THEN "failed" ELSE "running"] = (IF raises THEN "failed" ELSE "active")
        /\ PhaseOf[state[p.run]] = "active"
    BY <1>1, PhaseFacts
  <2> QED
    BY <1>0, <1>1, <2>1, PhaseMove, PhaseAt
<1>6. phaseBar' = phaseBar \/ Lifecycle!Become(p.run, "active", "failed")
  BY <1>0, <1>5 DEF phaseBar, SetPhase, Lifecycle!Become
<1>7. \A k \in Jobs : p.nonce \notin effectsBar[k]
  BY <1>0, <1>2 DEF effectsBar
<1> QED
  BY <1>0, <1>4, <1>5, <1>6, <1>7 DEF Lifecycle!Mutate

LEMMA LifecycleStep ==
  ASSUME IInv, RecordStep
  PROVE  Lifecycle!Next \/ UNCHANGED <<phaseBar, effectsBar>>
<1>0. TypeOK
  BY DEF IInv
<1>1. ASSUME NEW j \in Jobs, Lifecycle!Admit(j) \/ Lifecycle!End(j) \/ Lifecycle!RequestCancel(j)
      PROVE  Lifecycle!Next
  BY <1>1 DEF Lifecycle!Next
<1>2. ASSUME NEW j \in Jobs, CleanupFailure(j) PROVE Lifecycle!Next
  <2>1. state[j] \in {"running", "paused", "cancelling"}
    BY <1>0, <1>2, TransitionsType DEF CleanupFailure, Allowed, TypeOK
  <2> QED
    BY <1>0, <1>1, <1>2, <2>1, EndStep DEF CleanupFailure
<1>3. CASE \/ UNCHANGED records
           \/ \E j \in Jobs : UpdateProgress(j)
           \/ \E p \in issued : CommitIgnored(p)
  <2>1. UNCHANGED state /\ NoCommit
    BY <1>3 DEF records, UpdateProgress, CommitIgnored, permitVars, NoCommit
  <2> QED
    BY <2>1, EffectsSame DEF phaseBar
<1>4. CASE \E p \in issued, raises \in BOOLEAN : CommitAccepted(p, raises)
  BY <1>4, CommitRefines DEF Lifecycle!Next
<1> QED
  BY <1>0, <1>1, <1>2, <1>3, <1>4, PlainRefines, CancelRefines, SubmitRefines, IssueRefines
     DEF RecordStep

\* The runtime implements the lifecycle promise: whatever its threads do, the rest of the
\* application sees each job admitted, asked to cancel and ended at most once, completed only
\* if it was never asked, and every formal mutation executed at most once, before that.
THEOREM LifecycleCorrect == Spec => LifecycleSpec
<1>1. Init => Lifecycle!Init
  BY DEF Init, Lifecycle!Init, phaseBar, effectsBar, PhaseOf
<1>2. IInv /\ [Next]_vars => [Lifecycle!Next]_(Lifecycle!vars)
  <2> SUFFICES ASSUME IInv, [Next]_vars PROVE [Lifecycle!Next]_(Lifecycle!vars)
    OBVIOUS
  <2>1. RecordStep
    BY RecordSteps DEF IInv
  <2> QED
    BY <2>1, LifecycleStep DEF Lifecycle!vars
<1> QED
  BY <1>1, <1>2, Invariant, PTL DEF Spec, LifecycleSpec, Lifecycle!Spec
=============================================================================
