-------------------------- MODULE TaskCloseProofs --------------------------
(***************************************************************************)
(* What a close attempt and a shutdown promise (shutdown.py), for every    *)
(* set of jobs and backends: ReadyMeansQuiet and ReleasedMeansStopped.     *)
(*                                                                         *)
(* The argument follows the two loops of the closing thread.  What its     *)
(* cancel loop has reached never becomes active again; what its waiting    *)
(* has joined has, besides, no workload left to run.  Both facts survive   *)
(* every step of the other threads, also those that schedule late.         *)
(***************************************************************************)
EXTENDS TaskRuntimeProofs

\* The threads of a job: nothing is dispatched before it is submitted, no worker exists
\* before its launch, and a job nobody has launched was never started.
ThreadsOK ==
  \A j \in Jobs :
    /\ bound[j] <=> sched[j] # "idle"
    /\ dispatching[j] <=> sched[j] \in {"entered", "started", "refused", "leaving"}
    /\ sched[j] # "idle" => j \in ScheduledJobs /\ state[j] # "absent"
    /\ worker[j] # "idle" => sched[j] \in {"leaving", "done"}
    /\ worker[j] = "pending" => j \in PoolJobs \cup PreparedJobs
    /\ cleanupError[j] => worker[j] = "exited"
    /\ j \in ScheduledJobs /\ sched[j] \in {"idle", "entered"}
         => state[j] \in {"absent", "queued", "cancelled"}

\* A close attempt has taken every record there is, and its cancel loop comes before the
\* waiting.
TargetsOK ==
  /\ closer # "open" => targets = Known
  /\ closer \notin {"draining", "stopping"} => toCancel = {}
  /\ closer = "draining" => \A j \in toCancel : waiting[j] = "pending"
  /\ closer \in {"draining", "ready", "stopping"} =>
       \A j \in targets : waiting[j] = "done" => state[j] \in Terminal

\* A worker that no longer runs its workload and never will.
Past(j) ==
  \/ worker[j] \in {"idle", "revoked", "exited", "confirm"}
  \/ worker[j] = "pending" /\ j \in PreparedJobs

\* What the cancel loop of a close attempt has reached is settling, and what its waiting
\* has joined has no workload to come.
Joined == {"joined", "confirm", "settle", "done"}

DrainOK ==
  closer \in {"draining", "ready"} => \A j \in targets :
    /\ j \notin toCancel /\ waiting[j] # "error" => state[j] \in Settling
    /\ waiting[j] \in Joined => j \notin toCancel /\ Past(j) /\ sched[j] # "started"

ReadyOK ==
  closer = "ready" => \A j \in targets : waiting[j] = "done" /\ ~cleanupError[j]

ReleasedOK ==
  closer = "released" =>
    /\ backendClosed
    /\ \A j \in Jobs : state[j] \in Terminal \cup {"absent"} /\ Past(j) /\ worker[j] # "confirm"

CloseInv == IInv /\ ThreadsOK /\ TargetsOK /\ DrainOK /\ ReadyOK /\ ReleasedOK

-----------------------------------------------------------------------------
(* How states move. *)

\* Every change of a job's state follows the transition table, except its submission and
\* the failed cleanup of a job that is being cancelled.
LEMMA StateMoves ==
  ASSUME TypeOK, RecordStep, NEW j \in Jobs
  PROVE  \/ state'[j] = state[j]
         \/ state'[j] \in Transitions[state[j]]
         \/ state[j] = "absent" /\ state'[j] = "queued" /\ closer = "open"
         \/ state[j] = "cancelling" /\ state'[j] = "failed"
<1> USE DEF TypeOK
<1>1. CASE \E k \in Jobs : \E to \in JobStates : PlainTransition(k, to)
  BY <1>1 DEF PlainTransition, Transition, Move, Allowed
<1>2. CASE \E k \in Jobs : \E preserve \in BOOLEAN : CancelTransition(k, preserve)
  BY <1>2 DEF CancelTransition, Cancellable, Move, Allowed
<1>3. CASE \E k \in Jobs : Submit(k)
  BY <1>3 DEF Submit
<1>4. CASE \E k \in Jobs : CleanupFailure(k)
  BY <1>4 DEF CleanupFailure, Move, Allowed
<1>5. CASE \E p \in issued : \E raises \in BOOLEAN : CommitAccepted(p, raises)
  <2>1. PICK p \in issued, raises \in BOOLEAN : CommitAccepted(p, raises)
    BY <1>5
  <2>2. state[p.run] = "running" /\ "failed" \in Transitions["running"]
    BY <2>1 DEF CommitAccepted, CommitAllowed, Transitions
  <2>3. state' = [state EXCEPT ![p.run] = IF raises THEN "failed" ELSE "running"]
    BY <2>1 DEF CommitAccepted, Move
  <2> QED
    BY <2>2, <2>3
<1>6. CASE UNCHANGED state
  BY <1>6
<1> QED
  BY <1>1, <1>2, <1>3, <1>4, <1>5, <1>6
     DEF RecordStep, records, UpdateProgress, IssuePermit, CommitIgnored

\* A job that waits in the queue is started by its adapter or by its own schedule() only.
LEMMA QueuedMoves ==
  ASSUME TypeOK, [Next]_vars, NEW j \in ScheduledJobs, state[j] = "queued",
         state'[j] = "running"
  PROVE  ScheduleStart(j)
<1>0. j \in Jobs
  BY BackendAssumption DEF ScheduledJobs
<1> USE <1>0 DEF TypeOK
<1>1. ASSUME NEW k \in Jobs, Api(k) PROVE FALSE
  <2>1. CASE Start(k)
    BY <2>1 DEF Start, DirectJobs, Transition, Move
  <2>2. CASE Resume(k)
    BY <2>2 DEF Resume, Transition, Move
  <2>3. CASE Submit(k) \/ UpdateProgress(k) \/ \E n \in Nonces : IssuePermit(k, n)
    BY <2>3 DEF Submit, UpdateProgress, IssuePermit
  <2>4. CASE Pause(k) \/ Complete(k) \/ Fail(k) \/ FinishCancelled(k)
    BY <2>4 DEF Pause, Complete, Fail, FinishCancelled, Transition, Move
  <2>5. CASE \E preserve \in BOOLEAN : Cancel(k, preserve)
    BY <2>5 DEF Cancel, CancelTransition, CancelTarget, Move
  <2> QED
    BY <1>1, <2>1, <2>2, <2>3, <2>4, <2>5 DEF Api
<1>2. ASSUME NEW k \in Jobs, ScheduleEnter(k) \/ ScheduleStep(k) PROVE ScheduleStart(j)
  <2>1. CASE ScheduleStart(k)
    <3>1. state' = state \/ Move(k, "running")
      BY <2>1 DEF ScheduleStart, TransitionOrIgnore, Transition
    <3>2. k = j
      BY <3>1 DEF Move
    <3> QED
      BY <2>1, <3>2
  <2>2. CASE ScheduleFail(k)
    BY <2>2 DEF ScheduleFail, TransitionOrIgnore, Transition, Move
  <2>3. CASE ScheduleEnter(k) \/ ScheduleLaunch(k) \/ ScheduleRefused(k) \/ ScheduleLeave(k)
    BY <2>3 DEF ScheduleEnter, ScheduleLaunch, ScheduleRefused, ScheduleLeave
  <2> QED
    BY <1>2, <2>1, <2>2, <2>3 DEF ScheduleStep
<1>3. ASSUME NEW k \in Jobs, WorkerStep(k) PROVE FALSE
  <2>1. CASE RecordUnchanged
    BY <2>1 DEF RecordUnchanged
  <2>2. CASE FinishCleanup(k)
    BY <2>2 DEF FinishCleanup, Move
  <2>3. CASE FinishSelfCancel(k)
    BY <2>3 DEF FinishSelfCancel, CancelTransition, CancelTarget, Move, RecordUnchanged
  <2>4. CASE FinishConfirm(k) \/ FinishFail(k) \/ FinishComplete(k)
    BY <2>4 DEF FinishConfirm, FinishFail, FinishComplete, TransitionOrIgnore, Transition, Move
  <2> QED
    BY <1>3, <2>1, <2>2, <2>3, <2>4 DEF WorkerStep, FinishStep, PoolBegin, PreparedBegin,
       WorkloadEnds
<1>4. ASSUME NEW k \in Jobs, SignalStep(k) \/ CloseStep(k) PROVE FALSE
  <2>1. CASE RecordUnchanged
    BY <2>1 DEF RecordUnchanged
  <2>2. CASE TransitionOrIgnore(k, "cancelled")
    BY <2>2 DEF TransitionOrIgnore, Transition, Move
  <2>3. CASE \E preserve \in BOOLEAN : CancelTransition(k, preserve)
    BY <2>3 DEF CancelTransition, CancelTarget, Move
  <2> QED
    BY <1>4, <2>1, <2>2, <2>3 DEF SignalStep, SignalHint, SignalJoin, SignalObserve,
       SignalConfirm, CloseStep, CloseCancel, WaitStep, WaitJoin, WaitObserve, WaitConfirm,
       WaitSettle, WaitTimeout
<1>5. ASSUME NEW p \in issued, CommitIgnored(p) \/ \E raises \in BOOLEAN : CommitAccepted(p, raises)
      PROVE  FALSE
  BY <1>5 DEF CommitIgnored, CommitAccepted, CommitAllowed, Move
<1>6. ASSUME Close \/ UNCHANGED vars PROVE FALSE
  BY <1>6 DEF Close, PrepareClose, DrainReady, DrainAbort, FinishShutdown, BeginShutdown,
     RecordUnchanged, vars
<1> QED
  BY <1>1, <1>2, <1>3, <1>4, <1>5, <1>6 DEF Next, WorkerStep, CloseStep

\* What the proofs below need of a job's state.
LEMMA StateFacts ==
  ASSUME IInv, [Next]_vars, NEW j \in Jobs
  PROVE  /\ state[j] # "absent" => state'[j] # "absent"
         /\ state[j] = "absent" /\ closer # "open" => state'[j] = "absent"
         /\ state[j] \in Terminal => state'[j] = state[j]
         /\ state[j] \in Settling => state'[j] \in Settling
         /\ j \in ScheduledJobs /\ state[j] \in {"absent", "queued", "cancelled"} =>
              state'[j] \in {"absent", "queued", "cancelled"} \/ ScheduleStart(j)
<1>1. TypeOK /\ ConfirmInv /\ CancelBarrier
  BY DEF IInv
<1>2. RecordStep
  BY <1>1, RecordSteps
<1>3. state[j] \in JobStates \cup {"absent"}
  BY <1>1 DEF TypeOK
<1>4. \/ state'[j] = state[j]
      \/ state'[j] \in Transitions[state[j]]
      \/ state[j] = "absent" /\ state'[j] = "queued" /\ closer = "open"
      \/ state[j] = "cancelling" /\ state'[j] = "failed"
  BY <1>1, <1>2, StateMoves
<1>5. state'[j] # "absent" \/ state'[j] = state[j]
  BY <1>3, <1>4, TransitionsType DEF JobStates
<1>6. state[j] \in Terminal \cup {"absent"} => Transitions[state[j]] = {}
  BY <1>3, TransitionsType
<1>7. state[j] = "queued" => Transitions[state[j]] = {"running", "cancelled"}
  BY DEF Transitions
<1>8. state[j] = "cancelling" => Transitions[state[j]] = {"cancelled"}
  BY DEF Transitions
<1>9. /\ state[j] \in Terminal => state'[j] = state[j]
      /\ state[j] \in Settling => state'[j] \in Settling
  BY <1>4, <1>6, <1>8 DEF Settling, Terminal
<1>10. ASSUME j \in ScheduledJobs, state[j] \in {"absent", "queued", "cancelled"}
       PROVE  state'[j] \in {"absent", "queued", "cancelled"} \/ ScheduleStart(j)
  BY <1>1, <1>4, <1>6, <1>7, <1>10, QueuedMoves DEF Terminal
<1> QED
  BY <1>4, <1>5, <1>6, <1>9, <1>10

LEMMA KnownStays ==
  ASSUME IInv, [Next]_vars, closer # "open"
  PROVE  Known' = Known
BY StateFacts DEF Known

-----------------------------------------------------------------------------
(* What the other threads do to the workers. *)

\* The API, the permits and the closing thread leave the threads of the jobs alone.
LEMMA ExecUnchanged ==
  ASSUME \/ \E j \in Jobs : Api(j) \/ CloseStep(j)
         \/ \E p \in issued : CommitIgnored(p) \/ \E raises \in BOOLEAN : CommitAccepted(p, raises)
         \/ Close
         \/ UNCHANGED vars
  PROVE  UNCHANGED <<bound, dispatching, sched, worker, cleanupError>>
<1>1. ASSUME NEW j \in Jobs, Api(j)
      PROVE  UNCHANGED <<bound, dispatching, sched, worker, cleanupError>>
  BY <1>1 DEF Api, Submit, UpdateProgress, Start, Pause, Resume, Complete, Fail, FinishCancelled,
     Cancel, IssuePermit, ApiFrame, execVars, Transition, CancelTransition
<1>2. ASSUME NEW j \in Jobs, CloseStep(j)
      PROVE  UNCHANGED <<bound, dispatching, sched, worker, cleanupError>>
  BY <1>2 DEF CloseStep, CloseCancel, WaitStep, WaitJoin, WaitObserve, WaitConfirm, WaitSettle,
     WaitTimeout, WaitGoTo, CloseFrame, execVars, RecordUnchanged, TransitionOrIgnore, Transition,
     CancelTransition
<1>3. ASSUME NEW p \in issued, CommitIgnored(p) \/ \E raises \in BOOLEAN : CommitAccepted(p, raises)
      PROVE  UNCHANGED <<bound, dispatching, sched, worker, cleanupError>>
  BY <1>3 DEF CommitIgnored, CommitAccepted, execVars
<1>4. CASE Close \/ UNCHANGED vars
  BY <1>4 DEF Close, PrepareClose, DrainReady, DrainAbort, FinishShutdown, BeginShutdown,
     CloseFrame, execVars, RecordUnchanged, vars
<1> QED
  BY <1>1, <1>2, <1>3, <1>4

\* The threads of the jobs leave the closing thread's variables alone.
LEMMA CloseUnchanged ==
  ASSUME \/ \E j \in Jobs : \/ Api(j) \/ ScheduleEnter(j) \/ ScheduleStep(j) \/ WorkerStep(j)
                           \/ SignalStep(j)
         \/ \E p \in issued : CommitIgnored(p) \/ \E raises \in BOOLEAN : CommitAccepted(p, raises)
         \/ UNCHANGED vars
  PROVE  UNCHANGED closeVars
<1>1. ASSUME NEW j \in Jobs, Api(j) PROVE UNCHANGED closeVars
  BY <1>1 DEF Api, Submit, UpdateProgress, Start, Pause, Resume, Complete, Fail, FinishCancelled,
     Cancel, IssuePermit, ApiFrame
<1>2. ASSUME NEW j \in Jobs, ScheduleEnter(j) \/ ScheduleStep(j) PROVE UNCHANGED closeVars
  BY <1>2 DEF ScheduleEnter, ScheduleStep, ScheduleStart, ScheduleLaunch, ScheduleRefused,
     ScheduleFail, ScheduleLeave, SchedFrame
<1>3. ASSUME NEW j \in Jobs, WorkerStep(j) PROVE UNCHANGED closeVars
  BY <1>3 DEF WorkerStep, PoolBegin, PreparedBegin, FinishStep, WorkloadEnds, FinishCleanup,
     FinishSelfCancel, FinishConfirm, FinishFail, FinishComplete, WorkerFrame
<1>4. ASSUME NEW j \in Jobs, SignalStep(j) PROVE UNCHANGED closeVars
  BY <1>4 DEF SignalStep, SignalHint, SignalJoin, SignalObserve, SignalConfirm, SignalFrame
<1>5. ASSUME NEW p \in issued, CommitIgnored(p) \/ \E raises \in BOOLEAN : CommitAccepted(p, raises)
      PROVE  UNCHANGED closeVars
  BY <1>5 DEF CommitIgnored, CommitAccepted
<1>6. CASE UNCHANGED vars
  BY <1>6 DEF vars, closeVars
<1> QED
  BY <1>1, <1>2, <1>3, <1>4, <1>5, <1>6

\* Each worker step leaves the scheduling thread alone, moves one worker that is neither
\* idle nor finished, and records a failed cleanup only on leaving "cleanup".
LEMMA WorkerMoves ==
  ASSUME TypeOK, NEW k \in Jobs, WorkerStep(k)
  PROVE  /\ UNCHANGED <<bound, dispatching, sched>>
         /\ worker[k] \notin {"idle", "revoked", "exited"}
         /\ \E pc \in (Live \cup {"exited"}) : worker' = [worker EXCEPT ![k] = pc]
         /\ \/ cleanupError' = cleanupError
            \/ worker[k] = "cleanup" /\ worker'[k] = "exited"
               /\ cleanupError' = [cleanupError EXCEPT ![k] = TRUE]
         /\ worker[k] = "pending" /\ k \in PreparedJobs /\ state[k] # "running" =>
              worker'[k] = IF state[k] \in Terminal THEN "exited" ELSE "confirm"
         /\ worker[k] = "confirm" => worker'[k] = "exited"
<1> USE DEF TypeOK, GoTo
<1>1. CASE PoolBegin(k)
  BY <1>1, BackendAssumption DEF PoolBegin, WorkerFrame, RecordUnchanged, Live
<1>2. CASE PreparedBegin(k)
  BY <1>2 DEF PreparedBegin, WorkerFrame, RecordUnchanged, Live, Finishing, Terminal
<1>3. ASSUME NEW outcome \in Outcomes, WorkloadEnds(k, outcome)
      PROVE  /\ \E pc \in (Live \cup {"exited"}) : worker' = [worker EXCEPT ![k] = pc]
             /\ worker[k] = "running" /\ cleanupError' = cleanupError
             /\ UNCHANGED <<bound, dispatching, sched>>
  BY <1>3 DEF WorkloadEnds, WorkerFrame, RecordUnchanged, Live, Finishing
<1>4. CASE FinishCleanup(k)
  BY <1>4 DEF FinishCleanup, WorkerFrame
<1>5. CASE FinishSelfCancel(k)
  BY <1>5 DEF FinishSelfCancel, WorkerFrame, RecordUnchanged, CancelTransition, Live, Finishing
<1>6. CASE FinishConfirm(k) \/ FinishFail(k) \/ FinishComplete(k)
  BY <1>6 DEF FinishConfirm, FinishFail, FinishComplete, WorkerFrame, TransitionOrIgnore,
     Transition
<1> QED
  BY <1>1, <1>2, <1>3, <1>4, <1>5, <1>6 DEF WorkerStep, FinishStep

\* Work that is past and whose job settles stays past.
LEMMA PastStays ==
  ASSUME IInv, ThreadsOK, [Next]_vars, NEW j \in Jobs,
         state[j] \in Settling, Past(j), sched[j] # "started" \/ backendClosed
  PROVE  /\ Past(j)'
         /\ cleanupError'[j] = cleanupError[j]
         /\ sched[j] # "started" => sched'[j] # "started"
         /\ state[j] \in Terminal /\ worker[j] # "confirm" => worker'[j] # "confirm"
<1> DEFINE Goal == /\ Past(j)'
                   /\ cleanupError'[j] = cleanupError[j]
                   /\ sched[j] # "started" => sched'[j] # "started"
                   /\ state[j] \in Terminal /\ worker[j] # "confirm" => worker'[j] # "confirm"
<1>0. TypeOK
  BY DEF IInv
<1> USE <1>0 DEF TypeOK
<1>1. CASE UNCHANGED <<sched, worker, cleanupError>>
  BY <1>1 DEF Past
<1>2. ASSUME NEW k \in Jobs, ScheduleEnter(k) \/ ScheduleStep(k) PROVE Goal
  <2>1. cleanupError' = cleanupError
    BY <1>2 DEF ScheduleEnter, ScheduleStep, ScheduleStart, ScheduleLaunch, ScheduleRefused,
       ScheduleFail, ScheduleLeave, TransitionOrIgnore, Transition
  <2>2. CASE ScheduleLaunch(k)
    <3>1. j = k => j \in PreparedJobs /\ worker'[j] = "pending"
      BY <2>2, BackendAssumption DEF ScheduleLaunch
    <3>2. sched'[j] # "started" \/ (j # k /\ sched'[j] = sched[j])
      BY <2>2 DEF ScheduleLaunch
    <3>3. j # k => worker'[j] = worker[j]
      BY <2>2 DEF ScheduleLaunch
    <3> QED
      BY <2>1, <3>1, <3>2, <3>3 DEF Past
  <2>3. CASE ScheduleStart(k)
    <3>1. ~Allowed(j, "running")
      BY TransitionsType DEF Allowed, Settling, Terminal
    <3>2. worker' = worker
      BY <2>3 DEF ScheduleStart
    <3>3. sched[j] # "started" => sched'[j] # "started"
      BY <2>3, <3>1 DEF ScheduleStart
    <3> QED
      BY <2>1, <3>2, <3>3 DEF Past
  <2>4. CASE ScheduleEnter(k) \/ ScheduleRefused(k) \/ ScheduleFail(k) \/ ScheduleLeave(k)
    BY <2>1, <2>4 DEF ScheduleEnter, ScheduleRefused, ScheduleFail, ScheduleLeave, Past
  <2> QED
    BY <1>2, <2>2, <2>3, <2>4 DEF ScheduleStep
<1>3. ASSUME NEW k \in Jobs, WorkerStep(k) PROVE Goal
  <2>1. /\ UNCHANGED sched
        /\ \E pc \in (Live \cup {"exited"}) : worker' = [worker EXCEPT ![k] = pc]
        /\ \/ cleanupError' = cleanupError
           \/ worker[k] = "cleanup" /\ cleanupError' = [cleanupError EXCEPT ![k] = TRUE]
    BY <1>3, WorkerMoves
  <2>2. CASE j # k
    BY <2>1, <2>2 DEF Past
  <2>3. CASE j = k
    <3>1. worker[j] = "confirm" \/ (worker[j] = "pending" /\ j \in PreparedJobs)
      BY <1>3, <2>3, WorkerMoves DEF Past
    <3>2. /\ worker'[j] \in {"exited", "confirm"}
          /\ state[j] \in Terminal /\ worker[j] # "confirm" => worker'[j] # "confirm"
      BY <1>3, <2>3, <3>1, WorkerMoves DEF Settling, Terminal
    <3> QED
      BY <2>1, <2>3, <3>1, <3>2 DEF Past
  <2> QED
    BY <2>2, <2>3
<1>4. ASSUME NEW k \in Jobs, SignalStep(k) PROVE Goal
  <2>1. UNCHANGED <<sched, cleanupError>>
    BY <1>4 DEF SignalStep, SignalHint, SignalJoin, SignalObserve, SignalConfirm, SignalFrame,
       RecordUnchanged, TransitionOrIgnore, Transition
  <2>2. worker' = worker \/ worker' = [worker EXCEPT ![k] = "revoked"]
    BY <1>4 DEF SignalStep, SignalHint, SignalJoin, SignalObserve, SignalConfirm, GoTo
  <2> QED
    BY <2>1, <2>2 DEF Past
<1> QED
  BY <1>1, <1>2, <1>3, <1>4, ExecUnchanged DEF Next, WorkerStep, CloseStep

LEMMA ThreadsKept ==
  ASSUME IInv, ThreadsOK, [Next]_vars
  PROVE  ThreadsOK'
<1> SUFFICES ASSUME NEW j \in Jobs
             PROVE
    /\ bound'[j] <=> sched'[j] # "idle"
    /\ dispatching'[j] <=> sched'[j] \in {"entered", "started", "refused", "leaving"}
    /\ sched'[j] # "idle" => j \in ScheduledJobs /\ state'[j] # "absent"
    /\ worker'[j] # "idle" => sched'[j] \in {"leaving", "done"}
    /\ worker'[j] = "pending" => j \in PoolJobs \cup PreparedJobs
    /\ cleanupError'[j] => worker'[j] = "exited"
    /\ j \in ScheduledJobs /\ sched'[j] \in {"idle", "entered"}
         => state'[j] \in {"absent", "queued", "cancelled"}
  BY DEF ThreadsOK
<1> DEFINE Kept ==
    /\ bound'[j] <=> sched'[j] # "idle"
    /\ dispatching'[j] <=> sched'[j] \in {"entered", "started", "refused", "leaving"}
    /\ sched'[j] # "idle" => j \in ScheduledJobs /\ state'[j] # "absent"
    /\ worker'[j] # "idle" => sched'[j] \in {"leaving", "done"}
    /\ worker'[j] = "pending" => j \in PoolJobs \cup PreparedJobs
    /\ cleanupError'[j] => worker'[j] = "exited"
    /\ j \in ScheduledJobs /\ sched'[j] \in {"idle", "entered"}
         => state'[j] \in {"absent", "queued", "cancelled"}
<1>0. /\ bound[j] <=> sched[j] # "idle"
      /\ dispatching[j] <=> sched[j] \in {"entered", "started", "refused", "leaving"}
      /\ sched[j] # "idle" => j \in ScheduledJobs /\ state[j] # "absent"
      /\ worker[j] # "idle" => sched[j] \in {"leaving", "done"}
      /\ worker[j] = "pending" => j \in PoolJobs \cup PreparedJobs
      /\ cleanupError[j] => worker[j] = "exited"
      /\ j \in ScheduledJobs /\ sched[j] \in {"idle", "entered"}
           => state[j] \in {"absent", "queued", "cancelled"}
  BY DEF ThreadsOK
<1>1. TypeOK
  BY DEF IInv
<1>2. /\ state[j] # "absent" => state'[j] # "absent"
      /\ j \in ScheduledJobs /\ state[j] \in {"absent", "queued", "cancelled"} =>
           state'[j] \in {"absent", "queued", "cancelled"} \/ ScheduleStart(j)
  BY StateFacts
<1>3. ScheduleStart(j) => sched'[j] \in {"started", "leaving"}
  BY <1>1 DEF ScheduleStart, TypeOK
<1>4. /\ sched'[j] # "idle" /\ sched[j] # "idle" => j \in ScheduledJobs /\ state'[j] # "absent"
      /\ j \in ScheduledJobs /\ sched'[j] \in {"idle", "entered"} /\ sched[j] \in {"idle", "entered"}
           => state'[j] \in {"absent", "queued", "cancelled"}
  BY <1>0, <1>2, <1>3
<1> USE <1>1 DEF TypeOK
<1>5. CASE UNCHANGED <<bound, dispatching, sched, worker, cleanupError>>
  BY <1>0, <1>4, <1>5
<1>6. ASSUME NEW k \in Jobs, ScheduleEnter(k) PROVE Kept
  BY <1>0, <1>4, <1>6 DEF ScheduleEnter
<1>7. ASSUME NEW k \in Jobs, ScheduleStep(k) PROVE Kept
  <2>1. bound' = bound /\ cleanupError' = cleanupError
    BY <1>7 DEF ScheduleStep, ScheduleStart, ScheduleLaunch, ScheduleRefused, ScheduleFail,
       ScheduleLeave, SchedFrame, TransitionOrIgnore, Transition
  <2>2. CASE j # k
    <3>1. sched'[j] = sched[j] /\ worker'[j] = worker[j] /\ dispatching'[j] = dispatching[j]
      BY <1>7, <2>2 DEF ScheduleStep, ScheduleStart, ScheduleLaunch, ScheduleRefused,
         ScheduleFail, ScheduleLeave
    <3> QED
      BY <1>0, <1>4, <2>1, <3>1
  <2>3. CASE j = k /\ ScheduleLaunch(k)
    <3>1. /\ sched[j] = "started" /\ sched'[j] = "leaving" /\ dispatching' = dispatching
          /\ worker'[j] = IF j \in ThreadJobs THEN "running" ELSE "pending"
      BY <2>3 DEF ScheduleLaunch
    <3>2. j \in ThreadJobs \cup PoolJobs \cup PreparedJobs
      BY <1>0, <3>1 DEF ScheduledJobs
    <3> QED
      BY <1>0, <1>4, <2>1, <3>1, <3>2
  <2>4. CASE j = k /\ ScheduleStart(k)
    <3>1. /\ sched[j] = "entered" /\ sched'[j] \in {"started", "leaving"}
          /\ UNCHANGED <<worker, dispatching>>
      BY <2>4 DEF ScheduleStart
    <3> QED
      BY <1>0, <1>4, <2>1, <3>1
  <2>5. CASE j = k /\ (ScheduleRefused(k) \/ ScheduleFail(k) \/ ScheduleLeave(k))
    <3>1. \/ sched[j] = "started" /\ sched'[j] = "refused" /\ dispatching' = dispatching
          \/ sched[j] = "refused" /\ sched'[j] = "leaving" /\ dispatching' = dispatching
          \/ sched[j] = "leaving" /\ sched'[j] = "done" /\ ~dispatching'[j]
      BY <2>5 DEF ScheduleRefused, ScheduleFail, ScheduleLeave
    <3>2. worker' = worker
      BY <2>5 DEF ScheduleRefused, ScheduleFail, ScheduleLeave
    <3> QED
      BY <1>0, <1>4, <2>1, <3>1, <3>2
  <2> QED
    BY <1>7, <2>2, <2>3, <2>4, <2>5 DEF ScheduleStep
<1>8. ASSUME NEW k \in Jobs, WorkerStep(k) PROVE Kept
  <2>1. /\ UNCHANGED <<bound, dispatching, sched>>
        /\ worker[k] \notin {"idle", "revoked", "exited"}
        /\ \E pc \in (Live \cup {"exited"}) : worker' = [worker EXCEPT ![k] = pc]
        /\ \/ cleanupError' = cleanupError
           \/ worker'[k] = "exited" /\ cleanupError' = [cleanupError EXCEPT ![k] = TRUE]
    BY <1>8, WorkerMoves
  <2>2. CASE j # k
    BY <1>0, <1>4, <2>1, <2>2
  <2>3. CASE j = k
    <3>1. ~cleanupError[j] /\ worker[j] # "idle" /\ worker'[j] # "pending"
      BY <1>0, <2>1, <2>3 DEF Live, Finishing
    <3>2. cleanupError'[j] => worker'[j] = "exited"
      BY <2>1, <2>3, <3>1
    <3> QED
      BY <1>0, <1>4, <2>1, <3>1, <3>2
  <2> QED
    BY <2>2, <2>3
<1>9. ASSUME NEW k \in Jobs, SignalStep(k) PROVE Kept
  <2>1. UNCHANGED <<bound, dispatching, sched, cleanupError>>
    BY <1>9 DEF SignalStep, SignalHint, SignalJoin, SignalObserve, SignalConfirm, SignalFrame,
       RecordUnchanged, TransitionOrIgnore, Transition
  <2>2. \/ worker' = worker
        \/ worker[k] = "pending" /\ worker' = [worker EXCEPT ![k] = "revoked"]
    BY <1>9 DEF SignalStep, SignalHint, SignalJoin, SignalObserve, SignalConfirm, GoTo
  <2> QED
    BY <1>0, <1>4, <2>1, <2>2
<1> QED
  BY <1>5, <1>6, <1>7, <1>8, <1>9, ExecUnchanged DEF Next, WorkerStep, CloseStep

-----------------------------------------------------------------------------
(* The closing thread. *)

\* A step of the application's other threads leaves closeVars alone; what is left is one
\* turn of the cancel loop, one step of the waiting, or a change of phase.
LEMMA CloserCases ==
  ASSUME [Next]_vars
  PROVE  \/ UNCHANGED closeVars
         \/ \E j \in Jobs : CloseCancel(j) \/ WaitStep(j) \/ WaitTimeout(j)
         \/ Close
BY CloseUnchanged DEF Next, WorkerStep

\* One turn of the cancel loop takes one record and leaves it settling, or notes that it
\* cannot be cancelled.
LEMMA CancelTurn ==
  ASSUME TypeOK, NEW k \in Jobs, CloseCancel(k)
  PROVE  /\ k \in toCancel /\ toCancel' = toCancel \ {k}
         /\ UNCHANGED <<closer, targets, backendClosed>>
         /\ \/ state'[k] \in Settling /\ waiting' = waiting
            \/ state' = state /\ state[k] \in Settling /\ waiting' = waiting
            \/ closer = "draining" /\ waiting' = [waiting EXCEPT ![k] = "error"]
            \/ closer # "draining" /\ waiting' = waiting
<1> USE DEF TypeOK
<1>1. /\ k \in toCancel /\ toCancel' = toCancel \ {k}
      /\ UNCHANGED <<closer, targets, backendClosed>>
  BY DEF CloseCancel
<1>2. CASE CancelTransition(k, closePolicy = "checkpoint-and-cancel") /\ UNCHANGED waiting
  <2>1. state'[k] = CancelTarget(k)
    BY <1>2 DEF CancelTransition, Move
  <2> QED
    BY <1>1, <1>2, <2>1 DEF CancelTarget, Settling, Terminal
<1>3. CASE /\ RecordUnchanged
           /\ waiting' = IF closer = "draining" /\ state[k] \notin Terminal \cup {"cancelling"}
                           THEN [waiting EXCEPT ![k] = "error"] ELSE waiting
  BY <1>1, <1>3 DEF RecordUnchanged, Settling
<1> QED
  BY <1>2, <1>3 DEF CloseCancel

\* One step of the waiting comes after the cancel loop and moves one record.  It joins a
\* record whose thread has gone, and counts one as done when it has ended.
LEMMA WaitTurn ==
  ASSUME TypeOK, ThreadsOK, NEW k \in Jobs, WaitStep(k) \/ WaitTimeout(k)
  PROVE  /\ k \in targets /\ toCancel = {} /\ closer \in {"draining", "stopping"}
         /\ UNCHANGED <<closer, targets, toCancel, backendClosed, sched, worker>>
         /\ \E pc \in WaitPC :
              /\ waiting' = [waiting EXCEPT ![k] = pc]
              /\ pc # "error"
              /\ pc = "done" => state'[k] \in Terminal
              /\ pc \in Joined /\ waiting[k] \notin Joined => Past(k) /\ sched[k] # "started"
         /\ waiting[k] # "error"
<1> USE DEF TypeOK, WaitEnabled, WaitGoTo, CloseFrame, execVars, WaitPC, Joined
<1>1. CASE WaitJoin(k)
  <2>1. ~dispatching[k] => sched[k] # "started"
    BY DEF ThreadsOK
  <2>2. ~bound[k] => worker[k] = "idle"
    BY DEF ThreadsOK
  <2>3. (bound[k] => Joinable(k)) => Past(k)
    BY <2>2 DEF Joinable, Past
  <2> QED
    BY <1>1, <2>1, <2>3 DEF WaitJoin
<1>2. CASE WaitObserve(k)
  BY <1>2 DEF WaitObserve
<1>3. CASE WaitConfirm(k)
  BY <1>3 DEF WaitConfirm
<1>4. CASE WaitSettle(k)
  BY <1>4 DEF WaitSettle, RecordUnchanged
<1>5. CASE WaitTimeout(k)
  BY <1>5 DEF WaitTimeout
<1> QED
  BY <1>1, <1>2, <1>3, <1>4, <1>5 DEF WaitStep

\* A change of phase leaves every record and every thread of a job alone.
LEMMA CloseQuiet ==
  ASSUME Close
  PROVE  UNCHANGED <<state, cleanupError, bound, sched, worker>>
BY DEF Close, PrepareClose, DrainReady, DrainAbort, FinishShutdown, BeginShutdown,
   RecordUnchanged, CloseFrame, execVars

LEMMA TargetsKept ==
  ASSUME IInv, ThreadsOK, TargetsOK, [Next]_vars
  PROVE  TargetsOK'
<1>0. TypeOK
  BY DEF IInv
<1>1. closer # "open" => Known' = Known
  BY KnownStays
<1>2. \A j \in targets : state[j] \in Terminal => state'[j] \in Terminal
  BY <1>0, StateFacts DEF TypeOK
<1> USE <1>0 DEF TypeOK
<1>3. CASE UNCHANGED closeVars
  BY <1>1, <1>2, <1>3 DEF TargetsOK, closeVars
<1>4. ASSUME NEW k \in Jobs, CloseCancel(k) PROVE TargetsOK'
  <2>1. /\ k \in toCancel /\ toCancel' = toCancel \ {k} /\ UNCHANGED <<closer, targets>>
        /\ waiting' = waiting \/ waiting' = [waiting EXCEPT ![k] = "error"]
    BY <1>4, CancelTurn
  <2> QED
    BY <1>1, <1>2, <2>1 DEF TargetsOK
<1>5. ASSUME NEW k \in Jobs, WaitStep(k) \/ WaitTimeout(k) PROVE TargetsOK'
  <2>1. /\ toCancel = {} /\ UNCHANGED <<closer, targets, toCancel>>
        /\ \E pc \in WaitPC : /\ waiting' = [waiting EXCEPT ![k] = pc]
                              /\ pc = "done" => state'[k] \in Terminal
    BY <1>5, WaitTurn
  <2> QED
    BY <1>1, <1>2, <2>1 DEF TargetsOK
<1>6. ASSUME Close PROVE TargetsOK'
  <2>1. Known' = Known /\ state' = state
    BY <1>6, CloseQuiet DEF Known
  <2>2. CASE PrepareClose
    BY <2>1, <2>2 DEF PrepareClose, TargetsOK, Known
  <2>3. CASE \E policy \in ShutdownPolicies : BeginShutdown(policy)
    BY <2>1, <2>3 DEF BeginShutdown, TargetsOK, Known
  <2>4. CASE DrainReady \/ DrainAbort \/ FinishShutdown
    BY <1>2, <2>1, <2>4 DEF DrainReady, DrainAbort, FinishShutdown, TargetsOK
  <2> QED
    BY <1>6, <2>2, <2>3, <2>4 DEF Close
<1> QED
  BY <1>3, <1>4, <1>5, <1>6, CloserCases

LEMMA DrainKept ==
  ASSUME IInv, ThreadsOK, TargetsOK, DrainOK, [Next]_vars
  PROVE  DrainOK'
<1>0. TypeOK
  BY DEF IInv
<1> USE <1>0 DEF TypeOK
\* What held of a record whose cancellation and waiting did not move holds still.
<1>1. ASSUME closer \in {"draining", "ready"}, NEW j \in targets
      PROVE  /\ state[j] \in Settling => state'[j] \in Settling
             /\ state[j] \in Settling /\ Past(j) /\ sched[j] # "started"
                  => Past(j)' /\ sched'[j] # "started"
  BY <1>1, StateFacts, PastStays
<1>2. ASSUME closer \in {"draining", "ready"}, NEW j \in targets,
             j \notin toCancel /\ waiting[j] # "error"
      PROVE  /\ state'[j] \in Settling
             /\ waiting[j] \in Joined => Past(j)' /\ sched'[j] # "started"
  <2>1. state[j] \in Settling /\ (waiting[j] \in Joined => Past(j) /\ sched[j] # "started")
    BY <1>2 DEF DrainOK
  <2> QED
    BY <1>1, <1>2, <2>1
<1>3. ASSUME closer \in {"draining", "ready"}, NEW j \in targets, waiting[j] \in Joined
      PROVE  j \notin toCancel /\ waiting[j] # "error"
  BY <1>3 DEF DrainOK, Joined
<1>4. CASE UNCHANGED closeVars
  BY <1>2, <1>3, <1>4 DEF DrainOK, closeVars
<1>5. ASSUME NEW k \in Jobs, CloseCancel(k) PROVE DrainOK'
  <2> SUFFICES ASSUME closer' \in {"draining", "ready"}, NEW j \in targets'
               PROVE  /\ j \notin toCancel' /\ waiting'[j] # "error" => state'[j] \in Settling
                      /\ waiting'[j] \in Joined =>
                           j \notin toCancel' /\ Past(j)' /\ sched'[j] # "started"
    BY DEF DrainOK
  <2>1. /\ k \in toCancel /\ toCancel' = toCancel \ {k} /\ UNCHANGED <<closer, targets>>
        /\ \/ state'[k] \in Settling /\ waiting' = waiting
           \/ state' = state /\ state[k] \in Settling /\ waiting' = waiting
           \/ closer = "draining" /\ waiting' = [waiting EXCEPT ![k] = "error"]
           \/ closer # "draining" /\ waiting' = waiting
    BY <1>5, CancelTurn
  <2>2. closer = "draining" /\ waiting[k] = "pending"
    BY <2>1 DEF TargetsOK
  <2>3. CASE j = k
    BY <2>1, <2>2, <2>3 DEF Joined
  <2>4. CASE j # k
    BY <1>2, <1>3, <2>1, <2>4
  <2> QED
    BY <2>3, <2>4
<1>6. ASSUME NEW k \in Jobs, WaitStep(k) \/ WaitTimeout(k) PROVE DrainOK'
  <2> SUFFICES ASSUME closer' \in {"draining", "ready"}, NEW j \in targets'
               PROVE  /\ j \notin toCancel' /\ waiting'[j] # "error" => state'[j] \in Settling
                      /\ waiting'[j] \in Joined =>
                           j \notin toCancel' /\ Past(j)' /\ sched'[j] # "started"
    BY DEF DrainOK
  <2>1. /\ k \in targets /\ toCancel = {} /\ waiting[k] # "error"
        /\ UNCHANGED <<closer, targets, toCancel, sched, worker>>
    BY <1>6, WaitTurn DEF ThreadsOK
  <2>2. PICK pc \in WaitPC :
          /\ waiting' = [waiting EXCEPT ![k] = pc]
          /\ pc \in Joined /\ waiting[k] \notin Joined => Past(k) /\ sched[k] # "started"
    BY <1>6, WaitTurn
  <2>3. CASE j = k
    <3>1. Past(k) /\ sched[k] # "started" => Past(k)' /\ sched'[k] # "started"
      BY <2>1 DEF Past
    <3> QED
      BY <1>2, <2>1, <2>2, <2>3, <3>1
  <2>4. CASE j # k
    BY <1>2, <1>3, <2>1, <2>2, <2>4
  <2> QED
    BY <2>3, <2>4
<1>7. ASSUME Close PROVE DrainOK'
  <2>1. CASE PrepareClose
    BY <2>1 DEF PrepareClose, DrainOK, Joined, Known
  <2>2. CASE DrainReady
    BY <1>2, <1>3, <2>2 DEF DrainReady, DrainOK
  <2>3. CASE DrainAbort \/ FinishShutdown \/ \E policy \in ShutdownPolicies : BeginShutdown(policy)
    BY <2>3 DEF DrainAbort, FinishShutdown, BeginShutdown, DrainOK
  <2> QED
    BY <1>7, <2>1, <2>2, <2>3 DEF Close
<1> QED
  BY <1>4, <1>5, <1>6, <1>7, CloserCases

LEMMA ReadyKept ==
  ASSUME IInv, ThreadsOK, TargetsOK, DrainOK, ReadyOK, [Next]_vars
  PROVE  ReadyOK'
<1>0. TypeOK
  BY DEF IInv
<1> SUFFICES ASSUME closer' = "ready", NEW j \in targets'
             PROVE  waiting'[j] = "done" /\ ~cleanupError'[j]
  BY DEF ReadyOK
<1>1. CASE closer = "ready" /\ UNCHANGED closeVars
  <2>1. waiting[j] = "done" /\ ~cleanupError[j] /\ j \in targets /\ j \in Jobs
    BY <1>0, <1>1 DEF ReadyOK, closeVars, TypeOK
  <2>2. state[j] \in Settling /\ Past(j) /\ sched[j] # "started"
    BY <1>1, <2>1 DEF DrainOK, Joined
  <2>3. cleanupError'[j] = cleanupError[j]
    BY <2>1, <2>2, PastStays
  <2> QED
    BY <1>1, <2>1, <2>3 DEF closeVars
<1>2. CASE Close
  <2>1. DrainReady /\ cleanupError' = cleanupError
    BY <1>2, CloseQuiet DEF Close, PrepareClose, DrainAbort, FinishShutdown, BeginShutdown
  <2> QED
    BY <2>1 DEF DrainReady
<1>3. ASSUME NEW k \in Jobs, CloseCancel(k) \/ WaitStep(k) \/ WaitTimeout(k) PROVE FALSE
  <2>1. CASE CloseCancel(k)
    <3>1. k \in toCancel /\ closer = "ready"
      BY <1>0, <2>1, CancelTurn
    <3> QED
      BY <3>1 DEF TargetsOK
  <2>2. CASE WaitStep(k) \/ WaitTimeout(k)
    BY <1>0, <2>2, WaitTurn
  <2> QED
    BY <1>3, <2>1, <2>2
<1> QED
  BY <1>1, <1>2, <1>3, CloserCases DEF closeVars

LEMMA ReleasedKept ==
  ASSUME IInv, ThreadsOK, TargetsOK, ReleasedOK, ThreadsOK', [Next]_vars
  PROVE  ReleasedOK'
<1>0. TypeOK
  BY DEF IInv
<1> SUFFICES ASSUME closer' = "released"
             PROVE  /\ backendClosed'
                    /\ \A j \in Jobs : /\ state'[j] \in Terminal \cup {"absent"}
                                       /\ Past(j)' /\ worker'[j] # "confirm"
  BY DEF ReleasedOK
<1>1. CASE closer = "released" /\ backendClosed' = backendClosed
  <2>1. backendClosed /\ backendClosed'
    BY <1>1 DEF ReleasedOK
  <2>2. ASSUME NEW j \in Jobs
        PROVE  state'[j] \in Terminal \cup {"absent"} /\ Past(j)' /\ worker'[j] # "confirm"
    <3>1. state[j] \in Terminal \cup {"absent"} /\ Past(j) /\ worker[j] # "confirm"
      BY <1>1 DEF ReleasedOK
    <3>2. CASE state[j] \in Terminal
      <4>1. state[j] \in Settling /\ state'[j] = state[j]
        BY <3>2, StateFacts DEF Settling
      <4>2. Past(j)' /\ worker'[j] # "confirm"
        BY <2>1, <3>1, <3>2, <4>1, PastStays
      <4> QED
        BY <3>1, <4>1, <4>2
    <3>3. CASE state[j] = "absent"
      <4>1. state'[j] = "absent"
        BY <1>1, <3>3, StateFacts
      <4>2. worker'[j] = "idle"
        BY <4>1 DEF ThreadsOK
      <4> QED
        BY <4>1, <4>2 DEF Past
    <3> QED
      BY <3>1, <3>2, <3>3
  <2> QED
    BY <2>1, <2>2
<1>2. CASE Close
  <2>1. FinishShutdown /\ UNCHANGED <<state, worker>>
    BY <1>2, CloseQuiet DEF Close, PrepareClose, DrainReady, DrainAbort, BeginShutdown
  <2>2. /\ closer = "stopping" /\ backendClosed'
        /\ \A j \in targets : waiting[j] = "done" /\ (bound[j] => Joinable(j))
    BY <2>1 DEF FinishShutdown
  <2>3. ASSUME NEW j \in Jobs
        PROVE  state[j] \in Terminal \cup {"absent"} /\ Past(j) /\ worker[j] # "confirm"
    <3>1. CASE j \in targets
      <4>1. state[j] \in Terminal
        BY <2>2, <3>1 DEF TargetsOK
      <4>2. ~bound[j] => worker[j] = "idle"
        BY DEF ThreadsOK
      <4>3. Past(j) /\ worker[j] # "confirm"
        BY <2>2, <3>1, <4>2 DEF Joinable, Past
      <4> QED
        BY <4>1, <4>3
    <3>2. CASE j \notin targets
      <4>1. state[j] = "absent"
        BY <2>2, <3>2 DEF TargetsOK, Known
      <4>2. worker[j] = "idle"
        BY <4>1 DEF ThreadsOK
      <4> QED
        BY <4>1, <4>2 DEF Past
    <3> QED
      BY <3>1, <3>2
  <2> QED
    BY <2>1, <2>2, <2>3 DEF Past
<1>3. CASE \E k \in Jobs : CloseCancel(k) \/ WaitStep(k) \/ WaitTimeout(k)
  BY <1>0, <1>1, <1>3, CancelTurn, WaitTurn
<1> QED
  BY <1>1, <1>2, <1>3, CloserCases DEF closeVars

LEMMA CloseInvStep == CloseInv /\ [Next]_vars => CloseInv'
<1> SUFFICES ASSUME CloseInv, [Next]_vars PROVE CloseInv'
  OBVIOUS
<1>1. IInv /\ ThreadsOK /\ TargetsOK /\ DrainOK /\ ReadyOK /\ ReleasedOK
  BY DEF CloseInv
<1>2. IInv'
  BY <1>1, InvariantStep
<1>3. ThreadsOK'
  BY <1>1, ThreadsKept
<1> QED
  BY <1>1, <1>2, <1>3, TargetsKept, DrainKept, ReadyKept, ReleasedKept DEF CloseInv

LEMMA CloseInvInit == Init => CloseInv
<1> SUFFICES ASSUME Init PROVE CloseInv
  OBVIOUS
<1>1. IInv
  BY InvariantInit
<1>2. ThreadsOK
  BY DEF Init, ThreadsOK
<1>3. TargetsOK /\ DrainOK /\ ReadyOK /\ ReleasedOK
  BY DEF Init, TargetsOK, DrainOK, ReadyOK, ReleasedOK
<1> QED
  BY <1>1, <1>2, <1>3 DEF CloseInv

LEMMA CloseInvariant == Spec => []CloseInv
BY CloseInvInit, CloseInvStep, PTL DEF Spec

-----------------------------------------------------------------------------
(* The results. *)

\* While a close attempt says that the project may be saved (TaskDrain.poll), no job is
\* active, no workload runs or has yet to report how its cleanup went, and no rollback
\* failure is on record: for any jobs and backends, whoever schedules, cancels or signals.
THEOREM ReadyIsQuiet == Spec => []ReadyMeansQuiet
<1>1. CloseInv => ReadyMeansQuiet
  <2> SUFFICES ASSUME CloseInv, closer = "ready", NEW j \in Jobs
               PROVE  /\ state[j] \in Terminal \cup {"absent"}
                      /\ ~cleanupError[j]
                      /\ worker[j] \notin {"running", "cleanup"}
    BY DEF ReadyMeansQuiet
  <2>1. targets = Known
    BY DEF CloseInv, TargetsOK
  <2>2. CASE j \in targets
    <3>1. waiting[j] = "done" /\ ~cleanupError[j]
      BY <2>2 DEF CloseInv, ReadyOK
    <3>2. state[j] \in Terminal
      BY <2>2, <3>1 DEF CloseInv, TargetsOK
    <3>3. Past(j)
      BY <2>2, <3>1 DEF CloseInv, DrainOK, Joined
    <3> QED
      BY <3>1, <3>2, <3>3 DEF Past
  <2>3. CASE state[j] = "absent"
    BY <2>3 DEF CloseInv, ThreadsOK
  <2> QED
    BY <2>1, <2>2, <2>3 DEF Known
<1> QED
  BY <1>1, CloseInvariant, PTL

\* When shutdown() reports that every resource was released, no job is active and no
\* workload runs or is about to, not even one whose schedule() overlapped the shutdown.
THEOREM ReleasedIsStopped == Spec => []ReleasedMeansStopped
<1>1. CloseInv => ReleasedMeansStopped
  BY DEF CloseInv, ReleasedOK, ReleasedMeansStopped, Past
<1> QED
  BY <1>1, CloseInvariant, PTL
=============================================================================
