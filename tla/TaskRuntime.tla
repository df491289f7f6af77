---------------------------- MODULE TaskRuntime ----------------------------
(***************************************************************************)
(* The state authority of long tasks (application/tasks/runtime.py), its   *)
(* execution backends (backends.py) and the close/shutdown coordinator     *)
(* (shutdown.py).                                                          *)
(*                                                                         *)
(* One action is one critical section of the runtime's lock, or one call   *)
(* into a backend.  Four kinds of threads interleave: callers of the       *)
(* public API, the thread inside schedule(), the backend's worker thread,  *)
(* and the thread closing the application.                                 *)
(*                                                                         *)
(* Left out: owners and authorisation (every caller is in scope), progress *)
(* values, event payloads and delivery, and expected_revision (it can only *)
(* refuse a call, and every call here may also not happen).                *)
(***************************************************************************)
EXTENDS Naturals, FiniteSets

CONSTANTS
  Jobs,           \* run ids the id generator can hand out
  Nonces,         \* commit-permit nonces: never handed out twice
  ThreadJobs,     \* scheduled on ThreadBackend
  PoolJobs,       \* scheduled on BoundedThreadPoolBackend
  PreparedJobs,   \* scheduled on a CallbackThreadBackend whose owner starts the work later
  PauseJobs, ResumeJobs, CancelJobs, CheckpointJobs,  \* declared capabilities
  MaxWorkers,     \* workers of the pool
  ShutdownPolicies, \* policies shutdown() is called with; none where only closing is studied
  MaxRevision     \* bound on the revisions callers may drive a job to

ScheduledJobs == ThreadJobs \cup PoolJobs \cup PreparedJobs
DirectJobs    == Jobs \ ScheduledJobs     \* driven by an external adapter, no backend

ASSUME BackendAssumption ==
  /\ ThreadJobs \subseteq Jobs /\ PoolJobs \subseteq Jobs /\ PreparedJobs \subseteq Jobs
  /\ ThreadJobs \cap PoolJobs = {}
  /\ ThreadJobs \cap PreparedJobs = {}
  /\ PoolJobs \cap PreparedJobs = {}

ASSUME CapabilityAssumption ==
  /\ PauseJobs \subseteq Jobs /\ CancelJobs \subseteq Jobs /\ CheckpointJobs \subseteq Jobs
  /\ ResumeJobs \subseteq PauseJobs
  /\ PreparedJobs \subseteq CancelJobs

ASSUME BoundAssumption ==
  /\ MaxWorkers \in 1..3 /\ MaxRevision \in Nat
  /\ ShutdownPolicies \subseteq {"wait", "cancel", "checkpoint-and-cancel"}

-----------------------------------------------------------------------------

VARIABLES
  state,          \* record.state, or "absent" before submit
  revision,       \* record.revision
  token,          \* record.cancellation.is_cancelled
  bound,          \* record.backend is not None
  dispatching,    \* record.dispatching
  cleanupError,   \* record.cleanup_error is set
  checkpointRequested,
  issued,         \* every CommitPermit ever handed out; its holder may present it at any time
  registered,     \* runtime._commit_permits
  runs,           \* [Nonces -> Nat]: times the mutation behind a permit was executed
  finished,       \* [Jobs -> Nat]: FINISHED events published
  sched,          \* the thread inside schedule()
  worker,         \* the backend's worker
  signal,         \* the thread inside _signal_backend_cancellation()
  closer,         \* the thread closing the application
  closePolicy,    \* the policy of the shutdown or drain under way
  targets,        \* records the close waits for
  toCancel,       \* records its cancel loop has not reached
  waiting,        \* TaskShutdown.wait() per record
  backendClosed   \* backend.close() was called

permitVars == <<issued, runs>>
execVars   == <<bound, dispatching, sched, worker>>
closeVars  == <<closer, closePolicy, targets, toCancel, waiting, backendClosed>>
vars == <<state, revision, token, bound, dispatching, cleanupError, checkpointRequested,
          issued, registered, runs, finished, sched, worker, signal, closer, closePolicy,
          targets, toCancel, waiting, backendClosed>>

JobStates == {"queued", "running", "paused", "cancelling", "cancelled", "completed", "failed"}
Terminal  == {"cancelled", "completed", "failed"}
Permit    == [nonce : Nonces, run : Jobs, rev : Nat]

\* A worker that holds its thread: the workload itself, or _finish_after_workload.
Finishing == {"selfCancel", "confirm", "fail", "complete", "cleanup"}
Live      == {"running"} \cup Finishing

SchedPC   == {"idle", "entered", "started", "refused", "leaving", "done"}
WorkerPC  == {"idle", "pending", "revoked", "exited"} \cup Live
SignalPC  == {"none", "hint", "join", "joined", "confirm"}
WaitPC    == {"pending", "joined", "confirm", "settle", "done", "error", "timedout"}
CloserPC  == {"open", "draining", "ready", "stopping", "released", "unreleased"}
Policies  == {"wait", "cancel", "checkpoint-and-cancel"}   \* class ShutdownPolicy

\* Mutant: a job that is being cancelled may still complete.
TransitionsLateCompletion ==
  [absent     |-> {},
   queued     |-> {"running", "cancelled"},
   running    |-> {"paused", "cancelling", "completed", "failed"},
   paused     |-> {"running", "cancelling", "completed", "failed"},
   cancelling |-> {"cancelled", "completed"},
   cancelled  |-> {}, completed |-> {}, failed |-> {}]

\* The transition table.
Transitions ==
  [absent     |-> {},
   queued     |-> {"running", "cancelled"},
   running    |-> {"paused", "cancelling", "completed", "failed"},
   paused     |-> {"running", "cancelling", "completed", "failed"},
   cancelling |-> {"cancelled"},
   cancelled  |-> {}, completed |-> {}, failed |-> {}]

TypeOK ==
  /\ state \in [Jobs -> JobStates \cup {"absent"}]
  /\ revision \in [Jobs -> Nat]
  /\ token \in [Jobs -> BOOLEAN]
  /\ bound \in [Jobs -> BOOLEAN]
  /\ dispatching \in [Jobs -> BOOLEAN]
  /\ cleanupError \in [Jobs -> BOOLEAN]
  /\ checkpointRequested \in [Jobs -> BOOLEAN]
  /\ issued \subseteq Permit
  /\ registered \subseteq issued
  /\ runs \in [Nonces -> Nat]
  /\ finished \in [Jobs -> Nat]
  /\ sched \in [Jobs -> SchedPC]
  /\ worker \in [Jobs -> WorkerPC]
  /\ signal \in [Jobs -> SignalPC]
  /\ closer \in CloserPC
  /\ closePolicy \in Policies
  /\ targets \subseteq Jobs
  /\ toCancel \subseteq targets
  /\ waiting \in [Jobs -> WaitPC]
  /\ backendClosed \in BOOLEAN

Init ==
  /\ state = [j \in Jobs |-> "absent"]
  /\ revision = [j \in Jobs |-> 0]
  /\ token = [j \in Jobs |-> FALSE]
  /\ bound = [j \in Jobs |-> FALSE]
  /\ dispatching = [j \in Jobs |-> FALSE]
  /\ cleanupError = [j \in Jobs |-> FALSE]
  /\ checkpointRequested = [j \in Jobs |-> FALSE]
  /\ issued = {} /\ registered = {}
  /\ runs = [n \in Nonces |-> 0]
  /\ finished = [j \in Jobs |-> 0]
  /\ sched = [j \in Jobs |-> "idle"]
  /\ worker = [j \in Jobs |-> "idle"]
  /\ signal = [j \in Jobs |-> "none"]
  /\ closer = "open"
  /\ closePolicy = "checkpoint-and-cancel"
  /\ targets = {} /\ toCancel = {}
  /\ waiting = [j \in Jobs |-> "pending"]
  /\ backendClosed = FALSE

-----------------------------------------------------------------------------
(* Critical sections shared by the operations. *)

\* Mutant: a transition keeps the permits of the run.
MoveKeepsPermits(j, to) ==
  /\ state' = [state EXCEPT ![j] = to]
  /\ revision' = [revision EXCEPT ![j] = @ + 1]
  /\ registered' = registered
  /\ finished' = IF to \in Terminal THEN [finished EXCEPT ![j] = @ + 1] ELSE finished

\* The assignments of a transition: state, revision, permits of the run, event.
Move(j, to) ==
  /\ state' = [state EXCEPT ![j] = to]
  /\ revision' = [revision EXCEPT ![j] = @ + 1]
  /\ registered' = {p \in registered : p.run # j}
  /\ finished' = IF to \in Terminal THEN [finished EXCEPT ![j] = @ + 1] ELSE finished

Allowed(j, to) == to \in Transitions[state[j]]

Transition(j, to) ==
  /\ Allowed(j, to)
  /\ Move(j, to)
  /\ UNCHANGED <<token, cleanupError, checkpointRequested>>

\* A TransitionError that the caller swallows leaves the record alone.
TransitionOrIgnore(j, to) ==
  \/ Transition(j, to)
  \/ /\ ~Allowed(j, to)
     /\ UNCHANGED <<state, revision, registered, finished, token, cleanupError,
                    checkpointRequested>>

CancelTarget(j) == IF state[j] = "queued" THEN "cancelled" ELSE "cancelling"
Cancellable(j)  == j \in CancelJobs /\ Allowed(j, CancelTarget(j))

\* Mutant: the token is left for the worker to set.
CancelTransitionUnset(j, preserve) ==
  /\ Cancellable(j)
  /\ Move(j, CancelTarget(j))
  /\ checkpointRequested' = [checkpointRequested EXCEPT ![j] = preserve /\ j \in CheckpointJobs]
  /\ UNCHANGED <<token, cleanupError>>

CancelTransition(j, preserve) ==
  /\ Cancellable(j)
  /\ Move(j, CancelTarget(j))
  /\ token' = [token EXCEPT ![j] = TRUE]
  /\ checkpointRequested' = [checkpointRequested EXCEPT ![j] = preserve /\ j \in CheckpointJobs]
  /\ UNCHANGED cleanupError

-----------------------------------------------------------------------------
(* Calls of the public API. *)

\* submit(): admission is checked under the lock that registers the job.
Submit(j) ==
  /\ closer = "open"
  /\ state[j] = "absent"
  /\ state' = [state EXCEPT ![j] = "queued"]
  /\ UNCHANGED <<revision, token, cleanupError, checkpointRequested, registered, finished,
                 signal>>
  /\ UNCHANGED permitVars /\ UNCHANGED execVars /\ UNCHANGED closeVars

\* Mutant: late progress is recorded for a job that has ended.
UpdateProgressAlways(j) ==
  /\ state[j] \in JobStates
  /\ revision[j] < MaxRevision
  /\ revision' = [revision EXCEPT ![j] = @ + 1]
  /\ UNCHANGED <<state, token, cleanupError, checkpointRequested, registered, finished, signal>>
  /\ UNCHANGED permitVars /\ UNCHANGED execVars /\ UNCHANGED closeVars

\* update_progress(): advances the revision without discarding permits.
UpdateProgress(j) ==
  /\ state[j] \in JobStates \ Terminal
  /\ revision[j] < MaxRevision
  /\ revision' = [revision EXCEPT ![j] = @ + 1]
  /\ UNCHANGED <<state, token, cleanupError, checkpointRequested, registered, finished, signal>>
  /\ UNCHANGED permitVars /\ UNCHANGED execVars /\ UNCHANGED closeVars

ApiFrame == UNCHANGED signal /\ UNCHANGED permitVars /\ UNCHANGED execVars /\ UNCHANGED closeVars

\* start() by an external adapter; a paused job needs no resume capability here.
Start(j) == j \in DirectJobs /\ revision[j] < MaxRevision /\ Transition(j, "running") /\ ApiFrame

Pause(j)  == j \in PauseJobs  /\ revision[j] < MaxRevision /\ Transition(j, "paused") /\ ApiFrame
\* resume() is offered for a paused job only (controls()).
Resume(j) == j \in ResumeJobs /\ state[j] = "paused" /\ Transition(j, "running") /\ ApiFrame

\* Scheduled workloads may complete their own job before they return (batch download).
Complete(j) ==
  /\ j \in ScheduledJobs => worker[j] = "running"
  /\ Transition(j, "completed")
  /\ ApiFrame

Fail(j) ==
  /\ j \in DirectJobs \/ (j \in PreparedJobs /\ worker[j] \in {"pending", "running"})
  /\ Transition(j, "failed")
  /\ ApiFrame

\* finish_cancelled() by an adapter or the task manager: each of them cancels first.
FinishCancelled(j) ==
  /\ j \in DirectJobs \cup PreparedJobs
  /\ state[j] = "cancelling"
  /\ Transition(j, "cancelled")
  /\ ApiFrame

\* cancel() and stop(): the transition; the caller then signals the backend.
Cancel(j, preserve) ==
  /\ CancelTransition(j, preserve)
  /\ signal' = [signal EXCEPT ![j] = "hint"]
  /\ UNCHANGED permitVars /\ UNCHANGED execVars /\ UNCHANGED closeVars

\* commit_permit(): the nonce is fresh.
IssuePermit(j, n) ==
  /\ state[j] = "running" /\ ~token[j]
  /\ \A p \in issued : p.nonce # n
  /\ LET p == [nonce |-> n, run |-> j, rev |-> revision[j]] IN
       /\ issued' = issued \cup {p}
       /\ registered' = registered \cup {p}
  /\ UNCHANGED <<state, revision, token, cleanupError, checkpointRequested, finished, runs, signal>>
  /\ UNCHANGED execVars /\ UNCHANGED closeVars

CommitAllowed(p) ==
  /\ state[p.run] = "running"
  /\ ~token[p.run]
  /\ revision[p.run] = p.rev
  /\ p \in registered

\* try_commit(), refused: the permit is consumed and an IGNORED event recorded.
CommitIgnored(p) ==
  /\ ~CommitAllowed(p)
  /\ registered' = registered \ {p}
  /\ UNCHANGED <<state, revision, token, cleanupError, checkpointRequested, finished, signal>>
  /\ UNCHANGED permitVars /\ UNCHANGED execVars /\ UNCHANGED closeVars

\* Mutant: a successful mutation does not advance the record.
CommitAcceptedInPlace(p, raises) ==
  /\ CommitAllowed(p)
  /\ runs' = [runs EXCEPT ![p.nonce] = @ + 1]
  /\ registered' = registered \ {p}
  /\ UNCHANGED <<state, revision, finished, token, cleanupError, checkpointRequested, issued,
                 signal>>
  /\ UNCHANGED execVars /\ UNCHANGED closeVars

\* try_commit(), accepted: the mutation runs under the lock and succeeds or raises.
CommitAccepted(p, raises) ==
  /\ CommitAllowed(p)
  /\ runs' = [runs EXCEPT ![p.nonce] = @ + 1]
  /\ Move(p.run, IF raises THEN "failed" ELSE "running")
  /\ UNCHANGED <<token, cleanupError, checkpointRequested, issued, signal>>
  /\ UNCHANGED execVars /\ UNCHANGED closeVars

-----------------------------------------------------------------------------
(* The thread inside schedule(). *)

SchedFrame == UNCHANGED <<signal, bound>> /\ UNCHANGED permitVars /\ UNCHANGED closeVars

ScheduleEnter(j) ==
  /\ j \in ScheduledJobs /\ state[j] # "absent" /\ sched[j] = "idle"
  /\ bound' = [bound EXCEPT ![j] = TRUE]
  /\ dispatching' = [dispatching EXCEPT ![j] = TRUE]
  /\ sched' = [sched EXCEPT ![j] = "entered"]
  /\ UNCHANGED <<state, revision, token, cleanupError, checkpointRequested, registered,
                 finished, worker, signal>>
  /\ UNCHANGED permitVars /\ UNCHANGED closeVars

\* self.start(): a TransitionError goes straight to the finally block.
ScheduleStart(j) ==
  /\ sched[j] = "entered"
  /\ TransitionOrIgnore(j, "running")
  /\ sched' = [sched EXCEPT ![j] = IF Allowed(j, "running") THEN "started" ELSE "leaving"]
  /\ UNCHANGED <<dispatching, worker>>
  /\ SchedFrame

\* selected.start(): a native thread runs at once, other backends queue the work.
ScheduleLaunch(j) ==
  /\ sched[j] = "started"
  /\ ~backendClosed \/ j \in PreparedJobs
  /\ worker' = [worker EXCEPT ![j] = IF j \in ThreadJobs THEN "running" ELSE "pending"]
  /\ sched' = [sched EXCEPT ![j] = "leaving"]
  /\ UNCHANGED <<state, revision, token, cleanupError, checkpointRequested, registered,
                 finished, dispatching>>
  /\ SchedFrame

\* selected.start() raises: admission closed, or the platform refuses a thread.
ScheduleRefused(j) ==
  /\ sched[j] = "started"
  /\ sched' = [sched EXCEPT ![j] = "refused"]
  /\ UNCHANGED <<state, revision, token, cleanupError, checkpointRequested, registered,
                 finished, dispatching, worker>>
  /\ SchedFrame

ScheduleFail(j) ==
  /\ sched[j] = "refused"
  /\ TransitionOrIgnore(j, "failed")
  /\ sched' = [sched EXCEPT ![j] = "leaving"]
  /\ UNCHANGED <<dispatching, worker>>
  /\ SchedFrame

\* The finally block.
ScheduleLeave(j) ==
  /\ sched[j] = "leaving"
  /\ dispatching' = [dispatching EXCEPT ![j] = FALSE]
  /\ sched' = [sched EXCEPT ![j] = "done"]
  /\ UNCHANGED <<state, revision, token, cleanupError, checkpointRequested, registered,
                 finished, worker>>
  /\ SchedFrame

ScheduleStep(j) ==
  \/ ScheduleStart(j) \/ ScheduleLaunch(j) \/ ScheduleRefused(j)
  \/ ScheduleFail(j) \/ ScheduleLeave(j)

-----------------------------------------------------------------------------
(* The backend's worker: the workload, then _finish_after_workload. *)

WorkerFrame == UNCHANGED <<bound, dispatching, sched, signal>>
               /\ UNCHANGED permitVars /\ UNCHANGED closeVars
RecordUnchanged == UNCHANGED <<state, revision, token, cleanupError, checkpointRequested,
                               registered, finished>>

GoTo(j, pc) == worker' = [worker EXCEPT ![j] = pc]

\* A pool thread picks the future up.
PoolBegin(j) ==
  /\ j \in PoolJobs /\ worker[j] = "pending"
  /\ Cardinality({k \in PoolJobs : worker[k] \in Live}) < MaxWorkers
  /\ GoTo(j, "running")
  /\ RecordUnchanged /\ WorkerFrame

\* The owner of prepared work starts it: it waits while paused, and a job that was
\* cancelled or ended meanwhile raises before the workload proper begins.
PreparedBegin(j) ==
  /\ j \in PreparedJobs /\ worker[j] = "pending"
  /\ \/ state[j] = "running"    /\ GoTo(j, "running")
     \/ state[j] = "cancelling" /\ GoTo(j, "confirm")
     \/ state[j] \in Terminal   /\ GoTo(j, "exited")
  /\ RecordUnchanged /\ WorkerFrame

\* The workload ends and the state is read once, under the lock; the lock is released
\* before the step that acts on it.  A normal return with the token set counts as
\* cancelled, which is the "confirm" case: a token is set only with its state.
WorkloadEnds(j, outcome) ==
  /\ worker[j] = "running"
  /\ GoTo(j, CASE outcome = "cleanup-failed" -> "cleanup"
               [] outcome # "cleanup-failed" /\ state[j] \in Terminal -> "exited"
               [] outcome # "cleanup-failed" /\ state[j] = "cancelling" -> "confirm"
               [] outcome = "cancelled" /\ state[j] \in {"running", "paused"} -> "selfCancel"
               [] outcome = "error" /\ state[j] \in {"running", "paused"} -> "fail"
               [] OTHER -> "complete")
  /\ RecordUnchanged /\ WorkerFrame

\* Mutant: a failed cleanup fails the job even when it has ended.
FinishCleanupAlways(j) ==
  /\ worker[j] = "cleanup"
  /\ Move(j, "failed")
  /\ cleanupError' = [cleanupError EXCEPT ![j] = TRUE]
  /\ GoTo(j, "exited")
  /\ UNCHANGED <<token, checkpointRequested>>
  /\ WorkerFrame

\* TaskCleanupFailed: FAILED even from CANCELLING; a terminal record keeps the evidence.
FinishCleanup(j) ==
  /\ worker[j] = "cleanup"
  /\ IF Allowed(j, "failed") \/ state[j] = "cancelling"
       THEN Move(j, "failed")
       ELSE UNCHANGED <<state, revision, registered, finished>>
  /\ cleanupError' = [cleanupError EXCEPT ![j] = TRUE]
  /\ GoTo(j, "exited")
  /\ UNCHANGED <<token, checkpointRequested>>
  /\ WorkerFrame

\* cancel() from the worker's own thread: its join() of itself is always False.
FinishSelfCancel(j) ==
  /\ worker[j] = "selfCancel"
  /\ \/ CancelTransition(j, FALSE) /\ GoTo(j, "confirm")
     \/ ~Cancellable(j) /\ RecordUnchanged /\ GoTo(j, "exited")
  /\ WorkerFrame

FinishConfirm(j) ==
  /\ worker[j] = "confirm"
  /\ TransitionOrIgnore(j, "cancelled")
  /\ GoTo(j, "exited")
  /\ WorkerFrame

FinishFail(j) ==
  /\ worker[j] = "fail"
  /\ TransitionOrIgnore(j, "failed")
  /\ GoTo(j, "exited")
  /\ WorkerFrame

FinishComplete(j) ==
  /\ worker[j] = "complete"
  /\ TransitionOrIgnore(j, "completed")
  /\ GoTo(j, "exited")
  /\ WorkerFrame

FinishStep(j) ==
  \/ FinishCleanup(j) \/ FinishSelfCancel(j) \/ FinishConfirm(j)
  \/ FinishFail(j) \/ FinishComplete(j)

-----------------------------------------------------------------------------
(* _signal_backend_cancellation(): outside the lock except where noted. *)

\* backend.join(run_id, 0): true for work the backend has not registered.
Joinable(j) ==
  \/ worker[j] \in {"idle", "revoked", "exited"}
  \/ j \in PreparedJobs /\ worker[j] = "pending"

SignalFrame == UNCHANGED <<bound, dispatching, sched>> /\ UNCHANGED permitVars
               /\ UNCHANGED closeVars

\* Without a backend nothing is signalled; the pool revokes work it has not begun.
SignalHint(j) ==
  /\ signal[j] = "hint"
  /\ signal' = [signal EXCEPT ![j] = IF bound[j] THEN "join" ELSE "none"]
  /\ IF bound[j] /\ j \in PoolJobs /\ worker[j] = "pending"
       THEN GoTo(j, "revoked") ELSE UNCHANGED worker
  /\ RecordUnchanged /\ SignalFrame

SignalJoin(j) ==
  /\ signal[j] = "join"
  /\ signal' = [signal EXCEPT ![j] = IF Joinable(j) THEN "joined" ELSE "none"]
  /\ UNCHANGED worker
  /\ RecordUnchanged /\ SignalFrame

\* Under the lock: dispatching is read after the join it is meant to qualify.
SignalObserve(j) ==
  /\ signal[j] = "joined"
  /\ signal' = [signal EXCEPT ![j] =
                  IF state[j] = "cancelling" /\ ~dispatching[j] THEN "confirm" ELSE "none"]
  /\ UNCHANGED worker
  /\ RecordUnchanged /\ SignalFrame

SignalConfirm(j) ==
  /\ signal[j] = "confirm"
  /\ TransitionOrIgnore(j, "cancelled")
  /\ signal' = [signal EXCEPT ![j] = "none"]
  /\ UNCHANGED worker
  /\ SignalFrame

SignalStep(j) == SignalHint(j) \/ SignalJoin(j) \/ SignalObserve(j) \/ SignalConfirm(j)

-----------------------------------------------------------------------------
(* TaskDrain and TaskShutdown. *)

Known == {j \in Jobs : state[j] # "absent"}

CloseFrame == UNCHANGED permitVars /\ UNCHANGED execVars

\* prepare_close(): hold admission and take the records.
PrepareClose ==
  /\ closer = "open"
  /\ closer' = "draining"
  /\ closePolicy' = "checkpoint-and-cancel"
  /\ targets' = Known /\ toCancel' = Known
  /\ waiting' = [j \in Jobs |-> "pending"]
  /\ UNCHANGED <<backendClosed, signal>> /\ RecordUnchanged /\ CloseFrame

\* shutdown(): admission closes for good; under WAIT nothing is cancelled.
BeginShutdown(policy) ==
  /\ closer \in {"open", "ready"}
  /\ closer' = "stopping"
  /\ closePolicy' = policy
  /\ targets' = Known
  /\ toCancel' = IF policy = "wait" THEN {} ELSE Known
  /\ waiting' = [j \in Jobs |-> "pending"]
  /\ UNCHANGED <<backendClosed, signal>> /\ RecordUnchanged /\ CloseFrame

\* One turn of cancel(): stop() the record, skip it, or note that it cannot be cancelled.
CloseCancel(j) ==
  /\ j \in toCancel
  /\ toCancel' = toCancel \ {j}
  /\ \/ /\ CancelTransition(j, closePolicy = "checkpoint-and-cancel")
        /\ signal' = [signal EXCEPT ![j] = "hint"]
        /\ UNCHANGED waiting
     \/ /\ ~Cancellable(j)
        /\ RecordUnchanged /\ UNCHANGED signal
        /\ waiting' = IF closer = "draining" /\ state[j] \notin Terminal \cup {"cancelling"}
                        THEN [waiting EXCEPT ![j] = "error"] ELSE waiting
  /\ UNCHANGED <<closer, closePolicy, targets, backendClosed>> /\ CloseFrame

WaitEnabled(j, pc) ==
  /\ closer \in {"draining", "stopping"} /\ toCancel = {}
  /\ j \in targets /\ waiting[j] = pc

WaitGoTo(j, pc) ==
  /\ waiting' = [waiting EXCEPT ![j] = pc]
  /\ UNCHANGED <<closer, closePolicy, targets, toCancel, backendClosed, signal>>
  /\ CloseFrame

\* Mutant: the backend is joined while schedule() may still launch the work.
WaitJoinWhileDispatching(j) ==
  /\ WaitEnabled(j, "pending")
  /\ bound[j] => Joinable(j)
  /\ WaitGoTo(j, IF bound[j] THEN "joined" ELSE "settle")
  /\ RecordUnchanged

\* wait(): first until schedule() has left, then join the backend.
WaitJoin(j) ==
  /\ WaitEnabled(j, "pending")
  /\ ~dispatching[j]
  /\ bound[j] => Joinable(j)
  /\ WaitGoTo(j, IF bound[j] THEN "joined" ELSE "settle")
  /\ RecordUnchanged

\* Mutant: a joined job is left to its own worker to confirm.
WaitObserveOnly(j) ==
  /\ WaitEnabled(j, "joined")
  /\ WaitGoTo(j, "settle")
  /\ RecordUnchanged

WaitObserve(j) ==
  /\ WaitEnabled(j, "joined")
  /\ WaitGoTo(j, IF state[j] = "cancelling" THEN "confirm" ELSE "settle")
  /\ RecordUnchanged

WaitConfirm(j) ==
  /\ WaitEnabled(j, "confirm")
  /\ TransitionOrIgnore(j, "cancelled")
  /\ WaitGoTo(j, "settle")

\* A record that is not terminal is polled again.
WaitSettle(j) ==
  /\ WaitEnabled(j, "settle")
  /\ WaitGoTo(j, IF state[j] \in Terminal THEN "done" ELSE "pending")
  /\ RecordUnchanged

\* shutdown() stops waiting when its grace is over.
WaitTimeout(j) ==
  /\ closer = "stopping"
  /\ WaitEnabled(j, "pending") \/ WaitEnabled(j, "settle")
  /\ WaitGoTo(j, "timedout")
  /\ RecordUnchanged

WaitStep(j) == WaitJoin(j) \/ WaitObserve(j) \/ WaitConfirm(j) \/ WaitSettle(j)

\* A poll that reports neither a pending record nor an error: saving may begin.
DrainReady ==
  /\ closer = "draining" /\ toCancel = {}
  /\ \A j \in targets : waiting[j] = "done" /\ ~cleanupError[j]
  /\ closer' = "ready"
  /\ UNCHANGED <<closePolicy, targets, toCancel, waiting, backendClosed, signal>>
  /\ RecordUnchanged /\ CloseFrame

\* Mutant: releasing the hold forgets the cancel loop.
DrainAbortMidway ==
  /\ closer \in {"draining", "ready"}
  /\ closer' = "open"
  /\ targets' = {}
  /\ UNCHANGED <<toCancel, closePolicy, waiting, backendClosed, signal>>
  /\ RecordUnchanged /\ CloseFrame

\* The user returns, polling times out or reports errors: the hold is released.
DrainAbort ==
  /\ closer \in {"draining", "ready"}
  /\ closer' = "open"
  /\ targets' = {} /\ toCancel' = {}
  /\ UNCHANGED <<closePolicy, waiting, backendClosed, signal>>
  /\ RecordUnchanged /\ CloseFrame

\* Mutant: jobs that outlasted the grace are not counted.
FinishShutdownOptimistic ==
  /\ closer = "stopping" /\ toCancel = {}
  /\ \A j \in targets : waiting[j] \in {"done", "timedout"}
  /\ backendClosed' = TRUE
  /\ closer' = "released"
  /\ UNCHANGED <<closePolicy, targets, toCancel, waiting, signal>>
  /\ RecordUnchanged /\ CloseFrame

\* Close the backends and report whether every resource was released.
FinishShutdown ==
  /\ closer = "stopping" /\ toCancel = {}
  /\ \A j \in targets : waiting[j] \in {"done", "timedout"}
  /\ backendClosed' = TRUE
  /\ closer' = IF \A j \in targets : waiting[j] = "done" /\ (bound[j] => Joinable(j))
                 THEN "released" ELSE "unreleased"
  /\ UNCHANGED <<closePolicy, targets, toCancel, waiting, signal>>
  /\ RecordUnchanged /\ CloseFrame

-----------------------------------------------------------------------------

Api(j) ==
  \/ Submit(j) \/ UpdateProgress(j) \/ Start(j) \/ Pause(j) \/ Resume(j)
  \/ Complete(j) \/ Fail(j) \/ FinishCancelled(j)
  \/ \E preserve \in BOOLEAN : Cancel(j, preserve)
  \/ \E n \in Nonces : IssuePermit(j, n)

Outcomes == {"normal", "cancelled", "error", "cleanup-failed"}

Close ==
  \/ PrepareClose \/ DrainReady \/ DrainAbort \/ FinishShutdown
  \/ \E policy \in ShutdownPolicies : BeginShutdown(policy)

Next ==
  \/ \E j \in Jobs :
       \/ Api(j)
       \/ ScheduleEnter(j) \/ ScheduleStep(j)
       \/ PoolBegin(j) \/ PreparedBegin(j) \/ FinishStep(j)
       \/ \E outcome \in Outcomes : WorkloadEnds(j, outcome)
       \/ SignalStep(j)
       \/ CloseCancel(j) \/ WaitStep(j) \/ WaitTimeout(j)
  \/ \E p \in issued : CommitIgnored(p) \/ \E raises \in BOOLEAN : CommitAccepted(p, raises)
  \/ Close

Spec == Init /\ [][Next]_vars

-----------------------------------------------------------------------------
(* Properties. *)

\* The token is set exactly by a cancellation: a job that may still publish, or that
\* completed, never had a cancel request accepted, and CANCELLED is never reached
\* without one (test_cancelling_event_never_exposes_an_unset_token).
CancelBarrier ==
  \A j \in Jobs :
    /\ state[j] \in {"absent", "queued", "running", "paused", "completed"} => ~token[j]
    /\ state[j] \in {"cancelling", "cancelled"} => token[j]

\* A permit the runtime still honours belongs to a running job and is no newer than it:
\* no pause, cancel or terminal transition leaves a usable permit behind.
PermitsLive ==
  \A p \in registered : state[p.run] = "running" /\ p.rev <= revision[p.run]

\* Whatever order permits are issued, presented and presented again, a permit executes
\* its mutation at most once and no two mutations are executed at one revision of a job.
OneEffectPerRevision ==
  /\ \A n \in Nonces : runs[n] <= 1
  /\ \A p, q \in issued :
       (p.run = q.run /\ p.rev = q.rev /\ runs[p.nonce] > 0 /\ runs[q.nonce] > 0) => p = q

\* Four code paths can end a job (transition, cancel of a queued job, failed mutation,
\* failed cleanup); together they publish exactly one FINISHED event per ended job, which
\* the append-only history relies on.
FinishedOnce ==
  \A j \in Jobs : finished[j] = IF state[j] \in Terminal THEN 1 ELSE 0

\* Once a close attempt reports that the project may be saved, and until it releases its
\* hold, no job is active, no workload runs or has yet to report how its cleanup went, and
\* no rollback failure is on record.
ReadyMeansQuiet ==
  closer = "ready" =>
    \A j \in Jobs :
      /\ state[j] \in Terminal \cup {"absent"}
      /\ ~cleanupError[j]
      /\ worker[j] \notin {"running", "cleanup"}

\* shutdown() claims backend_released only when no job is active and no workload runs or
\* has yet to report its cleanup, also for schedule() calls that overlap the shutdown.
ReleasedMeansStopped ==
  closer = "released" =>
    \A j \in Jobs :
      /\ state[j] \in Terminal \cup {"absent"}
      /\ worker[j] \notin {"running", "cleanup"}

\* A terminal record never changes its state or revision, whichever late worker, signal,
\* adapter or closing thread still acts on it.
TerminalIsFinal ==
  [][\A j \in Jobs : state[j] \in Terminal =>
       state'[j] = state[j] /\ revision'[j] = revision[j]]_vars

\* ADR-019 section 5 orders the cancellation: the workload stops at a safe point (step 3)
\* before the cancelled state is committed (step 5).
CancelledMeansStopped ==
  \A j \in ThreadJobs \cup PoolJobs : state[j] = "cancelled" => worker[j] # "running"

-----------------------------------------------------------------------------
(* Fairness: the program's own threads keep running, a workload returns once its token *)
(* is set or its job has ended, and the callers of the API owe nothing.                *)

MustReturn(j) == token[j] \/ state[j] \in Terminal

ThreadFairness(j) ==
  /\ WF_vars(ScheduleStep(j))
  /\ WF_vars(FinishStep(j))
  /\ WF_vars(SignalStep(j))
  /\ WF_vars(PoolBegin(j))
  /\ WF_vars(MustReturn(j) /\ \E outcome \in Outcomes : WorkloadEnds(j, outcome))

CloseFairness(j) == WF_vars(CloseCancel(j)) /\ WF_vars(WaitStep(j))

FairSpec == Spec /\ \A j \in Jobs : ThreadFairness(j) /\ CloseFairness(j)

\* A close attempt that is not abandoned drives every scheduled job it found to a
\* terminal state, whatever its worker and the other controls were doing.
DrainSettles ==
  \A j \in ScheduledJobs \cap CancelJobs :
    (closer = "draining" /\ j \in targets) ~>
      (state[j] \in Terminal \/ closer # "draining")

\* ADR-019 section 5, step 5: a cancellation ends by committing the cancelled state (or,
\* when cleanup fails, the failed one).
CancelSettles ==
  \A j \in ScheduledJobs : (state[j] = "cancelling") ~> (state[j] \in Terminal)
=============================================================================
