# TransBridge: models, checks and proofs

TransBridge is a desktop application (Python, about 233 000 lines under
`src/src/transbridge`) that translates game plugins: it opens a *Project* with
several *Variants* (one per target language or version), runs long tasks
(translation, synchronisation, publishing, assistant requests) next to the user
interface, and keeps everything in JSON documents on disk that several processes
may share.

This directory holds TLA+ models of the parts whose correctness depends on
interleavings, failures and crashes, the TLC configurations that check them, and
TLAPS proofs. Paths below are relative to `src/src/transbridge`.

Contents: 1 inventory, 2 task runtime, 3 saving a Project, 4 activating a working
copy, 5 updating the source file, 6 publishing a plugin, 7 assistant requests, 8 runs
and bounds, 9 proofs, 10 where code and documents disagree, 11 what is not modelled
and the plan, 12 how to run.

## 1. Inventory

| Component | State it keeps | Operations | Talks to | What is hard |
|---|---|---|---|---|
| Task runtime `application/tasks/{runtime,backends,controls,shutdown}.py` | job records (state, revision, token, backend), registered commit permits, admission flags | submit, schedule, pause, resume, cancel, stop, complete, fail, commit_permit, try_commit, drain, shutdown | backends' threads, UI close, assistant bridge | lock released between reading a state and acting on it; close against launch |
| Task views `tasks/{projection,activity,history}.py` | last snapshot per run, append-only history | on event | runtime's events | events are delivered outside the lock |
| Task checkpoints `tasks/{checkpoint_fs,recovery,retry,graph_workload}.py` | checkpoint file per run, high-water revisions | save, load, delete, restart | files, runtime | delayed save after delete; crash |
| Project lifecycle `application/projects/lifecycle.py`, `durable_variant.py` | the active working copy, its persisted revisions, a generation | prepare/commit transition, save, commit content | loader, unit of work, UI | working copy stale against the disk |
| Project save protocol `persistence/v2/project_save_journal.py` | `project-save-journal/`, the two formal documents | commit, recover_pending | repositories, write lock | two files, one promise; crash and failing I/O at any step |
| Write lock `persistence/v2/{project_write_lock,session_write_lease}.py` | an OS lock per data root, recovery callbacks | enter (with recovery), reading (without) | all three journals | recovery happens on entry, reads skip it |
| Repositories `persistence/v2/repository.py` | project, variant and session records | load, save_if_revision, restore_bytes_if_match, delete | files | compare and replace under a lock others may ignore |
| Activation protocol `persistence/v2/project_activation_journal.py` | `project-activation-journal/`, active pointer, terminology choice | commit, recover_pending | repositories, baselines | N participants, committed marker, baselines outside the journal |
| Source update `persistence/source_update_store.py` | `source-update-journal/`, all Variants of a Project | commit, recover | repositories | N+1 documents, marker, backups |
| Provisioning, deletion, catalog `persistence/project_*.py` | catalog, new records | provision, rename, delete, repair | repositories | compensation in process only |
| Publishing `application/io/publish/{plugin_bundle,coordinator}.py` | staged and published files, backups | stage, validate, back up, replace, restore | tasks' commit permit, file system | several files, one promise; cleanup and rollback that fail |
| Sessions `application/sessions`, `persistence/session_lifecycle.py` | transcripts, attachments, tombstones | create, append, delete, clean up | assistant | late writer against deletion |
| Assistant requests `application/assistant_requests` | the saved request (items, batches, operations), turn lease, write resource, event router | admit, begin batch, record step and operation, stop, amend, settle, recover | tools, task runtime, models, Session store | tool workers, jobs and commands interleave; every save may fail; restart |
| Terminology synchronisation `application/terminology_sync` | plan, remote results | execute, verify, resume | ParaTranz | lost answers, repeated writes |
| Synchronisation `application/sync`, `paratranz` | plans, baselines | upload, download | remote service | remote changes between plan and act |
| Translation workflows `application/translation`, `ai_translator` | candidates, batch progress | run, checkpoint, merge | LLM clients, task runtime | partial results, cancellation |
| Smart assistant `smart_assistant` | conversation, tool calls | run, approve, cancel | requests, task bridge | callbacks from worker threads |
| LLM infrastructure `infra` | caches, connection limits | call | remote services | bounded concurrency |
| Formats `parser`, `writer`, `converter`, `fomod`, `application/io` | none | parse, render | files | data transformation, sequential |
| User interface `ui` | view models | Qt signals | everything | re-entrancy of the event loop |

What makes each correct, for the components that are modelled or planned:

* *Task runtime*: a cancel request is a barrier after which no formal mutation
  runs; a job ends once; a permit has effect once; closing the application
  reports quiet only when it is.
* *Views, history*: never move backwards; one history entry per finished run.
* *Project save, activation, source update*: documents change together or not at
  all, across failures and crashes of any process; nothing acknowledged is lost;
  nothing foreign is overwritten; every interrupted state can be recovered.
* *Publishing*: all targets of a plugin are replaced or none; what is replaced can be
  put back; the result reported is what the files show.
* *Assistant requests*: a request ends only when nothing of it is open; no item is
  written twice; success needs a saved commit; one writer at a time; a stop settles.
* *Checkpoints, sessions, synchronisation*: late, repeated or lost calls do not
  resurrect what was deleted nor apply twice.

`PROJECT.json` lists the hazards with the line where each bites and the properties
that would catch it.

## 2. The task runtime

Modules: `TaskRuntime` (the code), `TaskLifecycle` (what it promises),
`TaskRuntimeRefinement` (the mapping), `TaskRuntimeProofs` and `TaskCloseProofs`.

`runtime.py` guards its records with one lock, so one action of `TaskRuntime` is
one critical section of that lock or one call into a backend. Four kinds of
threads interleave:

* callers of the public API: `Submit`, `UpdateProgress`, `Start`, `Pause`,
  `Resume`, `Complete`, `Fail`, `FinishCancelled`, `Cancel`, `IssuePermit`,
  `CommitIgnored`, `CommitAccepted`. `Cancel` leaves a pending `signal[j]`; the
  steps `SignalHint`, `SignalJoin`, `SignalObserve`, `SignalConfirm` are the rest
  of `_signal_backend_cancellation`, which runs without the lock in between;
* the thread inside `schedule()`: `sched[j]` goes entered, started (or refused),
  leaving, done, so that a cancel or a close can come before the launch, between
  launch and leave, and after;
* the worker: `worker[j]`, first the workload, then the branch
  `_finish_after_workload` chose when it read the state (`WorkloadEnds`), and later
  the step that acts on that choice (`Finish...`);
* the closing thread: `PrepareClose`, `CloseCancel`, the `Wait...` steps per
  record, then `DrainReady` or `DrainAbort`; `BeginShutdown` to `FinishShutdown`.

Three backends are told apart by `ThreadJobs`, `PoolJobs` and `PreparedJobs`
(`ThreadBackend`, `BoundedThreadPoolBackend`, and the callback backend of
`smart_assistant/tools/task_runtime_bridge.py`, whose owner starts the work
later); jobs in none of them are driven by an external adapter.

The record of a permit is its nonce, its job and the revision it was issued at. A
permit can be presented at any time and any number of times (`issued`), the
runtime honours those in `registered`.

Abstractions: owners and authorisation; progress values; event payloads and their
delivery; `expected_revision` (it can only refuse a call, and every call may also
not happen); the order of the closing thread's cancel loop is arbitrary; a drain and
a shutdown do not overlap; a target that `wait()` found done stays done; the records
a shutdown waits for are all known ones; the failure of the operating system to start
a thread is `ScheduleRefused` (the thread backend has registered the thread by then, so a later
`join` of it raises in the code, where `Joinable` lets it return; no property rests on it). Each job is scheduled at most once and has one
cancelling caller's signal in flight, and no mutation calls the runtime again.

Properties (all in `TaskRuntime`): `TypeOK`; `CancelBarrier`, `PermitsLive`,
`OneEffectPerRevision`, `FinishedOnce`, `ReadyMeansQuiet`, `ReleasedMeansStopped`;
the action property `TerminalIsFinal`; the liveness property `DrainSettles`; and
`LifecycleSpec`, the refinement of `TaskLifecycle`. `CancelSettles` and
`CancelledMeansStopped` state two sentences of ADR-019 that the code does not keep
(section 10).

`ReadyMeansQuiet` speaks of the workload and of the report of its cleanup, not of
the worker's last step: the thread may still be inside `_finish_after_workload`,
which can no longer change a terminal record.

Fairness (`FairSpec`): the steps of `schedule()`, of a finishing worker, of a signal
and of the closing thread are weakly fair because they are straight-line code in
threads that the program itself started; the pool's threads pick up futures; a
workload returns once its token is set or its job has ended, which is what the
cooperative token asks of every workload. Callers of the API and the user owe
nothing, and no workload has to end on its own.

`CHECK_DEADLOCK FALSE`: a released runtime whose jobs have ended has no step left.

## 3. Saving a Project

Modules: `ProjectSave` (the code), `AtomicSave` (what it promises),
`ProjectSaveRefinement` (the mapping), `ProjectSaveProofs`, `ProjectSaveMC` (symmetry for TLC).

A save may write the Project, the Variant, or both. Only a save of both keeps a
journal with both preimages and both targets. Every entry of the write lock first
resolves what earlier processes left: both documents new, forward; both old, back;
Project old and Variant new, the Variant's preimage is restored; anything else is
refused and the journal stays. In the model one action is one file operation, or the
reads that precede it; `pc[p]` names where a process stands:

| `pc` | code |
|---|---|
| ready, peeked, opening | reading the candidate, one document at a time, each under `reading()`, which does not recover |
| recover, restored, forward, back | `_recover_journal` on entry of the lock, or for the save's own journal after an exception (`duty` = "failed") |
| activate | the digest check of the activation, inside the lock |
| compare, journal, variant, variantCheck, project, projectCheck, compensate, finish | `ProjectSaveProtocol.commit` |
| reconcile | `durable_variant.py` reads the disk again before it reports a failure |

A document is a revision and an author. Equality of documents is equality of
digests. `known[p]` holds the documents a process opened or last saved; its save
quotes their *revisions*, as the code does, while preimages, conditional replaces and
restores compare digests. `Retry` is the same draft after a reported failure.
`Crash` releases the OS lock and forgets the process's memory; a restarted process is
one that has opened nothing (its start-up recovery is subsumed by the recovery at its
next entry of the lock). `ForeignEdit` is a program that ignores the lock. File
operations fail as actions named `...Fails`, for the journal's publication and
removal before or after the effect.

Abstractions: the threads of one process (the lifecycle service serialises saves);
a conditional replace is one step; schema checks, migration, quarantine and damaged
journals; the activation's own writes; drafts are contents, not edits; power loss
(the documents are replaced without a directory sync and the journal's removal is
synced; the documents promise nothing for that case).

Properties: `TypeOK`; `JournalResolvable`: no second journal appears while one is
pending, and the program alone never produces a state that recovery refuses;
`AcknowledgedStays`: nothing a process was told is saved, or has opened, is taken back by
a later recovery; `ForeignKept` (an action property): a foreign document is replaced only
by a process that had opened that very content; and `AtomicSpec`, the refinement of
`AtomicSave`: the pair changes at one instant and on top of the very documents the saving
process knew. The mapping `Committed` says what the pair is while a journal is pending: a
half-way journal stands for its preimages. All of them are checked in one run with
foreign edits; what `AtomicSave` promises ends with the first of these (`disturbed`), and
so do the second half of `JournalResolvable` and `AcknowledgedStays`: a content that comes
from outside the protocol cannot be traced by it. `ForeignKept` is what remains then.

`FailedSaveKeepsOld` states a sentence of FR19.12 that the code does not keep (section 10).

No fairness is used: `ProjectSave` has safety properties only. Deadlock is checked: when
the drafts have run out, a process can still open the Project again.

## 4. Activating a working copy

Modules: `ProjectActivation` (the code), `AtomicActivation` (what it promises),
`ProjectActivationRefinement` (the mapping), `ProjectActivationMC` (symmetry).

Switching to a Project or Variant, and creating or deleting a Variant, publishes up to
six documents and the active pointer together. The journal carries a phase: `prepared`
until everything is in place, then `committed` (the *marker*). Recovery checks that
every participant is one of the two contents the journal names, then replaces them one
by one, backward when prepared and forward when committed, and removes the journal.
The same recovery is the exception handler of the commit, which succeeds after all if
it finds its own marker in place. The baselines a process keeps in memory are
registered before the marker and put back when the commit fails.

| `pc` | code |
|---|---|
| ready, prepared | the candidate is read, without the lock |
| recover, rewrite | `_recover`, on entry of the lock (`duty` = "enter") or of the failed commit |
| records, manifest, publish, marker, cleanup | `ProjectActivationProtocol.commit` |
| except | its handler, before it has loaded the journal |

A document is its content; contents are equal when digests are. The Project, the
Variant and the pointer stand for all participants: two that are compared with what the
candidate was prepared from, and one that is not. A content may return, which the
revision inside real documents excludes: the model allows more. What an
activation will publish is chosen when its records are built (`Records`), since nothing
before depends on it. `draft` is the journal between that moment and its publication:
a foreign edit in between is not part of the preimage.

Abstractions: validation of manifests, damaged journals; documents that are compared
but not written (`checked_variants`); leases, generations and dirty decisions of the
transition; a conditional replace is one step. The journal of `ProjectSave` is left
out: the same lock guards both, every entry of the lock recovers all journals and is
refused if one of them cannot be, so no commit of one protocol runs while a journal of
the other is pending. Composing the two is planned.

Properties: `TypeOK`; `JournalResolvable`: one journal at a time, and the program alone
never brings about the refusal that blocks all writers; `BaselinesFollow`: after any single
failure the baselines in memory are those of the working copy the process is on;
`FailureKeepsOld`: after any single failure, a switch that reports an error has left no
committed journal of its own, which a later recovery would complete; `ForeignKept`; and
`AtomicSpec`: all participants change at the instant the marker is in place, on top of
the contents the candidate was prepared from (the promise ends with a foreign edit, as in
section 3). `BaselinesFollow` and `FailureKeepsOld` are limited to one failure: with a
second one inside the handler the baselines stay with the marker while the call fails, and
the switch happens later (section 10). No fairness is used; deadlock is checked.

## 5. Updating the source file

Modules: `SourceUpdate` (the code), `AtomicUpdate` (what it promises),
`SourceUpdateRefinement` (the mapping), `SourceUpdateProofs`, `SourceUpdateMC` (symmetry).

When the source file of a Project is replaced, every Variant and, last, the Project are
published under one journal (`persistence/source_update_store.py`). The preview is read
inside the lock and confirmed outside it; the commit compares it with the disk. Recovery, on
entry of the lock by anyone and in the handler of the commit, looks at what was published: all
of it, then the marker is put and the update counts; otherwise the records are taken back
in the opposite order, each after a comparison, and the journal is removed. A record that
is neither the old nor the new content is a conflict that blocks all writers.

| `pc` | code |
|---|---|
| ready, previewed | `read`, in the lock, and the user's decision outside it |
| recover, mark, rollback, clean | `_recover`, `_mark_committed`, `_rollback_records`, `_cleanup_committed`, on entry (`duty` = "enter") or for the own update |
| inside, publish | `commit`: comparison, journal, one replacement per record |

`OtherSave` is an ordinary save of one record, which runs under the same lock after the
same recovery; it stands for section 3 and 4 as one locked step. `Contents` have no order:
revisions advance in the code, so the model allows contents to return that the code
excludes. `duty` and `todo` are one variable each, since only the process inside the lock
has them.

Properties: `TypeOK`; `JournalResolvable`; `ForeignKept`; `AtomicSpec`, with a mapping
(`InForce`) by which an update under way does not count before it is complete; and
`OutcomeIsTrue`: an update that reports success has replaced every record of the version
previewed, and one that reports failure has changed nothing, now or later. The last
half holds for a single failing file operation, and not when what fails is reading the
journal or the records after everything was published (section 10).

Abstractions: validation of manifests and targets, transaction identities, the contents of
the permanent backup, changes of the catalog, the working copy in memory; a comparison
and the replacement right after it are one step; a foreign edit brings contents from outside the
protocol, never a preimage of the journal back (if it did so before the handler of a failed commit
looks, the handler would find an update to complete, where `RollbackEnd` reports the failure).

## 6. Publishing a plugin

Modules: `PluginPublication`, `PluginPublicationProofs`, `PluginPublicationMC` (symmetry).

A plugin is written back together with its companion files
(`application/io/publish/plugin_bundle.py`) by a job of the task runtime. Contents are
prepared in a staging directory next to the target, existing targets are copied there, and
under the commit permit (inside the runtime's lock, `lock`) the targets are compared with
the preflight, backed up if the user wants it, and replaced one by one; if anything fails
they are put back in the opposite order. Whatever the outcome, the staging directory is
removed at the end, unless the rollback failed: then it is kept for the user.

| `pc` | code |
|---|---|
| idle, queued, staging, copying | preflight, `publish`: staging, rendering, `_copy_previous` |
| backup, replace, rollback | `_commit` and `_rollback`, under the permit |
| cleanup, reported, dead | removal of the staging directory, the end of the job, and after it |

A content is named after the job that wrote it, so that two jobs that publish the same
targets can be told apart. `Crash` ends all jobs: what is on disk stays, and nothing looks
for it later (the maintenance log does not promise anything for a power loss either), so
the claim for crashes is `OldIsKept`: the copies that allow a user to put things right are there.

Properties: `TypeOK`; `OldIsKept`; `NothingLeftBehind`: a plain failure or a cancellation
leaves no output and no backup, and a job that completes or is cancelled leaves no staging
directory; `OutcomeIsTrue`: when a commit ends, "completed" means every target is
replaced and "failed" means the version of the preflight is back; `ForeignKept`: a job
replaces only what its preflight has seen or it has written itself.

The targets are compared once, when the commit begins. An edit that arrives between that
comparison and the end of the commit is overwritten, by the replacement or by the rollback;
the model keeps such targets in `late` and the last two properties leave them out (section 10).
A permit can also be refused because the job has moved on since it was issued
(`CommitRefused`): then nothing was attempted.

What a job reports and what it did are different things in two cases the model keeps: a
publication whose cleanup failed makes the job failed although the files are published
(result "partial"), and a cancellation that arrives after the commit makes it cancelled
although they are. A rollback that fails leaves the staging directory (result "kept").

Abstractions: a target of a single file goes through `PublishCoordinator`, which is not
modelled (hence at least one companion); preflight and comparison read the files one by one
and are one step here (a torn preflight is refused by the comparison); rendering and
validation succeed or fail; loose companions of archives, file modes, directories created
for companions, the checks of archives, batches of plugins.

## 7. Assistant requests

Modules: `AssistantRequest` (the code), `RequestLifecycle` (what it promises),
`AssistantRequestRefinement` (the mapping), `AssistantRequestProofs`,
`AssistantRefinementProofs`, `AssistantRequestMC` (the instances).

One request of the assistant is a set of items, some of which need others. Turns of the
model work on ready items: an answer is saved as evidence at once, work is a batch of tool
calls. A call that writes saves its intent as an *operation* (an effect), holds the one write
resource of the Session, and either does the work itself or starts a job that will
(`Submit`, `Associate`, `Bind`, `Launch`, `JobCommit`, `JobEnd`). How a job ended reaches the
request through an event router (`Hear`).

What success means differs between the two. A job succeeds only with the saved receipt of a
commit (`Verdict`). Of a tool its word is taken: `after()` records the `success` of its result
with a receipt of its own making (`request_execution.py:343-368`), and the reducer asks for any
receipt (`admission.py:146`), so `After` succeeds with and without a commit. Most tools that
write do ask the gate (`Commit`), which refuses when the request has been stopped or amended.
Four never do: `extract_archive` (`tool_archive.py:47-59`), `save_dictionary`
(`tool_migrator.py:54-76`), `switch_collection` (`tool_default.py:66-90`) and `select_entries`
(`tool_editor.py:211-233`). Nothing records when they write; the model has them write at any
time while they are at work (`AtWork`), and what it says of writes after a stop is limited to
those that ask.

| Part of the model | Code in `application/assistant_requests` |
|---|---|
| operators on a request (`Converge`, `RecordOutcome`, `Judge`, `Recover`, ...) | `reducer.py`, `dispatch.py`, `admission.py`, `recovery.py` |
| `TakeTurn`, `Answer`, `Handoff`; `EndTurn` | `scheduler.py`; `ui/tools/smart_assistant/request_binding.py` |
| `BeginBatch`, `StartStep` to `Interrupt` | `step_execution.py`, `admission.py`, `resource_admission.py`, `smart_assistant/{request_execution,step_execution}.py` |
| `Submit` to `JobEnd` | `smart_assistant/tools/{task_manager,task_runtime_bridge}.py`, `request_execution.py`, `task_events.py` |
| `Hear`, `RetryResult`, `RetryReceipt`, `Notify` | `task_events.py` |
| `Pause` to `SettleBatch` | `reducer.py`, `task_controls.py`, `reconciliation.py` |
| `Crash` | the start of the application, with `recovery.py` |

`PROJECT.json` maps every definition to its lines. `req` is what is saved in the
Session; the code computes a new value and saves it, so an action either saves (`Save`) or
fails to (`SaveFails`) and then does what the code does in that case. Everything else dies
with the process. `applied` and `crashes` are history.

Properties: `TypeOK`; `TerminalMeansSettled`: a request ends only when no operation or batch
of it is open or unknown and nobody still works for it; `WrittenOnce`: within one revision
all operations of an item, which are all the calls that may write it, whether they ask the gate or
not, belong to one batch, whatever fails, restarts or resumes;
`SatisfiedIsBacked`: a satisfied item has a batch of the current revision whose operations
all succeeded, a job's because it committed, a tool's because the tool said so, either because the
user attested it, and nobody works for them any more; `WorkOwnsResource`: whoever can still write owns the write
resource; the action property `TerminalIsFinal`: no late result changes a verdict; and the
liveness property `StopSettles`: a stopped request comes to an end, or to a question
for the user. `EndedJobsAreRecorded` states a comment that the code does not keep (section 10),
and `StopSettles` leaves out the operations lost that way (`Lost`): a job that ended before the
router knew it, and one that was bound after the stop had cancelled the jobs it found, refused at
its start, and that no announcement, tool or listener will look at again.

`RequestSpec` is the refinement of `RequestLifecycle`, which knows no turns, tools, jobs, saves
or restarts: through the gate an item is written by one worker per revision (a batch), before its
verdict and never after a stop; a verdict is given once, and a good one needs evidence, which is an
answer, such a write, or what a tool or the user has said; a request is completed only with every item
satisfied, failed only with every item decided, and a stopped one ends the way the user asked for;
only an amendment starts again. In the mapping `written` is the history `applied`, `vouched` are the
operations that succeeded by the report of a tool or the word of the user, and the verdict of an item is what it amounts to (`Shown`):
its status, unless "failed" is among its waiting reasons. That exception is forced by the code. A
restart makes an operation without a receipt unknown and its item waiting again
(`recovery.py:38`, `admission.py:176`), also when another operation of the item has failed
already: the status "failed" is taken back, the reason stays, and with it the item's end. It takes a batch
of two calls, an operation that fails and a restart to see this.

Fairness (`FairSpec`): a worker that has an operation in hand takes its next step, a job
whose cancellation was requested ends, the end of a job is published, and an announced
change reaches its listeners. These are steps of threads the program has started, and of a
task runtime whose own part of the promise is section 2. The model, the user and jobs
nobody cancels owe nothing.

Abstractions: one request in one Session; a save happens or fails (one that took effect and
reports failure is not modelled; the three attempts to deliver a result are one);
"failed" stands for failed or cancelled operations, batches and jobs; every batch holds a
call that may write; a job or tool commits at most once; all items are required; recovery is
part of the restart. Left out: pausing and resuming jobs, plans run as jobs of their own, waiting
for sources and approvals, partial results of jobs (that of a tool has the effect of a step that
failed, `Finish`), blocked answers, event sequence numbers, the limit of automatic turns, undo.

Two things the model shows and no document rules out: an operation whose job is refused at its
last check (`Launch`) stays bound, with the resource, until the next announcement,
cancellation or restart; and a mutation whose receipt cannot be saved is reported to the model as
"not committed" although it ran (its operation becomes unknown or failed, and `WrittenOnce`
holds all the same).

## 8. Runs and bounds

| Run | Instance | Distinct states | Shows |
|---|---|---|---|
| thread | one thread job, two permits, revision driven up to 3, all close policies | 469,131 | cancel barrier, permits, single end, final states, quiet and released |
| drain | two pool jobs, one worker, fair | 232,001 | a close attempt settles every job, and quiet means quiet for both |
| lifecycle | an external and a prepared job, one permit | 553,429 | refinement of `TaskLifecycle`; what it says of one job on a native thread is also what `thread` checks piece by piece |
| cancel_settles | one thread job, fair | stops at the violation | a disagreement with ADR-019 |
| save | two processes, two drafts, two failing file operations, one crash, one foreign edit, 3 mishaps in all (an edit counts two) | 3,857,883 | one journal, always resolvable; nothing acknowledged is lost; nothing foreign is overwritten; refinement of `AtomicSave` |
| save_failed | two processes, two drafts, one failure | stops at the violation | the disagreement with FR19.12 |
| activation | two processes, two contents, two failures, two crashes, one foreign edit, 4 mishaps in all | 2,825,864 | one journal, always resolvable; baselines follow; failures keep the old; nothing foreign is overwritten; refinement of `AtomicActivation` |
| source_update | two processes, two Variants, two contents, two failures, two crashes, one foreign edit, 4 mishaps | 649,030 | always resolvable, nothing foreign is overwritten, outcomes are true; refinement of `AtomicUpdate` |
| publish | two jobs, one companion, with and without backups, two failures, one crash, one foreign edit, 3 mishaps | 1,191,191 | what is replaced can be put back; results are true; nothing is left; nothing foreign is overwritten |
| assistant | a change and a report that needs it, two batches and operations, one amendment, one restart, fair | 1,522,796 | how requests end, that items are written once, that stops settle |
| assistant_pair | two independent items, two batches, no amendment, one failed save | 2,287,448 | the write resource; what success rests on; verdicts are final; refinement of `RequestLifecycle` |
| assistant_lost | one item, operation and batch, nothing fails, fair | stops at the violation | a job that ends unheard |

*Task runtime.* The record operations of different jobs share nothing but admission
and the pool, so one job with every capability (thread) shows the interleavings of
one record; two jobs are needed where they share something: the pool's workers and the
closing thread (drain), the permits' nonces (lifecycle, proofs). Two
permits are the least that can compete. `MaxRevision` bounds `UpdateProgress`,
`Pause` and `Start` only: revisions driven by transitions, permits and cancels are
finite anyway; 3 leaves room for a permit that is stale by progress, by pause and by
another commit. A job that cannot be cancelled is admitted by the proofs; the runs
give all jobs the cancel capability.

*Saving.* Two processes are one that is interrupted and one that finds what it left.
Two drafts are needed for a document that is rolled back and replaced by another of
the same revision. Two failures let compensation and the recovery after it both fail;
a crash can hit either. `MaxMishaps` bounds failures, crashes and edits together; an edit
counts two in this model, so it meets one failure or one crash. A retry does not use up a
draft. A third process or draft repeats these roles. Revisions grow by one
(`RevisionSteps = {1}`); the code compares revisions for equality only, except that a
target must exceed its preimage.

*Activation, source update.* Activations and updates are unlimited: every process may
prepare, commit and fail as often as it likes, since its state returns to the same place.
Two contents per document give every combination of participants that change and that do
not. Two failures let a commit and its recovery both fail; two crashes let a
recovery die as well. Two Variants are the least at which an update can be partly published
without its Project. Three contents were tried for the source update and are too many for
TLC; the proofs cover them.

*Publication.* Two jobs overwrite each other's targets; one companion and the plugin are the
least set that can be torn. Two failures are one replacement and one step of its rollback.

*Assistant requests.* `assistant` has an answer that needs the work, which tests waiting and
dependence; `assistant_pair` has two workers side by side. Two batches let a second
one meet what a first has left. A restart matters to who writes an item again and to how a stop
ends, and is in `assistant`; a failed save to what is believed of an operation, and is in
`assistant_pair`. Both together were affordable only once, without an error:

| Instance | Properties | Distinct states |
|---|---|---|
| `assistant_pair` with one failed save and one restart | all safety properties, `RequestSpec` | 7,150,769 |
| `assistant` with one failed save and one restart | all invariants | 5,430,607 |
| one batch of two calls, an amendment, two ways to stop, one failed save and one restart | all safety properties, `RequestSpec` | 2,220,192 |
| the same with one way to stop, fair | all safety properties, `StopSettles` | 1,434,328 |

`RequestSpec` also holds on the instance of `assistant`; on that of the third row it fails, as it should,
when `Hold` keeps only the latest reason. Deadlock is not
checked for assistant requests and the task runtime: a request that ended, or a released
runtime, has no step left.

Processes, contents, drafts, jobs and independent items are symmetric in `save`, `activation`,
`source_update`, `publish` and `assistant_pair` (safety only, and no definition names one of them). Fairness is used in `drain`,
`cancel_settles`, `assistant` and `assistant_lost`, without symmetry.

## 9. Proofs

All theorems hold for every value of the constants that satisfies the named assumptions:
any number of jobs, processes, contents, Variants, companions, items, batches, operations,
faults, crashes and edits. Every safety invariant, action property and refinement the runs
check is the subject of a theorem. Each inductive invariant was checked by TLC on an instance
of the size of section 8 before it was proved.

*Task runtime* (`BackendAssumption`, `CapabilityAssumption`, `BoundAssumption`).
`TaskRuntimeProofs`: `TypeCorrect`, `CancelBarrierCorrect`, `PermitsLiveCorrect`,
`OneEffectCorrect`, `FinishedOnceCorrect`, `TerminalIsFinalCorrect`,
`LifecycleCorrect`. `TypeOK` is inductive. About forty actions
change a record, but only in eight ways besides not at all, and lemma `RecordSteps` sorts
them (`RecordStep`). The invariant `IInv` adds to the checked invariants what makes them
inductive:

* `ConfirmInv`: whoever is about to confirm a cancellation (a signalling caller, a
  worker or the closing thread) saw the job cancelling, and from there it can only
  end. Without it, three stale "confirm" steps could turn a running job into a
  cancelled one with its token unset, and `CancelBarrier` would fail.
* `PermitInv`: an issued permit is never newer than its job; one that was used is
  registered no more and strictly older than its job; nonces identify permits.
  `OneEffectPerRevision` is not inductive without it: two unused permits of one
  revision are legal, and what forbids using both is that the first use moves the
  revision.

`TerminalIsFinal` follows step by step from the record kinds; the refinement from the
same kinds and `IInv`.

`TaskCloseProofs`: `ReadyIsQuiet`, `ReleasedIsStopped`. `ReadyMeansQuiet` says nothing before the last
step, so `CloseInv` follows the two loops of the closing thread: `DrainOK`, what its cancel loop
has reached is settling and never becomes active again, although other threads still
schedule, launch and finish; `ReadyOK` and `ReleasedOK`, what its waiting has joined has no workload left to run (`Past`);
`ThreadsOK` ties a worker to the `schedule()` call that launched it, and `TargetsOK` says that once the
targets are taken they stay every record there is, and that the waiting starts when the cancel
loop has ended. `BackendAssumption` (every scheduled job is a job, and has one backend) is used in
the step lemmas of both theorems.

*Saving* (`AuthorAssumption`, `StepAssumption`). `ProjectSaveProofs`: `TypeCorrect`,
`AlwaysResolvable`, `AcknowledgedAlwaysStays`, `ForeignAlwaysKept`, `Refinement`. None of the
checked invariants is inductive. The argument: only the Variant is ever put back, so the
Project's revision never falls, and a journal whose Project was replaced is past half way
for good (`JournalOK`, `StageOK`). `KnownOK`: no process is ahead of what is committed, and one that
has the committed revision has the committed document (`AuthorsOK` keeps contents of one
revision apart); this is why comparing revisions is enough where the code
compares digests elsewhere. `HeldOK`: what is known of a Variant that may still be
put back. `DiskOK` is `JournalResolvable` with the place of the holder. Saves,
recoveries and compensations leave `Committed` alone except for one step each
(`AtomicStep`), which gives the refinement; revisions may grow by any steps.

*Activation* (`ContentAssumption`). `ProjectActivationProofs`: `TypeCorrect`,
`AlwaysResolvable`, `BaselinesAlwaysFollow`, `FailureAlwaysKeepsOld`, `ForeignAlwaysKept`,
`Refinement`. The invariant adds, to the checked ones: `LockOK`, the lock holds whoever is
inside; `PlaceOK`, which journals can exist at which place of the holder;
`SeenOK`, what a commit publishes was prepared from what its journal replaces; `DiskOK`, without foreign edits every participant is one of the
two contents of the journal, and the ones the loop has passed are rewritten; `BaselinesOK`, when the
registry may hold the candidate's baselines. The order in which documents are replaced turns
out to be of no consequence (`NextOf` is all the proof needs of it). For the refinement,
`StepEffect` shows that every step leaves `InForce` alone, except the one that puts the marker.

*Source update* (`ContentAssumption`, `VariantAssumption`, `BoundAssumption`).
`SourceUpdateProofs`: `TypeCorrect`, `OneJournalAlways`, `AlwaysResolvable`,
`ForeignAlwaysKept`, `Refinement`, `OutcomeAlwaysTrue`. `JournalResolvable` is not inductive:
that a rollback from the end never leaves the Project ahead of a Variant needs
`StageOK`, which relates the place in the loop to what is published. `OwnOK` says that the journal of an
update under way has the previewed version as its preimage. Letting go of the lock
can be the step at which an update takes effect (`LettingGo`: it was complete, and recovery will
only ever complete it), as can the marker (`MarkEffect`); `OutcomeIsTrue` goes action by
action (`HonestStep`).

*Publication* (`ContentAssumption`, `CompanionAssumption`, `PolicyAssumption`).
`PluginPublicationProofs`: `TypeCorrect`, `OldAlwaysKept`, `NothingEverLeftBehind`,
`OutcomeAlwaysTrue`, `ForeignAlwaysKept`. The invariant has a part for each stage
(`ExpectedOK`, `CopiesOK`, `EarlyOK`, `CommitOK`, `KeptOK`, `CleanOK`). Its central notion is
`Present(j)`: the output of a job is on disk, or some rollback under way may still put it back. `OldIsKept` speaks of the
first only and is not inductive: a job that was overwritten by another becomes present again
when the other rolls back.

*Assistant requests* (`RequestAssumption`). `AssistantRequestProofs`: `TypeCorrect`, `WorkAlwaysOwns`,
`TerminalAlwaysSettled`, `AlwaysWrittenOnce`, `SatisfiedAlwaysBacked`, `TerminalStaysFinal`. The invariant
has two halves. `ReqInv` is about the saved request as a value and is shown for each operator the
code applies to it before a save, one lemma each (`ConvergeKeeps`, `RecordOutcomeFacts`,
`ReconcileFacts`, `RecoverFacts`, ...): `OneWriter`, of the batches of one item and revision only the last has writes;
`Decided`, a batch with writes is unsettled or has decided its item while the request is open;
`OpsOK`, a success rests on what `SatisfiedIsBacked` says it does (`Rests`: the commit for a job, the report
for a tool, or the user's word), already when it is recorded and for ever after;
`SatBacked`, the evidence also has a completed batch; `Concluded`, an ended request
has nothing unsettled. Judging a batch needs its evidence to hold already *before*
the verdict, hence `Base`, which is `ReqInv` without `Decided`. The other half is about the process: `LeaseOK`, a
lease belongs to the newest batch or to items nobody has written in its revision (this is what
makes `WrittenOnce` survive resumes and takeovers); `StepOK`, a worker stays in the step it has
started, so its batch cannot be judged under it; `ToolOK` and `JobOK`, an operation for which a worker or
a job lives is open and holds the resource, and nobody but its worker settles it until
the router knows its job; an operation that has a job is never sent back to its tool (`HasJob`), so
the two kinds of evidence do not mix. `Keeps` says once what a change of the request leaves to the workers,
and `WorkerStep`, `PlainStep`, `RequestStep` and `JobStep` carry the other half over the actions of
each actor. What `Dependants` computes is of no consequence for these properties.

`AssistantRefinementProofs`: `RequestImplementsLifecycle`, `Spec => RequestSpec`. Its shape is that of the invariant:
first the request as a value, then the actions. `Proceeds(r, c)` says what the promise allows
between two saves, leaving out who wrote what: verdicts only for undecided items, ends only
with what they need. Every operator the code applies before a save proceeds (`ConvergePromise`,
`JudgePromise`, `OutcomePromise`, `RecoverPromise`, ...), steps that proceed compose
(`ProceedsCompose`), and `ProceedsStep` turns one that backs its verdicts into a step `Judge`,
`WindDown` or a stutter. Three facts are needed besides `IInv` (together `PromiseInv`, checked by TLC with one
failed save and one restart before the proof): `Marked`, a failed item keeps its reason, and in an open request one that failed after a batch
wrote for it failed with that batch, so that a good batch never speaks for an item that was
shown as failed; `Attested`, what a tool or the user has said (`Said`) is settled at once, so evidence is not taken back
(`SaidPromise`, `VouchStep`); `Covered`, what a turn
of the current revision is still free to answer has not failed, and what it needs is satisfied. Of
`Dependants` the refinement needs that its items are undecided and wait for one that is not
satisfied (`DependantsFacts`).

Only model-checked, because out of the prover's reach: `DrainSettles` and `StopSettles`, which are
liveness under fairness. `CancelSettles`, `FailedSaveKeepsOld` and `EndedJobsAreRecorded` do not hold
(section 10).

## 10. Where code and documents disagree

Shown by a run:

* `CancelSettles`, `application/tasks/runtime.py:645`. `_finish_after_workload` reads a
  running state, a cancel request comes in, and the completion is then ignored; the
  cancelling caller has already seen the thread alive. Nobody moves the job on, and it
  stays cancelling until the application closes. ADR-019 ends a cancellation by
  committing the cancelled state.
* `FailedSaveKeepsOld`, `persistence/v2/project_save_journal.py:213`. A save of one
  document has no journal; if its read-back fails after the replace, the save is
  reported as failed although the new document is in force, and the session's next
  saves are refused as stale. FR19.12 says a failed write, read-back or replace keeps
  the old documents.
* `EndedJobsAreRecorded`, `smart_assistant/request_execution.py:446`. The router learns of a
  job last, after its association with the operation was saved, and drops events of jobs it
  does not know. A job cancelled in between ends unheard: its operation stays open and a
  stopped request never ends. The comment at line 409 says durable delivery is established
  before a running dispatch is saved.

Met while modelling, without a run of their own:

* `application/tasks/runtime.py:595`. `join(0)` is asked before the flag `dispatching` is
  read; if `schedule()` launches the work and leaves in between, the job is confirmed
  cancelled while its workload runs. ADR-019 (lines 81 to 83) orders the stop first. Adding `INVARIANT
  CancelledMeansStopped` to `TaskRuntimeThread.cfg` shows it.
* `persistence/v2/project_activation_journal.py:66`. With two failures (the marker's
  verification, then loading the journal or the roll-forward in the handler) the activation
  is reported as failed and the next entry of the lock completes it.
  `plans/workflow-closure-remediation/plan.md:133` rules out that the interface fails while
  the disk quietly switches. `FailureKeepsOld` without its `faults' <= 1` shows it.
* `persistence/source_update_store.py:145` and `232`. When the journal or the records cannot be
  read after everything was published, the update is reported as failed and the next entry of
  the lock completes it; `docs/adr/044-source-file-update.md` has failures roll back
  to the exact preimage. `OutcomeIsTrue` without its last exception shows it.
* `application/io/publish/plugin_bundle.py:191`. The targets are compared once, at the start of
  the commit, and restored unconditionally. `docs/requirements.md:98` wants a new preflight when a
  target changes during the execution.
* `smart_assistant/request_execution.py:343`. Of a tool that is not a job, success is recorded without
  a commit, so for the four write tools of section 7 that never ask the gate a satisfied item says
  only that the tool reported success, and a stop or an amendment that arrives while they run does
  not keep them from writing.

## 11. What is not modelled, and the plan

`PROJECT.json` gives the reason for every component that is left out. The repository is large,
and most of it transforms data in sequence (parsers, writers, prompts, rules, converters),
calls remote services, or draws the interface; unit tests reach these, and a model of them
would be a transliteration. The models cover the protocols: a small share of the lines, and
most of what is concurrent, persistent or fails part of the way. Still planned, in this order:

1. `ProjectActivation` and `ProjectSave` composed under one lock whose entry recovers
   both journals (and that of `SourceUpdate`).
2. `CheckpointStore` and `TaskProjection`: delayed and repeated saves, delete and
   restart; events out of order against the projections' revision guard and history.
3. `PublishCoordinator`: publication of a single file.
4. `TerminologySync`: remote calls with lost answers and resumption.
5. Session deletion against late writers; provisioning and deletion of Projects.

Abstract specifications worth stating: a "last complete checkpoint" register; an
at-most-once remote write.

Proofs planned: those of the modules above, as they are written. For the present ones nothing is
left that the provers can reach.

## 12. Running

    tlasany ProjectSave.tla
    tlc -workers 2 -config TaskRuntimeThread.cfg TaskRuntime
    tlc -workers 2 -config ProjectSave.cfg ProjectSaveMC
    tlc -workers 2 -config ProjectActivation.cfg ProjectActivationMC
    tlc -workers 2 -config SourceUpdate.cfg SourceUpdateMC
    tlc -workers 2 -config PluginPublication.cfg PluginPublicationMC
    tlc -workers 2 -config AssistantRequest.cfg AssistantRequestMC
    tlapm TaskRuntimeProofs.tla && tlapm TaskCloseProofs.tla
    tlapm ProjectSaveProofs.tla && tlapm ProjectActivationProofs.tla
    tlapm SourceUpdateProofs.tla && tlapm PluginPublicationProofs.tla
    tlapm AssistantRequestProofs.tla && tlapm AssistantRefinementProofs.tla

`PROJECT.json` names the module and the configuration of every run. Definitions marked
"Mutant" in a comment are plausible bugs: replacing the definition that follows by the
mutant makes the property named in `PROJECT.json` fail.
