-------------------------- MODULE PluginPublication --------------------------
(***************************************************************************)
(* Writing a plugin back together with its companion files                 *)
(* (application/io/publish/plugin_bundle.py), by several jobs of one       *)
(* TaskRuntime, among programs that edit the same files.  The files are    *)
(* staged in a private directory; under the commit permit, that is inside  *)
(* the lock of the runtime, they are compared with the preflight, backed   *)
(* up and replaced one by one, and put back if anything fails.             *)
(*                                                                         *)
(* One action is one file operation with the comparison that belongs to    *)
(* it; it may fail before or after it took effect.  A content is named     *)
(* after the job that wrote it; contents are equal when their fingerprints *)
(* are.                                                                    *)
(*                                                                         *)
(* Left out: rendering and validation (they succeed or fail), the policy   *)
(* on existing targets (overwriting is confirmed), loose companions of an  *)
(* archive, file modes, and the directories created for companions.        *)
(***************************************************************************)
EXTENDS Naturals

CONSTANTS
  Jobs,
  NumCompanions,
  BackupPolicies,   \* whether existing files are kept as backups
  MaxFaults,        \* file operations that fail
  MaxCrashes,       \* times the application dies
  MaxForeignEdits,  \* edits by other programs
  MaxMishaps        \* all of these together

ASSUME ContentAssumption   == {"none", "old", "foreign"} \cap Jobs = {}
ASSUME CompanionAssumption == NumCompanions \in Nat \ {0}
ASSUME PolicyAssumption    == BackupPolicies \subseteq BOOLEAN /\ BackupPolicies # {}
ASSUME BoundAssumption     == {MaxFaults, MaxCrashes, MaxForeignEdits, MaxMishaps} \subseteq Nat

\* The targets in the order in which they are replaced; the plugin is the last.
Files  == 1 .. NumCompanions + 1

Version == [Files -> {"none", "old", "foreign"} \cup Jobs]

PC == {"idle", "queued", "staging", "copying", "backup", "replace", "rollback", "cleanup", "reported", "dead"}

VARIABLES
  files,     \* the targets
  expected,  \* the version each job's preflight has seen, as a set
  stage,     \* jobs whose staging directory is on disk
  copies,    \* the copies of existing targets in it
  backups,   \* backups of targets made by each job, finished or not
  pc,        \* where each workload stands
  todo,      \* files the current loop of a workload has not reached
  failures,  \* the rollback of a job has failed somewhere
  result,    \* what each workload has reported
  job,       \* the job's state in the runtime
  lock,      \* the job inside its commit, as a set
  policy,    \* whether existing targets are backed up
  late,      \* files edited since the comparison of the commit under way
  faults, crashes, edits

bounds  == <<faults, crashes, edits>>
private == <<stage, copies, backups, policy>>
vars    == <<files, expected, stage, copies, backups, pc, todo, failures, result, job, lock, policy, late,
             faults, crashes, edits>>

Outcomes == {"none", "completed", "partial", "cancelled", "failed", "kept"}

TypeOK ==
  /\ files \in Version /\ late \subseteq Files
  /\ expected \in [Jobs -> SUBSET Version]
  /\ stage \subseteq Jobs /\ lock \subseteq Jobs
  /\ copies \in [Jobs -> SUBSET Files] /\ backups \in [Jobs -> SUBSET Files]
  /\ pc \in [Jobs -> PC] /\ todo \in [Jobs -> SUBSET Files]
  /\ failures \in [Jobs -> BOOLEAN] /\ result \in [Jobs -> Outcomes]
  /\ job \in [Jobs -> {"none", "running", "cancelling", "completed", "failed", "cancelled"}]
  /\ policy \in BOOLEAN
  /\ faults \in Nat /\ crashes \in Nat /\ edits \in Nat

Init ==
  /\ files \in [Files -> {"none", "old"}]
  /\ expected = [j \in Jobs |-> {}]
  /\ stage = {} /\ lock = {} /\ late = {}
  /\ copies = [j \in Jobs |-> {}] /\ backups = [j \in Jobs |-> {}] /\ todo = [j \in Jobs |-> {}]
  /\ pc = [j \in Jobs |-> "idle"]
  /\ failures = [j \in Jobs |-> FALSE]
  /\ result = [j \in Jobs |-> "none"]
  /\ job = [j \in Jobs |-> "none"]
  /\ policy \in BackupPolicies
  /\ faults = 0 /\ crashes = 0 /\ edits = 0

Goto(j, label)     == pc' = [pc EXCEPT ![j] = label]
Step(j, from, to)  == pc[j] = from /\ Goto(j, to)
Put(f, content)    == files' = [files EXCEPT ![f] = content]
With(var, j, value) == [var EXCEPT ![j] = value]
Spared == faults + crashes + edits < MaxMishaps
Fault  == Spared /\ faults < MaxFaults /\ faults' = faults + 1 /\ UNCHANGED <<crashes, edits>>

Existing(v)    == {f \in Files : v[f] # "none"}
Cancelled(j)   == job[j] = "cancelling"
Unchanged(j)   == files \in expected[j]
Report(j, out) == result' = [result EXCEPT ![j] = out]
SetJob(j, s)   == job' = [job EXCEPT ![j] = s]

-----------------------------------------------------------------------------
(* Up to the commit.                                                       *)

\* The user confirms what the preflight has found.
Preflight(j) ==
  /\ Step(j, "idle", "queued")
  /\ expected' = [expected EXCEPT ![j] = {files}]
  /\ SetJob(j, "running")
  /\ UNCHANGED <<files, private, todo, failures, result, lock, late, bounds>>

\* The workload is over but for its staging directory, if it has one.
Ends(j, out) ==
  /\ Goto(j, "cleanup") /\ Report(j, out)
  /\ UNCHANGED <<files, expected, private, todo, failures, job, lock, late>>

Refuse(j) ==
  /\ pc[j] = "queued" /\ ~Unchanged(j)
  /\ Ends(j, "failed") /\ UNCHANGED bounds

StopAtOnce(j) ==
  /\ pc[j] \in {"queued", "staging"} /\ Cancelled(j)
  /\ Ends(j, "cancelled") /\ UNCHANGED bounds

Stage(j) ==
  /\ Step(j, "queued", "staging") /\ Unchanged(j) /\ ~Cancelled(j)
  /\ stage' = stage \cup {j}
  /\ UNCHANGED <<files, expected, copies, backups, policy, todo, failures, result, job, lock, late, bounds>>

\* Rendered and validated: the existing targets are copied.
Render(j) ==
  /\ Step(j, "staging", "copying") /\ ~Cancelled(j)
  /\ \E v \in expected[j] : todo' = With(todo, j, Existing(v))
  /\ UNCHANGED <<files, expected, private, failures, result, job, lock, late, bounds>>

IsExpected(j, f) == \E v \in expected[j] : files[f] = v[f]

Copy(j) ==
  /\ pc[j] = "copying"
  /\ \E f \in todo[j] :
       /\ IsExpected(j, f)
       /\ copies' = With(copies, j, copies[j] \cup {f})
       /\ todo' = With(todo, j, todo[j] \ {f})
  /\ UNCHANGED <<files, expected, stage, backups, policy, pc, failures, result, job, lock, late, bounds>>

CopyRefused(j) ==
  /\ pc[j] = "copying"
  /\ \E f \in todo[j] : ~IsExpected(j, f)
  /\ Ends(j, "failed") /\ UNCHANGED bounds

PrepareFails(j) ==
  /\ \/ pc[j] \in {"queued", "staging"}
     \/ pc[j] = "copying" /\ todo[j] # {}
  /\ Ends(j, "failed") /\ Fault

-----------------------------------------------------------------------------
(* The commit, inside the lock of the runtime.                             *)

StopBeforeCommit(j) ==
  /\ pc[j] = "copying" /\ todo[j] = {} /\ Cancelled(j)
  /\ Ends(j, "cancelled") /\ UNCHANGED bounds

\* Mutant: the comparison before staging is trusted.
UnchangedSincePreflight(j) == TRUE

CommitAllowed(j) == Unchanged(j)

\* A mutation that raises fails the job; or the job has moved on since its permit was
\* issued, and nothing is attempted.
CommitRefused(j) ==
  /\ Step(j, "copying", "cleanup") /\ todo[j] = {} /\ ~Cancelled(j) /\ lock = {}
  /\ Report(j, "failed")
  /\ \/ ~CommitAllowed(j) /\ SetJob(j, "failed")
     \/ UNCHANGED job
  /\ UNCHANGED <<files, expected, private, todo, failures, lock, late, bounds>>

Commit(j) ==
  /\ Step(j, "copying", "backup") /\ todo[j] = {} /\ ~Cancelled(j) /\ lock = {}
  /\ CommitAllowed(j)
  /\ lock' = {j} /\ late' = {}
  /\ todo' = With(todo, j, IF policy THEN copies[j] ELSE {})
  /\ UNCHANGED <<files, expected, private, failures, result, job, bounds>>

Backup(j) ==
  /\ pc[j] = "backup"
  /\ \E f \in todo[j] :
       /\ backups' = With(backups, j, backups[j] \cup {f})
       /\ todo' = With(todo, j, todo[j] \ {f})
  /\ UNCHANGED <<files, expected, stage, copies, policy, pc, failures, result, job, lock, late, bounds>>

\* What a failed copy leaves behind counts as a backup.
BackupFails(j) ==
  /\ Step(j, "backup", "rollback") /\ Fault
  /\ \E f \in todo[j] : backups' \in {backups, With(backups, j, backups[j] \cup {f})}
  /\ todo' = With(todo, j, {})
  /\ UNCHANGED <<files, expected, stage, copies, policy, failures, result, job, lock, late>>

BackedUp(j) ==
  /\ Step(j, "backup", "replace") /\ todo[j] = {}
  /\ todo' = With(todo, j, Files)
  /\ UNCHANGED <<files, expected, private, failures, result, job, lock, late, bounds>>

FirstLeft(j, f) == f \in todo[j] /\ \A g \in todo[j] : f <= g

Replace(j) ==
  /\ pc[j] = "replace"
  /\ \E f \in Files : FirstLeft(j, f) /\ Put(f, j) /\ todo' = With(todo, j, todo[j] \ {f})
  /\ UNCHANGED <<expected, private, pc, failures, result, job, lock, late, bounds>>

\* Mutants: the file whose replacement failed is not put back, or one too many is.
AttemptedBefore(j, f) == {g \in Files : g < f}
AttemptedBeyond(j, f) == 1 .. f + 1

\* The file whose replacement failed may have been replaced.
Attempted(j, f) == {g \in Files : g <= f}

ReplaceFails(j) ==
  /\ Step(j, "replace", "rollback") /\ Fault
  /\ \E f \in Files :
       /\ FirstLeft(j, f)
       /\ UNCHANGED files \/ Put(f, j)
       /\ todo' = With(todo, j, Attempted(j, f))
  /\ UNCHANGED <<expected, private, failures, result, job, lock, late>>

SyncFails(j) ==
  /\ Step(j, "replace", "rollback") /\ todo[j] = {} /\ Fault
  /\ todo' = With(todo, j, Files)
  /\ UNCHANGED <<files, expected, private, failures, result, job, lock, late>>

Committed(j) ==
  /\ Step(j, "replace", "cleanup") /\ todo[j] = {}
  /\ Report(j, "completed") /\ lock' = {}
  /\ UNCHANGED <<files, expected, private, todo, failures, job, late, bounds>>

-----------------------------------------------------------------------------
(* Rollback, still inside the lock: every file is tried, whatever fails.   *)

LastLeft(j, f) == f \in todo[j] /\ \A g \in todo[j] : f >= g

PutBack(j) ==
  /\ pc[j] = "rollback"
  /\ \E f \in Files, v \in expected[j] :
       /\ LastLeft(j, f) /\ Put(f, v[f])
       /\ todo' = With(todo, j, todo[j] \ {f})
  /\ UNCHANGED <<expected, private, pc, failures, result, job, lock, late, bounds>>

\* Mutant: a file that could not be put back is forgotten.
NotedNothing(j) == UNCHANGED failures

Noted(j) == failures' = With(failures, j, TRUE)

PutBackFails(j) ==
  /\ pc[j] = "rollback" /\ Fault
  /\ \E f \in Files, v \in expected[j] :
       /\ LastLeft(j, f)
       /\ UNCHANGED files \/ Put(f, v[f])
       /\ todo' = With(todo, j, todo[j] \ {f})
  /\ Noted(j)
  /\ UNCHANGED <<expected, private, pc, result, job, lock, late>>

\* Mutant: the staging directory goes with every failure.
KeptNothing(j) == "failed"

RollbackResult(j) == IF failures'[j] THEN "kept" ELSE "failed"

\* Without failures the backups go; what remains of them is a failure, too.
RolledBack(j) ==
  /\ Step(j, "rollback", "cleanup") /\ todo[j] = {}
  /\ \/ failures[j] /\ UNCHANGED <<backups, failures, bounds>>
     \/ ~failures[j] /\ backups' = With(backups, j, {}) /\ UNCHANGED <<failures, bounds>>
     \/ ~failures[j] /\ Fault /\ failures' = With(failures, j, TRUE)
        /\ \E left \in SUBSET backups[j] : left # {} /\ backups' = With(backups, j, left)
  /\ Report(j, RollbackResult(j))
  /\ SetJob(j, "failed") /\ lock' = {}
  /\ UNCHANGED <<files, expected, stage, copies, policy, todo, late>>

-----------------------------------------------------------------------------
(* The end of the workload and of its job.                                 *)

\* A failed rollback keeps the staging directory and the copies in it.
Cleanup(j) ==
  /\ Step(j, "cleanup", "reported")
  /\ IF result[j] = "kept" THEN UNCHANGED <<stage, copies>>
     ELSE stage' = stage \ {j} /\ copies' = With(copies, j, {})
  /\ UNCHANGED <<files, expected, backups, policy, todo, failures, result, job, lock, late, bounds>>

CleanupFails(j) ==
  /\ Step(j, "cleanup", "reported") /\ j \in stage /\ result[j] # "kept" /\ Fault
  /\ \E left \in SUBSET copies[j] : copies' = With(copies, j, left)
  /\ Report(j, IF result[j] = "completed" THEN "partial" ELSE result[j])
  /\ UNCHANGED <<files, expected, stage, backups, policy, todo, failures, job, lock, late>>

\* What could not be cleaned up or put back fails the job.
Unclean(j) == j \in stage

Verdict(j) ==
  IF job[j] = "failed" \/ Unclean(j) THEN "failed"
  ELSE IF job[j] = "cancelling" THEN "cancelled"
  ELSE IF result[j] = "completed" THEN "completed" ELSE "failed"

Finish(j) ==
  /\ pc[j] = "reported" /\ job[j] \in {"running", "cancelling", "failed"} /\ lock = {}
  /\ Goto(j, "dead") /\ SetJob(j, Verdict(j))
  /\ UNCHANGED <<files, expected, private, todo, failures, result, lock, late, bounds>>

-----------------------------------------------------------------------------
(* The environment.                                                        *)

Cancel(j) ==
  /\ job[j] = "running" /\ lock = {}
  /\ SetJob(j, "cancelling")
  /\ UNCHANGED <<files, expected, private, pc, todo, failures, result, lock, late, bounds>>

\* The application dies; directories and copies stay, and nobody looks for them later.
Crash ==
  /\ Spared /\ crashes < MaxCrashes
  /\ crashes' = crashes + 1
  /\ pc' = [j \in Jobs |-> IF pc[j] = "idle" THEN "idle" ELSE "dead"]
  /\ job' = [j \in Jobs |-> IF job[j] \in {"running", "cancelling"} THEN "none" ELSE job[j]]
  /\ lock' = {}
  /\ UNCHANGED <<files, expected, private, todo, failures, result, late, faults, edits>>

ForeignEdit(f) ==
  /\ Spared /\ edits < MaxForeignEdits
  /\ edits' = edits + 1
  /\ Put(f, "foreign") /\ late' = late \cup {f}
  /\ UNCHANGED <<expected, private, pc, todo, failures, result, job, lock, faults, crashes>>

Ended == (\A j \in Jobs : pc[j] = "dead") /\ UNCHANGED vars

Workload(j) ==
  \/ Preflight(j) \/ Refuse(j) \/ StopAtOnce(j) \/ Stage(j) \/ Render(j)
  \/ Copy(j) \/ CopyRefused(j) \/ PrepareFails(j)
  \/ StopBeforeCommit(j) \/ CommitRefused(j) \/ Commit(j)
  \/ Backup(j) \/ BackupFails(j) \/ BackedUp(j)
  \/ Replace(j) \/ ReplaceFails(j) \/ SyncFails(j) \/ Committed(j)
  \/ PutBack(j) \/ PutBackFails(j) \/ RolledBack(j)
  \/ Cleanup(j) \/ CleanupFails(j) \/ Finish(j)

Next ==
  \/ \E j \in Jobs : Workload(j) \/ Cancel(j)
  \/ Crash
  \/ \E f \in Files : ForeignEdit(f)
  \/ Ended

Spec == Init /\ [][Next]_vars

-----------------------------------------------------------------------------
(* Properties.                                                             *)

Published(j) == result[j] \in {"completed", "partial"}

\* As long as a target holds the output of a job that has not published all of
\* them, the job's staging directory holds a copy of every target it may have
\* replaced: whatever fails, and even if the application dies.
OldIsKept ==
  \A j \in Jobs : \A v \in expected[j] :
    (\E f \in Files : files[f] = j) /\ ~Published(j) => j \in stage /\ Existing(v) \subseteq copies[j]

\* A workload that reports a plain failure, or that it was cancelled, has left
\* neither a piece of its output nor a backup; and a job that completes or is
\* cancelled leaves no staging directory for somebody to find: what it could
\* not remove or put back fails the job.
NothingLeftBehind ==
  \A j \in Jobs :
    /\ result[j] \in {"failed", "cancelled"} => backups[j] = {} /\ \A f \in Files : files[f] # j
    /\ job[j] \in {"completed", "cancelled"} => j \notin stage

\* When a commit ends, a completed one has replaced every target, and one that
\* failed plainly has put the version of the preflight back, but for targets
\* somebody edited meanwhile.
OutcomeIsTrue ==
  [][lock # {} /\ lock' = {} /\ crashes' = crashes =>
       \A j \in lock : \A v \in expected[j] : \A f \in Files \ late :
         /\ result'[j] = "completed" => files[f] = j
         /\ result'[j] = "failed" => files[f] = v[f]]_vars

\* A job replaces only content its preflight has seen or the job itself has
\* written; what another program or job has put there since is left alone,
\* unless it came after the comparison that opens the commit.
ForeignKept ==
  [][\A f \in Files : files'[f] # files[f] =>
       \/ edits' # edits
       \/ \E j \in lock :
            f \in late \/ files[f] = j \/ \E v \in expected[j] : files[f] = v[f]]_vars
=============================================================================
