---------------------------- MODULE ProjectSave ----------------------------
(***************************************************************************)
(* Saving the Project and the Variant that is open in it, two files that   *)
(* only make sense together (persistence/v2/project_save_journal.py), by   *)
(* several processes on one data root: the write lock and its recovery on  *)
(* entry (project_write_lock.py), the conditional replaces and restores    *)
(* (repository.py), and the callers that open and save a Project           *)
(* (project_lifecycle_loader.py, projects/lifecycle.py, durable_variant.py)*)
(*                                                                         *)
(* One action is one file operation, or the reads that precede it.  Every  *)
(* file operation may fail, before or after it took effect, and a process  *)
(* may die between any two.  A document is its revision and its author;    *)
(* two documents are equal when their digests are.                         *)
(*                                                                         *)
(* Left out: schema checks, migration, quarantine and damaged journals,    *)
(* the activation record, and the threads of one process (the lifecycle    *)
(* service serialises them).  A conditional replace is one step: a writer  *)
(* that ignores the lock cannot come between its check and its replace.    *)
(***************************************************************************)
EXTENDS Naturals, FiniteSets

CONSTANTS
  Processes,
  Drafts,          \* working-copy contents; each belongs to one process
  RevisionSteps,   \* by how much a working copy may be ahead of what it was loaded from
  MaxFaults,       \* file operations that fail
  MaxCrashes,      \* processes that die
  MaxForeignEdits, \* edits by programs that do not take the lock
  MaxMishaps       \* all of these together; an edit counts for two

ASSUME AuthorAssumption == {"initial", "foreign"} \cap Drafts = {}
ASSUME StepAssumption == RevisionSteps \subseteq Nat \ {0}
ASSUME BoundAssumption == MaxFaults \in Nat /\ MaxCrashes \in Nat /\ MaxForeignEdits \in Nat
                          /\ MaxMishaps \in Nat

Docs     == {"project", "variant"}
Authors  == Drafts \cup {"initial", "foreign"}
Document == [rev : Nat, by : Authors]
Pair     == [Docs -> Document]
Journal  == [previous : Pair, target : Pair]

\* A save: what it writes, the pair it should leave, and whether it is the automatic save
\* after a download, which checks the disk again before it reports a failure.
SaveRequest == [writes : SUBSET Docs, target : Pair, automatic : BOOLEAN]

PC == {"ready", "peeked", "opening", "saving", "recover", "restored", "forward", "back",
       "activate", "compare", "journal", "variant", "variantCheck", "project", "projectCheck",
       "compensate", "finish", "reconcile"}

VARIABLES
  disk,      \* the two formal documents
  journals,  \* project-save-journal/
  lock,      \* the process inside the write lock, as a set
  pc,        \* the operation of each process
  duty,      \* what the recovery under way is for: to enter an open or a save, or to end a failed save
  opened,    \* processes with an active Project
  known,     \* the documents a process opened or last saved; a save quotes their revisions
  read,      \* documents read by the operation under way
  request,   \* the save under way, or the last one
  result,    \* what the last save reported
  used,      \* drafts that exist
  faults, crashes, edits

bounds == <<faults, crashes, edits>>
local  == <<opened, known, read, request, result, used>>
vars   == <<disk, journals, lock, pc, duty, opened, known, read, request, result, used,
            faults, crashes, edits>>

TypeOK ==
  /\ disk \in Pair
  /\ journals \subseteq Journal
  /\ lock \subseteq Processes
  /\ pc \in [Processes -> PC]
  /\ duty \in [Processes -> {"open", "save", "failed"}]
  /\ opened \subseteq Processes
  /\ known \in [Processes -> Pair]
  /\ read \in [Processes -> Pair]
  /\ request \in [Processes -> SaveRequest]
  /\ result \in [Processes -> {"none", "saved", "failed"}]
  /\ used \subseteq Drafts
  /\ faults \in Nat /\ crashes \in Nat /\ edits \in Nat

Seed == [d \in Docs |-> [rev |-> 0, by |-> "initial"]]

NoRequest == [writes |-> {}, target |-> Seed, automatic |-> FALSE]

Init ==
  /\ disk = Seed
  /\ journals = {} /\ lock = {}
  /\ pc = [p \in Processes |-> "ready"]
  /\ duty = [p \in Processes |-> "open"]
  /\ opened = {}
  /\ known = [p \in Processes |-> Seed]
  /\ read = [p \in Processes |-> Seed]
  /\ request = [p \in Processes |-> NoRequest]
  /\ result = [p \in Processes |-> "none"]
  /\ used = {}
  /\ faults = 0 /\ crashes = 0 /\ edits = 0

Goto(p, label) == pc' = [pc EXCEPT ![p] = label]
Step(p, from, to) == pc[p] = from /\ Goto(p, to)
Put(d, document) == disk' = [disk EXCEPT ![d] = document]
Spared(cost) == faults + crashes + 2 * edits + cost <= MaxMishaps
Fault == Spared(1) /\ faults < MaxFaults /\ faults' = faults + 1 /\ UNCHANGED <<crashes, edits>>

-----------------------------------------------------------------------------
(* How an operation ends.  Leaving the lock and returning are one step; *)
(* what the operation has read is forgotten.                            *)

Forget(p) == read' = [read EXCEPT ![p] = Seed]

SaveSucceeds(p) ==
  /\ Forget(p)
  /\ known' = [known EXCEPT ![p] = request[p].target]
  /\ result' = [result EXCEPT ![p] = "saved"]
  /\ lock' = lock \ {p}
  /\ Goto(p, "ready")
  /\ UNCHANGED <<duty, opened, request, used>>

SaveFails(p) ==
  /\ Forget(p)
  /\ result' = [result EXCEPT ![p] = "failed"]
  /\ lock' = lock \ {p}
  /\ Goto(p, IF request[p].automatic THEN "reconcile" ELSE "ready")
  /\ UNCHANGED <<duty, opened, known, request, used>>

OpenFails(p) ==
  /\ Forget(p)
  /\ lock' = lock \ {p}
  /\ Goto(p, "ready")
  /\ UNCHANGED <<duty, opened, known, request, result, used>>

OperationFails(p) ==
  \/ duty[p] = "open" /\ OpenFails(p)
  \/ duty[p] # "open" /\ SaveFails(p)

-----------------------------------------------------------------------------
(* The write lock.  Within a process it is an RLock; another process that  *)
(* holds it makes the attempt fail at once.                                *)

\* Mutant: the lock is entered without recovering what others left behind.
AcquireWithoutRecovery(p) ==
  /\ pc[p] \in {"opening", "saving"}
  /\ lock = {}
  /\ lock' = {p}
  /\ Goto(p, IF pc[p] = "opening" THEN "activate" ELSE "compare")
  /\ duty' = [duty EXCEPT ![p] = IF pc[p] = "opening" THEN "open" ELSE "save"]
  /\ UNCHANGED <<disk, journals, local, bounds>>

Acquire(p) ==
  /\ pc[p] \in {"opening", "saving"}
  /\ lock = {}
  /\ lock' = {p}
  /\ Goto(p, "recover")
  /\ duty' = [duty EXCEPT ![p] = IF pc[p] = "opening" THEN "open" ELSE "save"]
  /\ UNCHANGED <<disk, journals, local, bounds>>

Busy(p) ==
  /\ lock # {}
  /\ \/ pc[p] = "opening" /\ OpenFails(p)
     \/ pc[p] = "saving" /\ SaveFails(p)
  /\ UNCHANGED <<disk, journals, bounds>>

-----------------------------------------------------------------------------
(* Opening: the candidate is read without recovery, one document at a      *)
(* time, and confirmed by its digests inside the lock.                     *)

LoadProject(p) ==
  /\ Step(p, "ready", "peeked")
  /\ lock = {}
  /\ read' = [read EXCEPT ![p] = [@ EXCEPT !["project"] = disk["project"]]]
  /\ UNCHANGED <<disk, journals, lock, duty, opened, known, request, result, used, bounds>>

LoadVariant(p) ==
  /\ Step(p, "peeked", "opening")
  /\ lock = {}
  /\ read' = [read EXCEPT ![p] = [@ EXCEPT !["variant"] = disk["variant"]]]
  /\ UNCHANGED <<disk, journals, lock, duty, opened, known, request, result, used, bounds>>

LoadFails(p) ==
  /\ pc[p] = "peeked"
  /\ OpenFails(p)
  /\ UNCHANGED <<disk, journals, bounds>>

\* Mutant: the candidate is confirmed by its revisions alone.
SameCandidateByRevision(p) == \A d \in Docs : disk[d].rev = read[p][d].rev

SameCandidate(p) == disk = read[p]

\* The new working copy replaces the old one, whose unsaved draft is given up.
Activate(p) ==
  /\ Step(p, "activate", "ready")
  /\ IF SameCandidate(p)
       THEN /\ known' = [known EXCEPT ![p] = read[p]]
            /\ opened' = opened \cup {p}
            /\ result' = [result EXCEPT ![p] = "none"]
       ELSE UNCHANGED <<known, opened, result>>
  /\ Forget(p)
  /\ lock' = lock \ {p}
  /\ UNCHANGED <<disk, journals, duty, request, used, bounds>>

ActivateFails(p) ==
  /\ pc[p] = "activate"
  /\ OpenFails(p)
  /\ Fault
  /\ UNCHANGED <<disk, journals>>

-----------------------------------------------------------------------------
(* Starting a save: a new draft on top of what the process knows, or the   *)
(* draft of the save that failed once more.                                *)

NewSave(p) ==
  /\ p \in opened
  /\ Step(p, "ready", "saving")
  /\ \E t \in Drafts \ used, W \in SUBSET Docs, step \in RevisionSteps, auto \in BOOLEAN :
       /\ W # {}
       /\ used' = used \cup {t}
       /\ request' = [request EXCEPT ![p] =
            [writes |-> W, automatic |-> auto,
             target |-> [d \in Docs |-> IF d \in W THEN [rev |-> known[p][d].rev + step, by |-> t]
                                                   ELSE known[p][d]]]]
  /\ result' = [result EXCEPT ![p] = "none"]
  /\ UNCHANGED <<disk, journals, lock, duty, opened, known, read, bounds>>

Retry(p) ==
  /\ p \in opened
  /\ result[p] = "failed"
  /\ Step(p, "ready", "saving")
  /\ result' = [result EXCEPT ![p] = "none"]
  /\ UNCHANGED <<disk, journals, lock, duty, opened, known, read, request, used, bounds>>

-----------------------------------------------------------------------------
(* The journal. *)

Journalled(p) == request[p].writes = Docs

\* Mutant: the journal holds no preimage.
PreparedWithoutPreimage(p) == [target |-> request[p].target]

Prepared(p) == [previous |-> read[p], target |-> request[p].target]

\* Which version of a document is on disk: _record_state.
IsPrevious(j, d) == disk[d] = j.previous[d]
IsTarget(j, d)   == disk[d] = j.target[d] /\ ~IsPrevious(j, d)

AllPrevious(j) == \A d \in Docs : IsPrevious(j, d)
AllTarget(j)   == \A d \in Docs : IsTarget(j, d)

\* Mutant: a journal whose documents changed meanwhile is rolled back all the same.
HalfWayUnchecked(j) == IsPrevious(j, "project") /\ ~IsPrevious(j, "variant")

HalfWay(j) == IsPrevious(j, "project") /\ IsTarget(j, "variant")

Resolvable(j)  == AllPrevious(j) \/ AllTarget(j) \/ HalfWay(j)

-----------------------------------------------------------------------------
(* Recovery, on every entry of the lock and after a failed journalled save. *)

NothingPending(p) ==
  /\ journals = {}
  /\ \/ duty[p] = "open" /\ Step(p, "recover", "activate")
     \/ duty[p] = "save" /\ Step(p, "recover", "compare")
  /\ UNCHANGED <<disk, journals, lock, duty, local, bounds>>

RecoverResolved(p) ==
  /\ \E j \in journals : \/ AllTarget(j) /\ Step(p, "recover", "forward")
                         \/ AllPrevious(j) /\ Step(p, "recover", "back")
  /\ UNCHANGED <<disk, journals, lock, duty, local, bounds>>

RecoverVariant(p) ==
  /\ Step(p, "recover", "restored")
  /\ \E j \in journals : HalfWay(j) /\ Put("variant", j.previous["variant"])
  /\ UNCHANGED <<journals, lock, duty, local, bounds>>

RecoverVerified(p) ==
  /\ Step(p, "restored", "back")
  /\ \E j \in journals : IsPrevious(j, "variant")
  /\ UNCHANGED <<disk, journals, lock, duty, local, bounds>>

\* Content nobody knows: recovery refuses and the journal stays.
RecoverRefused(p) ==
  /\ \/ pc[p] = "recover" /\ \E j \in journals : ~Resolvable(j)
     \/ pc[p] = "restored" /\ \E j \in journals : ~IsPrevious(j, "variant")
  /\ OperationFails(p)
  /\ UNCHANGED <<disk, journals, bounds>>

RecoverFails(p) ==
  /\ pc[p] \in {"recover", "restored"}
  /\ journals # {}
  /\ \/ UNCHANGED disk
     \/ /\ pc[p] = "recover"
        /\ \E j \in journals : HalfWay(j) /\ Put("variant", j.previous["variant"])
  /\ OperationFails(p)
  /\ Fault
  /\ UNCHANGED journals

\* The resolved journal is removed; what follows depends on what the recovery was for.
RemoveJournal(p) ==
  /\ pc[p] \in {"forward", "back"}
  /\ \E j \in journals : journals' = journals \ {j}
  /\ IF duty[p] # "failed" THEN Goto(p, "recover") /\ UNCHANGED <<lock, duty, local>>
     ELSE IF pc[p] = "forward" THEN SaveSucceeds(p) ELSE SaveFails(p)
  /\ UNCHANGED <<disk, bounds>>

RemoveFails(p) ==
  /\ pc[p] \in {"forward", "back"}
  /\ \/ UNCHANGED journals
     \/ \E j \in journals : journals' = journals \ {j}
  /\ OperationFails(p)
  /\ Fault
  /\ UNCHANGED disk

-----------------------------------------------------------------------------
(* ProjectSaveProtocol.commit, inside the lock and with nothing pending. *)

Stale(p) == \E d \in Docs : disk[d].rev # known[p][d].rev

Compare(p) ==
  /\ pc[p] = "compare"
  /\ IF Stale(p)
       THEN SaveFails(p)
       ELSE /\ read' = [read EXCEPT ![p] = disk]
            /\ Goto(p, IF Journalled(p) THEN "journal"
                       ELSE IF "variant" \in request[p].writes THEN "variant" ELSE "project")
            /\ UNCHANGED <<lock, duty, opened, known, request, result, used>>
  /\ UNCHANGED <<disk, journals, bounds>>

CompareFails(p) ==
  /\ pc[p] = "compare"
  /\ SaveFails(p)
  /\ Fault
  /\ UNCHANGED <<disk, journals>>

\* The preimages must still be what was loaded.  A failure here leaves the journal behind
\* if it was already published: this part of commit is outside its try block.
WriteJournal(p) ==
  /\ pc[p] = "journal"
  /\ IF disk = read[p]
       THEN /\ journals' = journals \cup {Prepared(p)}
            /\ Goto(p, "variant")
            /\ UNCHANGED <<lock, duty, local>>
       ELSE SaveFails(p) /\ UNCHANGED journals
  /\ UNCHANGED <<disk, bounds>>

WriteJournalFails(p) ==
  /\ pc[p] = "journal"
  /\ disk = read[p]
  /\ journals' \in {journals, journals \cup {Prepared(p)}}
  /\ SaveFails(p)
  /\ Fault
  /\ UNCHANGED disk

\* An exception while publishing: a journalled save resolves its own journal.
Raise(p) ==
  IF Journalled(p)
    THEN /\ Goto(p, "recover")
         /\ duty' = [duty EXCEPT ![p] = "failed"]
         /\ UNCHANGED <<lock, local>>
    ELSE SaveFails(p)

PublishVariant(p) ==
  /\ pc[p] = "variant"
  /\ IF disk["variant"] = read[p]["variant"]
       THEN /\ Put("variant", request[p].target["variant"])
            /\ Goto(p, "variantCheck")
            /\ UNCHANGED <<lock, duty, local>>
       ELSE Raise(p) /\ UNCHANGED disk
  /\ UNCHANGED <<journals, bounds>>

PublishVariantFails(p) ==
  /\ pc[p] = "variant"
  /\ Raise(p)
  /\ Fault
  /\ UNCHANGED <<disk, journals>>

CheckVariant(p) ==
  /\ pc[p] = "variantCheck"
  /\ IF disk["variant"] = request[p].target["variant"]
       THEN /\ Goto(p, IF "project" \in request[p].writes THEN "project" ELSE "finish")
            /\ UNCHANGED <<lock, duty, local>>
       ELSE Raise(p)
  /\ UNCHANGED <<disk, journals, bounds>>

PublishProject(p) ==
  /\ pc[p] = "project"
  /\ IF disk["project"] = read[p]["project"]
       THEN Put("project", request[p].target["project"]) /\ Goto(p, "projectCheck")
                                                        /\ UNCHANGED <<lock, duty, local>>
       ELSE /\ UNCHANGED disk
            /\ IF Journalled(p) THEN Goto(p, "compensate") /\ UNCHANGED <<lock, duty, local>>
                                ELSE Raise(p)
  /\ UNCHANGED <<journals, bounds>>

PublishProjectFails(p) ==
  /\ pc[p] = "project"
  /\ IF Journalled(p) THEN Goto(p, "compensate") /\ UNCHANGED <<lock, duty, local>>
                      ELSE Raise(p)
  /\ Fault
  /\ UNCHANGED <<disk, journals>>

\* Only what this save published is taken back.
Compensate(p) ==
  /\ pc[p] = "compensate"
  /\ \/ disk["variant"] = request[p].target["variant"] /\ Put("variant", read[p]["variant"])
     \/ disk["variant"] # request[p].target["variant"] /\ UNCHANGED disk
  /\ Raise(p)
  /\ UNCHANGED <<journals, bounds>>

CompensateFails(p) ==
  /\ pc[p] = "compensate"
  /\ Raise(p)
  /\ Fault
  /\ UNCHANGED <<disk, journals>>

CheckProject(p) ==
  /\ pc[p] = "projectCheck"
  /\ IF disk["project"] = request[p].target["project"]
       THEN Goto(p, "finish") /\ UNCHANGED <<lock, duty, local>>
       ELSE Raise(p)
  /\ UNCHANGED <<disk, journals, bounds>>

CheckFails(p) ==
  /\ pc[p] \in {"variantCheck", "projectCheck"}
  /\ Raise(p)
  /\ Fault
  /\ UNCHANGED <<disk, journals>>

Finish(p) ==
  /\ pc[p] = "finish"
  /\ journals' = IF Journalled(p) THEN journals \ {Prepared(p)} ELSE journals
  /\ SaveSucceeds(p)
  /\ UNCHANGED <<disk, bounds>>

\* The save is committed: a journal that cannot be removed is only a warning.
FinishUnclean(p) ==
  /\ pc[p] = "finish"
  /\ Journalled(p)
  /\ SaveSucceeds(p)
  /\ Fault
  /\ UNCHANGED <<disk, journals>>

-----------------------------------------------------------------------------
(* The automatic save reads the disk again before it reports a failure. *)

\* Mutant: it is content with the Variant.
PersistedVariantMatches(p) == disk["variant"] = request[p].target["variant"]

PersistedMatches(p) == disk = request[p].target

ReconcileMatches(p) ==
  /\ Step(p, "reconcile", "ready")
  /\ lock = {}
  /\ PersistedMatches(p)
  /\ known' = [known EXCEPT ![p] = request[p].target]
  /\ result' = [result EXCEPT ![p] = "saved"]
  /\ UNCHANGED <<disk, journals, lock, duty, opened, read, request, used, bounds>>

\* It does not match, the lock is busy, or the read fails.
ReconcileFails(p) ==
  /\ Step(p, "reconcile", "ready")
  /\ UNCHANGED <<disk, journals, lock, duty, local, bounds>>

-----------------------------------------------------------------------------
(* The environment. *)

\* The operating system releases the lock of a dead process; a new one takes its place.
Crash(p) ==
  /\ Spared(1) /\ crashes < MaxCrashes
  /\ crashes' = crashes + 1
  /\ lock' = lock \ {p}
  /\ Goto(p, "ready")
  /\ opened' = opened \ {p}
  /\ result' = [result EXCEPT ![p] = "none"]
  /\ request' = [request EXCEPT ![p] = NoRequest]
  /\ Forget(p)
  /\ UNCHANGED <<disk, journals, duty, known, used, faults, edits>>

ForeignEdit(d) ==
  /\ Spared(2) /\ edits < MaxForeignEdits
  /\ edits' = edits + 1
  /\ Put(d, [rev |-> disk[d].rev + 1, by |-> "foreign"])
  /\ UNCHANGED <<journals, lock, pc, duty, local, faults, crashes>>

OpenStep(p) ==
  LoadProject(p) \/ LoadVariant(p) \/ LoadFails(p) \/ Activate(p) \/ ActivateFails(p)

RecoveryStep(p) ==
  \/ NothingPending(p) \/ RecoverResolved(p) \/ RecoverVariant(p) \/ RecoverVerified(p)
  \/ RecoverRefused(p) \/ RecoverFails(p) \/ RemoveJournal(p) \/ RemoveFails(p)

CommitStep(p) ==
  \/ Compare(p) \/ CompareFails(p) \/ WriteJournal(p) \/ WriteJournalFails(p)
  \/ PublishVariant(p) \/ PublishVariantFails(p) \/ CheckVariant(p)
  \/ PublishProject(p) \/ PublishProjectFails(p) \/ CheckProject(p) \/ CheckFails(p)
  \/ Compensate(p) \/ CompensateFails(p) \/ Finish(p) \/ FinishUnclean(p)

SaveStep(p) == NewSave(p) \/ Retry(p) \/ ReconcileMatches(p) \/ ReconcileFails(p)

ProcessStep(p) ==
  Acquire(p) \/ Busy(p) \/ OpenStep(p) \/ RecoveryStep(p) \/ CommitStep(p) \/ SaveStep(p)

Next ==
  \/ \E p \in Processes : ProcessStep(p) \/ Crash(p)
  \/ \E d \in Docs : ForeignEdit(d)

Spec == Init /\ [][Next]_vars

-----------------------------------------------------------------------------
(* What must hold. *)

Committed ==
  IF \E j \in journals : HalfWay(j) THEN (CHOOSE j \in journals : HalfWay(j)).previous ELSE disk

OneJournal == \A i, j \in journals : i = j

\* However often saves fail, crash and are recovered, by whichever process, no second
\* journal appears while one is pending, so that recovery never has to order two of them.
\* And as long as every writer takes the lock, the journal a failure or a crash has left
\* behind can be resolved: ACTIVE_SAVE_JOURNAL_CONFLICT, which blocks every later open and
\* save of the Project, is never raised by the program's own doing.
JournalResolvable == OneJournal /\ (edits = 0 => \A j \in journals : Resolvable(j))

\* What a process was told is saved, or what it opened, is never taken back by a later
\* recovery: the committed documents do not fall behind what any process knows.
AcknowledgedStays ==
  edits = 0 => \A p \in opened, d \in Docs : known[p][d].rev <= Committed[d].rev

\* A document written by another program is replaced only by a save of a process that has
\* opened that very content; no recovery, compensation or stale save overwrites it.
ForeignKept ==
  [][\A d \in Docs :
       disk[d].by = "foreign" /\ disk'[d] # disk[d] =>
         \/ edits' # edits
         \/ \E p \in lock : p \in opened /\ known[p][d] = disk[d]]_vars

\* FR19.12: a save that reports failure leaves the old documents in force.
FailedSaveKeepsOld ==
  \A p \in Processes : result[p] = "failed" =>
    \A d \in request[p].writes : Committed[d] # request[p].target[d]
=============================================================================
