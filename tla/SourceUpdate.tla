---------------------------- MODULE SourceUpdate ----------------------------
(***************************************************************************)
(* Replacing the source file of a Project                                  *)
(* (persistence/source_update_store.py): every Variant and, last, the      *)
(* Project are published under one journal, by several processes on one    *)
(* data root, next to ordinary saves and to programs that ignore the lock. *)
(*                                                                         *)
(* One action is one file operation, with the digest comparison right      *)
(* before it, or the reads of a stage; each may fail before or after it    *)
(* took effect, and a process may die between any two.  A record is its    *)
(* content; contents are equal when their digests are.  What a process     *)
(* keeps only while it is inside the lock is one variable, not one per     *)
(* process.                                                                *)
(*                                                                         *)
(* Left out: validation of manifests and targets, transaction identities   *)
(* (each update has one of its own), the content of the permanent backup,  *)
(* and the working copy in memory.                                         *)
(***************************************************************************)
EXTENDS Naturals

CONSTANTS
  Processes,
  NumVariants,
  Contents,        \* what a record may hold
  MaxFaults,       \* file operations that fail
  MaxCrashes,      \* processes that die
  MaxForeignEdits, \* edits by programs that do not take the lock
  MaxMishaps       \* all of these together

ASSUME ContentAssumption == "foreign" \notin Contents
ASSUME VariantAssumption == NumVariants \in Nat \ {0}
ASSUME BoundAssumption == {MaxFaults, MaxCrashes, MaxForeignEdits, MaxMishaps} \subseteq Nat

\* Records, in the order in which they are published.
Records == 1 .. NumVariants + 1
Project == NumVariants + 1

Version == [Records -> Contents \cup {"foreign"}]
Journal == [status : {"prepared", "committed"}, previous : Version, target : [Records -> Contents]]

\* An update advances the revision of every record.
Updates(v) == {new \in [Records -> Contents] : \A r \in Records : new[r] # v[r]}

PC == {"ready", "previewed", "recover", "inside", "publish", "mark", "clean", "rollback"}

VARIABLES
  disk,      \* the records
  journals,  \* source-update-journal/
  lock,      \* the process inside the write lock, as a set
  pc,        \* the operation of each process
  seen,      \* the version each process has previewed, as a set
  duty,      \* inside the lock: recovery on entry, or the process's own update
  todo,      \* inside the lock: records the operation has not reached
  outcome,   \* what the last update of each process reported
  faults, crashes, edits

bounds == <<faults, crashes, edits>>
local  == <<seen, duty, todo, outcome>>
vars   == <<disk, journals, lock, pc, seen, duty, todo, outcome, faults, crashes, edits>>

TypeOK ==
  /\ disk \in Version
  /\ journals \subseteq Journal
  /\ lock \subseteq Processes
  /\ pc \in [Processes -> PC]
  /\ seen \in [Processes -> SUBSET Version]
  /\ duty \in {"enter", "own"}
  /\ todo \subseteq Records
  /\ outcome \in [Processes -> {"none", "updated", "failed"}]
  /\ faults \in Nat /\ crashes \in Nat /\ edits \in Nat

Init ==
  /\ disk \in [Records -> Contents]
  /\ journals = {} /\ lock = {}
  /\ pc = [p \in Processes |-> "ready"]
  /\ seen = [p \in Processes |-> {}]
  /\ duty = "enter" /\ todo = {}
  /\ outcome = [p \in Processes |-> "none"]
  /\ faults = 0 /\ crashes = 0 /\ edits = 0

Goto(p, label) == pc' = [pc EXCEPT ![p] = label]
Step(p, from, to) == pc[p] = from /\ Goto(p, to)
Put(r, content) == disk' = [disk EXCEPT ![r] = content]
Spared(n) == faults + crashes + edits + n <= MaxMishaps
Faults(n) == Spared(n) /\ faults + n <= MaxFaults /\ faults' = faults + n /\ UNCHANGED <<crashes, edits>>

\* Leaving the lock and returning are one step.
Return(p, result) ==
  /\ lock' = lock \ {p} /\ duty' = "enter" /\ todo' = {}
  /\ Goto(p, "ready")
  /\ outcome' = [outcome EXCEPT ![p] = IF seen[p] = {} THEN @ ELSE result]
  /\ seen' = [seen EXCEPT ![p] = {}]

Succeeds(p) == Return(p, "updated")
Fails(p)    == Return(p, "failed")

-----------------------------------------------------------------------------
(* The journal.                                                            *)

Prepared == {j \in journals : j.status = "prepared"}

\* Mutant: the marker writes a status the loader does not know.
MarkedUnknown == {[j EXCEPT !.status = "done"] : j \in journals}

Marked == {[j EXCEPT !.status = "committed"] : j \in journals}

Published(j) == {r \in Records : disk[r] = j.target[r]}
Known(j)     == \A r \in Records : disk[r] \in {j.previous[r], j.target[r]}

\* The Project is published last and taken back first.
Resolvable(j) == Known(j) /\ (Project \in Published(j) => Published(j) = Records)

-----------------------------------------------------------------------------
(* Entering the lock, for a preview or for an update.                      *)

Enter(p) ==
  /\ pc[p] \in {"ready", "previewed"} /\ lock = {}
  /\ lock' = {p} /\ Goto(p, "recover")
  /\ UNCHANGED <<disk, journals, local, bounds>>

Busy(p) ==
  /\ pc[p] = "previewed" /\ lock # {}
  /\ Goto(p, "ready")
  /\ seen' = [seen EXCEPT ![p] = {}]
  /\ outcome' = [outcome EXCEPT ![p] = "failed"]
  /\ UNCHANGED <<disk, journals, lock, duty, todo, bounds>>

NothingPending == Prepared = {}

\* Nothing is pending; committed journals left behind are removed, or stay once more.
Pass(p) ==
  /\ duty = "enter" /\ NothingPending
  /\ Step(p, "recover", "inside")
  /\ \/ journals' = {} /\ UNCHANGED bounds
     \/ journals # {} /\ Faults(1) /\ UNCHANGED journals
  /\ UNCHANGED <<disk, lock, local>>

Read(p) ==
  /\ Step(p, "inside", "previewed") /\ seen[p] = {}
  /\ seen' = [seen EXCEPT ![p] = {disk}]
  /\ lock' = {} /\ outcome' = [outcome EXCEPT ![p] = "none"]
  /\ UNCHANGED <<disk, journals, duty, todo, bounds>>

\* The records or the journal cannot be read.
Unreadable(p) ==
  /\ pc[p] \in {"recover", "inside"}
  /\ Fails(p) /\ Faults(1)
  /\ UNCHANGED <<disk, journals>>

-----------------------------------------------------------------------------
(* _recover: on entry for whatever is pending, and at the end of an update, *)
(* complete or not, for its own journal.                                    *)

Refused(p) ==
  /\ pc[p] = "recover"
  /\ \E j \in Prepared : ~Resolvable(j)
  /\ Fails(p)
  /\ UNCHANGED <<disk, journals, bounds>>

Resolve(p) ==
  /\ pc[p] = "recover"
  /\ \E j \in Prepared :
       /\ Resolvable(j)
       /\ Goto(p, IF Published(j) = Records THEN "mark" ELSE "rollback")
       /\ todo' = Published(j)
  /\ UNCHANGED <<disk, journals, lock, seen, duty, outcome, bounds>>

Mark(p) ==
  /\ Step(p, "mark", "clean")
  /\ journals' = Marked
  /\ UNCHANGED <<disk, lock, local, bounds>>

\* Mutant: an update whose marker cannot be written is left as it is.
UnmarkedAtOnce(p) == Fails(p)

\* Without its marker an update takes everything back; recovery on entry leaves the rest
\* to the next one.
Unmarked(p) ==
  \/ duty = "own" /\ Goto(p, "rollback") /\ UNCHANGED <<lock, local>>
  \/ duty = "enter" /\ Fails(p)

\* The journal is read back: only the exact marker certifies success.
MarkFails(p) ==
  /\ pc[p] = "mark" /\ Faults(1)
  /\ \/ journals' = Marked /\ Goto(p, "clean") /\ UNCHANGED <<lock, local>>
     \/ UNCHANGED journals /\ Unmarked(p)
  /\ UNCHANGED disk

\* Nor can the journal be read back.
MarkUnread(p) ==
  /\ pc[p] = "mark" /\ Faults(2)
  /\ journals' \in {journals, Marked}
  /\ Fails(p)
  /\ UNCHANGED disk

\* Mutant: Variants are taken back before their Project.
NextBackForward(r) == r \in todo /\ \A s \in todo : r <= s

NextBack(r) == r \in todo /\ \A s \in todo : r >= s

\* Mutant: whatever is on disk is taken back.
RestoreAnything(j, r) == Put(r, j.previous[r])

Restore(j, r) == r \in Published(j) /\ Put(r, j.previous[r])

Rollback(p) ==
  /\ pc[p] = "rollback"
  /\ \E r \in Records, j \in Prepared : NextBack(r) /\ Restore(j, r) /\ todo' = todo \ {r}
  /\ UNCHANGED <<journals, lock, pc, seen, duty, outcome, bounds>>

RollbackRefused(p) ==
  /\ pc[p] = "rollback"
  /\ \E r \in Records, j \in Prepared : NextBack(r) /\ r \notin Published(j)
  /\ Fails(p)
  /\ UNCHANGED <<disk, journals, bounds>>

RollbackFails(p) ==
  /\ pc[p] = "rollback" /\ todo # {} /\ Faults(1)
  /\ UNCHANGED disk \/ \E r \in Records, j \in Prepared : NextBack(r) /\ Restore(j, r)
  /\ Fails(p)
  /\ UNCHANGED journals

\* The journal is removed; the process goes on to enter, or reports its update's failure.
RollbackEnds(p) ==
  /\ pc[p] = "rollback" /\ todo = {}
  /\ journals' = journals \ Prepared
  /\ \/ duty = "enter" /\ Goto(p, "recover") /\ UNCHANGED <<lock, local>>
     \/ duty = "own" /\ Fails(p)
  /\ UNCHANGED <<disk, bounds>>

RollbackEndFails(p) ==
  /\ pc[p] = "rollback" /\ todo = {} /\ Faults(1)
  /\ journals' \in {journals, journals \ Prepared}
  /\ Fails(p)
  /\ UNCHANGED disk

\* Removing a committed journal is only tidying up; one left behind earlier stays.
Clean(p) ==
  /\ pc[p] = "clean"
  /\ \E j \in journals :
       \/ journals' = journals \ {j} /\ UNCHANGED bounds
       \/ Faults(1) /\ journals' \in {journals, journals \ {j}}
  /\ \/ duty = "enter" /\ Goto(p, "recover") /\ todo' = {} /\ UNCHANGED <<lock, seen, duty, outcome>>
     \/ duty = "own" /\ Succeeds(p)
  /\ UNCHANGED disk

-----------------------------------------------------------------------------
(* commit, with nothing pending.                                           *)

\* Mutant: the update is not compared with its preview.
CurrentAnyway(p) == seen[p] # {}

Current(p) == disk \in seen[p]

Manifests == {[status |-> "prepared", previous |-> disk, target |-> new] : new \in Updates(disk)}

\* The backup and then the journal are written; what the update publishes is of no
\* consequence before this point: it is chosen here.
Begin(p) ==
  /\ Step(p, "inside", "publish") /\ Current(p)
  /\ \E j \in Manifests : journals' = journals \cup {j}
  /\ duty' = "own" /\ todo' = Records
  /\ UNCHANGED <<disk, lock, seen, outcome, bounds>>

\* Writing or reading back the journal fails: whatever is left of it stays.
BeginFails(p) ==
  /\ pc[p] = "inside" /\ Current(p) /\ Faults(1)
  /\ \E j \in Manifests : journals' \in {journals, journals \cup {j}}
  /\ Fails(p)
  /\ UNCHANGED disk

Stale(p) ==
  /\ pc[p] = "inside" /\ seen[p] # {} /\ ~Current(p)
  /\ Fails(p)
  /\ UNCHANGED <<disk, journals, bounds>>

NextUp(r) == r \in todo /\ \A s \in todo : r <= s

\* A record is replaced only on top of its preimage, the Project only on top of all the
\* published Variants.
MayPublish(j, r) ==
  /\ disk[r] = j.previous[r]
  /\ r = Project => Published(j) = Records \ {Project}

Replace(j, r) == MayPublish(j, r) /\ Put(r, j.target[r])

Publish(p) ==
  /\ pc[p] = "publish"
  /\ \E r \in Records, j \in Prepared :
       /\ NextUp(r) /\ Replace(j, r)
       /\ todo' = todo \ {r}
       /\ Goto(p, IF r = Project THEN "recover" ELSE "publish")
  /\ UNCHANGED <<journals, lock, seen, duty, outcome, bounds>>

PublishRefused(p) ==
  /\ Step(p, "publish", "recover")
  /\ \E r \in Records, j \in Prepared : NextUp(r) /\ ~MayPublish(j, r)
  /\ UNCHANGED <<disk, journals, lock, local, bounds>>

PublishFails(p) ==
  /\ Step(p, "publish", "recover") /\ Faults(1)
  /\ UNCHANGED disk \/ \E r \in Records, j \in Prepared : NextUp(r) /\ Replace(j, r)
  /\ UNCHANGED <<journals, lock, local>>

-----------------------------------------------------------------------------
(* The environment.                                                        *)

\* The operating system releases the lock of a dead process; a new one takes its place.
Crash(p) ==
  /\ Spared(1) /\ crashes < MaxCrashes
  /\ crashes' = crashes + 1
  /\ Goto(p, "ready")
  /\ lock' = lock \ {p}
  /\ IF p \in lock THEN duty' = "enter" /\ todo' = {} ELSE UNCHANGED <<duty, todo>>
  /\ seen' = [seen EXCEPT ![p] = {}]
  /\ outcome' = [outcome EXCEPT ![p] = "none"]
  /\ UNCHANGED <<disk, journals, faults, edits>>

ForeignEdit(r) ==
  /\ Spared(1) /\ edits < MaxForeignEdits
  /\ edits' = edits + 1
  /\ Put(r, "foreign")
  /\ UNCHANGED <<journals, lock, pc, local, faults, crashes>>

\* An ordinary save of one record: entering the lock it has recovered what was pending.
OtherSave(r) ==
  /\ lock = {} /\ Prepared = {} /\ disk[r] # "foreign"
  /\ \E content \in Contents \ {disk[r]} : Put(r, content)
  /\ UNCHANGED <<journals, lock, pc, local, bounds>>

RecoveryStep(p) ==
  \/ Refused(p) \/ Resolve(p) \/ Mark(p) \/ MarkFails(p) \/ MarkUnread(p)
  \/ Rollback(p) \/ RollbackRefused(p) \/ RollbackFails(p) \/ RollbackEnds(p)
  \/ RollbackEndFails(p) \/ Clean(p)

UpdateStep(p) ==
  \/ Begin(p) \/ BeginFails(p) \/ Stale(p) \/ Publish(p) \/ PublishRefused(p) \/ PublishFails(p)

Next ==
  \/ \E p \in Processes :
       \/ Enter(p) \/ Busy(p) \/ Pass(p) \/ Read(p) \/ Unreadable(p)
       \/ RecoveryStep(p) \/ UpdateStep(p) \/ Crash(p)
  \/ \E r \in Records : ForeignEdit(r) \/ OtherSave(r)

Spec == Init /\ [][Next]_vars

-----------------------------------------------------------------------------
(* What must hold.                                                         *)

\* What the next process to enter the lock will find once it has recovered; an update
\* under way does not count before its marker.
InForce ==
  IF Prepared = {} THEN disk
  ELSE LET j == CHOOSE j \in Prepared : TRUE
       IN  IF Published(j) = Records /\ duty = "enter" THEN j.target ELSE j.previous

\* However often updates fail, crash and are recovered, by whichever process, no second
\* update is prepared while one is pending.
OneJournal == \A i, j \in Prepared : i = j

\* As long as every writer takes the lock, SOURCE_UPDATE_RECOVERY_CONFLICT, which blocks
\* all writers, is never the program's own doing.
JournalResolvable == edits = 0 => \A j \in Prepared : Resolvable(j)

\* A record written by another program is replaced only by an update that has previewed
\* it; no publication and no recovery of an earlier one overwrites it.
ForeignKept ==
  [][\A r \in Records :
       disk[r] = "foreign" /\ disk'[r] # "foreign" =>
         \E j \in journals : j.previous[r] = "foreign"]_vars

\* ADR 044: failures roll back to the exact preimage.  An update that reports success has
\* replaced every record of the version it had previewed; one that reports failure has
\* changed nothing, now or at a later recovery, when a single file operation failed -
\* unless that was reading the journal or the records after everything was published.
OutcomeIsTrue ==
  [][edits' = 0 =>
       \A p \in lock \ lock' : seen[p] # {} =>
         /\ outcome'[p] = "updated" =>
              \A v \in seen[p], r \in Records : InForce'[r] # v[r]
         /\ outcome'[p] = "failed" /\ faults' <= 1 /\ (pc[p] = "recover" => duty = "enter")
              => InForce' = InForce]_vars
=============================================================================
