------------------------- MODULE ProjectActivation -------------------------
(***************************************************************************)
(* Switching to a Project or Variant, creating or deleting a Variant: the  *)
(* activation protocol (persistence/v2/project_activation_journal.py) that *)
(* publishes several documents and the active pointer together, by several *)
(* processes on one data root, and the registry of baselines each process  *)
(* keeps in memory (persistence/v2/lifecycle_transactions.py).             *)
(*                                                                         *)
(* One action is one file operation, or the reads that precede it; each    *)
(* may fail before or after it took effect, and a process may die between  *)
(* any two.  A document is its content; two contents are equal when their  *)
(* digests are.                                                            *)
(*                                                                         *)
(* A conditional replace (check, replace, read back) is one step.  A        *)
(* candidate is read in one step: the comparison inside the lock rejects a *)
(* torn candidate as it rejects a stale one.  What the process keeps only  *)
(* while it is inside the lock is one variable, not one per process.       *)
(*                                                                         *)
(* Left out: validation of manifests and participants, damaged journals,   *)
(* leases and dirty decisions of the transition, and the documents that    *)
(* are only compared.  The Project, the Variant and the pointer stand for  *)
(* the up to six participants of a journal.                                *)
(***************************************************************************)
EXTENDS Naturals, FiniteSets

CONSTANTS
  Processes,
  Contents,        \* what a document may hold
  MaxFaults,       \* file operations that fail
  MaxCrashes,      \* processes that die
  MaxForeignEdits, \* edits by programs that do not take the lock
  MaxMishaps       \* all of these together

ASSUME ContentAssumption == {"absent", "foreign"} \cap Contents = {}
ASSUME BoundAssumption == MaxFaults \in Nat /\ MaxCrashes \in Nat /\ MaxForeignEdits \in Nat
                          /\ MaxMishaps \in Nat

\* Participants, in the order in which they are published.
Position == [project |-> 1, variant |-> 2, pointer |-> 3]
Docs     == DOMAIN Position
Guarded  == {"project", "variant"}   \* compared with what the activation was prepared from

Version == [Docs -> Contents \cup {"absent", "foreign"}]
Targets == {v \in [Docs -> Contents \cup {"absent"}] : v["project"] # "absent" /\ v["pointer"] # "absent"}
Seen    == [Guarded -> Contents \cup {"absent", "foreign"}]
Blank   == [d \in Guarded |-> "absent"]   \* no candidate
Journal == [by : Processes, phase : {"prepared", "committed"}, previous : Version, target : Targets]

First(S) == CHOOSE d \in S : \A e \in S : Position[d] <= Position[e]
Last(S)  == CHOOSE d \in S : \A e \in S : Position[e] <= Position[d]

PC == {"ready", "prepared", "recover", "rewrite", "records", "manifest", "publish", "marker",
       "cleanup", "except"}

VARIABLES
  disk,       \* the documents and the pointer
  journals,   \* project-activation-journal/
  lock,       \* the process inside the write lock, as a set
  pc,         \* the operation of each process
  seen,       \* what the candidate of each process was prepared from
  duty,       \* inside the lock: recovery on entry, or of a failed commit
  todo,       \* inside the lock: participants the operation has not reached
  draft,      \* inside the lock: the journal of the commit, before it is on disk
  captured,   \* inside the lock: the registry when the commit began
  registry,   \* the baselines in memory belong to the active working copy or to a candidate
  failed,     \* the processes whose last commit reported an error
  faults, crashes, edits

bounds == <<faults, crashes, edits>>
held   == <<lock, duty, todo, draft, captured>>
local  == <<seen, duty, todo, draft, captured, registry, failed>>
vars   == <<disk, journals, lock, pc, seen, duty, todo, draft, captured, registry, failed,
            faults, crashes, edits>>

TypeOK ==
  /\ disk \in Version
  /\ journals \subseteq Journal
  /\ lock \subseteq Processes
  /\ pc \in [Processes -> PC]
  /\ seen \in [Processes -> Seen]
  /\ duty \in {"enter", "failed"}
  /\ todo \subseteq Docs
  /\ draft \subseteq Journal
  /\ registry \in [Processes -> {"active", "candidate"}]
  /\ captured \in {"active", "candidate"}
  /\ failed \subseteq Processes
  /\ faults \in Nat /\ crashes \in Nat /\ edits \in Nat

Init ==
  /\ disk \in Targets
  /\ journals = {} /\ lock = {}
  /\ pc = [p \in Processes |-> "ready"]
  /\ seen = [p \in Processes |-> Blank]
  /\ duty = "enter" /\ todo = {} /\ draft = {} /\ captured = "active"
  /\ registry = [p \in Processes |-> "active"]
  /\ failed = {}
  /\ faults = 0 /\ crashes = 0 /\ edits = 0

Goto(p, label) == pc' = [pc EXCEPT ![p] = label]
Step(p, from, to) == pc[p] = from /\ Goto(p, to)
Put(d, content) == disk' = [disk EXCEPT ![d] = content]
Spared == faults + crashes + edits < MaxMishaps
Fault == Spared /\ faults < MaxFaults /\ faults' = faults + 1 /\ UNCHANGED <<crashes, edits>>

-----------------------------------------------------------------------------
(* How a commit ends.  Leaving the lock and returning are one step. *)

Leave(p) == lock' = lock \ {p} /\ duty' = "enter" /\ todo' = {} /\ draft' = {} /\ captured' = "active"

Return(p) == Goto(p, "ready") /\ seen' = [seen EXCEPT ![p] = Blank]

Release(p) == Leave(p) /\ Return(p)

\* The candidate becomes the active working copy.
Succeeds(p) ==
  /\ Release(p)
  /\ registry' = [registry EXCEPT ![p] = "active"]
  /\ UNCHANGED failed

FailsEarly(p) == Release(p) /\ failed' = failed \cup {p} /\ UNCHANGED registry

\* Mutant: the registry keeps what the failed commit published.
FailsRestoringNothing(p, phase) == FailsEarly(p)

\* The phase is the one found in the journal: baselines are restored unless it is committed.
FailsAfter(p, phase) ==
  /\ Release(p)
  /\ failed' = failed \cup {p}
  /\ registry' = [registry EXCEPT ![p] = IF phase = "committed" THEN @ ELSE captured]

\* A recovery that fails: of the process's own commit, or on entry of the lock.
RecoveryFails(p, j) ==
  \/ duty = "enter" /\ FailsEarly(p)
  \/ duty = "failed" /\ FailsAfter(p, j.phase)

-----------------------------------------------------------------------------
(* Preparing an activation and entering the lock. *)

Prepare(p) ==
  /\ Step(p, "ready", "prepared")
  /\ seen' = [seen EXCEPT ![p] = [d \in Guarded |-> disk[d]]]
  /\ failed' = failed \ {p}
  /\ UNCHANGED <<disk, journals, held, registry, bounds>>

\* Mutant: the lock is entered without recovering what others left behind.
EnterWithoutRecovery(p) ==
  /\ Step(p, "prepared", "records")
  /\ lock = {} /\ lock' = {p}
  /\ duty' = "enter"
  /\ UNCHANGED <<disk, journals, todo, seen, draft, registry, captured, failed, bounds>>

Enter(p) ==
  /\ Step(p, "prepared", "recover")
  /\ lock = {} /\ lock' = {p}
  /\ duty' = "enter"
  /\ UNCHANGED <<disk, journals, todo, seen, draft, registry, captured, failed, bounds>>

Busy(p) ==
  /\ pc[p] = "prepared" /\ lock # {}
  /\ Return(p)
  /\ failed' = failed \cup {p}
  /\ UNCHANGED <<disk, journals, held, registry, bounds>>

-----------------------------------------------------------------------------
(* The journal. *)

Participants(previous, new) == {d \in Docs : previous[d] # new[d]}
Parts(j) == Participants(j.previous, j.target)

\* Mutant: whatever is on disk may be replaced.
KnownAnything(j, d) == TRUE

\* _require_known: the content of a participant is one the journal can account for.
Known(j, d) == disk[d] \in {j.previous[d], j.target[d]}

Own(p) == {j \in journals : j.by = p}

-----------------------------------------------------------------------------
(* Recovery: all participants are checked, then replaced one by one, forward *)
(* when committed and backward otherwise.                                    *)

NothingPending(p) ==
  /\ journals = {}
  /\ duty = "enter" /\ Step(p, "recover", "records")
  /\ UNCHANGED <<disk, journals, lock, local, bounds>>

RecoverStart(p) ==
  /\ Step(p, "recover", "rewrite")
  /\ \E j \in journals : /\ \A d \in Parts(j) : Known(j, d)
                         /\ todo' = Parts(j)
  /\ UNCHANGED <<disk, journals, lock, duty, seen, draft, registry, captured, failed, bounds>>

\* Mutant: committed participants are taken back too.
RestoredPrevious(j, d) == j.previous[d]

Restored(j, d) == IF j.phase = "committed" THEN j.target[d] ELSE j.previous[d]

NextIn(j, S) == IF j.phase = "committed" THEN First(S) ELSE Last(S)

Rewrite(p) ==
  /\ pc[p] = "rewrite" /\ todo # {}
  /\ \E j \in journals :
       LET d == NextIn(j, todo) IN
         /\ Known(j, d)
         /\ Put(d, Restored(j, d))
         /\ todo' = todo \ {d}
  /\ UNCHANGED <<journals, lock, pc, duty, seen, draft, registry, captured, failed, bounds>>

\* Content nobody knows: automatic writes stay blocked.
RecoverRefused(p) ==
  /\ \E j \in journals :
       /\ \/ pc[p] = "recover" /\ \E d \in Parts(j) : ~Known(j, d)
          \/ pc[p] = "rewrite" /\ todo # {} /\ ~Known(j, NextIn(j, todo))
       /\ RecoveryFails(p, j)
  /\ UNCHANGED <<disk, journals, bounds>>

RecoverFails(p) ==
  /\ pc[p] \in {"recover", "rewrite"}
  /\ \E j \in journals :
       /\ \/ UNCHANGED disk
          \/ /\ pc[p] = "rewrite" /\ todo # {}
             /\ LET d == NextIn(j, todo) IN Known(j, d) /\ Put(d, Restored(j, d))
       /\ RecoveryFails(p, j)
  /\ Fault
  /\ UNCHANGED journals

\* The journal is removed; a commit that finds itself committed succeeds after all.
RecoverEnds(p) ==
  /\ pc[p] = "rewrite" /\ todo = {}
  /\ \E j \in journals :
       /\ journals' = journals \ {j}
       /\ \/ duty = "enter" /\ Goto(p, "recover") /\ UNCHANGED <<lock, local>>
          \/ duty = "failed" /\ j.phase = "committed" /\ Succeeds(p)
          \/ duty = "failed" /\ j.phase = "prepared" /\ FailsAfter(p, j.phase)
  /\ UNCHANGED <<disk, bounds>>

RecoverEndFails(p) ==
  /\ pc[p] = "rewrite" /\ todo = {}
  /\ \E j \in journals :
       /\ journals' \in {journals, journals \ {j}}
       /\ IF duty = "failed" /\ j.phase = "committed" THEN Succeeds(p) ELSE RecoveryFails(p, j)
  /\ Fault
  /\ UNCHANGED disk

-----------------------------------------------------------------------------
(* ProjectActivationProtocol.commit, inside the lock and with nothing pending. *)

\* Mutant: only the Project is compared.
CurrentProject(p) == disk["project"] = seen[p]["project"]

Current(p) == \A d \in Guarded : disk[d] = seen[p][d]

\* The preimage of a journal is what is on disk now, the pointer's included.
Manifest(p, new) == [by |-> p, phase |-> "prepared", previous |-> disk, target |-> new]

\* What an activation publishes is of no consequence before this point: it is chosen here.
Records(p) ==
  /\ pc[p] = "records" /\ Current(p)
  /\ \E new \in Targets :
       IF Participants(disk, new) = {}
         THEN Release(p) /\ UNCHANGED <<registry, failed>>
         ELSE /\ Goto(p, "manifest")
              /\ draft' = {Manifest(p, new)}
              /\ captured' = registry[p]
              /\ UNCHANGED <<lock, seen, duty, todo, registry, failed>>
  /\ UNCHANGED <<disk, journals, bounds>>

Stale(p) ==
  /\ pc[p] = "records" /\ ~Current(p)
  /\ FailsEarly(p)
  /\ UNCHANGED <<disk, journals, bounds>>

RecordsFail(p) ==
  /\ pc[p] = "records"
  /\ FailsEarly(p)
  /\ Fault
  /\ UNCHANGED <<disk, journals>>

WriteManifest(p) ==
  /\ Step(p, "manifest", "publish")
  /\ journals' = journals \cup draft
  /\ todo' = UNION {Parts(j) : j \in draft}
  /\ draft' = {}
  /\ UNCHANGED <<disk, lock, seen, duty, registry, captured, failed, bounds>>

WriteManifestFails(p) ==
  /\ Step(p, "manifest", "except")
  /\ journals' \in {journals, journals \cup draft}
  /\ draft' = {}
  /\ Fault
  /\ UNCHANGED <<disk, lock, seen, duty, todo, registry, captured, failed>>

Publish(p) ==
  /\ pc[p] = "publish" /\ todo # {}
  /\ LET d == First(todo) IN
       \E j \in Own(p) :
         IF Known(j, d)
           THEN Put(d, j.target[d]) /\ todo' = todo \ {d} /\ UNCHANGED pc
           ELSE Goto(p, "except") /\ UNCHANGED <<disk, todo>>
  /\ UNCHANGED <<journals, lock, duty, seen, draft, registry, captured, failed, bounds>>

PublishFails(p) ==
  /\ Step(p, "publish", "except") /\ todo # {}
  /\ \/ UNCHANGED disk
     \/ LET d == First(todo) IN \E j \in Own(p) : Known(j, d) /\ Put(d, j.target[d])
  /\ Fault
  /\ UNCHANGED <<journals, lock, local>>

PublishBaselines(p) ==
  /\ Step(p, "publish", "marker") /\ todo = {}
  /\ registry' = [registry EXCEPT ![p] = "candidate"]
  /\ UNCHANGED <<disk, journals, lock, duty, todo, seen, draft, captured, failed, bounds>>

PublishBaselinesFails(p) ==
  /\ Step(p, "publish", "except") /\ todo = {}
  /\ registry' = [registry EXCEPT ![p] = "candidate"]
  /\ Fault
  /\ UNCHANGED <<disk, journals, lock, duty, todo, seen, draft, captured, failed>>

\* Mutant: the marker writes a phase the loader does not know.
MarkedUnknown(j) == (journals \ {j}) \cup {[j EXCEPT !.phase = "done"]}

Marked(j) == (journals \ {j}) \cup {[j EXCEPT !.phase = "committed"]}

WriteMarker(p) ==
  /\ Step(p, "marker", "cleanup")
  /\ \E j \in Own(p) : journals' = Marked(j)
  /\ UNCHANGED <<disk, lock, local, bounds>>

WriteMarkerFails(p) ==
  /\ Step(p, "marker", "except")
  /\ \E j \in Own(p) : journals' \in {journals, Marked(j)}
  /\ Fault
  /\ UNCHANGED <<disk, lock, local>>

Cleanup(p) ==
  /\ pc[p] = "cleanup"
  /\ journals' = journals \ Own(p)
  /\ Succeeds(p)
  /\ UNCHANGED <<disk, bounds>>

\* A committed journal that cannot be removed is only a warning.
CleanupFails(p) ==
  /\ pc[p] = "cleanup"
  /\ journals' \in {journals, journals \ Own(p)}
  /\ Succeeds(p)
  /\ Fault
  /\ UNCHANGED disk

\* Mutant: the handler does not look at its journal.
ExceptUnread(p) ==
  /\ pc[p] = "except"
  /\ FailsAfter(p, "none")
  /\ UNCHANGED <<disk, journals, bounds>>

\* The handler of commit: without a journal nothing was published; with one, it is
\* loaded and recovered.
Except(p) ==
  /\ pc[p] = "except"
  /\ \/ Own(p) = {} /\ FailsAfter(p, "none")
     \/ /\ Own(p) # {}
        /\ Goto(p, "recover")
        /\ duty' = "failed"
        /\ UNCHANGED <<lock, todo, seen, draft, registry, captured, failed>>
  /\ UNCHANGED <<disk, journals, bounds>>

\* The journal cannot be read back: it counts as not committed.
ExceptFails(p) ==
  /\ pc[p] = "except" /\ Own(p) # {}
  /\ FailsAfter(p, "none")
  /\ Fault
  /\ UNCHANGED <<disk, journals>>

-----------------------------------------------------------------------------
(* The environment. *)

\* The operating system releases the lock of a dead process; a new one takes its place and
\* fills its registry from the documents.
Crash(p) ==
  /\ Spared /\ crashes < MaxCrashes
  /\ crashes' = crashes + 1
  /\ Return(p)
  /\ IF p \in lock THEN Leave(p) ELSE UNCHANGED held
  /\ registry' = [registry EXCEPT ![p] = "active"]
  /\ failed' = failed \ {p}
  /\ UNCHANGED <<disk, journals, faults, edits>>

ForeignEdit(d) ==
  /\ Spared /\ edits < MaxForeignEdits
  /\ edits' = edits + 1
  /\ Put(d, "foreign")
  /\ UNCHANGED <<journals, lock, pc, local, faults, crashes>>

RecoveryStep(p) ==
  \/ NothingPending(p) \/ RecoverStart(p) \/ Rewrite(p) \/ RecoverRefused(p)
  \/ RecoverFails(p) \/ RecoverEnds(p) \/ RecoverEndFails(p)

CommitStep(p) ==
  \/ Records(p) \/ Stale(p) \/ RecordsFail(p) \/ WriteManifest(p) \/ WriteManifestFails(p)
  \/ Publish(p) \/ PublishFails(p) \/ PublishBaselines(p) \/ PublishBaselinesFails(p)
  \/ WriteMarker(p) \/ WriteMarkerFails(p) \/ Cleanup(p) \/ CleanupFails(p)
  \/ Except(p) \/ ExceptFails(p)

Next ==
  \/ \E p \in Processes :
       Prepare(p) \/ Enter(p) \/ Busy(p) \/ RecoveryStep(p) \/ CommitStep(p) \/ Crash(p)
  \/ \E d \in Docs : ForeignEdit(d)

Spec == Init /\ [][Next]_vars

-----------------------------------------------------------------------------
(* What must hold. *)

\* What the next process to enter the lock will find once it has recovered.
InForce ==
  [d \in Docs |->
     LET pending == {j \in journals : d \in Parts(j)} IN
       IF pending = {} THEN disk[d] ELSE Restored(CHOOSE j \in pending : TRUE, d)]

OneJournal == \A i, j \in journals : i = j

\* However often activations fail, crash and are recovered, by whichever process, no
\* second journal appears while one is pending; and as long as every writer takes the
\* lock, recovery is never refused: the program alone cannot bring about
\* PROJECT_ACTIVATION_RECOVERY_REQUIRED, which blocks all writers.
JournalResolvable ==
  OneJournal /\ (edits = 0 => \A j \in journals : \A d \in Parts(j) : Known(j, d))

\* A single failing operation, wherever it strikes, never parts the baselines in memory
\* from the working copy they belong to: they are the candidate's exactly if the process
\* went on with it.
BaselinesFollow ==
  faults <= 1 /\ edits = 0 => \A p \in Processes : pc[p] = "ready" => registry[p] = "active"

\* A document written by another program is replaced only by an activation whose preimage
\* it is; no publication and no recovery of an earlier one overwrites it.
ForeignKept ==
  [][\A d \in Docs :
       disk[d] = "foreign" /\ disk'[d] # "foreign" =>
         \E j \in journals : j.previous[d] = "foreign"]_vars

\* plans/workflow-closure-remediation, S03: the interface must not report failure while the
\* disk quietly switches versions.  One failing operation never brings that about: a commit
\* that returns an error after it has begun to publish leaves no committed journal of its own
\* for a later recovery to complete.  (A second failure, in the recovery of the first, does.)
FailureKeepsOld ==
  [][faults' <= 1 /\ edits' = 0 =>
       \A p \in lock \cap (failed' \ failed) :
         pc[p] = "except" \/ duty = "failed" => \A j \in journals' : j.by = p => j.phase # "committed"]_vars
=============================================================================
