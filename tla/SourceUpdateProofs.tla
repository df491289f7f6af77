------------------------- MODULE SourceUpdateProofs -------------------------
(***************************************************************************)
(* SourceUpdate for any number of processes, Variants, contents, failures, *)
(* crashes and edits: at most one pending journal, which the program alone *)
(* never makes unresolvable; no edit of another program overwritten; the   *)
(* outcome reported is the one the records have; and the whole protocol    *)
(* implements an update of all records at one instant.                     *)
(***************************************************************************)
EXTENDS SourceUpdateRefinement, TLAPS

Inside == {"recover", "inside", "publish", "mark", "clean", "rollback"}

\* One process at a time is inside the lock; only there are duty and todo in use.
LockOK ==
  /\ \A p \in Processes : p \in lock <=> pc[p] \in Inside
  /\ \A p, q \in lock : p = q
  /\ lock = {} => duty = "enter" /\ todo = {}

\* Where a journal is pending, and whose.
PlaceOK ==
  \A p \in Processes :
    /\ pc[p] \in {"inside", "clean"} => Prepared = {}
    /\ pc[p] \in {"publish", "mark", "rollback"} => Prepared # {}
    /\ pc[p] = "inside" => duty = "enter" /\ todo = {}
    /\ pc[p] = "publish" => duty = "own"
    /\ pc[p] = "recover" => IF duty = "own" THEN Prepared # {} ELSE todo = {}

JournalOK == \A j \in journals, r \in Records : j.previous[r] # j.target[r]

\* What is published at each stage, unless another program interferes.
StageOK ==
  edits = 0 => \A p \in Processes, j \in Prepared :
    /\ pc[p] = "publish" => Project \notin Published(j)
    /\ pc[p] = "mark" => Published(j) = Records /\ todo = Records
    /\ pc[p] = "rollback" => todo = Published(j)
    /\ pc[p] = "rollback" /\ Published(j) = Records => duty = "own" /\ faults > 0

\* An update works on the version its process has previewed, and replaces all of it.
OwnOK ==
  /\ \A p \in Processes : \A v, w \in seen[p] : v = w
  /\ duty = "own" => \A p \in lock, j \in Prepared : j.previous \in seen[p]
  /\ edits = 0 /\ duty = "own" =>
       \A p \in Processes : pc[p] = "clean" => \A v \in seen[p], r \in Records : disk[r] # v[r]

IInv ==
  /\ TypeOK /\ LockOK /\ PlaceOK /\ OneJournal /\ JournalOK
  /\ JournalResolvable /\ StageOK /\ OwnOK

LEMMA ProjectIsRecord == Project \in Records
BY VariantAssumption DEF Project, Records

LEMMA TypeInit == Init => TypeOK
BY BoundAssumption DEF Init, TypeOK, Version, PC

LEMMA ManifestType ==
  ASSUME disk \in Version
  PROVE  Manifests \subseteq Journal
BY DEF Manifests, Journal, Updates

LEMMA MarkedType ==
  ASSUME journals \subseteq Journal
  PROVE  Marked \subseteq Journal
BY DEF Marked, Journal

LEMMA ReturnType ==
  ASSUME TypeOK, NEW p \in Processes, NEW r \in {"updated", "failed"}, Return(p, r)
  PROVE  /\ lock' \subseteq Processes /\ pc' \in [Processes -> PC]
         /\ seen' \in [Processes -> SUBSET Version] /\ duty' \in {"enter", "own"}
         /\ todo' \subseteq Records /\ outcome' \in [Processes -> {"none", "updated", "failed"}]
BY DEF TypeOK, Return, Goto, PC

LEMMA FaultsType ==
  ASSUME TypeOK, NEW n \in {1, 2}, Faults(n)
  PROVE  faults' \in Nat /\ crashes' \in Nat /\ edits' \in Nat
BY DEF TypeOK, Faults

LEMMA PutType ==
  ASSUME disk \in Version, NEW r, NEW c \in Contents \cup {"foreign"}, Put(r, c)
  PROVE  disk' \in Version
BY DEF Put, Version

LEMMA DiskType ==
  ASSUME TypeOK, NEW j \in Prepared, NEW r \in Records, Restore(j, r) \/ Replace(j, r)
  PROVE  disk' \in Version
<1>1. j.previous[r] \in Contents \cup {"foreign"} /\ j.target[r] \in Contents \cup {"foreign"}
  BY DEF TypeOK, Prepared, Journal, Version
<1> QED
  BY <1>1, PutType DEF TypeOK, Restore, Replace

LEMMA TypeStep == TypeOK /\ [Next]_vars => TypeOK'
<1> SUFFICES ASSUME TypeOK, [Next]_vars PROVE TypeOK' OBVIOUS
<1>0. CASE UNCHANGED vars
  BY <1>0 DEF TypeOK, vars
<1> USE DEF TypeOK, bounds, local, Goto, Step, Fails, Succeeds
<1>1. ASSUME NEW p \in Processes, Enter(p) PROVE TypeOK'
  BY <1>1 DEF Enter, PC
<1>2. ASSUME NEW p \in Processes, Busy(p) PROVE TypeOK'
  BY <1>2 DEF Busy, PC
<1>3. ASSUME NEW p \in Processes, Pass(p) PROVE TypeOK'
  BY <1>3, FaultsType DEF Pass, PC
<1>4. ASSUME NEW p \in Processes, Read(p) PROVE TypeOK'
  BY <1>4 DEF Read, PC
<1>5. ASSUME NEW p \in Processes, Unreadable(p) PROVE TypeOK'
  BY <1>5, ReturnType, FaultsType DEF Unreadable
<1>6. ASSUME NEW p \in Processes, Refused(p) PROVE TypeOK'
  BY <1>6, ReturnType DEF Refused
<1>7. ASSUME NEW p \in Processes, Resolve(p) PROVE TypeOK'
  BY <1>7 DEF Resolve, Published, PC
<1>8. ASSUME NEW p \in Processes, Mark(p) PROVE TypeOK'
  BY <1>8, MarkedType DEF Mark, PC
<1>9. ASSUME NEW p \in Processes, MarkFails(p) PROVE TypeOK'
  BY <1>9, ReturnType, FaultsType, MarkedType DEF MarkFails, Unmarked, PC
<1>10. ASSUME NEW p \in Processes, MarkUnread(p) PROVE TypeOK'
  BY <1>10, ReturnType, FaultsType, MarkedType DEF MarkUnread
<1>11. ASSUME NEW p \in Processes, Rollback(p) PROVE TypeOK'
  BY <1>11, DiskType DEF Rollback, PC
<1>12. ASSUME NEW p \in Processes, RollbackRefused(p) PROVE TypeOK'
  BY <1>12, ReturnType DEF RollbackRefused
<1>13. ASSUME NEW p \in Processes, RollbackFails(p) PROVE TypeOK'
  BY <1>13, ReturnType, FaultsType, DiskType DEF RollbackFails
<1>14. ASSUME NEW p \in Processes, RollbackEnds(p) PROVE TypeOK'
  BY <1>14, ReturnType DEF RollbackEnds, PC
<1>15. ASSUME NEW p \in Processes, RollbackEndFails(p) PROVE TypeOK'
  BY <1>15, ReturnType, FaultsType DEF RollbackEndFails
<1>16. ASSUME NEW p \in Processes, Clean(p) PROVE TypeOK'
  BY <1>16, ReturnType, FaultsType DEF Clean, PC
<1>17. ASSUME NEW p \in Processes, Begin(p) PROVE TypeOK'
  BY <1>17, ManifestType DEF Begin, PC
<1>18. ASSUME NEW p \in Processes, BeginFails(p) PROVE TypeOK'
  BY <1>18, ReturnType, FaultsType, ManifestType DEF BeginFails
<1>19. ASSUME NEW p \in Processes, Stale(p) PROVE TypeOK'
  BY <1>19, ReturnType DEF Stale
<1>20. ASSUME NEW p \in Processes, Publish(p) PROVE TypeOK'
  BY <1>20, DiskType DEF Publish, PC
<1>21. ASSUME NEW p \in Processes, PublishRefused(p) PROVE TypeOK'
  BY <1>21 DEF PublishRefused, PC
<1>22. ASSUME NEW p \in Processes, PublishFails(p) PROVE TypeOK'
  BY <1>22, FaultsType, DiskType DEF PublishFails, PC
<1>23. ASSUME NEW p \in Processes, Crash(p) PROVE TypeOK'
  BY <1>23 DEF Crash, PC
<1>24. ASSUME NEW r \in Records, ForeignEdit(r) PROVE TypeOK'
  BY <1>24, PutType DEF ForeignEdit
<1>25. ASSUME NEW r \in Records, OtherSave(r) PROVE TypeOK'
  BY <1>25, PutType DEF OtherSave
<1> QED
  BY <1>0, <1>1, <1>2, <1>3, <1>4, <1>5, <1>6, <1>7, <1>8, <1>9, <1>10, <1>11, <1>12, <1>13, <1>14, <1>15, <1>16, <1>17, <1>18, <1>19, <1>20, <1>21, <1>22, <1>23, <1>24, <1>25 DEF Next, RecoveryStep, UpdateStep

LEMMA LockStep == TypeOK /\ LockOK /\ PlaceOK /\ [Next]_vars => LockOK'
<1> SUFFICES ASSUME TypeOK, LockOK, PlaceOK, [Next]_vars PROVE LockOK' OBVIOUS
<1>0. CASE UNCHANGED vars
  BY <1>0 DEF LockOK, vars
<1> USE DEF TypeOK, LockOK, Inside, bounds, local, Goto, Step, Return, Fails, Succeeds
<1>1. ASSUME NEW p \in Processes, Enter(p) PROVE LockOK'
  BY <1>1 DEF Enter
<1>2. ASSUME NEW p \in Processes, Busy(p) PROVE LockOK'
  BY <1>2 DEF Busy
<1>3. ASSUME NEW p \in Processes, Pass(p) PROVE LockOK'
  BY <1>3 DEF Pass
<1>4. ASSUME NEW p \in Processes, Read(p) PROVE LockOK'
  BY <1>4 DEF Read, PlaceOK
<1>5. ASSUME NEW p \in Processes, Unreadable(p) PROVE LockOK'
  BY <1>5 DEF Unreadable
<1>6. ASSUME NEW p \in Processes, Refused(p) PROVE LockOK'
  BY <1>6 DEF Refused
<1>7. ASSUME NEW p \in Processes, Resolve(p) PROVE LockOK'
  BY <1>7 DEF Resolve
<1>8. ASSUME NEW p \in Processes, Mark(p) PROVE LockOK'
  BY <1>8 DEF Mark
<1>9. ASSUME NEW p \in Processes, MarkFails(p) PROVE LockOK'
  BY <1>9 DEF MarkFails, Unmarked
<1>10. ASSUME NEW p \in Processes, MarkUnread(p) PROVE LockOK'
  BY <1>10 DEF MarkUnread
<1>11. ASSUME NEW p \in Processes, Rollback(p) PROVE LockOK'
  BY <1>11 DEF Rollback
<1>12. ASSUME NEW p \in Processes, RollbackRefused(p) PROVE LockOK'
  BY <1>12 DEF RollbackRefused
<1>13. ASSUME NEW p \in Processes, RollbackFails(p) PROVE LockOK'
  BY <1>13 DEF RollbackFails
<1>14. ASSUME NEW p \in Processes, RollbackEnds(p) PROVE LockOK'
  BY <1>14 DEF RollbackEnds
<1>15. ASSUME NEW p \in Processes, RollbackEndFails(p) PROVE LockOK'
  BY <1>15 DEF RollbackEndFails
<1>16. ASSUME NEW p \in Processes, Clean(p) PROVE LockOK'
  BY <1>16 DEF Clean
<1>17. ASSUME NEW p \in Processes, Begin(p) PROVE LockOK'
  BY <1>17 DEF Begin
<1>18. ASSUME NEW p \in Processes, BeginFails(p) PROVE LockOK'
  BY <1>18 DEF BeginFails
<1>19. ASSUME NEW p \in Processes, Stale(p) PROVE LockOK'
  BY <1>19 DEF Stale
<1>20. ASSUME NEW p \in Processes, Publish(p) PROVE LockOK'
  BY <1>20 DEF Publish
<1>21. ASSUME NEW p \in Processes, PublishRefused(p) PROVE LockOK'
  BY <1>21 DEF PublishRefused
<1>22. ASSUME NEW p \in Processes, PublishFails(p) PROVE LockOK'
  BY <1>22 DEF PublishFails
<1>23. ASSUME NEW p \in Processes, Crash(p) PROVE LockOK'
  BY <1>23 DEF Crash
<1>24. ASSUME NEW r \in Records, ForeignEdit(r) PROVE LockOK'
  BY <1>24 DEF ForeignEdit
<1>25. ASSUME NEW r \in Records, OtherSave(r) PROVE LockOK'
  BY <1>25 DEF OtherSave
<1> QED
  BY <1>0, <1>1, <1>2, <1>3, <1>4, <1>5, <1>6, <1>7, <1>8, <1>9, <1>10, <1>11, <1>12, <1>13, <1>14, <1>15, <1>16, <1>17, <1>18, <1>19, <1>20, <1>21, <1>22, <1>23, <1>24, <1>25 DEF Next, RecoveryStep, UpdateStep

LEMMA MarkedPrepared ==
  ASSUME TypeOK, journals' = Marked
  PROVE  Prepared' = {}
BY DEF TypeOK, Marked, Prepared, Journal

LEMMA PlaceStep == TypeOK /\ LockOK /\ PlaceOK /\ [Next]_vars => PlaceOK'
<1> SUFFICES ASSUME TypeOK, LockOK, PlaceOK, [Next]_vars PROVE PlaceOK' OBVIOUS
<1>0. CASE UNCHANGED vars
  BY <1>0 DEF PlaceOK, Prepared, vars
<1> USE DEF TypeOK, LockOK, PlaceOK, Inside, Prepared, bounds, local, Goto, Step, Return, Fails, Succeeds
<1>1. ASSUME NEW p \in Processes, Enter(p) PROVE PlaceOK'
  BY <1>1 DEF Enter
<1>2. ASSUME NEW p \in Processes, Busy(p) PROVE PlaceOK'
  BY <1>2 DEF Busy
<1>3. ASSUME NEW p \in Processes, Pass(p) PROVE PlaceOK'
  BY <1>3 DEF Pass, NothingPending
<1>4. ASSUME NEW p \in Processes, Read(p) PROVE PlaceOK'
  BY <1>4 DEF Read
<1>5. ASSUME NEW p \in Processes, Unreadable(p) PROVE PlaceOK'
  BY <1>5 DEF Unreadable
<1>6. ASSUME NEW p \in Processes, Refused(p) PROVE PlaceOK'
  BY <1>6 DEF Refused
<1>7. ASSUME NEW p \in Processes, Resolve(p) PROVE PlaceOK'
  BY <1>7 DEF Resolve
<1>8. ASSUME NEW p \in Processes, Mark(p) PROVE PlaceOK'
  BY <1>8, MarkedPrepared DEF Mark
<1>9. ASSUME NEW p \in Processes, MarkFails(p) PROVE PlaceOK'
  BY <1>9, MarkedPrepared DEF MarkFails, Unmarked
<1>10. ASSUME NEW p \in Processes, MarkUnread(p) PROVE PlaceOK'
  BY <1>10 DEF MarkUnread
<1>11. ASSUME NEW p \in Processes, Rollback(p) PROVE PlaceOK'
  BY <1>11 DEF Rollback
<1>12. ASSUME NEW p \in Processes, RollbackRefused(p) PROVE PlaceOK'
  BY <1>12 DEF RollbackRefused
<1>13. ASSUME NEW p \in Processes, RollbackFails(p) PROVE PlaceOK'
  BY <1>13 DEF RollbackFails
<1>14. ASSUME NEW p \in Processes, RollbackEnds(p) PROVE PlaceOK'
  BY <1>14 DEF RollbackEnds
<1>15. ASSUME NEW p \in Processes, RollbackEndFails(p) PROVE PlaceOK'
  BY <1>15 DEF RollbackEndFails
<1>16. ASSUME NEW p \in Processes, Clean(p) PROVE PlaceOK'
  BY <1>16 DEF Clean
<1>17. ASSUME NEW p \in Processes, Begin(p) PROVE PlaceOK'
  BY <1>17 DEF Begin, Manifests
<1>18. ASSUME NEW p \in Processes, BeginFails(p) PROVE PlaceOK'
  BY <1>18 DEF BeginFails
<1>19. ASSUME NEW p \in Processes, Stale(p) PROVE PlaceOK'
  BY <1>19 DEF Stale
<1>20. ASSUME NEW p \in Processes, Publish(p) PROVE PlaceOK'
  BY <1>20 DEF Publish
<1>21. ASSUME NEW p \in Processes, PublishRefused(p) PROVE PlaceOK'
  BY <1>21 DEF PublishRefused
<1>22. ASSUME NEW p \in Processes, PublishFails(p) PROVE PlaceOK'
  BY <1>22 DEF PublishFails
<1>23. ASSUME NEW p \in Processes, Crash(p) PROVE PlaceOK'
  BY <1>23 DEF Crash
<1>24. ASSUME NEW r \in Records, ForeignEdit(r) PROVE PlaceOK'
  BY <1>24 DEF ForeignEdit
<1>25. ASSUME NEW r \in Records, OtherSave(r) PROVE PlaceOK'
  BY <1>25 DEF OtherSave
<1> QED
  BY <1>0, <1>1, <1>2, <1>3, <1>4, <1>5, <1>6, <1>7, <1>8, <1>9, <1>10, <1>11, <1>12, <1>13, <1>14, <1>15, <1>16, <1>17, <1>18, <1>19, <1>20, <1>21, <1>22, <1>23, <1>24, <1>25 DEF Next, RecoveryStep, UpdateStep

LEMMA JournalStep == TypeOK /\ PlaceOK /\ OneJournal /\ JournalOK /\ [Next]_vars => OneJournal' /\ JournalOK'
<1> SUFFICES ASSUME TypeOK, PlaceOK, OneJournal, JournalOK, [Next]_vars
             PROVE  OneJournal' /\ JournalOK'
  OBVIOUS
<1>0. CASE UNCHANGED vars
  BY <1>0 DEF OneJournal, JournalOK, Prepared, vars
<1> USE DEF PlaceOK, OneJournal, JournalOK, Prepared, bounds, local, Step
<1>1. ASSUME NEW p \in Processes, Enter(p) PROVE OneJournal' /\ JournalOK'
  BY <1>1 DEF Enter
<1>2. ASSUME NEW p \in Processes, Busy(p) PROVE OneJournal' /\ JournalOK'
  BY <1>2 DEF Busy
<1>3. ASSUME NEW p \in Processes, Pass(p) PROVE OneJournal' /\ JournalOK'
  BY <1>3 DEF Pass, NothingPending
<1>4. ASSUME NEW p \in Processes, Read(p) PROVE OneJournal' /\ JournalOK'
  BY <1>4 DEF Read
<1>5. ASSUME NEW p \in Processes, Unreadable(p) PROVE OneJournal' /\ JournalOK'
  BY <1>5 DEF Unreadable
<1>6. ASSUME NEW p \in Processes, Refused(p) PROVE OneJournal' /\ JournalOK'
  BY <1>6 DEF Refused
<1>7. ASSUME NEW p \in Processes, Resolve(p) PROVE OneJournal' /\ JournalOK'
  BY <1>7 DEF Resolve
<1>8. ASSUME NEW p \in Processes, Mark(p) PROVE OneJournal' /\ JournalOK'
  BY <1>8 DEF Mark, Marked, TypeOK, Journal
<1>9. ASSUME NEW p \in Processes, MarkFails(p) PROVE OneJournal' /\ JournalOK'
  BY <1>9 DEF MarkFails, Unmarked, Marked, TypeOK, Journal
<1>10. ASSUME NEW p \in Processes, MarkUnread(p) PROVE OneJournal' /\ JournalOK'
  BY <1>10 DEF MarkUnread, Marked, TypeOK, Journal
<1>11. ASSUME NEW p \in Processes, Rollback(p) PROVE OneJournal' /\ JournalOK'
  BY <1>11 DEF Rollback
<1>12. ASSUME NEW p \in Processes, RollbackRefused(p) PROVE OneJournal' /\ JournalOK'
  BY <1>12 DEF RollbackRefused
<1>13. ASSUME NEW p \in Processes, RollbackFails(p) PROVE OneJournal' /\ JournalOK'
  BY <1>13 DEF RollbackFails
<1>14. ASSUME NEW p \in Processes, RollbackEnds(p) PROVE OneJournal' /\ JournalOK'
  BY <1>14 DEF RollbackEnds
<1>15. ASSUME NEW p \in Processes, RollbackEndFails(p) PROVE OneJournal' /\ JournalOK'
  BY <1>15 DEF RollbackEndFails
<1>16. ASSUME NEW p \in Processes, Clean(p) PROVE OneJournal' /\ JournalOK'
  BY <1>16 DEF Clean
<1>17. ASSUME NEW p \in Processes, Begin(p) PROVE OneJournal' /\ JournalOK'
  BY <1>17 DEF Begin, Manifests, Updates
<1>18. ASSUME NEW p \in Processes, BeginFails(p) PROVE OneJournal' /\ JournalOK'
  BY <1>18 DEF BeginFails, Manifests, Updates
<1>19. ASSUME NEW p \in Processes, Stale(p) PROVE OneJournal' /\ JournalOK'
  BY <1>19 DEF Stale
<1>20. ASSUME NEW p \in Processes, Publish(p) PROVE OneJournal' /\ JournalOK'
  BY <1>20 DEF Publish
<1>21. ASSUME NEW p \in Processes, PublishRefused(p) PROVE OneJournal' /\ JournalOK'
  BY <1>21 DEF PublishRefused
<1>22. ASSUME NEW p \in Processes, PublishFails(p) PROVE OneJournal' /\ JournalOK'
  BY <1>22 DEF PublishFails
<1>23. ASSUME NEW p \in Processes, Crash(p) PROVE OneJournal' /\ JournalOK'
  BY <1>23 DEF Crash
<1>24. ASSUME NEW r \in Records, ForeignEdit(r) PROVE OneJournal' /\ JournalOK'
  BY <1>24 DEF ForeignEdit
<1>25. ASSUME NEW r \in Records, OtherSave(r) PROVE OneJournal' /\ JournalOK'
  BY <1>25 DEF OtherSave
<1> QED
  BY <1>0, <1>1, <1>2, <1>3, <1>4, <1>5, <1>6, <1>7, <1>8, <1>9, <1>10, <1>11, <1>12, <1>13, <1>14, <1>15, <1>16, <1>17, <1>18, <1>19, <1>20, <1>21, <1>22, <1>23, <1>24, <1>25 DEF Next, RecoveryStep, UpdateStep

\* Taking back the last published record: afterwards not everything is published, and the
\* Project is not, if it was.
LEMMA RestoreEffect ==
  ASSUME TypeOK, JournalOK, JournalResolvable, StageOK, edits = 0,
         NEW p \in Processes, pc[p] = "rollback",
         NEW r \in Records, NEW j \in Prepared, NextBack(r), Restore(j, r)
  PROVE  /\ Published(j)' = Published(j) \ {r} /\ Published(j)' # Records
         /\ Project \notin Published(j)' /\ Known(j)' /\ todo = Published(j)
<1>0. todo = Published(j) /\ Known(j)
  BY DEF StageOK, JournalResolvable, Resolvable
<1>1. /\ j \in journals /\ disk' = [disk EXCEPT ![r] = j.previous[r]] /\ DOMAIN disk = Records
      /\ j.previous[r] # j.target[r]
  BY DEF Restore, Put, Prepared, TypeOK, Version, JournalOK
<1>2. Published(j)' = Published(j) \ {r}
  BY <1>1 DEF Published
<1>3. Project \in Published(j) => r = Project
  BY <1>0, VariantAssumption DEF NextBack, Project, Records
<1>4. Known(j)'
  BY <1>0, <1>1 DEF Known
<1> QED
  BY <1>0, <1>2, <1>3, <1>4 DEF Restore

LEMMA StageStep ==
  TypeOK /\ LockOK /\ PlaceOK /\ OneJournal /\ JournalOK /\ JournalResolvable /\ StageOK /\ [Next]_vars
    => JournalResolvable' /\ StageOK'
<1> SUFFICES ASSUME TypeOK, LockOK, PlaceOK, OneJournal, JournalOK, JournalResolvable, StageOK, [Next]_vars
             PROVE  JournalResolvable' /\ StageOK'
  OBVIOUS
<1>0. CASE UNCHANGED vars
  BY <1>0 DEF JournalResolvable, StageOK, Resolvable, Known, Published, Prepared, vars
<1>11. ASSUME NEW p \in Processes, Rollback(p) PROVE JournalResolvable' /\ StageOK'
  <2>1. UNCHANGED <<journals, pc, duty, lock, edits>> /\ pc[p] = "rollback" /\ p \in lock
    BY <1>11 DEF Rollback, LockOK, Inside, bounds
  <2>2. PICK r \in Records, j \in Prepared : NextBack(r) /\ Restore(j, r) /\ todo' = todo \ {r}
    BY <1>11 DEF Rollback
  <2>3. edits = 0 => /\ Known(j)' /\ Project \notin Published(j)' /\ Published(j)' # Records
                     /\ todo' = Published(j)'
    BY <2>1, <2>2, RestoreEffect
  <2> QED
    BY <2>1, <2>3 DEF LockOK, Inside, OneJournal, JournalResolvable, StageOK, Resolvable, Prepared
<1>13. ASSUME NEW p \in Processes, RollbackFails(p) PROVE JournalResolvable' /\ StageOK'
  <2>1. /\ UNCHANGED <<journals, edits>> /\ pc[p] = "rollback" /\ p \in lock
        /\ pc' = [pc EXCEPT ![p] = "ready"]
    BY <1>13 DEF RollbackFails, Faults, Fails, Return, Goto, LockOK, Inside
  <2>2. edits = 0 => \A j \in Prepared : Known(j)' /\ (Project \in Published(j)' => Published(j)' = Records)
    <3>1. CASE UNCHANGED disk
      BY <3>1 DEF JournalResolvable, Resolvable, Known, Published
    <3>2. ASSUME NEW r \in Records, NEW j \in Prepared, NextBack(r), Restore(j, r), edits = 0
          PROVE  Known(j)' /\ Project \notin Published(j)'
      BY <2>1, <3>2, RestoreEffect
    <3> QED
      BY <1>13, <3>1, <3>2 DEF RollbackFails, OneJournal
  <2> QED
    BY <2>1, <2>2 DEF TypeOK, LockOK, Inside, JournalResolvable, StageOK, Resolvable, Prepared
<1> USE ProjectIsRecord DEF TypeOK, LockOK, Inside, PlaceOK, OneJournal, JournalOK, JournalResolvable, StageOK, Resolvable, Known, Published, Prepared, bounds, local, Step, Goto, Put, Return, Fails, Succeeds, Version
<1>1. ASSUME NEW p \in Processes, Enter(p) PROVE JournalResolvable' /\ StageOK'
  BY <1>1 DEF Enter
<1>2. ASSUME NEW p \in Processes, Busy(p) PROVE JournalResolvable' /\ StageOK'
  BY <1>2 DEF Busy
<1>3. ASSUME NEW p \in Processes, Pass(p) PROVE JournalResolvable' /\ StageOK'
  BY <1>3 DEF Pass, NothingPending
<1>4. ASSUME NEW p \in Processes, Read(p) PROVE JournalResolvable' /\ StageOK'
  BY <1>4 DEF Read
<1>5. ASSUME NEW p \in Processes, Unreadable(p) PROVE JournalResolvable' /\ StageOK'
  BY <1>5 DEF Unreadable, Faults
<1>6. ASSUME NEW p \in Processes, Refused(p) PROVE JournalResolvable' /\ StageOK'
  BY <1>6 DEF Refused
<1>7. ASSUME NEW p \in Processes, Resolve(p) PROVE JournalResolvable' /\ StageOK'
  BY <1>7 DEF Resolve
<1>8. ASSUME NEW p \in Processes, Mark(p) PROVE JournalResolvable' /\ StageOK'
  BY <1>8 DEF Mark, Marked, Journal
<1>9. ASSUME NEW p \in Processes, MarkFails(p) PROVE JournalResolvable' /\ StageOK'
  BY <1>9 DEF MarkFails, Unmarked, Marked, Journal, Faults
<1>10. ASSUME NEW p \in Processes, MarkUnread(p) PROVE JournalResolvable' /\ StageOK'
  BY <1>10 DEF MarkUnread, Marked, Journal, Faults
<1>12. ASSUME NEW p \in Processes, RollbackRefused(p) PROVE JournalResolvable' /\ StageOK'
  BY <1>12 DEF RollbackRefused
<1>14. ASSUME NEW p \in Processes, RollbackEnds(p) PROVE JournalResolvable' /\ StageOK'
  BY <1>14 DEF RollbackEnds
<1>15. ASSUME NEW p \in Processes, RollbackEndFails(p) PROVE JournalResolvable' /\ StageOK'
  BY <1>15 DEF RollbackEndFails, Faults
<1>16. ASSUME NEW p \in Processes, Clean(p) PROVE JournalResolvable' /\ StageOK'
  BY <1>16 DEF Clean
<1>17. ASSUME NEW p \in Processes, Begin(p) PROVE JournalResolvable' /\ StageOK'
  BY <1>17 DEF Begin, Manifests, Updates
<1>18. ASSUME NEW p \in Processes, BeginFails(p) PROVE JournalResolvable' /\ StageOK'
  BY <1>18 DEF BeginFails, Manifests, Updates
<1>19. ASSUME NEW p \in Processes, Stale(p) PROVE JournalResolvable' /\ StageOK'
  BY <1>19 DEF Stale
<1>20. ASSUME NEW p \in Processes, Publish(p) PROVE JournalResolvable' /\ StageOK'
  BY <1>20 DEF Publish, Replace, MayPublish
<1>21. ASSUME NEW p \in Processes, PublishRefused(p) PROVE JournalResolvable' /\ StageOK'
  BY <1>21 DEF PublishRefused
<1>22. ASSUME NEW p \in Processes, PublishFails(p) PROVE JournalResolvable' /\ StageOK'
  BY <1>22 DEF PublishFails, Replace, MayPublish, Faults
<1>23. ASSUME NEW p \in Processes, Crash(p) PROVE JournalResolvable' /\ StageOK'
  BY <1>23 DEF Crash
<1>24. ASSUME NEW r \in Records, ForeignEdit(r) PROVE JournalResolvable' /\ StageOK'
  BY <1>24 DEF ForeignEdit
<1>25. ASSUME NEW r \in Records, OtherSave(r) PROVE JournalResolvable' /\ StageOK'
  BY <1>25 DEF OtherSave
<1> QED
  BY <1>0, <1>1, <1>2, <1>3, <1>4, <1>5, <1>6, <1>7, <1>8, <1>9, <1>10, <1>11, <1>12, <1>13, <1>14, <1>15, <1>16, <1>17, <1>18, <1>19, <1>20, <1>21, <1>22, <1>23, <1>24, <1>25 DEF Next, RecoveryStep, UpdateStep

LEMMA OwnStep == IInv /\ [Next]_vars => OwnOK'
<1> SUFFICES ASSUME IInv, [Next]_vars PROVE OwnOK'
  OBVIOUS
<1>0. CASE UNCHANGED vars
  BY <1>0 DEF IInv, OwnOK, Prepared, vars
<1> USE DEF IInv, TypeOK, LockOK, Inside, PlaceOK, OwnOK, Prepared, bounds, local, Step, Goto, Return, Fails, Succeeds, Faults
<1>1. ASSUME NEW p \in Processes, Enter(p) PROVE OwnOK'
  BY <1>1 DEF Enter
<1>2. ASSUME NEW p \in Processes, Busy(p) PROVE OwnOK'
  BY <1>2 DEF Busy
<1>3. ASSUME NEW p \in Processes, Pass(p) PROVE OwnOK'
  BY <1>3 DEF Pass, NothingPending
<1>4. ASSUME NEW p \in Processes, Read(p) PROVE OwnOK'
  BY <1>4 DEF Read
<1>5. ASSUME NEW p \in Processes, Unreadable(p) PROVE OwnOK'
  BY <1>5 DEF Unreadable
<1>6. ASSUME NEW p \in Processes, Refused(p) PROVE OwnOK'
  BY <1>6 DEF Refused
<1>7. ASSUME NEW p \in Processes, Resolve(p) PROVE OwnOK'
  BY <1>7 DEF Resolve
<1>8. ASSUME NEW p \in Processes, Mark(p) PROVE OwnOK'
  BY <1>8 DEF Mark, StageOK, Published, Marked, Journal, JournalOK
<1>9. ASSUME NEW p \in Processes, MarkFails(p) PROVE OwnOK'
  BY <1>9 DEF MarkFails, Unmarked, StageOK, Published, Marked, Journal, JournalOK
<1>10. ASSUME NEW p \in Processes, MarkUnread(p) PROVE OwnOK'
  BY <1>10 DEF MarkUnread, Marked, Journal
<1>11. ASSUME NEW p \in Processes, Rollback(p) PROVE OwnOK'
  BY <1>11 DEF Rollback
<1>12. ASSUME NEW p \in Processes, RollbackRefused(p) PROVE OwnOK'
  BY <1>12 DEF RollbackRefused
<1>13. ASSUME NEW p \in Processes, RollbackFails(p) PROVE OwnOK'
  BY <1>13 DEF RollbackFails
<1>14. ASSUME NEW p \in Processes, RollbackEnds(p) PROVE OwnOK'
  BY <1>14 DEF RollbackEnds
<1>15. ASSUME NEW p \in Processes, RollbackEndFails(p) PROVE OwnOK'
  BY <1>15 DEF RollbackEndFails
<1>16. ASSUME NEW p \in Processes, Clean(p) PROVE OwnOK'
  BY <1>16 DEF Clean
<1>17. ASSUME NEW p \in Processes, Begin(p) PROVE OwnOK'
  BY <1>17 DEF Begin, Manifests, Current
<1>18. ASSUME NEW p \in Processes, BeginFails(p) PROVE OwnOK'
  BY <1>18 DEF BeginFails, Manifests, Current
<1>19. ASSUME NEW p \in Processes, Stale(p) PROVE OwnOK'
  BY <1>19 DEF Stale
<1>20. ASSUME NEW p \in Processes, Publish(p) PROVE OwnOK'
  BY <1>20 DEF Publish
<1>21. ASSUME NEW p \in Processes, PublishRefused(p) PROVE OwnOK'
  BY <1>21 DEF PublishRefused
<1>22. ASSUME NEW p \in Processes, PublishFails(p) PROVE OwnOK'
  BY <1>22 DEF PublishFails
<1>23. ASSUME NEW p \in Processes, Crash(p) PROVE OwnOK'
  BY <1>23 DEF Crash
<1>24. ASSUME NEW r \in Records, ForeignEdit(r) PROVE OwnOK'
  BY <1>24 DEF ForeignEdit
<1>25. ASSUME NEW r \in Records, OtherSave(r) PROVE OwnOK'
  BY <1>25 DEF OtherSave
<1> QED
  BY <1>0, <1>1, <1>2, <1>3, <1>4, <1>5, <1>6, <1>7, <1>8, <1>9, <1>10, <1>11, <1>12, <1>13, <1>14, <1>15, <1>16, <1>17, <1>18, <1>19, <1>20, <1>21, <1>22, <1>23, <1>24, <1>25 DEF Next, RecoveryStep, UpdateStep

LEMMA Invariant == Spec => []IInv
<1>1. Init => IInv
  <2> SUFFICES ASSUME Init PROVE IInv
    OBVIOUS
  <2>1. TypeOK
    BY TypeInit
  <2> QED
    BY <2>1 DEF Init, IInv, LockOK, Inside, PlaceOK, OneJournal, JournalOK, JournalResolvable,
                StageOK, OwnOK, Prepared
<1>2. IInv /\ [Next]_vars => IInv'
  BY TypeStep, LockStep, PlaceStep, JournalStep, StageStep, OwnStep DEF IInv
<1> QED
  BY <1>1, <1>2, PTL DEF Spec

\* Every variable keeps its type; in particular every journal left on disk is one that the
\* loader accepts (source_update_store.py:178-220).
THEOREM TypeCorrect == Spec => []TypeOK
<1>1. IInv => TypeOK
  BY DEF IInv
<1> QED
  BY <1>1, Invariant, PTL

\* Recovery on entry leaves no journal pending when an update begins, whatever failed or died
\* before, so that two are never pending together (source_update_store.py:148-151).
THEOREM OneJournalAlways == Spec => []OneJournal
<1>1. IInv => OneJournal
  BY DEF IInv
<1> QED
  BY <1>1, Invariant, PTL

\* While every writer takes the lock, a pending update can always be completed or taken back:
\* each record holds its preimage or its target, and the Project its target only if all do
\* (source_update_store.py:238-256).
THEOREM AlwaysResolvable == Spec => []JournalResolvable
<1>1. IInv => JournalResolvable
  BY DEF IInv
<1> QED
  BY <1>1, Invariant, PTL

-----------------------------------------------------------------------------

LEMMA KeepsForeign ==
  ASSUME TypeOK, [Next]_vars, NEW d \in Records, disk[d] = "foreign", disk'[d] # "foreign"
  PROVE  \E j \in journals : j.previous[d] = "foreign"
<1>1. ASSUME NEW j \in Prepared, NEW r \in Records, Restore(j, r) \/ Replace(j, r)
      PROVE  \E i \in journals : i.previous[d] = "foreign"
  BY <1>1, ContentAssumption DEF TypeOK, Version, Journal, Prepared, Restore, Replace, MayPublish, Put, Published
<1>2. ASSUME UNCHANGED disk PROVE FALSE
  BY <1>2
<1>3. ASSUME NEW r \in Records, ForeignEdit(r) PROVE FALSE
  BY <1>3 DEF ForeignEdit, Put, TypeOK, Version
<1>4. ASSUME NEW r \in Records, OtherSave(r) PROVE FALSE
  BY <1>4 DEF OtherSave, Put, TypeOK, Version
<1>5. \/ UNCHANGED disk
      \/ \E r \in Records, j \in Prepared : Restore(j, r) \/ Replace(j, r)
      \/ \E r \in Records : ForeignEdit(r) \/ OtherSave(r)
  BY DEF Next, RecoveryStep, UpdateStep, vars, Enter, Busy, Pass, Read, Unreadable, Refused, Resolve,
         Mark, MarkFails, MarkUnread, Rollback, RollbackRefused, RollbackFails, RollbackEnds,
         RollbackEndFails, Clean, Begin, BeginFails, Stale, Publish, PublishRefused, PublishFails, Crash
<1> QED
  BY <1>1, <1>2, <1>3, <1>4, <1>5

\* The comparisons that precede a publication and a rollback protect the edits of programs
\* that ignore the lock: only an update that has previewed such an edit replaces it
\* (source_update_store.py:127-140, 295-309).
THEOREM ForeignAlwaysKept == Spec => ForeignKept
<1>1. TypeOK /\ [Next]_vars =>
        [\A r \in Records :
           disk[r] = "foreign" /\ disk'[r] # "foreign" =>
             \E j \in journals : j.previous[r] = "foreign"]_vars
  BY KeepsForeign
<1> QED
  BY <1>1, TypeCorrect, PTL DEF Spec, ForeignKept

-----------------------------------------------------------------------------
(* What is in force.                                                       *)

LEMMA ForceNone ==
  /\ Prepared = {} => InForce = disk
  /\ Prepared' = {} => InForce' = disk'
BY DEF InForce

LEMMA ForceOf ==
  ASSUME OneJournal, NEW j \in Prepared
  PROVE  InForce = IF Published(j) = Records /\ duty = "enter" THEN j.target ELSE j.previous
BY DEF OneJournal, InForce

LEMMA ForceOfNext ==
  ASSUME OneJournal', NEW j \in Prepared'
  PROVE  InForce' = IF Published(j)' = Records /\ duty' = "enter" THEN j.target ELSE j.previous
BY DEF OneJournal, InForce

Forgets(p) == InForce' = InForce /\ seen' = [seen EXCEPT ![p] = {}]

\* The step of AtomicUpdate: all records change, on top of the preview.
Applies(p) ==
  /\ InForce \in seen[p] /\ InForce' \in [Records -> Contents]
  /\ \A r \in Records : InForce'[r] # InForce[r]
  /\ seen' = seen \/ seen' = [seen EXCEPT ![p] = {}]

LEMMA JournalFacts ==
  ASSUME IInv, NEW j \in Prepared
  PROVE  /\ j \in journals /\ j.target \in [Records -> Contents] /\ j.previous \in Version
         /\ \A r \in Records : j.previous[r] # j.target[r]
         /\ duty = "own" => \A p \in lock : j.previous \in seen[p]
BY DEF IInv, TypeOK, JournalOK, OwnOK, Prepared, Journal

\* Where everything is published or nothing is, the disk is that version.
LEMMA WholeVersion ==
  ASSUME IInv, edits = 0, NEW j \in Prepared
  PROVE  /\ Published(j) = Records => disk = j.target
         /\ Published(j) = {} => disk = j.previous
BY JournalFacts DEF IInv, TypeOK, JournalResolvable, Resolvable, Known, Published, Version

\* A process that leaves the lock, or dies in it, lets go of its update: what is published
\* to the last record is now in force.
LEMMA LettingGo ==
  ASSUME IInv, IInv', NEW p \in lock, UNCHANGED <<disk, journals>>,
         duty' = "enter", seen' = [seen EXCEPT ![p] = {}]
  PROVE  /\ Forgets(p) \/ Applies(p)
         /\ duty = "enter" => Forgets(p)
         /\ (\A j \in Prepared : Published(j) # Records) => Forgets(p)
<1>1. Prepared' = Prepared /\ OneJournal /\ OneJournal'
  BY DEF Prepared, IInv
<1>2. CASE Prepared = {}
  BY <1>1, <1>2, ForceNone DEF Forgets
<1>3. ASSUME NEW j \in Prepared
      PROVE  /\ Forgets(p) \/ Applies(p)
             /\ duty = "enter" => Forgets(p)
             /\ (\A i \in Prepared : Published(i) # Records) => Forgets(p)
  <2>1. InForce = IF Published(j) = Records /\ duty = "enter" THEN j.target ELSE j.previous
    BY <1>1, ForceOf
  <2>2. InForce' = IF Published(j) = Records THEN j.target ELSE j.previous
    BY <1>1, ForceOfNext DEF Published
  <2>3. duty = "own" => j.previous \in seen[p]
    BY JournalFacts
  <2>4. duty \in {"enter", "own"}
    BY DEF IInv, TypeOK
  <2>5. CASE Published(j) = Records /\ duty = "own"
    BY <2>1, <2>2, <2>3, <2>5, JournalFacts DEF Applies
  <2>6. CASE ~(Published(j) = Records /\ duty = "own")
    BY <2>1, <2>2, <2>4, <2>6 DEF Forgets
  <2> QED
    BY <2>5, <2>6
<1> QED
  BY <1>2, <1>3

\* Steps that neither publish, mark nor leave change nothing.
LEMMA SameForce ==
  ASSUME UNCHANGED <<disk, journals, duty>>
  PROVE  InForce' = InForce
BY DEF InForce, Prepared, Published

LEMMA MarkEffect ==
  ASSUME IInv, IInv', edits = 0, NEW p \in Processes, pc[p] = "mark",
         UNCHANGED disk, journals' = Marked,
         seen' = seen \/ seen' = [seen EXCEPT ![p] = {}]
  PROVE  Applies(p) \/ InForce' = InForce
<1>1. PICK j \in Prepared : Published(j) = Records
  BY DEF IInv, PlaceOK, StageOK
<1>2. disk = j.target /\ InForce' = disk
  BY <1>1, WholeVersion, MarkedPrepared, ForceNone DEF IInv
<1>3. InForce = IF duty = "enter" THEN j.target ELSE j.previous
  BY <1>1, ForceOf DEF IInv
<1>4. p \in lock
  BY DEF IInv, LockOK, Inside
<1>5. duty \in {"enter", "own"}
  BY DEF IInv, TypeOK
<1> QED
  BY <1>2, <1>3, <1>4, <1>5, JournalFacts DEF Applies

LEMMA RestoreForce ==
  ASSUME IInv, IInv', edits = 0, NEW p \in Processes, pc[p] = "rollback",
         NEW r \in Records, NEW j \in Prepared, NextBack(r), Restore(j, r), UNCHANGED journals
  PROVE  InForce' = InForce
<1>1. j \in Prepared' /\ Published(j)' # Records
  BY RestoreEffect DEF IInv, Prepared
<1>2. duty \in {"enter", "own"} /\ (Published(j) = Records => duty = "own")
  BY DEF IInv, TypeOK, StageOK
<1> QED
  BY <1>1, <1>2, ForceOf, ForceOfNext DEF IInv

LEMMA RemoveForce ==
  ASSUME IInv, IInv', edits = 0, NEW p \in Processes, pc[p] = "rollback", todo = {},
         UNCHANGED disk, journals' = journals \ Prepared
  PROVE  InForce' = InForce
<1>1. PICK j \in Prepared : Published(j) = {}
  BY DEF IInv, PlaceOK, StageOK
<1>2. InForce = j.previous /\ disk = j.previous
  BY <1>1, ProjectIsRecord, ForceOf, WholeVersion DEF IInv
<1>3. Prepared' = {}
  BY DEF Prepared
<1> QED
  BY <1>2, <1>3, ForceNone

LEMMA ManifestForce ==
  ASSUME IInv, IInv', NEW p \in Processes, pc[p] = "inside", UNCHANGED disk,
         NEW j \in Manifests, journals' = journals \cup {j}
  PROVE  InForce' = InForce
<1>1. Prepared = {} /\ InForce = disk
  BY ForceNone DEF IInv, PlaceOK
<1>2. j \in Prepared' /\ j.previous = disk
  BY DEF Prepared, Manifests
<1>3. Published(j)' # Records
  BY ProjectIsRecord DEF Published, Manifests, Updates
<1> QED
  BY <1>1, <1>2, <1>3, ForceOfNext DEF IInv

\* While an update is under way the preview is in force, whatever is published.
LEMMA OwnForce ==
  ASSUME IInv, IInv', duty = "own", UNCHANGED <<journals, duty>>, Prepared # {}
  PROVE  InForce' = InForce
BY ForceOf, ForceOfNext DEF IInv, Prepared

LEMMA InLock ==
  ASSUME IInv, NEW p \in Processes, pc[p] \in Inside
  PROVE  p \in lock
BY DEF IInv, LockOK

\* Every step keeps what is in force, or previews, applies an update, or saves one record.
Effect ==
  \/ InForce' = InForce /\ seen' = seen
  \/ \E p \in Processes : Forgets(p) \/ Applies(p) \/ Atomic!Preview(p)
  \/ \E r \in Records : Atomic!Save(r)

LEMMA StepEffect ==
  ASSUME IInv, IInv', Next, edits = 0, edits' = 0
  PROVE  Effect
<1> USE DEF Effect, Forgets, Fails, Succeeds, Return, Step, Goto, Inside, bounds, local
<1>1. ASSUME NEW p \in Processes, Enter(p) PROVE Effect
  BY <1>1, SameForce DEF Enter
<1>2. ASSUME NEW p \in Processes, Busy(p) PROVE Effect
  BY <1>2, SameForce DEF Busy
<1>3. ASSUME NEW p \in Processes, Pass(p) PROVE Effect
  BY <1>3, ForceNone DEF Pass, NothingPending, Prepared
<1>4. ASSUME NEW p \in Processes, Read(p) PROVE Effect
  <2>1. Prepared = {} /\ Prepared' = {}
    BY <1>4 DEF Read, IInv, PlaceOK, Prepared
  <2> QED
    BY <1>4, <2>1, ForceNone DEF Read, Atomic!Preview
<1>5. ASSUME NEW p \in Processes, Unreadable(p) PROVE Effect
  BY <1>5, InLock, LettingGo DEF Unreadable
<1>6. ASSUME NEW p \in Processes, Refused(p) PROVE Effect
  BY <1>6 DEF Refused, IInv, JournalResolvable
<1>7. ASSUME NEW p \in Processes, Resolve(p) PROVE Effect
  BY <1>7, SameForce DEF Resolve
<1>8. ASSUME NEW p \in Processes, Mark(p) PROVE Effect
  BY <1>8, MarkEffect DEF Mark
<1>9. ASSUME NEW p \in Processes, MarkFails(p) PROVE Effect
  <2>1. CASE journals' = Marked
    BY <1>9, <2>1, MarkEffect DEF MarkFails, Unmarked
  <2>2. CASE UNCHANGED journals /\ duty' = duty
    BY <1>9, <2>2, SameForce DEF MarkFails, Unmarked
  <2> QED
    BY <1>9, <2>1, <2>2 DEF MarkFails, Unmarked
<1>10. ASSUME NEW p \in Processes, MarkUnread(p) PROVE Effect
  <2>1. CASE journals' = Marked
    BY <1>10, <2>1, MarkEffect DEF MarkUnread
  <2>2. CASE UNCHANGED journals
    BY <1>10, <2>2, InLock, LettingGo DEF MarkUnread
  <2> QED
    BY <1>10, <2>1, <2>2 DEF MarkUnread
<1>11. ASSUME NEW p \in Processes, Rollback(p) PROVE Effect
  BY <1>11, RestoreForce DEF Rollback
<1>12. ASSUME NEW p \in Processes, RollbackRefused(p) PROVE Effect
  BY <1>12 DEF RollbackRefused, NextBack, IInv, StageOK
<1>13. ASSUME NEW p \in Processes, RollbackFails(p) PROVE Effect
  <2>1. CASE UNCHANGED disk
    BY <1>13, <2>1, InLock, LettingGo DEF RollbackFails
  <2>2. ASSUME NEW r \in Records, NEW j \in Prepared, NextBack(r), Restore(j, r)
        PROVE  Forgets(p)
    BY <1>13, <2>2, RestoreForce DEF RollbackFails
  <2> QED
    BY <1>13, <2>1, <2>2 DEF RollbackFails
<1>14. ASSUME NEW p \in Processes, RollbackEnds(p) PROVE Effect
  BY <1>14, RemoveForce DEF RollbackEnds
<1>15. ASSUME NEW p \in Processes, RollbackEndFails(p) PROVE Effect
  <2>1. CASE UNCHANGED journals
    BY <1>15, <2>1, InLock, LettingGo DEF RollbackEndFails
  <2>2. CASE journals' = journals \ Prepared
    BY <1>15, <2>2, RemoveForce DEF RollbackEndFails
  <2> QED
    BY <1>15, <2>1, <2>2 DEF RollbackEndFails
<1>16. ASSUME NEW p \in Processes, Clean(p) PROVE Effect
  <2>1. Prepared = {} /\ Prepared' = {}
    BY <1>16 DEF Clean, IInv, PlaceOK, Prepared
  <2> QED
    BY <1>16, <2>1, ForceNone DEF Clean
<1>17. ASSUME NEW p \in Processes, Begin(p) PROVE Effect
  BY <1>17, ManifestForce DEF Begin
<1>18. ASSUME NEW p \in Processes, BeginFails(p) PROVE Effect
  <2>1. CASE UNCHANGED journals
    BY <1>18, <2>1, SameForce DEF BeginFails, IInv, PlaceOK
  <2>2. ASSUME NEW j \in Manifests, journals' = journals \cup {j} PROVE Forgets(p)
    BY <1>18, <2>2, ManifestForce DEF BeginFails
  <2> QED
    BY <1>18, <2>1, <2>2 DEF BeginFails
<1>19. ASSUME NEW p \in Processes, Stale(p) PROVE Effect
  BY <1>19, SameForce DEF Stale, IInv, PlaceOK
<1>20. ASSUME NEW p \in Processes, Publish(p) PROVE Effect
  BY <1>20, OwnForce DEF Publish, IInv, PlaceOK
<1>21. ASSUME NEW p \in Processes, PublishRefused(p) PROVE Effect
  BY <1>21, SameForce DEF PublishRefused
<1>22. ASSUME NEW p \in Processes, PublishFails(p) PROVE Effect
  BY <1>22, OwnForce DEF PublishFails, IInv, PlaceOK
<1>23. ASSUME NEW p \in Processes, Crash(p) PROVE Effect
  <2>1. CASE p \in lock
    BY <1>23, <2>1, LettingGo DEF Crash
  <2>2. CASE p \notin lock
    BY <1>23, <2>2, SameForce DEF Crash
  <2> QED
    BY <1>23, <2>1, <2>2
<1>24. ASSUME NEW r \in Records, OtherSave(r) PROVE Effect
  <2>1. PICK content \in Contents : Put(r, content)
    BY <1>24 DEF OtherSave
  <2>2. Prepared = {} /\ Prepared' = {} /\ seen' = seen
    BY <1>24 DEF OtherSave, Prepared
  <2>3. InForce' = [InForce EXCEPT ![r] = content]
    BY <2>1, <2>2, ForceNone DEF Put
  <2> DEFINE v == [q \in Records |-> content]
  <2>4. v \in [Records -> Contents] /\ v[r] = content
    OBVIOUS
  <2>5. Atomic!Save(r)
    BY <2>2, <2>3, <2>4 DEF Atomic!Save
  <2> QED
    BY <2>5
<1>25. ~\E r \in Records : ForeignEdit(r)
  BY DEF ForeignEdit, IInv, TypeOK
<1> QED
  BY <1>1, <1>2, <1>3, <1>4, <1>5, <1>6, <1>7, <1>8, <1>9, <1>10, <1>11, <1>12, <1>13, <1>14, <1>15, <1>16, <1>17, <1>18, <1>19, <1>20, <1>21, <1>22, <1>23, <1>24, <1>25 DEF Next, RecoveryStep, UpdateStep

\* Once a program that ignores the lock has edited a record, the promise has ended for good.
LEMMA EditsGrow ==
  ASSUME TypeOK, Next
  PROVE  edits' >= edits
BY DEF TypeOK, Next, RecoveryStep, UpdateStep, bounds, Faults, Enter, Busy, Pass, Read,
       Unreadable, Refused, Resolve, Mark, MarkFails, MarkUnread, Rollback, RollbackRefused,
       RollbackFails, RollbackEnds, RollbackEndFails, Clean, Begin, BeginFails, Stale, Publish,
       PublishRefused, PublishFails, Crash, ForeignEdit, OtherSave

\* Every step maps to a step or a stutter of AtomicUpdate.
LEMMA AtomicStep ==
  ASSUME IInv, IInv', [Next]_vars
  PROVE  [Atomic!Next]_(Atomic!vars)
<1>1. CASE UNCHANGED vars
  BY <1>1 DEF vars, Atomic!vars, InForce, Prepared, Published
<1>2. CASE Next /\ edits' > 0
  BY <1>2 DEF Atomic!Next
<1>3. CASE Next /\ ~(edits' > 0)
  <2>1. edits = 0 /\ edits' = 0
    BY <1>3, EditsGrow DEF IInv, TypeOK
  <2>2. Effect
    BY <1>3, <2>1, StepEffect
  <2>3. ASSUME NEW p \in Processes, Forgets(p) \/ Applies(p) PROVE Atomic!Forget(p) \/ Atomic!Update(p)
    BY <2>3 DEF Forgets, Applies, Atomic!Forget, Atomic!Update
  <2> QED
    BY <2>1, <2>2, <2>3 DEF Effect, Atomic!Next, Atomic!vars
<1> QED
  BY <1>1, <1>2, <1>3

\* Publishing record by record under a journal, with failures, crashes and recoveries by
\* any process, implements an update that changes all records at one instant, on top of the
\* very version it had previewed (source_update_store.py:74-309).
THEOREM Refinement == Spec => AtomicSpec
<1>1. Init => Atomic!Init
  BY ForceNone DEF Init, Prepared, Atomic!Init
<1>2. IInv /\ IInv' /\ [Next]_vars => [Atomic!Next]_(Atomic!vars)
  BY AtomicStep
<1> QED
  BY <1>1, <1>2, Invariant, PTL DEF Spec, AtomicSpec, Atomic!Spec

-----------------------------------------------------------------------------
(* What an update reports when it leaves the lock.                         *)

Honest ==
  \A p \in lock \ lock' : seen[p] # {} =>
    /\ outcome'[p] = "updated" => \A v \in seen[p], r \in Records : InForce'[r] # v[r]
    /\ outcome'[p] = "failed" /\ faults' <= 1 /\ (pc[p] = "recover" => duty = "enter")
         => InForce' = InForce

\* Failing is honest when nothing changes, or when the claim makes an exception.
LEMMA HonestFailure ==
  ASSUME IInv, NEW p \in lock, Fails(p),
         faults' <= 1 /\ (pc[p] = "recover" => duty = "enter") => InForce' = InForce
  PROVE  Honest
<1>1. lock \ lock' = {p} /\ (seen[p] # {} => outcome'[p] = "failed")
  BY DEF IInv, TypeOK, LockOK, Fails, Return
<1> QED
  BY <1>1 DEF Honest

LEMMA HonestStep ==
  ASSUME IInv, IInv', Next, edits = 0
  PROVE  Honest
<1> USE DEF Goto, Step, local, bounds, Inside
<1>1. ASSUME lock \subseteq lock' PROVE Honest
  BY <1>1 DEF Honest
<1>2. ASSUME NEW p \in Processes, Read(p) PROVE Honest
  BY <1>2 DEF Read, Honest, IInv, LockOK
<1>3. ASSUME NEW p \in Processes, Unreadable(p) PROVE Honest
  <2>1. p \in lock /\ duty' = "enter" /\ seen' = [seen EXCEPT ![p] = {}]
    BY <1>3, InLock DEF Unreadable, Fails, Return
  <2>2. pc[p] = "inside" => duty = "enter"
    BY DEF IInv, PlaceOK
  <2>3. duty = "enter" => InForce' = InForce
    BY <1>3, <2>1, LettingGo DEF Unreadable, Forgets
  <2> QED
    BY <1>3, <2>1, <2>2, <2>3, HonestFailure DEF Unreadable
<1>4. ASSUME NEW p \in Processes, Refused(p) PROVE Honest
  BY <1>4 DEF Refused, IInv, JournalResolvable
<1>5. ASSUME NEW p \in Processes, MarkFails(p), ~(lock \subseteq lock') PROVE Honest
  <2>1. p \in lock /\ UNCHANGED <<disk, journals>> /\ duty = "enter" /\ Fails(p)
    BY <1>5, InLock DEF MarkFails, Unmarked
  <2>2. duty' = "enter" /\ seen' = [seen EXCEPT ![p] = {}]
    BY <2>1 DEF Fails, Return
  <2> QED
    BY <2>1, <2>2, LettingGo, HonestFailure DEF Forgets
<1>6. ASSUME NEW p \in Processes, MarkUnread(p) PROVE Honest
  <2>1. p \in lock /\ Fails(p) /\ ~(faults' <= 1)
    BY <1>6, InLock DEF MarkUnread, Faults, IInv, TypeOK
  <2> QED
    BY <2>1, HonestFailure
<1>7. ASSUME NEW p \in Processes, RollbackRefused(p) PROVE Honest
  BY <1>7 DEF RollbackRefused, NextBack, IInv, StageOK
<1>8. ASSUME NEW p \in Processes, RollbackFails(p) PROVE Honest
  <2>1. p \in lock /\ Fails(p) /\ UNCHANGED journals /\ pc[p] = "rollback" /\ faults' = faults + 1
    BY <1>8, InLock DEF RollbackFails, Faults
  <2>2. duty' = "enter" /\ seen' = [seen EXCEPT ![p] = {}]
    BY <2>1 DEF Fails, Return
  <2>3. ASSUME UNCHANGED disk, faults' <= 1 PROVE InForce' = InForce
    <3>1. \A j \in Prepared : Published(j) # Records
      BY <2>1, <2>3 DEF IInv, TypeOK, StageOK
    <3> QED
      BY <2>1, <2>2, <2>3, <3>1, LettingGo DEF Forgets
  <2>4. ASSUME NEW r \in Records, NEW j \in Prepared, NextBack(r), Restore(j, r) PROVE InForce' = InForce
    BY <2>1, <2>4, RestoreForce
  <2> QED
    BY <1>8, <2>1, <2>3, <2>4, HonestFailure DEF RollbackFails
<1>9. ASSUME NEW p \in Processes, RollbackEnds(p), ~(lock \subseteq lock') PROVE Honest
  <2>1. p \in lock /\ Fails(p) /\ InForce' = InForce
    BY <1>9, InLock, RemoveForce DEF RollbackEnds
  <2> QED
    BY <2>1, HonestFailure
<1>10. ASSUME NEW p \in Processes, RollbackEndFails(p) PROVE Honest
  <2>1. p \in lock /\ Fails(p) /\ UNCHANGED disk /\ pc[p] = "rollback" /\ todo = {}
    BY <1>10, InLock DEF RollbackEndFails
  <2>2. duty' = "enter" /\ seen' = [seen EXCEPT ![p] = {}]
    BY <2>1 DEF Fails, Return
  <2>3. \A j \in Prepared : Published(j) # Records
    BY <2>1, ProjectIsRecord DEF IInv, StageOK
  <2>4. InForce' = InForce
    <3>1. CASE UNCHANGED journals
      BY <2>1, <2>2, <2>3, <3>1, LettingGo DEF Forgets
    <3>2. CASE journals' = journals \ Prepared
      BY <2>1, <3>2, RemoveForce
    <3> QED
      BY <1>10, <3>1, <3>2 DEF RollbackEndFails
  <2> QED
    BY <2>1, <2>4, HonestFailure
<1>11. ASSUME NEW p \in Processes, Clean(p), ~(lock \subseteq lock') PROVE Honest
  <2>1. p \in lock /\ Succeeds(p) /\ duty = "own" /\ pc[p] = "clean" /\ UNCHANGED disk
    BY <1>11, InLock DEF Clean
  <2>2. lock \ lock' = {p} /\ (seen[p] # {} => outcome'[p] = "updated")
    BY <2>1 DEF IInv, TypeOK, LockOK, Succeeds, Return
  <2>3. InForce' = disk
    BY <1>11, <2>1, ForceNone DEF IInv, PlaceOK, Clean, Prepared
  <2>4. \A v \in seen[p], r \in Records : disk[r] # v[r]
    BY <2>1 DEF IInv, OwnOK
  <2> QED
    BY <2>2, <2>3, <2>4 DEF Honest
<1>12. ASSUME NEW p \in Processes, BeginFails(p) PROVE Honest
  <2>1. p \in lock /\ Fails(p) /\ UNCHANGED disk /\ pc[p] = "inside" /\ duty = "enter"
    BY <1>12, InLock DEF BeginFails, IInv, PlaceOK
  <2>2. duty' = duty
    BY <2>1 DEF Fails, Return
  <2>3. InForce' = InForce
    BY <1>12, <2>1, <2>2, SameForce, ManifestForce DEF BeginFails
  <2> QED
    BY <2>1, <2>3, HonestFailure
<1>13. ASSUME NEW p \in Processes, Stale(p) PROVE Honest
  <2>1. p \in lock /\ Fails(p) /\ UNCHANGED <<disk, journals>> /\ duty = "enter"
    BY <1>13, InLock DEF Stale, IInv, PlaceOK
  <2> QED
    BY <2>1, SameForce, HonestFailure DEF Fails, Return
<1>14. ASSUME NEW p \in Processes, Crash(p) PROVE Honest
  <2>1. lock \ lock' \subseteq {p} /\ outcome'[p] = "none"
    BY <1>14 DEF Crash, IInv, TypeOK
  <2> QED
    BY <2>1 DEF Honest
<1>15. ASSUME NEW p \in Processes,
              Enter(p) \/ Busy(p) \/ Pass(p) \/ Resolve(p) \/ Mark(p) \/ Rollback(p) \/ Begin(p)
                \/ Publish(p) \/ PublishRefused(p) \/ PublishFails(p)
       PROVE  lock \subseteq lock'
  BY <1>15 DEF Enter, Busy, Pass, Resolve, Mark, Rollback, Begin, Publish, PublishRefused, PublishFails
<1>16. ASSUME NEW r \in Records, ForeignEdit(r) \/ OtherSave(r) PROVE lock \subseteq lock'
  BY <1>16 DEF ForeignEdit, OtherSave
<1> QED
  BY <1>1, <1>2, <1>3, <1>4, <1>5, <1>6, <1>7, <1>8, <1>9, <1>10, <1>11, <1>12, <1>13, <1>14, <1>15, <1>16 DEF Next, RecoveryStep, UpdateStep

\* An update that reports success has replaced every record of what it previewed, and one
\* that reports failure has changed nothing, now or at a later recovery, as long as one file
\* operation failed and it was not the read after everything was published
\* (source_update_store.py:125-146, 261-274; ADR 044).
THEOREM OutcomeAlwaysTrue == Spec => OutcomeIsTrue
<1>1. IInv /\ IInv' /\ [Next]_vars =>
        [edits' = 0 =>
           \A p \in lock \ lock' : seen[p] # {} =>
             /\ outcome'[p] = "updated" =>
                  \A v \in seen[p], r \in Records : InForce'[r] # v[r]
             /\ outcome'[p] = "failed" /\ faults' <= 1 /\ (pc[p] = "recover" => duty = "enter")
                  => InForce' = InForce]_vars
  <2> SUFFICES ASSUME IInv, IInv', Next, edits' = 0 PROVE Honest
    BY DEF Honest
  <2>1. edits = 0
    BY EditsGrow DEF IInv, TypeOK
  <2> QED
    BY <2>1, HonestStep
<1> QED
  BY <1>1, Invariant, PTL DEF Spec, OutcomeIsTrue
=============================================================================
