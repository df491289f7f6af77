----------------------- MODULE PluginPublicationProofs -----------------------
(***************************************************************************)
(* PluginPublication for any number of jobs, companions, failures, crashes *)
(* and edits: what a job has replaced can always be put back, a plain      *)
(* failure leaves nothing, a result is what the targets show, and only     *)
(* content its preflight has seen is replaced.                             *)
(***************************************************************************)
EXTENDS PluginPublication, TLAPS

Early     == {"idle", "queued", "staging", "copying"}
Permitted == {"backup", "replace", "rollback"}

\* Whose output is on disk, or may be put back by the commit under way.
Present(j) ==
  \/ \E f \in Files : files[f] = j
  \/ \E i \in lock, f \in Files : \E v \in expected[i] : v[f] = j

LockOK ==
  /\ \A j \in Jobs : j \in lock <=> pc[j] \in Permitted
  /\ \A i, j \in lock : i = j

\* A preflight has seen one version, and nothing of its own job.
ExpectedOK ==
  \A j \in Jobs :
    /\ pc[j] = "idle" <=> expected[j] = {}
    /\ \A v, w \in expected[j] : v = w
    /\ \A v \in expected[j], f \in Files : v[f] # j

\* The staging directory of a job that renders or commits, and the copies in it.
CopiesOK ==
  \A j \in Jobs :
    /\ pc[j] \in {"staging", "copying"} \cup Permitted => j \in stage
    /\ pc[j] = "copying" => \A v \in expected[j] : Existing(v) \subseteq copies[j] \cup todo[j]
    /\ pc[j] \in Permitted => \A v \in expected[j] : Existing(v) \subseteq copies[j]

\* Before its commit a job has written nothing.
EarlyOK ==
  \A j \in Jobs :
    /\ pc[j] \in Early => ~Present(j) /\ backups[j] = {}
    /\ pc[j] \in Early \cup Permitted => result[j] = "none"
    /\ pc[j] \in {"cleanup", "reported"} => result[j] # "none"
    /\ pc[j] # "dead" => job[j] \notin {"completed", "cancelled"}

\* What the commit finds in each target, unless it was edited since its comparison.
CommitOf(j) ==
  \A v \in expected[j], f \in Files :
    /\ pc[j] = "backup" => files[f] # j /\ (f \in late \/ files[f] = v[f])
    /\ pc[j] = "replace" /\ f \in todo[j] =>
         /\ files[f] # j
         /\ f \in late \/ files[f] = v[f]
         /\ \A g \in Files : g > f => g \in todo[j]
    /\ pc[j] = "replace" /\ f \notin todo[j] => f \in late \/ files[f] = j
    /\ pc[j] = "rollback" /\ f \in todo[j] => f \in late \/ files[f] \in {j, v[f]}
    /\ pc[j] = "rollback" /\ f \notin todo[j] =>
         \/ failures[j]
         \/ files[f] # j /\ (f \in late \/ files[f] = v[f])

CommitOK == \A j \in lock : CommitOf(j)

\* The two invariants, for output that a rollback may bring back as well.
KeptOK ==
  \A j \in Jobs : Present(j) /\ ~Published(j) /\ pc[j] \notin Early =>
    j \in stage /\ \A v \in expected[j] : Existing(v) \subseteq copies[j]

CleanOK ==
  \A j \in Jobs :
    /\ result[j] \in {"failed", "cancelled"} => backups[j] = {} /\ ~Present(j)
    /\ job[j] \in {"completed", "cancelled"} => j \notin stage

IInv ==
  /\ TypeOK /\ LockOK /\ ExpectedOK /\ CopiesOK
  /\ EarlyOK /\ CommitOK /\ KeptOK /\ CleanOK

LEMMA FilesNat == Files \subseteq Nat
BY CompanionAssumption DEF Files

LEMMA TypeInit == Init => TypeOK
BY PolicyAssumption DEF Init, TypeOK, Version, PC, Outcomes

LEMMA TypeStep == TypeOK /\ [Next]_vars => TypeOK'
<1> SUFFICES ASSUME TypeOK, [Next]_vars PROVE TypeOK' OBVIOUS
<1>0. CASE UNCHANGED vars
  BY <1>0 DEF TypeOK, vars, private, bounds
<1> USE DEF TypeOK, private, bounds, Goto, Step, Put, With, Spared, Fault, Report, SetJob, Ends
<1>1. ASSUME NEW j \in Jobs, Preflight(j) PROVE TypeOK'
  BY <1>1 DEF Preflight, PC, Version
<1>2. ASSUME NEW j \in Jobs, Refuse(j) PROVE TypeOK'
  BY <1>2 DEF Refuse, PC, Outcomes
<1>3. ASSUME NEW j \in Jobs, StopAtOnce(j) PROVE TypeOK'
  BY <1>3 DEF StopAtOnce, PC, Outcomes
<1>4. ASSUME NEW j \in Jobs, Stage(j) PROVE TypeOK'
  BY <1>4 DEF Stage, PC, Outcomes
<1>5. ASSUME NEW j \in Jobs, Render(j) PROVE TypeOK'
  BY <1>5 DEF Render, PC, Existing
<1>6. ASSUME NEW j \in Jobs, Copy(j) PROVE TypeOK'
  BY <1>6 DEF Copy, PC, Outcomes
<1>7. ASSUME NEW j \in Jobs, CopyRefused(j) PROVE TypeOK'
  BY <1>7 DEF CopyRefused, PC, Outcomes
<1>8. ASSUME NEW j \in Jobs, PrepareFails(j) PROVE TypeOK'
  BY <1>8 DEF PrepareFails, PC, Outcomes
<1>9. ASSUME NEW j \in Jobs, StopBeforeCommit(j) PROVE TypeOK'
  BY <1>9 DEF StopBeforeCommit, PC, Outcomes
<1>10. ASSUME NEW j \in Jobs, CommitRefused(j) PROVE TypeOK'
  BY <1>10 DEF CommitRefused, PC, Outcomes
<1>11. ASSUME NEW j \in Jobs, Commit(j) PROVE TypeOK'
  BY <1>11 DEF Commit, PC, Outcomes
<1>12. ASSUME NEW j \in Jobs, Backup(j) PROVE TypeOK'
  BY <1>12 DEF Backup, PC, Outcomes
<1>13. ASSUME NEW j \in Jobs, BackupFails(j) PROVE TypeOK'
  BY <1>13 DEF BackupFails, PC, Outcomes
<1>14. ASSUME NEW j \in Jobs, BackedUp(j) PROVE TypeOK'
  BY <1>14 DEF BackedUp, PC, Outcomes
<1>15. ASSUME NEW j \in Jobs, Replace(j) PROVE TypeOK'
  BY <1>15 DEF Replace, PC, Version
<1>16. ASSUME NEW j \in Jobs, ReplaceFails(j) PROVE TypeOK'
  BY <1>16 DEF ReplaceFails, PC, Version, Attempted
<1>17. ASSUME NEW j \in Jobs, SyncFails(j) PROVE TypeOK'
  BY <1>17 DEF SyncFails, PC, Outcomes
<1>18. ASSUME NEW j \in Jobs, Committed(j) PROVE TypeOK'
  BY <1>18 DEF Committed, PC, Outcomes
<1>19. ASSUME NEW j \in Jobs, PutBack(j) PROVE TypeOK'
  BY <1>19 DEF PutBack, PC, Version
<1>20. ASSUME NEW j \in Jobs, PutBackFails(j) PROVE TypeOK'
  BY <1>20 DEF PutBackFails, PC, Version, Noted
<1>21. ASSUME NEW j \in Jobs, RolledBack(j) PROVE TypeOK'
  <2>1. backups' \in [Jobs -> SUBSET Files]
    BY <1>21 DEF RolledBack
  <2>2. failures' \in [Jobs -> BOOLEAN]
    BY <1>21 DEF RolledBack
  <2>3. faults' \in Nat /\ crashes' \in Nat /\ edits' \in Nat
    BY <1>21 DEF RolledBack
  <2>4. result' \in [Jobs -> Outcomes]
    BY <1>21 DEF RolledBack, Outcomes, RollbackResult
  <2> QED
    BY <1>21, <2>1, <2>2, <2>3, <2>4 DEF RolledBack, PC
<1>22. ASSUME NEW j \in Jobs, Cleanup(j) PROVE TypeOK'
  BY <1>22 DEF Cleanup, PC, Outcomes
<1>23. ASSUME NEW j \in Jobs, CleanupFails(j) PROVE TypeOK'
  BY <1>23 DEF CleanupFails, PC, Outcomes
<1>24. ASSUME NEW j \in Jobs, Finish(j) PROVE TypeOK'
  BY <1>24 DEF Finish, PC, Verdict
<1>25. ASSUME NEW j \in Jobs, Cancel(j) PROVE TypeOK'
  BY <1>25 DEF Cancel, PC, Outcomes
<1>26. CASE Crash
  BY <1>26 DEF Crash, PC
<1>27. ASSUME NEW f \in Files, ForeignEdit(f) PROVE TypeOK'
  BY <1>27 DEF ForeignEdit, Version
<1>28. CASE Ended
  BY <1>28, <1>0 DEF Ended
<1> QED
  BY <1>0, <1>1, <1>2, <1>3, <1>4, <1>5, <1>6, <1>7, <1>8, <1>9, <1>10, <1>11, <1>12, <1>13,
     <1>14, <1>15, <1>16, <1>17, <1>18, <1>19, <1>20, <1>21, <1>22, <1>23, <1>24, <1>25, <1>26,
     <1>27, <1>28 DEF Next, Workload

LEMMA LockStep == TypeOK /\ LockOK /\ [Next]_vars => LockOK'
<1> SUFFICES ASSUME TypeOK, LockOK, [Next]_vars PROVE LockOK' OBVIOUS
<1>0. CASE UNCHANGED vars
  BY <1>0 DEF LockOK, vars, private, bounds
<1> USE DEF LockOK, TypeOK, Permitted, private, bounds, Goto, Step, Put, With, Spared, Fault,
        Report, SetJob, Ends
<1>1. ASSUME NEW j \in Jobs, Preflight(j) PROVE LockOK'
  BY <1>1 DEF Preflight
<1>2. ASSUME NEW j \in Jobs, Refuse(j) PROVE LockOK'
  BY <1>2 DEF Refuse
<1>3. ASSUME NEW j \in Jobs, StopAtOnce(j) PROVE LockOK'
  BY <1>3 DEF StopAtOnce
<1>4. ASSUME NEW j \in Jobs, Stage(j) PROVE LockOK'
  BY <1>4 DEF Stage
<1>5. ASSUME NEW j \in Jobs, Render(j) PROVE LockOK'
  BY <1>5 DEF Render
<1>6. ASSUME NEW j \in Jobs, Copy(j) PROVE LockOK'
  BY <1>6 DEF Copy
<1>7. ASSUME NEW j \in Jobs, CopyRefused(j) PROVE LockOK'
  BY <1>7 DEF CopyRefused
<1>8. ASSUME NEW j \in Jobs, PrepareFails(j) PROVE LockOK'
  BY <1>8 DEF PrepareFails
<1>9. ASSUME NEW j \in Jobs, StopBeforeCommit(j) PROVE LockOK'
  BY <1>9 DEF StopBeforeCommit
<1>10. ASSUME NEW j \in Jobs, CommitRefused(j) PROVE LockOK'
  BY <1>10 DEF CommitRefused
<1>11. ASSUME NEW j \in Jobs, Commit(j) PROVE LockOK'
  BY <1>11 DEF Commit
<1>12. ASSUME NEW j \in Jobs, Backup(j) PROVE LockOK'
  BY <1>12 DEF Backup
<1>13. ASSUME NEW j \in Jobs, BackupFails(j) PROVE LockOK'
  BY <1>13 DEF BackupFails
<1>14. ASSUME NEW j \in Jobs, BackedUp(j) PROVE LockOK'
  BY <1>14 DEF BackedUp
<1>15. ASSUME NEW j \in Jobs, Replace(j) PROVE LockOK'
  BY <1>15 DEF Replace
<1>16. ASSUME NEW j \in Jobs, ReplaceFails(j) PROVE LockOK'
  BY <1>16 DEF ReplaceFails
<1>17. ASSUME NEW j \in Jobs, SyncFails(j) PROVE LockOK'
  BY <1>17 DEF SyncFails
<1>18. ASSUME NEW j \in Jobs, Committed(j) PROVE LockOK'
  BY <1>18 DEF Committed
<1>19. ASSUME NEW j \in Jobs, PutBack(j) PROVE LockOK'
  BY <1>19 DEF PutBack
<1>20. ASSUME NEW j \in Jobs, PutBackFails(j) PROVE LockOK'
  BY <1>20 DEF PutBackFails
<1>21. ASSUME NEW j \in Jobs, RolledBack(j) PROVE LockOK'
  BY <1>21 DEF RolledBack
<1>22. ASSUME NEW j \in Jobs, Cleanup(j) PROVE LockOK'
  BY <1>22 DEF Cleanup
<1>23. ASSUME NEW j \in Jobs, CleanupFails(j) PROVE LockOK'
  BY <1>23 DEF CleanupFails
<1>24. ASSUME NEW j \in Jobs, Finish(j) PROVE LockOK'
  BY <1>24 DEF Finish
<1>25. ASSUME NEW j \in Jobs, Cancel(j) PROVE LockOK'
  BY <1>25 DEF Cancel
<1>26. CASE Crash
  BY <1>26 DEF Crash
<1>27. ASSUME NEW f \in Files, ForeignEdit(f) PROVE LockOK'
  BY <1>27 DEF ForeignEdit
<1>28. CASE Ended
  BY <1>28, <1>0 DEF Ended
<1> QED
  BY <1>0, <1>1, <1>2, <1>3, <1>4, <1>5, <1>6, <1>7, <1>8, <1>9, <1>10, <1>11, <1>12, <1>13,
     <1>14, <1>15, <1>16, <1>17, <1>18, <1>19, <1>20, <1>21, <1>22, <1>23, <1>24, <1>25, <1>26,
     <1>27, <1>28 DEF Next, Workload

LEMMA ExpectedStep == TypeOK /\ ExpectedOK /\ EarlyOK /\ [Next]_vars => ExpectedOK'
<1> SUFFICES ASSUME TypeOK, ExpectedOK, EarlyOK, [Next]_vars PROVE ExpectedOK' OBVIOUS
<1>0. CASE UNCHANGED vars
  BY <1>0 DEF ExpectedOK, vars, private, bounds
<1> USE DEF ExpectedOK, TypeOK, private, bounds, Goto, Step, Put, With, Spared, Fault, Report,
        SetJob, Ends
<1>1. ASSUME NEW j \in Jobs, Preflight(j) PROVE ExpectedOK'
  BY <1>1 DEF Preflight, EarlyOK, Early, Present, Version
<1>2. ASSUME NEW j \in Jobs, Refuse(j) PROVE ExpectedOK'
  BY <1>2 DEF Refuse
<1>3. ASSUME NEW j \in Jobs, StopAtOnce(j) PROVE ExpectedOK'
  BY <1>3 DEF StopAtOnce
<1>4. ASSUME NEW j \in Jobs, Stage(j) PROVE ExpectedOK'
  BY <1>4 DEF Stage
<1>5. ASSUME NEW j \in Jobs, Render(j) PROVE ExpectedOK'
  BY <1>5 DEF Render
<1>6. ASSUME NEW j \in Jobs, Copy(j) PROVE ExpectedOK'
  BY <1>6 DEF Copy
<1>7. ASSUME NEW j \in Jobs, CopyRefused(j) PROVE ExpectedOK'
  BY <1>7 DEF CopyRefused
<1>8. ASSUME NEW j \in Jobs, PrepareFails(j) PROVE ExpectedOK'
  BY <1>8 DEF PrepareFails
<1>9. ASSUME NEW j \in Jobs, StopBeforeCommit(j) PROVE ExpectedOK'
  BY <1>9 DEF StopBeforeCommit
<1>10. ASSUME NEW j \in Jobs, CommitRefused(j) PROVE ExpectedOK'
  BY <1>10 DEF CommitRefused
<1>11. ASSUME NEW j \in Jobs, Commit(j) PROVE ExpectedOK'
  BY <1>11 DEF Commit
<1>12. ASSUME NEW j \in Jobs, Backup(j) PROVE ExpectedOK'
  BY <1>12 DEF Backup
<1>13. ASSUME NEW j \in Jobs, BackupFails(j) PROVE ExpectedOK'
  BY <1>13 DEF BackupFails
<1>14. ASSUME NEW j \in Jobs, BackedUp(j) PROVE ExpectedOK'
  BY <1>14 DEF BackedUp
<1>15. ASSUME NEW j \in Jobs, Replace(j) PROVE ExpectedOK'
  BY <1>15 DEF Replace
<1>16. ASSUME NEW j \in Jobs, ReplaceFails(j) PROVE ExpectedOK'
  BY <1>16 DEF ReplaceFails
<1>17. ASSUME NEW j \in Jobs, SyncFails(j) PROVE ExpectedOK'
  BY <1>17 DEF SyncFails
<1>18. ASSUME NEW j \in Jobs, Committed(j) PROVE ExpectedOK'
  BY <1>18 DEF Committed
<1>19. ASSUME NEW j \in Jobs, PutBack(j) PROVE ExpectedOK'
  BY <1>19 DEF PutBack
<1>20. ASSUME NEW j \in Jobs, PutBackFails(j) PROVE ExpectedOK'
  BY <1>20 DEF PutBackFails
<1>21. ASSUME NEW j \in Jobs, RolledBack(j) PROVE ExpectedOK'
  BY <1>21 DEF RolledBack
<1>22. ASSUME NEW j \in Jobs, Cleanup(j) PROVE ExpectedOK'
  BY <1>22 DEF Cleanup
<1>23. ASSUME NEW j \in Jobs, CleanupFails(j) PROVE ExpectedOK'
  BY <1>23 DEF CleanupFails
<1>24. ASSUME NEW j \in Jobs, Finish(j) PROVE ExpectedOK'
  BY <1>24 DEF Finish
<1>25. ASSUME NEW j \in Jobs, Cancel(j) PROVE ExpectedOK'
  BY <1>25 DEF Cancel
<1>26. CASE Crash
  BY <1>26 DEF Crash
<1>27. ASSUME NEW f \in Files, ForeignEdit(f) PROVE ExpectedOK'
  BY <1>27 DEF ForeignEdit
<1>28. CASE Ended
  BY <1>28, <1>0 DEF Ended
<1> QED
  BY <1>0, <1>1, <1>2, <1>3, <1>4, <1>5, <1>6, <1>7, <1>8, <1>9, <1>10, <1>11, <1>12, <1>13,
     <1>14, <1>15, <1>16, <1>17, <1>18, <1>19, <1>20, <1>21, <1>22, <1>23, <1>24, <1>25, <1>26,
     <1>27, <1>28 DEF Next, Workload

LEMMA CopiesStep == TypeOK /\ ExpectedOK /\ CopiesOK /\ [Next]_vars => CopiesOK'
<1> SUFFICES ASSUME TypeOK, ExpectedOK, CopiesOK, [Next]_vars PROVE CopiesOK' OBVIOUS
<1>0. CASE UNCHANGED vars
  BY <1>0 DEF CopiesOK, vars, private, bounds
<1> USE DEF CopiesOK, TypeOK, ExpectedOK, Permitted, private, bounds, Goto, Step, Put, With,
        Spared, Fault, Report, SetJob, Ends
<1>1. ASSUME NEW j \in Jobs, Preflight(j) PROVE CopiesOK'
  BY <1>1 DEF Preflight
<1>2. ASSUME NEW j \in Jobs, Refuse(j) PROVE CopiesOK'
  BY <1>2 DEF Refuse
<1>3. ASSUME NEW j \in Jobs, StopAtOnce(j) PROVE CopiesOK'
  BY <1>3 DEF StopAtOnce
<1>4. ASSUME NEW j \in Jobs, Stage(j) PROVE CopiesOK'
  BY <1>4 DEF Stage
<1>5. ASSUME NEW j \in Jobs, Render(j) PROVE CopiesOK'
  BY <1>5 DEF Render, Existing
<1>6. ASSUME NEW j \in Jobs, Copy(j) PROVE CopiesOK'
  BY <1>6 DEF Copy
<1>7. ASSUME NEW j \in Jobs, CopyRefused(j) PROVE CopiesOK'
  BY <1>7 DEF CopyRefused
<1>8. ASSUME NEW j \in Jobs, PrepareFails(j) PROVE CopiesOK'
  BY <1>8 DEF PrepareFails
<1>9. ASSUME NEW j \in Jobs, StopBeforeCommit(j) PROVE CopiesOK'
  BY <1>9 DEF StopBeforeCommit
<1>10. ASSUME NEW j \in Jobs, CommitRefused(j) PROVE CopiesOK'
  BY <1>10 DEF CommitRefused
<1>11. ASSUME NEW j \in Jobs, Commit(j) PROVE CopiesOK'
  BY <1>11 DEF Commit
<1>12. ASSUME NEW j \in Jobs, Backup(j) PROVE CopiesOK'
  BY <1>12 DEF Backup
<1>13. ASSUME NEW j \in Jobs, BackupFails(j) PROVE CopiesOK'
  BY <1>13 DEF BackupFails
<1>14. ASSUME NEW j \in Jobs, BackedUp(j) PROVE CopiesOK'
  BY <1>14 DEF BackedUp
<1>15. ASSUME NEW j \in Jobs, Replace(j) PROVE CopiesOK'
  BY <1>15 DEF Replace
<1>16. ASSUME NEW j \in Jobs, ReplaceFails(j) PROVE CopiesOK'
  BY <1>16 DEF ReplaceFails
<1>17. ASSUME NEW j \in Jobs, SyncFails(j) PROVE CopiesOK'
  BY <1>17 DEF SyncFails
<1>18. ASSUME NEW j \in Jobs, Committed(j) PROVE CopiesOK'
  BY <1>18 DEF Committed
<1>19. ASSUME NEW j \in Jobs, PutBack(j) PROVE CopiesOK'
  BY <1>19 DEF PutBack
<1>20. ASSUME NEW j \in Jobs, PutBackFails(j) PROVE CopiesOK'
  BY <1>20 DEF PutBackFails
<1>21. ASSUME NEW j \in Jobs, RolledBack(j) PROVE CopiesOK'
  BY <1>21 DEF RolledBack
<1>22. ASSUME NEW j \in Jobs, Cleanup(j) PROVE CopiesOK'
  BY <1>22 DEF Cleanup
<1>23. ASSUME NEW j \in Jobs, CleanupFails(j) PROVE CopiesOK'
  BY <1>23 DEF CleanupFails
<1>24. ASSUME NEW j \in Jobs, Finish(j) PROVE CopiesOK'
  BY <1>24 DEF Finish
<1>25. ASSUME NEW j \in Jobs, Cancel(j) PROVE CopiesOK'
  BY <1>25 DEF Cancel
<1>26. CASE Crash
  BY <1>26 DEF Crash
<1>27. ASSUME NEW f \in Files, ForeignEdit(f) PROVE CopiesOK'
  BY <1>27 DEF ForeignEdit
<1>28. CASE Ended
  BY <1>28, <1>0 DEF Ended
<1> QED
  BY <1>0, <1>1, <1>2, <1>3, <1>4, <1>5, <1>6, <1>7, <1>8, <1>9, <1>10, <1>11, <1>12, <1>13,
     <1>14, <1>15, <1>16, <1>17, <1>18, <1>19, <1>20, <1>21, <1>22, <1>23, <1>24, <1>25, <1>26,
     <1>27, <1>28 DEF Next, Workload

\* Only the job inside its commit brings new output of its own into the targets.
LEMMA PresentStep ==
  TypeOK /\ LockOK /\ ExpectedOK /\ [Next]_vars => \A k \in Jobs : Present(k)' =>
    Present(k) \/ k \in lock
<1> SUFFICES ASSUME TypeOK, LockOK, ExpectedOK, [Next]_vars
             PROVE  \A k \in Jobs : Present(k)' => Present(k) \/ k \in lock OBVIOUS
<1>0. CASE UNCHANGED vars
  BY <1>0 DEF Present, vars, private, bounds
<1> USE DEF Present, TypeOK, LockOK, ExpectedOK, Permitted, private, bounds, Goto, Step, Put,
        With, Spared, Fault, Report, SetJob, Ends
<1>1. ASSUME NEW j \in Jobs, Preflight(j)
      PROVE  \A k \in Jobs : Present(k)' => Present(k) \/ k \in lock
  BY <1>1 DEF Preflight
<1>2. ASSUME NEW j \in Jobs, Refuse(j)
      PROVE  \A k \in Jobs : Present(k)' => Present(k) \/ k \in lock
  BY <1>2 DEF Refuse
<1>3. ASSUME NEW j \in Jobs, StopAtOnce(j)
      PROVE  \A k \in Jobs : Present(k)' => Present(k) \/ k \in lock
  BY <1>3 DEF StopAtOnce
<1>4. ASSUME NEW j \in Jobs, Stage(j)
      PROVE  \A k \in Jobs : Present(k)' => Present(k) \/ k \in lock
  BY <1>4 DEF Stage
<1>5. ASSUME NEW j \in Jobs, Render(j)
      PROVE  \A k \in Jobs : Present(k)' => Present(k) \/ k \in lock
  BY <1>5 DEF Render
<1>6. ASSUME NEW j \in Jobs, Copy(j)
      PROVE  \A k \in Jobs : Present(k)' => Present(k) \/ k \in lock
  BY <1>6 DEF Copy
<1>7. ASSUME NEW j \in Jobs, CopyRefused(j)
      PROVE  \A k \in Jobs : Present(k)' => Present(k) \/ k \in lock
  BY <1>7 DEF CopyRefused
<1>8. ASSUME NEW j \in Jobs, PrepareFails(j)
      PROVE  \A k \in Jobs : Present(k)' => Present(k) \/ k \in lock
  BY <1>8 DEF PrepareFails
<1>9. ASSUME NEW j \in Jobs, StopBeforeCommit(j)
      PROVE  \A k \in Jobs : Present(k)' => Present(k) \/ k \in lock
  BY <1>9 DEF StopBeforeCommit
<1>10. ASSUME NEW j \in Jobs, CommitRefused(j)
      PROVE  \A k \in Jobs : Present(k)' => Present(k) \/ k \in lock
  BY <1>10 DEF CommitRefused
<1>11. ASSUME NEW j \in Jobs, Commit(j)
      PROVE  \A k \in Jobs : Present(k)' => Present(k) \/ k \in lock
  BY <1>11 DEF Commit, CommitAllowed, Unchanged
<1>12. ASSUME NEW j \in Jobs, Backup(j)
      PROVE  \A k \in Jobs : Present(k)' => Present(k) \/ k \in lock
  BY <1>12 DEF Backup
<1>13. ASSUME NEW j \in Jobs, BackupFails(j)
      PROVE  \A k \in Jobs : Present(k)' => Present(k) \/ k \in lock
  BY <1>13 DEF BackupFails
<1>14. ASSUME NEW j \in Jobs, BackedUp(j)
      PROVE  \A k \in Jobs : Present(k)' => Present(k) \/ k \in lock
  BY <1>14 DEF BackedUp
<1>15. ASSUME NEW j \in Jobs, Replace(j)
      PROVE  \A k \in Jobs : Present(k)' => Present(k) \/ k \in lock
  BY <1>15 DEF Replace
<1>16. ASSUME NEW j \in Jobs, ReplaceFails(j)
      PROVE  \A k \in Jobs : Present(k)' => Present(k) \/ k \in lock
  <2>1. files' = files \/ \E f \in Files : files' = [files EXCEPT ![f] = j]
    BY <1>16 DEF ReplaceFails
  <2>2. j \in lock /\ lock' = lock /\ expected' = expected
    BY <1>16 DEF ReplaceFails
  <2>3. ASSUME NEW k \in Jobs, NEW f \in Files, files'[f] = k PROVE Present(k) \/ k \in lock
    BY <2>1, <2>2, <2>3 DEF Version
  <2> QED
    BY <2>2, <2>3
<1>17. ASSUME NEW j \in Jobs, SyncFails(j)
      PROVE  \A k \in Jobs : Present(k)' => Present(k) \/ k \in lock
  BY <1>17 DEF SyncFails
<1>18. ASSUME NEW j \in Jobs, Committed(j)
      PROVE  \A k \in Jobs : Present(k)' => Present(k) \/ k \in lock
  BY <1>18 DEF Committed
<1>19. ASSUME NEW j \in Jobs, PutBack(j)
      PROVE  \A k \in Jobs : Present(k)' => Present(k) \/ k \in lock
  BY <1>19 DEF PutBack
<1>20. ASSUME NEW j \in Jobs, PutBackFails(j)
      PROVE  \A k \in Jobs : Present(k)' => Present(k) \/ k \in lock
  <2>1. files' = files \/ \E f \in Files, v \in expected[j] : files' = [files EXCEPT ![f] = v[f]]
    BY <1>20 DEF PutBackFails
  <2>2. j \in lock /\ lock' = lock /\ expected' = expected
    BY <1>20 DEF PutBackFails
  <2>3. ASSUME NEW k \in Jobs, NEW f \in Files, files'[f] = k PROVE Present(k) \/ k \in lock
    BY <2>1, <2>2, <2>3 DEF Version
  <2> QED
    BY <2>2, <2>3
<1>21. ASSUME NEW j \in Jobs, RolledBack(j)
      PROVE  \A k \in Jobs : Present(k)' => Present(k) \/ k \in lock
  BY <1>21 DEF RolledBack
<1>22. ASSUME NEW j \in Jobs, Cleanup(j)
      PROVE  \A k \in Jobs : Present(k)' => Present(k) \/ k \in lock
  BY <1>22 DEF Cleanup
<1>23. ASSUME NEW j \in Jobs, CleanupFails(j)
      PROVE  \A k \in Jobs : Present(k)' => Present(k) \/ k \in lock
  BY <1>23 DEF CleanupFails
<1>24. ASSUME NEW j \in Jobs, Finish(j)
      PROVE  \A k \in Jobs : Present(k)' => Present(k) \/ k \in lock
  BY <1>24 DEF Finish
<1>25. ASSUME NEW j \in Jobs, Cancel(j)
      PROVE  \A k \in Jobs : Present(k)' => Present(k) \/ k \in lock
  BY <1>25 DEF Cancel
<1>26. CASE Crash
  BY <1>26 DEF Crash
<1>27. ASSUME NEW f \in Files, ForeignEdit(f)
      PROVE  \A k \in Jobs : Present(k)' => Present(k) \/ k \in lock
  BY <1>27, ContentAssumption DEF ForeignEdit
<1>28. CASE Ended
  BY <1>28, <1>0 DEF Ended
<1> QED
  BY <1>0, <1>1, <1>2, <1>3, <1>4, <1>5, <1>6, <1>7, <1>8, <1>9, <1>10, <1>11, <1>12, <1>13,
     <1>14, <1>15, <1>16, <1>17, <1>18, <1>19, <1>20, <1>21, <1>22, <1>23, <1>24, <1>25, <1>26,
     <1>27, <1>28 DEF Next, Workload

LEMMA EarlyStep == TypeOK /\ LockOK /\ ExpectedOK /\ EarlyOK /\ [Next]_vars => EarlyOK'
<1> SUFFICES ASSUME TypeOK, LockOK, ExpectedOK, EarlyOK, [Next]_vars PROVE EarlyOK' OBVIOUS
<1>0. CASE UNCHANGED vars
  BY <1>0 DEF EarlyOK, Present, vars, private, bounds
<1>a. \A k \in Jobs : Present(k)' => Present(k) \/ k \in lock
  BY PresentStep
<1> USE <1>a DEF EarlyOK, TypeOK, LockOK, ExpectedOK, Early, Permitted, private, bounds, Goto,
        Step, Put, With, Spared, Fault, Report, SetJob, Ends
<1>1. ASSUME NEW j \in Jobs, Preflight(j) PROVE EarlyOK'
  BY <1>1 DEF Preflight
<1>2. ASSUME NEW j \in Jobs, Refuse(j) PROVE EarlyOK'
  BY <1>2 DEF Refuse
<1>3. ASSUME NEW j \in Jobs, StopAtOnce(j) PROVE EarlyOK'
  BY <1>3 DEF StopAtOnce
<1>4. ASSUME NEW j \in Jobs, Stage(j) PROVE EarlyOK'
  BY <1>4 DEF Stage
<1>5. ASSUME NEW j \in Jobs, Render(j) PROVE EarlyOK'
  BY <1>5 DEF Render
<1>6. ASSUME NEW j \in Jobs, Copy(j) PROVE EarlyOK'
  BY <1>6 DEF Copy
<1>7. ASSUME NEW j \in Jobs, CopyRefused(j) PROVE EarlyOK'
  BY <1>7 DEF CopyRefused
<1>8. ASSUME NEW j \in Jobs, PrepareFails(j) PROVE EarlyOK'
  BY <1>8 DEF PrepareFails
<1>9. ASSUME NEW j \in Jobs, StopBeforeCommit(j) PROVE EarlyOK'
  BY <1>9 DEF StopBeforeCommit
<1>10. ASSUME NEW j \in Jobs, CommitRefused(j) PROVE EarlyOK'
  BY <1>10 DEF CommitRefused
<1>11. ASSUME NEW j \in Jobs, Commit(j) PROVE EarlyOK'
  BY <1>11 DEF Commit
<1>12. ASSUME NEW j \in Jobs, Backup(j) PROVE EarlyOK'
  BY <1>12 DEF Backup
<1>13. ASSUME NEW j \in Jobs, BackupFails(j) PROVE EarlyOK'
  BY <1>13 DEF BackupFails
<1>14. ASSUME NEW j \in Jobs, BackedUp(j) PROVE EarlyOK'
  BY <1>14 DEF BackedUp
<1>15. ASSUME NEW j \in Jobs, Replace(j) PROVE EarlyOK'
  BY <1>15 DEF Replace
<1>16. ASSUME NEW j \in Jobs, ReplaceFails(j) PROVE EarlyOK'
  BY <1>16 DEF ReplaceFails
<1>17. ASSUME NEW j \in Jobs, SyncFails(j) PROVE EarlyOK'
  BY <1>17 DEF SyncFails
<1>18. ASSUME NEW j \in Jobs, Committed(j) PROVE EarlyOK'
  BY <1>18 DEF Committed
<1>19. ASSUME NEW j \in Jobs, PutBack(j) PROVE EarlyOK'
  BY <1>19 DEF PutBack
<1>20. ASSUME NEW j \in Jobs, PutBackFails(j) PROVE EarlyOK'
  BY <1>20 DEF PutBackFails
<1>21. ASSUME NEW j \in Jobs, RolledBack(j) PROVE EarlyOK'
  BY <1>21 DEF RolledBack, RollbackResult
<1>22. ASSUME NEW j \in Jobs, Cleanup(j) PROVE EarlyOK'
  BY <1>22 DEF Cleanup
<1>23. ASSUME NEW j \in Jobs, CleanupFails(j) PROVE EarlyOK'
  BY <1>23 DEF CleanupFails
<1>24. ASSUME NEW j \in Jobs, Finish(j) PROVE EarlyOK'
  BY <1>24 DEF Finish, Verdict
<1>25. ASSUME NEW j \in Jobs, Cancel(j) PROVE EarlyOK'
  BY <1>25 DEF Cancel
<1>26. CASE Crash
  BY <1>26 DEF Crash
<1>27. ASSUME NEW f \in Files, ForeignEdit(f) PROVE EarlyOK'
  BY <1>27 DEF ForeignEdit
<1>28. CASE Ended
  BY <1>28, <1>0 DEF Ended
<1> QED
  BY <1>0, <1>1, <1>2, <1>3, <1>4, <1>5, <1>6, <1>7, <1>8, <1>9, <1>10, <1>11, <1>12, <1>13,
     <1>14, <1>15, <1>16, <1>17, <1>18, <1>19, <1>20, <1>21, <1>22, <1>23, <1>24, <1>25, <1>26,
     <1>27, <1>28 DEF Next, Workload

LEMMA KeptStep ==
  TypeOK /\ LockOK /\ ExpectedOK /\ EarlyOK /\ CopiesOK /\ KeptOK /\ CleanOK /\
    [Next]_vars => KeptOK'
<1> SUFFICES ASSUME TypeOK, LockOK, ExpectedOK, EarlyOK, CopiesOK, KeptOK, CleanOK, [Next]_vars
             PROVE  KeptOK' OBVIOUS
<1>0. CASE UNCHANGED vars
  BY <1>0 DEF KeptOK, Present, Published, vars, private, bounds
<1>a. \A k \in Jobs : Present(k)' => Present(k) \/ k \in lock
  BY PresentStep
<1> USE <1>a DEF KeptOK, TypeOK, LockOK, ExpectedOK, EarlyOK, CopiesOK, CleanOK, Published,
        Early, Permitted, private, bounds, Goto, Step, Put, With, Spared, Fault, Report, SetJob,
        Ends
<1>1. ASSUME NEW j \in Jobs, Preflight(j) PROVE KeptOK'
  BY <1>1 DEF Preflight
<1>2. ASSUME NEW j \in Jobs, Refuse(j) PROVE KeptOK'
  BY <1>2 DEF Refuse
<1>3. ASSUME NEW j \in Jobs, StopAtOnce(j) PROVE KeptOK'
  BY <1>3 DEF StopAtOnce
<1>4. ASSUME NEW j \in Jobs, Stage(j) PROVE KeptOK'
  BY <1>4 DEF Stage
<1>5. ASSUME NEW j \in Jobs, Render(j) PROVE KeptOK'
  BY <1>5 DEF Render
<1>6. ASSUME NEW j \in Jobs, Copy(j) PROVE KeptOK'
  BY <1>6 DEF Copy
<1>7. ASSUME NEW j \in Jobs, CopyRefused(j) PROVE KeptOK'
  BY <1>7 DEF CopyRefused
<1>8. ASSUME NEW j \in Jobs, PrepareFails(j) PROVE KeptOK'
  BY <1>8 DEF PrepareFails
<1>9. ASSUME NEW j \in Jobs, StopBeforeCommit(j) PROVE KeptOK'
  BY <1>9 DEF StopBeforeCommit
<1>10. ASSUME NEW j \in Jobs, CommitRefused(j) PROVE KeptOK'
  BY <1>10 DEF CommitRefused
<1>11. ASSUME NEW j \in Jobs, Commit(j) PROVE KeptOK'
  BY <1>11 DEF Commit
<1>12. ASSUME NEW j \in Jobs, Backup(j) PROVE KeptOK'
  BY <1>12 DEF Backup
<1>13. ASSUME NEW j \in Jobs, BackupFails(j) PROVE KeptOK'
  BY <1>13 DEF BackupFails
<1>14. ASSUME NEW j \in Jobs, BackedUp(j) PROVE KeptOK'
  BY <1>14 DEF BackedUp
<1>15. ASSUME NEW j \in Jobs, Replace(j) PROVE KeptOK'
  BY <1>15 DEF Replace
<1>16. ASSUME NEW j \in Jobs, ReplaceFails(j) PROVE KeptOK'
  BY <1>16 DEF ReplaceFails
<1>17. ASSUME NEW j \in Jobs, SyncFails(j) PROVE KeptOK'
  BY <1>17 DEF SyncFails
<1>18. ASSUME NEW j \in Jobs, Committed(j) PROVE KeptOK'
  BY <1>18 DEF Committed
<1>19. ASSUME NEW j \in Jobs, PutBack(j) PROVE KeptOK'
  BY <1>19 DEF PutBack
<1>20. ASSUME NEW j \in Jobs, PutBackFails(j) PROVE KeptOK'
  BY <1>20 DEF PutBackFails
<1>21. ASSUME NEW j \in Jobs, RolledBack(j) PROVE KeptOK'
  BY <1>21 DEF RolledBack
<1>22. ASSUME NEW j \in Jobs, Cleanup(j) PROVE KeptOK'
  BY <1>22 DEF Cleanup, Outcomes
<1>23. ASSUME NEW j \in Jobs, CleanupFails(j) PROVE KeptOK'
  BY <1>23 DEF CleanupFails, Outcomes
<1>24. ASSUME NEW j \in Jobs, Finish(j) PROVE KeptOK'
  BY <1>24 DEF Finish
<1>25. ASSUME NEW j \in Jobs, Cancel(j) PROVE KeptOK'
  BY <1>25 DEF Cancel
<1>26. CASE Crash
  BY <1>26 DEF Crash
<1>27. ASSUME NEW f \in Files, ForeignEdit(f) PROVE KeptOK'
  BY <1>27 DEF ForeignEdit
<1>28. CASE Ended
  BY <1>28, <1>0 DEF Ended
<1> QED
  BY <1>0, <1>1, <1>2, <1>3, <1>4, <1>5, <1>6, <1>7, <1>8, <1>9, <1>10, <1>11, <1>12, <1>13,
     <1>14, <1>15, <1>16, <1>17, <1>18, <1>19, <1>20, <1>21, <1>22, <1>23, <1>24, <1>25, <1>26,
     <1>27, <1>28 DEF Next, Workload

LEMMA CleanStep ==
  TypeOK /\ LockOK /\ ExpectedOK /\ EarlyOK /\ CommitOK /\ CleanOK /\ [Next]_vars =>
    CleanOK'
<1> SUFFICES ASSUME TypeOK, LockOK, ExpectedOK, EarlyOK, CommitOK, CleanOK, [Next]_vars
             PROVE  CleanOK' OBVIOUS
<1>0. CASE UNCHANGED vars
  BY <1>0 DEF CleanOK, Present, vars, private, bounds
<1>a. \A k \in Jobs : Present(k)' => Present(k) \/ k \in lock
  BY PresentStep
<1> USE <1>a DEF CleanOK, TypeOK, LockOK, ExpectedOK, EarlyOK, Early, Permitted, private,
        bounds, Goto, Step, Put, With, Spared, Fault, Report, SetJob, Ends
<1>1. ASSUME NEW j \in Jobs, Preflight(j) PROVE CleanOK'
  BY <1>1 DEF Preflight
<1>2. ASSUME NEW j \in Jobs, Refuse(j) PROVE CleanOK'
  BY <1>2 DEF Refuse
<1>3. ASSUME NEW j \in Jobs, StopAtOnce(j) PROVE CleanOK'
  BY <1>3 DEF StopAtOnce
<1>4. ASSUME NEW j \in Jobs, Stage(j) PROVE CleanOK'
  BY <1>4 DEF Stage
<1>5. ASSUME NEW j \in Jobs, Render(j) PROVE CleanOK'
  BY <1>5 DEF Render
<1>6. ASSUME NEW j \in Jobs, Copy(j) PROVE CleanOK'
  BY <1>6 DEF Copy
<1>7. ASSUME NEW j \in Jobs, CopyRefused(j) PROVE CleanOK'
  BY <1>7 DEF CopyRefused
<1>8. ASSUME NEW j \in Jobs, PrepareFails(j) PROVE CleanOK'
  BY <1>8 DEF PrepareFails
<1>9. ASSUME NEW j \in Jobs, StopBeforeCommit(j) PROVE CleanOK'
  BY <1>9 DEF StopBeforeCommit
<1>10. ASSUME NEW j \in Jobs, CommitRefused(j) PROVE CleanOK'
  BY <1>10 DEF CommitRefused
<1>11. ASSUME NEW j \in Jobs, Commit(j) PROVE CleanOK'
  BY <1>11 DEF Commit
<1>12. ASSUME NEW j \in Jobs, Backup(j) PROVE CleanOK'
  BY <1>12 DEF Backup
<1>13. ASSUME NEW j \in Jobs, BackupFails(j) PROVE CleanOK'
  BY <1>13 DEF BackupFails
<1>14. ASSUME NEW j \in Jobs, BackedUp(j) PROVE CleanOK'
  BY <1>14 DEF BackedUp
<1>15. ASSUME NEW j \in Jobs, Replace(j) PROVE CleanOK'
  BY <1>15 DEF Replace
<1>16. ASSUME NEW j \in Jobs, ReplaceFails(j) PROVE CleanOK'
  BY <1>16 DEF ReplaceFails
<1>17. ASSUME NEW j \in Jobs, SyncFails(j) PROVE CleanOK'
  BY <1>17 DEF SyncFails
<1>18. ASSUME NEW j \in Jobs, Committed(j) PROVE CleanOK'
  BY <1>18 DEF Committed
<1>19. ASSUME NEW j \in Jobs, PutBack(j) PROVE CleanOK'
  BY <1>19 DEF PutBack
<1>20. ASSUME NEW j \in Jobs, PutBackFails(j) PROVE CleanOK'
  BY <1>20 DEF PutBackFails
<1>21. ASSUME NEW j \in Jobs, RolledBack(j) PROVE CleanOK'
  <2>1. result'[j] = "failed" => backups'[j] = {} /\ ~failures[j]
    BY <1>21 DEF RolledBack, RollbackResult
  <2>2. result'[j] # "cancelled" /\ lock' = {} /\ files' = files /\ j \in lock /\ todo[j] = {}
    BY <1>21 DEF RolledBack, RollbackResult
  <2>3. \E v \in expected[j] : TRUE
    BY <1>21 DEF RolledBack
  <2>4. ~failures[j] => \A f \in Files : files[f] # j
    BY <1>21, <2>2, <2>3 DEF RolledBack, CommitOK, CommitOf
  <2>5. ~failures[j] => ~Present(j)'
    BY <2>2, <2>4 DEF Present
  <2>6. \A k \in Jobs : k # j => result'[k] = result[k] /\ backups'[k] = backups[k] /\ k \notin lock
    BY <1>21 DEF RolledBack
  <2>7. job' = [job EXCEPT ![j] = "failed"] /\ stage' = stage
    BY <1>21 DEF RolledBack
  <2> QED
    BY <2>1, <2>2, <2>5, <2>6, <2>7
<1>22. ASSUME NEW j \in Jobs, Cleanup(j) PROVE CleanOK'
  BY <1>22 DEF Cleanup
<1>23. ASSUME NEW j \in Jobs, CleanupFails(j) PROVE CleanOK'
  BY <1>23 DEF CleanupFails
<1>24. ASSUME NEW j \in Jobs, Finish(j) PROVE CleanOK'
  <2>1. job'[j] \in {"completed", "cancelled"} => j \notin stage
    <3>1. j \in stage => Verdict(j) = "failed"
      BY DEF Verdict, Unclean
    <3> QED
      BY <1>24, <3>1 DEF Finish
  <2>2. \A k \in Jobs : k # j => job'[k] = job[k]
    BY <1>24 DEF Finish
  <2> QED
    BY <1>24, <2>1, <2>2 DEF Finish
<1>25. ASSUME NEW j \in Jobs, Cancel(j) PROVE CleanOK'
  BY <1>25 DEF Cancel
<1>26. CASE Crash
  BY <1>26 DEF Crash
<1>27. ASSUME NEW f \in Files, ForeignEdit(f) PROVE CleanOK'
  BY <1>27 DEF ForeignEdit
<1>28. CASE Ended
  BY <1>28, <1>0 DEF Ended
<1> QED
  BY <1>0, <1>1, <1>2, <1>3, <1>4, <1>5, <1>6, <1>7, <1>8, <1>9, <1>10, <1>11, <1>12, <1>13,
     <1>14, <1>15, <1>16, <1>17, <1>18, <1>19, <1>20, <1>21, <1>22, <1>23, <1>24, <1>25, <1>26,
     <1>27, <1>28 DEF Next, Workload

LEMMA Untouched ==
  ASSUME CommitOK, UNCHANGED <<files, lock, late, expected>>,
         \A k \in lock : pc'[k] = pc[k] /\ todo'[k] = todo[k] /\ failures'[k] = failures[k]
  PROVE  CommitOK'
BY DEF CommitOK, CommitOf

LEMMA CommitStep ==
  TypeOK /\ LockOK /\ ExpectedOK /\ CommitOK /\ EarlyOK /\ [Next]_vars => CommitOK'
<1> SUFFICES ASSUME TypeOK, LockOK, ExpectedOK, CommitOK, EarlyOK, [Next]_vars
             PROVE  CommitOK' OBVIOUS
<1>0. CASE UNCHANGED vars
  BY <1>0 DEF CommitOK, CommitOf, vars, private, bounds
<1> USE DEF CommitOK, TypeOK, LockOK, ExpectedOK, Permitted, private, bounds, Goto, Step, Put,
        With, Spared, Fault, Report, SetJob, Ends
<1>1. ASSUME NEW j \in Jobs, Preflight(j) PROVE CommitOK'
  BY <1>1 DEF Preflight, CommitOf
<1>2. ASSUME NEW j \in Jobs, Refuse(j) PROVE CommitOK'
  <2>1. \A k \in lock : pc'[k] = pc[k] /\ todo'[k] = todo[k] /\ failures'[k] = failures[k]
    BY <1>2 DEF Refuse
  <2> QED
    BY <1>2, <2>1, Untouched DEF Refuse
<1>3. ASSUME NEW j \in Jobs, StopAtOnce(j) PROVE CommitOK'
  <2>1. \A k \in lock : pc'[k] = pc[k] /\ todo'[k] = todo[k] /\ failures'[k] = failures[k]
    BY <1>3 DEF StopAtOnce
  <2> QED
    BY <1>3, <2>1, Untouched DEF StopAtOnce
<1>4. ASSUME NEW j \in Jobs, Stage(j) PROVE CommitOK'
  <2>1. \A k \in lock : pc'[k] = pc[k] /\ todo'[k] = todo[k] /\ failures'[k] = failures[k]
    BY <1>4 DEF Stage
  <2> QED
    BY <1>4, <2>1, Untouched DEF Stage
<1>5. ASSUME NEW j \in Jobs, Render(j) PROVE CommitOK'
  <2>1. \A k \in lock : pc'[k] = pc[k] /\ todo'[k] = todo[k] /\ failures'[k] = failures[k]
    BY <1>5 DEF Render
  <2> QED
    BY <1>5, <2>1, Untouched DEF Render
<1>6. ASSUME NEW j \in Jobs, Copy(j) PROVE CommitOK'
  <2>1. \A k \in lock : pc'[k] = pc[k] /\ todo'[k] = todo[k] /\ failures'[k] = failures[k]
    BY <1>6 DEF Copy
  <2> QED
    BY <1>6, <2>1, Untouched DEF Copy
<1>7. ASSUME NEW j \in Jobs, CopyRefused(j) PROVE CommitOK'
  <2>1. \A k \in lock : pc'[k] = pc[k] /\ todo'[k] = todo[k] /\ failures'[k] = failures[k]
    BY <1>7 DEF CopyRefused
  <2> QED
    BY <1>7, <2>1, Untouched DEF CopyRefused
<1>8. ASSUME NEW j \in Jobs, PrepareFails(j) PROVE CommitOK'
  <2>1. \A k \in lock : pc'[k] = pc[k] /\ todo'[k] = todo[k] /\ failures'[k] = failures[k]
    BY <1>8 DEF PrepareFails
  <2> QED
    BY <1>8, <2>1, Untouched DEF PrepareFails
<1>9. ASSUME NEW j \in Jobs, StopBeforeCommit(j) PROVE CommitOK'
  <2>1. \A k \in lock : pc'[k] = pc[k] /\ todo'[k] = todo[k] /\ failures'[k] = failures[k]
    BY <1>9 DEF StopBeforeCommit
  <2> QED
    BY <1>9, <2>1, Untouched DEF StopBeforeCommit
<1>10. ASSUME NEW j \in Jobs, CommitRefused(j) PROVE CommitOK'
  <2>1. \A k \in lock : pc'[k] = pc[k] /\ todo'[k] = todo[k] /\ failures'[k] = failures[k]
    BY <1>10 DEF CommitRefused
  <2> QED
    BY <1>10, <2>1, Untouched DEF CommitRefused
<1>11. ASSUME NEW j \in Jobs, Commit(j) PROVE CommitOK'
  <2>1. lock' = {j} /\ files' = files /\ expected' = expected /\ pc'[j] = "backup"
    BY <1>11 DEF Commit
  <2>2. files \in expected[j] /\ \A f \in Files : files[f] # j
    BY <1>11 DEF Commit, CommitAllowed, Unchanged, EarlyOK, Early, Present
  <2>3. \A v \in expected[j] : v = files
    BY <2>2
  <2> QED
    BY <2>1, <2>2, <2>3 DEF CommitOf
<1>12. ASSUME NEW j \in Jobs, Backup(j) PROVE CommitOK'
  <2>1. j \in lock /\ \A k \in lock' : k = j
    BY <1>12 DEF Backup
  <2>2. CommitOf(j)'
    BY <1>12, <2>1 DEF Backup, CommitOf
  <2> QED
    BY <2>1, <2>2
<1>13. ASSUME NEW j \in Jobs, BackupFails(j) PROVE CommitOK'
  <2>1. j \in lock /\ \A k \in lock' : k = j
    BY <1>13 DEF BackupFails
  <2>2. CommitOf(j)'
    BY <1>13, <2>1 DEF BackupFails, CommitOf
  <2> QED
    BY <2>1, <2>2
<1>14. ASSUME NEW j \in Jobs, BackedUp(j) PROVE CommitOK'
  <2>1. j \in lock /\ \A k \in lock' : k = j
    BY <1>14 DEF BackedUp
  <2>2. CommitOf(j)'
    BY <1>14, <2>1 DEF BackedUp, CommitOf
  <2> QED
    BY <2>1, <2>2
<1>15. ASSUME NEW j \in Jobs, Replace(j) PROVE CommitOK'
  <2>1. j \in lock /\ \A k \in lock' : k = j
    BY <1>15 DEF Replace
  <2>2. CommitOf(j)'
    <3>1. PICK f \in Files : FirstLeft(j, f) /\ Put(f, j) /\ todo' = [todo EXCEPT ![j] = todo[j] \ {f}]
      BY <1>15 DEF Replace
    <3>2. files'[f] = j /\ \A g \in Files : g # f => files'[g] = files[g]
      BY <3>1 DEF Version
    <3>3. todo'[j] = todo[j] \ {f} /\ f \in todo[j] /\ \A g \in Files : g \in todo'[j] => g > f
      BY <3>1, FilesNat DEF FirstLeft
    <3>4. pc[j] = "replace" /\ pc' = pc /\ late' = late /\ expected' = expected
      BY <1>15 DEF Replace
    <3> QED
      BY <2>1, <3>2, <3>3, <3>4, FilesNat DEF CommitOf
  <2> QED
    BY <2>1, <2>2
<1>16. ASSUME NEW j \in Jobs, ReplaceFails(j) PROVE CommitOK'
  <2>1. j \in lock /\ \A k \in lock' : k = j
    BY <1>16 DEF ReplaceFails
  <2>2. CommitOf(j)'
    <3>1. PICK f \in Files : /\ FirstLeft(j, f) /\ (UNCHANGED files \/ Put(f, j))
                             /\ todo' = [todo EXCEPT ![j] = Attempted(j, f)]
      BY <1>16 DEF ReplaceFails
    <3>2. files'[f] \in {files[f], j} /\ \A g \in Files : g # f => files'[g] = files[g]
      BY <3>1 DEF Version
    <3>3. f \in todo[j] /\ \A g \in Files : g \in todo'[j] <=> g <= f
      BY <3>1 DEF FirstLeft, Attempted
    <3>4. \A g \in Files : g <= f => g = f \/ g \notin todo[j]
      BY <3>1, FilesNat DEF FirstLeft
    <3>5. pc[j] = "replace" /\ pc'[j] = "rollback" /\ late' = late /\ expected' = expected
      BY <1>16 DEF ReplaceFails
    <3>6. ASSUME NEW v \in expected[j], NEW g \in Files, g <= f PROVE g \in late \/ files'[g] \in {j, v[g]}
      BY <2>1, <3>2, <3>3, <3>4, <3>5, <3>6 DEF CommitOf
    <3>7. ASSUME NEW v \in expected[j], NEW g \in Files, ~(g <= f)
          PROVE  files'[g] # j /\ (g \in late \/ files'[g] = v[g])
      BY <2>1, <3>2, <3>3, <3>5, <3>7, FilesNat DEF CommitOf
    <3> QED
      BY <3>3, <3>5, <3>6, <3>7 DEF CommitOf
  <2> QED
    BY <2>1, <2>2
<1>17. ASSUME NEW j \in Jobs, SyncFails(j) PROVE CommitOK'
  <2>1. j \in lock /\ \A k \in lock' : k = j
    BY <1>17 DEF SyncFails
  <2>2. CommitOf(j)'
    BY <1>17, <2>1 DEF SyncFails, CommitOf
  <2> QED
    BY <2>1, <2>2
<1>18. ASSUME NEW j \in Jobs, Committed(j) PROVE CommitOK'
  BY <1>18 DEF Committed, CommitOf
<1>19. ASSUME NEW j \in Jobs, PutBack(j) PROVE CommitOK'
  <2>1. j \in lock /\ \A k \in lock' : k = j
    BY <1>19 DEF PutBack
  <2>2. CommitOf(j)'
    <3>1. PICK f \in Files, v \in expected[j] :
            /\ todo' = [todo EXCEPT ![j] = todo[j] \ {f}]
            /\ Put(f, v[f])
      BY <1>19 DEF PutBack, LastLeft
    <3>2. pc[j] = "rollback" /\ pc' = pc /\ late' = late /\ expected' = expected /\ failures' = failures
      BY <1>19 DEF PutBack
    <3>3. \A w \in expected[j] : w = v /\ v[f] # j
      OBVIOUS
    <3>4. todo'[j] = todo[j] \ {f} /\ \A g \in Files : g # f => files'[g] = files[g]
      BY <3>1 DEF Version
    <3>5. files'[f] = v[f]
      BY <3>1, <3>2 DEF Version
    <3> QED
      BY <2>1, <3>2, <3>3, <3>4, <3>5 DEF CommitOf
  <2> QED
    BY <2>1, <2>2
<1>20. ASSUME NEW j \in Jobs, PutBackFails(j) PROVE CommitOK'
  <2>1. j \in lock /\ \A k \in lock' : k = j
    BY <1>20 DEF PutBackFails
  <2>2. CommitOf(j)'
    <3>1. PICK f \in Files, v \in expected[j] :
            /\ todo' = [todo EXCEPT ![j] = todo[j] \ {f}]
            /\ (UNCHANGED files \/ Put(f, v[f]))
      BY <1>20 DEF PutBackFails, LastLeft
    <3>2. pc[j] = "rollback" /\ pc' = pc /\ late' = late /\ expected' = expected /\ failures'[j]
      BY <1>20 DEF PutBackFails, Noted
    <3>3. \A w \in expected[j] : w = v /\ v[f] # j
      OBVIOUS
    <3>4. todo'[j] = todo[j] \ {f} /\ \A g \in Files : g # f => files'[g] = files[g]
      BY <3>1 DEF Version
    <3>5. files'[f] = v[f] \/ failures'[j]
      BY <3>1, <3>2 DEF Version
    <3> QED
      BY <2>1, <3>2, <3>3, <3>4, <3>5 DEF CommitOf
  <2> QED
    BY <2>1, <2>2
<1>21. ASSUME NEW j \in Jobs, RolledBack(j) PROVE CommitOK'
  BY <1>21 DEF RolledBack, CommitOf
<1>22. ASSUME NEW j \in Jobs, Cleanup(j) PROVE CommitOK'
  <2>1. \A k \in lock : pc'[k] = pc[k] /\ todo'[k] = todo[k] /\ failures'[k] = failures[k]
    BY <1>22 DEF Cleanup
  <2> QED
    BY <1>22, <2>1, Untouched DEF Cleanup
<1>23. ASSUME NEW j \in Jobs, CleanupFails(j) PROVE CommitOK'
  <2>1. \A k \in lock : pc'[k] = pc[k] /\ todo'[k] = todo[k] /\ failures'[k] = failures[k]
    BY <1>23 DEF CleanupFails
  <2> QED
    BY <1>23, <2>1, Untouched DEF CleanupFails
<1>24. ASSUME NEW j \in Jobs, Finish(j) PROVE CommitOK'
  <2>1. \A k \in lock : pc'[k] = pc[k] /\ todo'[k] = todo[k] /\ failures'[k] = failures[k]
    BY <1>24 DEF Finish
  <2> QED
    BY <1>24, <2>1, Untouched DEF Finish
<1>25. ASSUME NEW j \in Jobs, Cancel(j) PROVE CommitOK'
  <2>1. \A k \in lock : pc'[k] = pc[k] /\ todo'[k] = todo[k] /\ failures'[k] = failures[k]
    BY <1>25 DEF Cancel
  <2> QED
    BY <1>25, <2>1, Untouched DEF Cancel
<1>26. CASE Crash
  BY <1>26 DEF Crash, CommitOf
<1>27. ASSUME NEW f \in Files, ForeignEdit(f) PROVE CommitOK'
  BY <1>27, ContentAssumption DEF ForeignEdit, CommitOf, Version
<1>28. CASE Ended
  BY <1>28, <1>0 DEF Ended
<1> QED
  BY <1>0, <1>1, <1>2, <1>3, <1>4, <1>5, <1>6, <1>7, <1>8, <1>9, <1>10, <1>11, <1>12, <1>13,
     <1>14, <1>15, <1>16, <1>17, <1>18, <1>19, <1>20, <1>21, <1>22, <1>23, <1>24, <1>25, <1>26,
     <1>27, <1>28 DEF Next, Workload

LEMMA InitInv == Init => IInv
<1> SUFFICES ASSUME Init PROVE IInv OBVIOUS
<1>1. TypeOK
  BY TypeInit
<1>2. \A j \in Jobs : ~Present(j)
  BY ContentAssumption DEF Init, Present
<1> QED
  BY <1>1, <1>2 DEF Init, IInv, LockOK, ExpectedOK, CopiesOK, EarlyOK, CommitOK, KeptOK,
     CleanOK,
                    Early, Permitted

LEMMA InvStep == IInv /\ [Next]_vars => IInv'
BY TypeStep, LockStep, ExpectedStep, CopiesStep, EarlyStep, CommitStep, KeptStep, CleanStep DEF
   IInv

LEMMA Invariance == Spec => []IInv
BY InitInv, InvStep, PTL DEF Spec

OutcomeStep ==
  lock # {} /\ lock' = {} /\ crashes' = crashes =>
    \A j \in lock : \A v \in expected[j] : \A f \in Files \ late :
      /\ result'[j] = "completed" => files[f] = j
      /\ result'[j] = "failed" => files[f] = v[f]

LEMMA OutcomeEffect ==
  TypeOK /\ LockOK /\ ExpectedOK /\ CommitOK /\ [Next]_vars => OutcomeStep
<1> SUFFICES ASSUME TypeOK, LockOK, ExpectedOK, CommitOK, [Next]_vars PROVE OutcomeStep OBVIOUS
<1>0. CASE UNCHANGED vars
  BY <1>0 DEF OutcomeStep, vars, private, bounds
<1> USE DEF OutcomeStep, TypeOK, LockOK, ExpectedOK, Permitted, private, bounds, Goto, Step,
        Put, With, Spared, Fault, Report, SetJob, Ends
<1>1. ASSUME NEW j \in Jobs, Preflight(j) PROVE OutcomeStep
  BY <1>1 DEF Preflight
<1>2. ASSUME NEW j \in Jobs, Refuse(j) PROVE OutcomeStep
  BY <1>2 DEF Refuse
<1>3. ASSUME NEW j \in Jobs, StopAtOnce(j) PROVE OutcomeStep
  BY <1>3 DEF StopAtOnce
<1>4. ASSUME NEW j \in Jobs, Stage(j) PROVE OutcomeStep
  BY <1>4 DEF Stage
<1>5. ASSUME NEW j \in Jobs, Render(j) PROVE OutcomeStep
  BY <1>5 DEF Render
<1>6. ASSUME NEW j \in Jobs, Copy(j) PROVE OutcomeStep
  BY <1>6 DEF Copy
<1>7. ASSUME NEW j \in Jobs, CopyRefused(j) PROVE OutcomeStep
  BY <1>7 DEF CopyRefused
<1>8. ASSUME NEW j \in Jobs, PrepareFails(j) PROVE OutcomeStep
  BY <1>8 DEF PrepareFails
<1>9. ASSUME NEW j \in Jobs, StopBeforeCommit(j) PROVE OutcomeStep
  BY <1>9 DEF StopBeforeCommit
<1>10. ASSUME NEW j \in Jobs, CommitRefused(j) PROVE OutcomeStep
  BY <1>10 DEF CommitRefused
<1>11. ASSUME NEW j \in Jobs, Commit(j) PROVE OutcomeStep
  BY <1>11 DEF Commit
<1>12. ASSUME NEW j \in Jobs, Backup(j) PROVE OutcomeStep
  BY <1>12 DEF Backup
<1>13. ASSUME NEW j \in Jobs, BackupFails(j) PROVE OutcomeStep
  BY <1>13 DEF BackupFails
<1>14. ASSUME NEW j \in Jobs, BackedUp(j) PROVE OutcomeStep
  BY <1>14 DEF BackedUp
<1>15. ASSUME NEW j \in Jobs, Replace(j) PROVE OutcomeStep
  BY <1>15 DEF Replace
<1>16. ASSUME NEW j \in Jobs, ReplaceFails(j) PROVE OutcomeStep
  BY <1>16 DEF ReplaceFails
<1>17. ASSUME NEW j \in Jobs, SyncFails(j) PROVE OutcomeStep
  BY <1>17 DEF SyncFails
<1>18. ASSUME NEW j \in Jobs, Committed(j) PROVE OutcomeStep
  <2>1. j \in lock /\ (\A k \in lock : k = j) /\ result'[j] = "completed"
    BY <1>18 DEF Committed, Outcomes
  <2>2. \A f \in Files \ late : files[f] = j \/ expected[j] = {}
    BY <1>18, <2>1 DEF Committed, CommitOK, CommitOf
  <2> QED
    BY <2>1, <2>2
<1>19. ASSUME NEW j \in Jobs, PutBack(j) PROVE OutcomeStep
  BY <1>19 DEF PutBack
<1>20. ASSUME NEW j \in Jobs, PutBackFails(j) PROVE OutcomeStep
  BY <1>20 DEF PutBackFails
<1>21. ASSUME NEW j \in Jobs, RolledBack(j) PROVE OutcomeStep
  <2>1. j \in lock /\ (\A k \in lock : k = j) /\ result'[j] # "completed"
    BY <1>21 DEF RolledBack, RollbackResult, Outcomes
  <2>2. result'[j] = "failed" => ~failures[j]
    BY <1>21 DEF RolledBack, RollbackResult, Outcomes
  <2>3. ~failures[j] => \A v \in expected[j], f \in Files \ late : files[f] = v[f]
    BY <1>21, <2>1 DEF RolledBack, CommitOK, CommitOf
  <2> QED
    BY <2>1, <2>2, <2>3
<1>22. ASSUME NEW j \in Jobs, Cleanup(j) PROVE OutcomeStep
  BY <1>22 DEF Cleanup
<1>23. ASSUME NEW j \in Jobs, CleanupFails(j) PROVE OutcomeStep
  BY <1>23 DEF CleanupFails
<1>24. ASSUME NEW j \in Jobs, Finish(j) PROVE OutcomeStep
  BY <1>24 DEF Finish
<1>25. ASSUME NEW j \in Jobs, Cancel(j) PROVE OutcomeStep
  BY <1>25 DEF Cancel
<1>26. CASE Crash
  BY <1>26 DEF Crash
<1>27. ASSUME NEW f \in Files, ForeignEdit(f) PROVE OutcomeStep
  BY <1>27 DEF ForeignEdit
<1>28. CASE Ended
  BY <1>28, <1>0 DEF Ended
<1> QED
  BY <1>0, <1>1, <1>2, <1>3, <1>4, <1>5, <1>6, <1>7, <1>8, <1>9, <1>10, <1>11, <1>12, <1>13,
     <1>14, <1>15, <1>16, <1>17, <1>18, <1>19, <1>20, <1>21, <1>22, <1>23, <1>24, <1>25, <1>26,
     <1>27, <1>28 DEF Next, Workload

ForeignStep ==
  \A f \in Files : files'[f] # files[f] =>
    \/ edits' # edits
    \/ \E j \in lock : f \in late \/ files[f] = j \/ \E v \in expected[j] : files[f] = v[f]

LEMMA ForeignEffect ==
  TypeOK /\ LockOK /\ ExpectedOK /\ CommitOK /\ [Next]_vars => ForeignStep
<1> SUFFICES ASSUME TypeOK, LockOK, ExpectedOK, CommitOK, [Next]_vars PROVE ForeignStep OBVIOUS
<1>0. CASE UNCHANGED vars
  BY <1>0 DEF ForeignStep, vars, private, bounds
<1> USE DEF ForeignStep, TypeOK, LockOK, ExpectedOK, Version, Permitted, private, bounds, Goto,
        Step, Put, With, Spared, Fault, Report, SetJob, Ends
<1>1. ASSUME NEW j \in Jobs, Preflight(j) PROVE ForeignStep
  BY <1>1 DEF Preflight
<1>2. ASSUME NEW j \in Jobs, Refuse(j) PROVE ForeignStep
  BY <1>2 DEF Refuse
<1>3. ASSUME NEW j \in Jobs, StopAtOnce(j) PROVE ForeignStep
  BY <1>3 DEF StopAtOnce
<1>4. ASSUME NEW j \in Jobs, Stage(j) PROVE ForeignStep
  BY <1>4 DEF Stage
<1>5. ASSUME NEW j \in Jobs, Render(j) PROVE ForeignStep
  BY <1>5 DEF Render
<1>6. ASSUME NEW j \in Jobs, Copy(j) PROVE ForeignStep
  BY <1>6 DEF Copy
<1>7. ASSUME NEW j \in Jobs, CopyRefused(j) PROVE ForeignStep
  BY <1>7 DEF CopyRefused
<1>8. ASSUME NEW j \in Jobs, PrepareFails(j) PROVE ForeignStep
  BY <1>8 DEF PrepareFails
<1>9. ASSUME NEW j \in Jobs, StopBeforeCommit(j) PROVE ForeignStep
  BY <1>9 DEF StopBeforeCommit
<1>10. ASSUME NEW j \in Jobs, CommitRefused(j) PROVE ForeignStep
  BY <1>10 DEF CommitRefused
<1>11. ASSUME NEW j \in Jobs, Commit(j) PROVE ForeignStep
  BY <1>11 DEF Commit
<1>12. ASSUME NEW j \in Jobs, Backup(j) PROVE ForeignStep
  BY <1>12 DEF Backup
<1>13. ASSUME NEW j \in Jobs, BackupFails(j) PROVE ForeignStep
  BY <1>13 DEF BackupFails
<1>14. ASSUME NEW j \in Jobs, BackedUp(j) PROVE ForeignStep
  BY <1>14 DEF BackedUp
<1>15. ASSUME NEW j \in Jobs, Replace(j) PROVE ForeignStep
  <2>1. j \in lock /\ pc[j] \in {"replace", "rollback"} /\ expected[j] # {}
    BY <1>15 DEF Replace
  <2>2. \A f \in Files : files'[f] # files[f] => f \in todo[j]
    BY <1>15 DEF Replace, FirstLeft
  <2>3. \A f \in todo[j], v \in expected[j] : f \in late \/ files[f] = j \/ files[f] = v[f]
    BY <2>1 DEF CommitOK, CommitOf
  <2> QED
    BY <2>1, <2>2, <2>3
<1>16. ASSUME NEW j \in Jobs, ReplaceFails(j) PROVE ForeignStep
  <2>1. j \in lock /\ pc[j] \in {"replace", "rollback"} /\ expected[j] # {}
    BY <1>16 DEF ReplaceFails
  <2>2. \A f \in Files : files'[f] # files[f] => f \in todo[j]
    BY <1>16 DEF ReplaceFails, FirstLeft
  <2>3. \A f \in todo[j], v \in expected[j] : f \in late \/ files[f] = j \/ files[f] = v[f]
    BY <2>1 DEF CommitOK, CommitOf
  <2> QED
    BY <2>1, <2>2, <2>3
<1>17. ASSUME NEW j \in Jobs, SyncFails(j) PROVE ForeignStep
  BY <1>17 DEF SyncFails
<1>18. ASSUME NEW j \in Jobs, Committed(j) PROVE ForeignStep
  BY <1>18 DEF Committed
<1>19. ASSUME NEW j \in Jobs, PutBack(j) PROVE ForeignStep
  <2>1. j \in lock /\ pc[j] \in {"replace", "rollback"} /\ expected[j] # {}
    BY <1>19 DEF PutBack
  <2>2. \A f \in Files : files'[f] # files[f] => f \in todo[j]
    BY <1>19 DEF PutBack, LastLeft
  <2>3. \A f \in todo[j], v \in expected[j] : f \in late \/ files[f] = j \/ files[f] = v[f]
    BY <2>1 DEF CommitOK, CommitOf
  <2> QED
    BY <2>1, <2>2, <2>3
<1>20. ASSUME NEW j \in Jobs, PutBackFails(j) PROVE ForeignStep
  <2>1. j \in lock /\ pc[j] \in {"replace", "rollback"} /\ expected[j] # {}
    BY <1>20 DEF PutBackFails
  <2>2. \A f \in Files : files'[f] # files[f] => f \in todo[j]
    BY <1>20 DEF PutBackFails, LastLeft
  <2>3. \A f \in todo[j], v \in expected[j] : f \in late \/ files[f] = j \/ files[f] = v[f]
    BY <2>1 DEF CommitOK, CommitOf
  <2> QED
    BY <2>1, <2>2, <2>3
<1>21. ASSUME NEW j \in Jobs, RolledBack(j) PROVE ForeignStep
  BY <1>21 DEF RolledBack
<1>22. ASSUME NEW j \in Jobs, Cleanup(j) PROVE ForeignStep
  BY <1>22 DEF Cleanup
<1>23. ASSUME NEW j \in Jobs, CleanupFails(j) PROVE ForeignStep
  BY <1>23 DEF CleanupFails
<1>24. ASSUME NEW j \in Jobs, Finish(j) PROVE ForeignStep
  BY <1>24 DEF Finish
<1>25. ASSUME NEW j \in Jobs, Cancel(j) PROVE ForeignStep
  BY <1>25 DEF Cancel
<1>26. CASE Crash
  BY <1>26 DEF Crash
<1>27. ASSUME NEW f \in Files, ForeignEdit(f) PROVE ForeignStep
  BY <1>27 DEF ForeignEdit
<1>28. CASE Ended
  BY <1>28, <1>0 DEF Ended
<1> QED
  BY <1>0, <1>1, <1>2, <1>3, <1>4, <1>5, <1>6, <1>7, <1>8, <1>9, <1>10, <1>11, <1>12, <1>13,
     <1>14, <1>15, <1>16, <1>17, <1>18, <1>19, <1>20, <1>21, <1>22, <1>23, <1>24, <1>25, <1>26,
     <1>27, <1>28 DEF Next, Workload

\* Whatever the jobs do and whatever fails, every variable keeps its type.
THEOREM TypeCorrect == Spec => []TypeOK
<1>1. IInv => TypeOK
  BY DEF IInv
<1> QED
  BY <1>1, Invariance, PTL

\* For any number of jobs and targets and any failures and crashes, the copies of what
\* a job has replaced are there as long as its publication is incomplete.
THEOREM OldAlwaysKept == Spec => []OldIsKept
<1>1. IInv => OldIsKept
  BY DEF IInv, OldIsKept, KeptOK, EarlyOK, Present
<1> QED
  BY <1>1, Invariance, PTL

\* A plain failure or a cancellation leaves no output and no backup, and a job that does
\* not fail no staging directory.
THEOREM NothingEverLeftBehind == Spec => []NothingLeftBehind
<1>1. IInv => NothingLeftBehind
  BY DEF IInv, NothingLeftBehind, CleanOK, Present
<1> QED
  BY <1>1, Invariance, PTL

\* At the end of every commit the targets are what the result says.
THEOREM OutcomeAlwaysTrue == Spec => OutcomeIsTrue
<1>1. IInv /\ [Next]_vars => [OutcomeStep]_vars
  BY OutcomeEffect DEF IInv
<1> QED
  BY <1>1, Invariance, PTL DEF Spec, OutcomeIsTrue, OutcomeStep

\* A job replaces no content that neither its preflight has seen nor itself has written,
\* unless it came after the comparison that opens the commit.
THEOREM ForeignAlwaysKept == Spec => ForeignKept
<1>1. IInv /\ [Next]_vars => [ForeignStep]_vars
  BY ForeignEffect DEF IInv
<1> QED
  BY <1>1, Invariance, PTL DEF Spec, ForeignKept, ForeignStep
=============================================================================
