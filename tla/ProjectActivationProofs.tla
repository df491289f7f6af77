----------------------- MODULE ProjectActivationProofs -----------------------
(***************************************************************************)
(* ProjectActivation for any number of processes, contents, failures,      *)
(* crashes and edits: recovery is never refused by the program's own       *)
(* doing, foreign content is kept, one failure neither parts the baselines *)
(* from the working copy nor reports a failed switch that happens later,   *)
(* and the activation is atomic.                                           *)
(***************************************************************************)
EXTENDS ProjectActivationRefinement, TLAPS

Inside == {"recover", "rewrite", "records", "manifest", "publish", "marker", "cleanup", "except"}

\* The lock excludes, and what is kept inside it belongs to its holder.
LockOK ==
  /\ \A p \in Processes : p \in lock <=> pc[p] \in Inside
  /\ \A p, q \in lock : p = q
  /\ duty = "failed" => \E p \in lock : pc[p] \in {"recover", "rewrite"} /\ \A j \in journals : j.by = p
  /\ draft # {} => \E p \in lock : pc[p] = "manifest"

\* The journal a process may meet at each place.
PlaceOK ==
  /\ \A i, j \in journals : i = j
  /\ \A i, j \in draft : i = j
  /\ \A p \in lock :
       /\ pc[p] \in {"records", "manifest"} => journals = {}
       /\ pc[p] \in {"publish", "marker", "cleanup", "except"} => \A j \in journals : j.by = p
       /\ pc[p] \in {"publish", "marker"} => \A j \in journals : j.phase = "prepared"
       /\ pc[p] = "cleanup" => \A j \in journals : j.phase = "committed"
       /\ pc[p] = "manifest" => \A j \in draft : j.by = p /\ j.phase = "prepared"

\* What a commit publishes was prepared from what its journal replaces.
SeenOK ==
  \A p \in lock, d \in Guarded :
    /\ pc[p] = "manifest" => \A j \in draft : j.previous[d] = seen[p][d]
    /\ pc[p] \in {"publish", "marker"} => \A j \in journals : j.previous[d] = seen[p][d]

\* How far the holder of the lock has brought the documents.
At(j, d) ==
  \A p \in lock :
    /\ pc[p] = "publish" /\ d \notin todo => disk[d] = j.target[d]
    /\ pc[p] \in {"marker", "cleanup"} => disk[d] = j.target[d]
    /\ pc[p] = "rewrite" /\ d \notin todo => disk[d] = Restored(j, d)

DiskOK ==
  edits = 0 =>
    /\ \A j \in draft : j.previous = disk
    /\ \A j \in journals, d \in Docs : Known(j, d) /\ At(j, d)

\* After at most one failure the candidate's baselines are in memory only while its commit
\* is under way, and that failure is the one a commit is handling.
BaselinesOK ==
  /\ edits = 0 => \A p \in lock : pc[p] = "except" \/ duty = "failed" => faults >= 1
  /\ faults <= 1 /\ edits = 0 =>
       /\ captured = "active"
       /\ \A p \in Processes : registry[p] = "candidate" =>
            p \in lock /\ (pc[p] \in {"marker", "cleanup", "except"} \/ duty = "failed")

IInv == TypeOK /\ LockOK /\ PlaceOK /\ SeenOK /\ DiskOK /\ BaselinesOK

LEMMA DocsAre == Docs = {"project", "variant", "pointer"} /\ Guarded \subseteq Docs
BY DEF Docs, Position, Guarded

\* Only that the choice is one of the set matters; the order is of no consequence.
LEMMA FirstOf ==
  ASSUME NEW S \in SUBSET Docs, S # {}
  PROVE  First(S) \in S
<1>1. Position["project"] = 1 /\ Position["variant"] = 2 /\ Position["pointer"] = 3
  BY DEF Position
<1>2. \E d \in S : \A e \in S : Position[d] <= Position[e]
  <2>1. CASE "project" \in S
    BY <1>1, <2>1, DocsAre
  <2>2. CASE "project" \notin S /\ "variant" \in S
    BY <1>1, <2>2, DocsAre
  <2>3. CASE S = {"pointer"}
    BY <1>1, <2>3
  <2> QED
    BY <2>1, <2>2, <2>3, DocsAre
<1> QED
  BY <1>2 DEF First

LEMMA LastOf ==
  ASSUME NEW S \in SUBSET Docs, S # {}
  PROVE  Last(S) \in S
<1>1. Position["project"] = 1 /\ Position["variant"] = 2 /\ Position["pointer"] = 3
  BY DEF Position
<1>2. \E d \in S : \A e \in S : Position[e] <= Position[d]
  <2>1. CASE "pointer" \in S
    BY <1>1, <2>1, DocsAre
  <2>2. CASE "pointer" \notin S /\ "variant" \in S
    BY <1>1, <2>2, DocsAre
  <2>3. CASE S = {"project"}
    BY <1>1, <2>3
  <2> QED
    BY <2>1, <2>2, <2>3, DocsAre
<1> QED
  BY <1>2 DEF Last

LEMMA NextOf ==
  ASSUME NEW S \in SUBSET Docs, S # {}, NEW j
  PROVE  NextIn(j, S) \in S
BY FirstOf, LastOf DEF NextIn

-----------------------------------------------------------------------------
(* The invariant: one lemma per part, one step per action.                 *)

LEMMA TypeInit == Init => TypeOK
BY DocsAre DEF Init, TypeOK, Version, Targets, PC, Seen, Blank

\* How a commit ends keeps the types of what the process keeps in memory.
LEMMA EndTypes ==
  ASSUME TypeOK, NEW p \in Processes,
         \/ Succeeds(p) \/ FailsEarly(p) \/ \E phase : FailsAfter(p, phase)
         \/ \E j : RecoveryFails(p, j)
         \/ Release(p) /\ UNCHANGED <<registry, failed>>
  PROVE  /\ lock' \subseteq Processes /\ pc' \in [Processes -> PC] /\ seen' \in [Processes -> Seen]
         /\ duty' \in {"enter", "failed"} /\ todo' \subseteq Docs /\ draft' \subseteq Journal
         /\ registry' \in [Processes -> {"active", "candidate"}]
         /\ captured' \in {"active", "candidate"} /\ failed' \subseteq Processes
<1>1. Release(p) /\ failed' \in {failed, failed \cup {p}}
  BY DEF Succeeds, FailsEarly, FailsAfter, RecoveryFails
<1>2. Blank \in Seen
  BY DEF Blank, Seen
<1>3. registry' \in [Processes -> {"active", "candidate"}]
  BY DEF Succeeds, FailsEarly, FailsAfter, RecoveryFails, TypeOK
<1> QED
  BY <1>1, <1>2, <1>3 DEF TypeOK, Release, Leave, Return, Goto, PC

LEMMA TypeStep == TypeOK /\ [Next]_vars => TypeOK'
<1> SUFFICES ASSUME TypeOK, [Next]_vars PROVE TypeOK' OBVIOUS
<1>0. CASE UNCHANGED vars
  BY <1>0 DEF TypeOK, vars, bounds
<1> USE DEF TypeOK, bounds, held, local, Goto, Step, Put, Spared, Fault
<1>1. ASSUME NEW p \in Processes, Prepare(p) PROVE TypeOK'
  BY <1>1, DocsAre DEF Prepare, PC, Seen, Version
<1>2. ASSUME NEW p \in Processes, Enter(p) PROVE TypeOK'
  BY <1>2 DEF Enter, PC
<1>3. ASSUME NEW p \in Processes, Busy(p) PROVE TypeOK'
  BY <1>3 DEF Busy, PC, Return, Seen, Blank
<1>4. ASSUME NEW p \in Processes, NothingPending(p) PROVE TypeOK'
  BY <1>4 DEF NothingPending, PC
<1>5. ASSUME NEW p \in Processes, RecoverStart(p) PROVE TypeOK'
  BY <1>5 DEF RecoverStart, PC, Parts, Participants
<1>6. ASSUME NEW p \in Processes, Rewrite(p) PROVE TypeOK'
  <2>1. disk' \in Version
    BY <1>6, NextOf DEF Rewrite, Restored, Version, Journal, Targets
  <2> QED
    BY <1>6, <2>1 DEF Rewrite
<1>7. ASSUME NEW p \in Processes, RecoverRefused(p) PROVE TypeOK'
  BY <1>7, EndTypes DEF RecoverRefused
<1>8. ASSUME NEW p \in Processes, RecoverFails(p) PROVE TypeOK'
  <2>1. disk' \in Version
    BY <1>8, NextOf DEF RecoverFails, Restored, Version, Journal, Targets
  <2> QED
    BY <1>8, <2>1, EndTypes DEF RecoverFails
<1>9. ASSUME NEW p \in Processes, RecoverEnds(p) PROVE TypeOK'
  BY <1>9, EndTypes DEF RecoverEnds, PC
<1>10. ASSUME NEW p \in Processes, RecoverEndFails(p) PROVE TypeOK'
  BY <1>10, EndTypes DEF RecoverEndFails
<1>11. ASSUME NEW p \in Processes, Records(p) PROVE TypeOK'
  <2>1. ASSUME NEW new \in Targets PROVE Manifest(p, new) \in Journal
    BY DEF Manifest, Journal
  <2> QED
    BY <1>11, <2>1, EndTypes DEF Records, PC
<1>12. ASSUME NEW p \in Processes, Stale(p) PROVE TypeOK'
  BY <1>12, EndTypes DEF Stale
<1>13. ASSUME NEW p \in Processes, RecordsFail(p) PROVE TypeOK'
  BY <1>13, EndTypes DEF RecordsFail
<1>14. ASSUME NEW p \in Processes, WriteManifest(p) PROVE TypeOK'
  BY <1>14 DEF WriteManifest, PC, Parts, Participants
<1>15. ASSUME NEW p \in Processes, WriteManifestFails(p) PROVE TypeOK'
  BY <1>15 DEF WriteManifestFails, PC
<1>16. ASSUME NEW p \in Processes, Publish(p) PROVE TypeOK'
  <2>1. disk' \in Version
    BY <1>16, FirstOf DEF Publish, Own, Version, Journal, Targets
  <2> QED
    BY <1>16, <2>1 DEF Publish, PC
<1>17. ASSUME NEW p \in Processes, PublishFails(p) PROVE TypeOK'
  <2>1. disk' \in Version
    BY <1>17, FirstOf DEF PublishFails, Own, Version, Journal, Targets
  <2> QED
    BY <1>17, <2>1 DEF PublishFails, PC
<1>18. ASSUME NEW p \in Processes, PublishBaselines(p) PROVE TypeOK'
  BY <1>18 DEF PublishBaselines, PC
<1>19. ASSUME NEW p \in Processes, PublishBaselinesFails(p) PROVE TypeOK'
  BY <1>19 DEF PublishBaselinesFails, PC
<1>20. ASSUME NEW p \in Processes, WriteMarker(p) PROVE TypeOK'
  <2>1. \A j \in journals : [j EXCEPT !.phase = "committed"] \in Journal
    BY DEF Journal
  <2> QED
    BY <1>20, <2>1 DEF WriteMarker, Own, Marked, PC
<1>21. ASSUME NEW p \in Processes, WriteMarkerFails(p) PROVE TypeOK'
  <2>1. \A j \in journals : [j EXCEPT !.phase = "committed"] \in Journal
    BY DEF Journal
  <2> QED
    BY <1>21, <2>1 DEF WriteMarkerFails, Own, Marked, PC
<1>22. ASSUME NEW p \in Processes, Cleanup(p) PROVE TypeOK'
  BY <1>22, EndTypes DEF Cleanup
<1>23. ASSUME NEW p \in Processes, CleanupFails(p) PROVE TypeOK'
  BY <1>23, EndTypes DEF CleanupFails
<1>24. ASSUME NEW p \in Processes, Except(p) PROVE TypeOK'
  BY <1>24, EndTypes DEF Except, PC
<1>25. ASSUME NEW p \in Processes, ExceptFails(p) PROVE TypeOK'
  BY <1>25, EndTypes DEF ExceptFails
<1>26. ASSUME NEW p \in Processes, Crash(p) PROVE TypeOK'
  BY <1>26 DEF Crash, PC, Return, Leave, Seen, Blank
<1>27. ASSUME NEW d \in Docs, ForeignEdit(d) PROVE TypeOK'
  BY <1>27 DEF ForeignEdit, Version
<1> QED
  BY <1>0, <1>1, <1>2, <1>3, <1>4, <1>5, <1>6, <1>7, <1>8, <1>9, <1>10, <1>11, <1>12, <1>13,
     <1>14, <1>15, <1>16, <1>17, <1>18, <1>19, <1>20, <1>21, <1>22, <1>23, <1>24, <1>25, <1>26,
     <1>27 DEF Next, RecoveryStep, CommitStep

LEMMA LockStep == TypeOK /\ PlaceOK /\ LockOK /\ [Next]_vars => LockOK'
<1> SUFFICES ASSUME TypeOK, PlaceOK, LockOK, [Next]_vars PROVE LockOK' OBVIOUS
<1>0. CASE UNCHANGED vars
  BY <1>0 DEF LockOK, vars, bounds
<1> USE DEF LockOK, TypeOK, Inside, bounds, held, local, Goto, Step, Put, Spared, Fault, Leave,
        Return, Release, Succeeds, FailsEarly, FailsAfter, RecoveryFails
<1>1. ASSUME NEW p \in Processes, Prepare(p) PROVE LockOK'
  BY <1>1 DEF Prepare
<1>2. ASSUME NEW p \in Processes, Enter(p) PROVE LockOK'
  BY <1>2 DEF Enter
<1>3. ASSUME NEW p \in Processes, Busy(p) PROVE LockOK'
  BY <1>3 DEF Busy
<1>4. ASSUME NEW p \in Processes, NothingPending(p) PROVE LockOK'
  BY <1>4 DEF NothingPending
<1>5. ASSUME NEW p \in Processes, RecoverStart(p) PROVE LockOK'
  BY <1>5 DEF RecoverStart
<1>6. ASSUME NEW p \in Processes, Rewrite(p) PROVE LockOK'
  BY <1>6 DEF Rewrite
<1>7. ASSUME NEW p \in Processes, RecoverRefused(p) PROVE LockOK'
  BY <1>7 DEF RecoverRefused
<1>8. ASSUME NEW p \in Processes, RecoverFails(p) PROVE LockOK'
  BY <1>8 DEF RecoverFails
<1>9. ASSUME NEW p \in Processes, RecoverEnds(p) PROVE LockOK'
  BY <1>9 DEF RecoverEnds
<1>10. ASSUME NEW p \in Processes, RecoverEndFails(p) PROVE LockOK'
  BY <1>10 DEF RecoverEndFails
<1>11. ASSUME NEW p \in Processes, Records(p) PROVE LockOK'
  BY <1>11 DEF Records, Manifest
<1>12. ASSUME NEW p \in Processes, Stale(p) PROVE LockOK'
  BY <1>12 DEF Stale
<1>13. ASSUME NEW p \in Processes, RecordsFail(p) PROVE LockOK'
  BY <1>13 DEF RecordsFail
<1>14. ASSUME NEW p \in Processes, WriteManifest(p) PROVE LockOK'
  BY <1>14 DEF WriteManifest
<1>15. ASSUME NEW p \in Processes, WriteManifestFails(p) PROVE LockOK'
  BY <1>15 DEF WriteManifestFails
<1>16. ASSUME NEW p \in Processes, Publish(p) PROVE LockOK'
  BY <1>16 DEF Publish
<1>17. ASSUME NEW p \in Processes, PublishFails(p) PROVE LockOK'
  BY <1>17 DEF PublishFails
<1>18. ASSUME NEW p \in Processes, PublishBaselines(p) PROVE LockOK'
  BY <1>18 DEF PublishBaselines
<1>19. ASSUME NEW p \in Processes, PublishBaselinesFails(p) PROVE LockOK'
  BY <1>19 DEF PublishBaselinesFails
<1>20. ASSUME NEW p \in Processes, WriteMarker(p) PROVE LockOK'
  BY <1>20 DEF WriteMarker, PlaceOK, Own, Marked
<1>21. ASSUME NEW p \in Processes, WriteMarkerFails(p) PROVE LockOK'
  BY <1>21 DEF WriteMarkerFails, PlaceOK, Own, Marked
<1>22. ASSUME NEW p \in Processes, Cleanup(p) PROVE LockOK'
  BY <1>22 DEF Cleanup
<1>23. ASSUME NEW p \in Processes, CleanupFails(p) PROVE LockOK'
  BY <1>23 DEF CleanupFails
<1>24. ASSUME NEW p \in Processes, Except(p) PROVE LockOK'
  BY <1>24 DEF Except, PlaceOK, Own
<1>25. ASSUME NEW p \in Processes, ExceptFails(p) PROVE LockOK'
  BY <1>25 DEF ExceptFails
<1>26. ASSUME NEW p \in Processes, Crash(p) PROVE LockOK'
  BY <1>26 DEF Crash
<1>27. ASSUME NEW d \in Docs, ForeignEdit(d) PROVE LockOK'
  BY <1>27 DEF ForeignEdit
<1> QED
  BY <1>0, <1>1, <1>2, <1>3, <1>4, <1>5, <1>6, <1>7, <1>8, <1>9, <1>10, <1>11, <1>12, <1>13,
     <1>14, <1>15, <1>16, <1>17, <1>18, <1>19, <1>20, <1>21, <1>22, <1>23, <1>24, <1>25, <1>26,
     <1>27 DEF Next, RecoveryStep, CommitStep

LEMMA PlaceStep == TypeOK /\ LockOK /\ PlaceOK /\ [Next]_vars => PlaceOK'
<1> SUFFICES ASSUME TypeOK, LockOK, PlaceOK, [Next]_vars PROVE PlaceOK' OBVIOUS
<1>0. CASE UNCHANGED vars
  BY <1>0 DEF PlaceOK, vars, bounds
<1> USE DEF PlaceOK, TypeOK, LockOK, Inside, Own, bounds, held, local, Goto, Step, Put, Spared,
        Fault, Leave, Return, Release, Succeeds, FailsEarly, FailsAfter, RecoveryFails
<1>1. ASSUME NEW p \in Processes, Prepare(p) PROVE PlaceOK'
  BY <1>1 DEF Prepare
<1>2. ASSUME NEW p \in Processes, Enter(p) PROVE PlaceOK'
  BY <1>2 DEF Enter
<1>3. ASSUME NEW p \in Processes, Busy(p) PROVE PlaceOK'
  BY <1>3 DEF Busy
<1>4. ASSUME NEW p \in Processes, NothingPending(p) PROVE PlaceOK'
  BY <1>4 DEF NothingPending
<1>5. ASSUME NEW p \in Processes, RecoverStart(p) PROVE PlaceOK'
  BY <1>5 DEF RecoverStart
<1>6. ASSUME NEW p \in Processes, Rewrite(p) PROVE PlaceOK'
  BY <1>6 DEF Rewrite
<1>7. ASSUME NEW p \in Processes, RecoverRefused(p) PROVE PlaceOK'
  BY <1>7 DEF RecoverRefused
<1>8. ASSUME NEW p \in Processes, RecoverFails(p) PROVE PlaceOK'
  BY <1>8 DEF RecoverFails
<1>9. ASSUME NEW p \in Processes, RecoverEnds(p) PROVE PlaceOK'
  BY <1>9 DEF RecoverEnds
<1>10. ASSUME NEW p \in Processes, RecoverEndFails(p) PROVE PlaceOK'
  BY <1>10 DEF RecoverEndFails
<1>11. ASSUME NEW p \in Processes, Records(p) PROVE PlaceOK'
  BY <1>11 DEF Records, Manifest
<1>12. ASSUME NEW p \in Processes, Stale(p) PROVE PlaceOK'
  BY <1>12 DEF Stale
<1>13. ASSUME NEW p \in Processes, RecordsFail(p) PROVE PlaceOK'
  BY <1>13 DEF RecordsFail
<1>14. ASSUME NEW p \in Processes, WriteManifest(p) PROVE PlaceOK'
  BY <1>14 DEF WriteManifest
<1>15. ASSUME NEW p \in Processes, WriteManifestFails(p) PROVE PlaceOK'
  BY <1>15 DEF WriteManifestFails
<1>16. ASSUME NEW p \in Processes, Publish(p) PROVE PlaceOK'
  BY <1>16 DEF Publish
<1>17. ASSUME NEW p \in Processes, PublishFails(p) PROVE PlaceOK'
  BY <1>17 DEF PublishFails
<1>18. ASSUME NEW p \in Processes, PublishBaselines(p) PROVE PlaceOK'
  BY <1>18 DEF PublishBaselines
<1>19. ASSUME NEW p \in Processes, PublishBaselinesFails(p) PROVE PlaceOK'
  BY <1>19 DEF PublishBaselinesFails
<1>20. ASSUME NEW p \in Processes, WriteMarker(p) PROVE PlaceOK'
  BY <1>20 DEF WriteMarker, Marked, Journal
<1>21. ASSUME NEW p \in Processes, WriteMarkerFails(p) PROVE PlaceOK'
  BY <1>21 DEF WriteMarkerFails, Marked, Journal
<1>22. ASSUME NEW p \in Processes, Cleanup(p) PROVE PlaceOK'
  BY <1>22 DEF Cleanup
<1>23. ASSUME NEW p \in Processes, CleanupFails(p) PROVE PlaceOK'
  BY <1>23 DEF CleanupFails
<1>24. ASSUME NEW p \in Processes, Except(p) PROVE PlaceOK'
  BY <1>24 DEF Except
<1>25. ASSUME NEW p \in Processes, ExceptFails(p) PROVE PlaceOK'
  BY <1>25 DEF ExceptFails
<1>26. ASSUME NEW p \in Processes, Crash(p) PROVE PlaceOK'
  BY <1>26 DEF Crash
<1>27. ASSUME NEW d \in Docs, ForeignEdit(d) PROVE PlaceOK'
  BY <1>27 DEF ForeignEdit
<1> QED
  BY <1>0, <1>1, <1>2, <1>3, <1>4, <1>5, <1>6, <1>7, <1>8, <1>9, <1>10, <1>11, <1>12, <1>13,
     <1>14, <1>15, <1>16, <1>17, <1>18, <1>19, <1>20, <1>21, <1>22, <1>23, <1>24, <1>25, <1>26,
     <1>27 DEF Next, RecoveryStep, CommitStep

LEMMA SeenStep == TypeOK /\ LockOK /\ PlaceOK /\ SeenOK /\ [Next]_vars => SeenOK'
<1> SUFFICES ASSUME TypeOK, LockOK, PlaceOK, SeenOK, [Next]_vars PROVE SeenOK' OBVIOUS
<1>0. CASE UNCHANGED vars
  BY <1>0 DEF SeenOK, vars, bounds
<1> USE DEF SeenOK, TypeOK, LockOK, PlaceOK, Inside, Own, bounds, held, local, Goto, Step, Put,
        Spared, Fault, Leave, Return, Release, Succeeds, FailsEarly, FailsAfter, RecoveryFails
<1>1. ASSUME NEW p \in Processes, Prepare(p) PROVE SeenOK'
  BY <1>1 DEF Prepare
<1>2. ASSUME NEW p \in Processes, Enter(p) PROVE SeenOK'
  BY <1>2 DEF Enter
<1>3. ASSUME NEW p \in Processes, Busy(p) PROVE SeenOK'
  BY <1>3 DEF Busy
<1>4. ASSUME NEW p \in Processes, NothingPending(p) PROVE SeenOK'
  BY <1>4 DEF NothingPending
<1>5. ASSUME NEW p \in Processes, RecoverStart(p) PROVE SeenOK'
  BY <1>5 DEF RecoverStart
<1>6. ASSUME NEW p \in Processes, Rewrite(p) PROVE SeenOK'
  BY <1>6 DEF Rewrite
<1>7. ASSUME NEW p \in Processes, RecoverRefused(p) PROVE SeenOK'
  BY <1>7 DEF RecoverRefused
<1>8. ASSUME NEW p \in Processes, RecoverFails(p) PROVE SeenOK'
  BY <1>8 DEF RecoverFails
<1>9. ASSUME NEW p \in Processes, RecoverEnds(p) PROVE SeenOK'
  BY <1>9 DEF RecoverEnds
<1>10. ASSUME NEW p \in Processes, RecoverEndFails(p) PROVE SeenOK'
  BY <1>10 DEF RecoverEndFails
<1>11. ASSUME NEW p \in Processes, Records(p) PROVE SeenOK'
  BY <1>11 DEF Records, Manifest, Current
<1>12. ASSUME NEW p \in Processes, Stale(p) PROVE SeenOK'
  BY <1>12 DEF Stale
<1>13. ASSUME NEW p \in Processes, RecordsFail(p) PROVE SeenOK'
  BY <1>13 DEF RecordsFail
<1>14. ASSUME NEW p \in Processes, WriteManifest(p) PROVE SeenOK'
  BY <1>14 DEF WriteManifest
<1>15. ASSUME NEW p \in Processes, WriteManifestFails(p) PROVE SeenOK'
  BY <1>15 DEF WriteManifestFails
<1>16. ASSUME NEW p \in Processes, Publish(p) PROVE SeenOK'
  BY <1>16 DEF Publish
<1>17. ASSUME NEW p \in Processes, PublishFails(p) PROVE SeenOK'
  BY <1>17 DEF PublishFails
<1>18. ASSUME NEW p \in Processes, PublishBaselines(p) PROVE SeenOK'
  BY <1>18 DEF PublishBaselines
<1>19. ASSUME NEW p \in Processes, PublishBaselinesFails(p) PROVE SeenOK'
  BY <1>19 DEF PublishBaselinesFails
<1>20. ASSUME NEW p \in Processes, WriteMarker(p) PROVE SeenOK'
  BY <1>20 DEF WriteMarker, Marked, Journal
<1>21. ASSUME NEW p \in Processes, WriteMarkerFails(p) PROVE SeenOK'
  BY <1>21 DEF WriteMarkerFails, Marked, Journal
<1>22. ASSUME NEW p \in Processes, Cleanup(p) PROVE SeenOK'
  BY <1>22 DEF Cleanup
<1>23. ASSUME NEW p \in Processes, CleanupFails(p) PROVE SeenOK'
  BY <1>23 DEF CleanupFails
<1>24. ASSUME NEW p \in Processes, Except(p) PROVE SeenOK'
  BY <1>24 DEF Except
<1>25. ASSUME NEW p \in Processes, ExceptFails(p) PROVE SeenOK'
  BY <1>25 DEF ExceptFails
<1>26. ASSUME NEW p \in Processes, Crash(p) PROVE SeenOK'
  BY <1>26 DEF Crash
<1>27. ASSUME NEW d \in Docs, ForeignEdit(d) PROVE SeenOK'
  BY <1>27 DEF ForeignEdit
<1> QED
  BY <1>0, <1>1, <1>2, <1>3, <1>4, <1>5, <1>6, <1>7, <1>8, <1>9, <1>10, <1>11, <1>12, <1>13,
     <1>14, <1>15, <1>16, <1>17, <1>18, <1>19, <1>20, <1>21, <1>22, <1>23, <1>24, <1>25, <1>26,
     <1>27 DEF Next, RecoveryStep, CommitStep

LEMMA BaselinesStep ==
  TypeOK /\ LockOK /\ PlaceOK /\ DiskOK /\ BaselinesOK /\ [Next]_vars => BaselinesOK'
<1> SUFFICES ASSUME TypeOK, LockOK, PlaceOK, DiskOK, BaselinesOK, [Next]_vars
             PROVE  BaselinesOK' OBVIOUS
<1>0. CASE UNCHANGED vars
  BY <1>0 DEF BaselinesOK, vars, bounds
<1> USE DEF BaselinesOK, TypeOK, LockOK, Inside, bounds, held, local, Goto, Step, Put, Spared,
        Fault, Leave, Return, Release, Succeeds, FailsEarly, FailsAfter, RecoveryFails
<1>1. ASSUME NEW p \in Processes, Prepare(p) PROVE BaselinesOK'
  BY <1>1 DEF Prepare
<1>2. ASSUME NEW p \in Processes, Enter(p) PROVE BaselinesOK'
  BY <1>2 DEF Enter
<1>3. ASSUME NEW p \in Processes, Busy(p) PROVE BaselinesOK'
  BY <1>3 DEF Busy
<1>4. ASSUME NEW p \in Processes, NothingPending(p) PROVE BaselinesOK'
  BY <1>4 DEF NothingPending
<1>5. ASSUME NEW p \in Processes, RecoverStart(p) PROVE BaselinesOK'
  BY <1>5 DEF RecoverStart
<1>6. ASSUME NEW p \in Processes, Rewrite(p) PROVE BaselinesOK'
  BY <1>6 DEF Rewrite
<1>7. ASSUME NEW p \in Processes, RecoverRefused(p) PROVE BaselinesOK'
  <2>1. edits # 0
    <3>1. PICK j \in journals : \/ \E d \in Parts(j) : ~Known(j, d)
                                \/ todo # {} /\ ~Known(j, NextIn(j, todo))
      BY <1>7 DEF RecoverRefused
    <3>2. \E d \in Docs : ~Known(j, d)
      BY <3>1, NextOf DEF Parts, Participants
    <3> QED
      BY <3>2 DEF DiskOK
  <2> QED
    BY <1>7, <2>1 DEF RecoverRefused
<1>8. ASSUME NEW p \in Processes, RecoverFails(p) PROVE BaselinesOK'
  BY <1>8 DEF RecoverFails
<1>9. ASSUME NEW p \in Processes, RecoverEnds(p) PROVE BaselinesOK'
  BY <1>9 DEF RecoverEnds
<1>10. ASSUME NEW p \in Processes, RecoverEndFails(p) PROVE BaselinesOK'
  BY <1>10 DEF RecoverEndFails
<1>11. ASSUME NEW p \in Processes, Records(p) PROVE BaselinesOK'
  BY <1>11 DEF Records
<1>12. ASSUME NEW p \in Processes, Stale(p) PROVE BaselinesOK'
  BY <1>12 DEF Stale
<1>13. ASSUME NEW p \in Processes, RecordsFail(p) PROVE BaselinesOK'
  BY <1>13 DEF RecordsFail
<1>14. ASSUME NEW p \in Processes, WriteManifest(p) PROVE BaselinesOK'
  BY <1>14 DEF WriteManifest
<1>15. ASSUME NEW p \in Processes, WriteManifestFails(p) PROVE BaselinesOK'
  BY <1>15 DEF WriteManifestFails
<1>16. ASSUME NEW p \in Processes, Publish(p) PROVE BaselinesOK'
  <2>1. edits = 0 => UNCHANGED pc
    BY <1>16, FirstOf DEF Publish, Own, DiskOK
  <2> QED
    BY <1>16, <2>1 DEF Publish
<1>17. ASSUME NEW p \in Processes, PublishFails(p) PROVE BaselinesOK'
  BY <1>17 DEF PublishFails
<1>18. ASSUME NEW p \in Processes, PublishBaselines(p) PROVE BaselinesOK'
  BY <1>18 DEF PublishBaselines
<1>19. ASSUME NEW p \in Processes, PublishBaselinesFails(p) PROVE BaselinesOK'
  BY <1>19 DEF PublishBaselinesFails
<1>20. ASSUME NEW p \in Processes, WriteMarker(p) PROVE BaselinesOK'
  BY <1>20 DEF WriteMarker
<1>21. ASSUME NEW p \in Processes, WriteMarkerFails(p) PROVE BaselinesOK'
  BY <1>21 DEF WriteMarkerFails
<1>22. ASSUME NEW p \in Processes, Cleanup(p) PROVE BaselinesOK'
  BY <1>22 DEF Cleanup
<1>23. ASSUME NEW p \in Processes, CleanupFails(p) PROVE BaselinesOK'
  BY <1>23 DEF CleanupFails
<1>24. ASSUME NEW p \in Processes, Except(p) PROVE BaselinesOK'
  BY <1>24 DEF Except
<1>25. ASSUME NEW p \in Processes, ExceptFails(p) PROVE BaselinesOK'
  BY <1>25 DEF ExceptFails
<1>26. ASSUME NEW p \in Processes, Crash(p) PROVE BaselinesOK'
  BY <1>26 DEF Crash
<1>27. ASSUME NEW d \in Docs, ForeignEdit(d) PROVE BaselinesOK'
  BY <1>27 DEF ForeignEdit
<1> QED
  BY <1>0, <1>1, <1>2, <1>3, <1>4, <1>5, <1>6, <1>7, <1>8, <1>9, <1>10, <1>11, <1>12, <1>13,
     <1>14, <1>15, <1>16, <1>17, <1>18, <1>19, <1>20, <1>21, <1>22, <1>23, <1>24, <1>25, <1>26,
     <1>27 DEF Next, RecoveryStep, CommitStep

LEMMA DiskStep == TypeOK /\ LockOK /\ PlaceOK /\ DiskOK /\ [Next]_vars => DiskOK'
<1> SUFFICES ASSUME TypeOK, LockOK, PlaceOK, DiskOK, [Next]_vars PROVE DiskOK' OBVIOUS
<1>0. CASE UNCHANGED vars
  BY <1>0 DEF DiskOK, At, Known, Restored, vars, bounds
<1> USE DEF DiskOK, TypeOK, LockOK, PlaceOK, Inside, Own, At, bounds, held, local, Goto, Step,
        Put, Spared, Fault, Leave, Return, Release, Succeeds, FailsEarly, FailsAfter,
        RecoveryFails
<1>1. ASSUME NEW p \in Processes, Prepare(p) PROVE DiskOK'
  BY <1>1 DEF Prepare, Known, Restored
<1>2. ASSUME NEW p \in Processes, Enter(p) PROVE DiskOK'
  BY <1>2 DEF Enter, Known, Restored
<1>3. ASSUME NEW p \in Processes, Busy(p) PROVE DiskOK'
  BY <1>3 DEF Busy, Known, Restored
<1>4. ASSUME NEW p \in Processes, NothingPending(p) PROVE DiskOK'
  BY <1>4 DEF NothingPending, Known, Restored
<1>5. ASSUME NEW p \in Processes, RecoverStart(p) PROVE DiskOK'
  <2>1. PICK j \in journals : (\A d \in Parts(j) : Known(j, d)) /\ todo' = Parts(j)
    BY <1>5 DEF RecoverStart
  <2>2. journals' = journals /\ disk' = disk /\ draft' = draft /\ edits' = edits /\ lock' = lock
        /\ pc'[p] = "rewrite" /\ p \in lock
    BY <1>5 DEF RecoverStart
  <2>3. \A d \in Docs : d \notin todo' => j.previous[d] = j.target[d]
    BY <2>1 DEF Parts, Participants
  <2>4. \A d \in Docs : edits = 0 /\ d \notin todo' => disk[d] = Restored(j, d)
    BY <2>3 DEF Known, Restored
  <2>5. \A i \in journals : i = j
    OBVIOUS
  <2>6. \A q \in lock : q = p
    BY <2>2
  <2> QED
    BY <2>2, <2>4, <2>5, <2>6 DEF Known, Restored
<1>6. ASSUME NEW p \in Processes, Rewrite(p) PROVE DiskOK'
  <2>1. PICK j \in journals : /\ Known(j, NextIn(j, todo)) /\ Put(NextIn(j, todo), Restored(j, NextIn(j, todo)))
                              /\ todo' = todo \ {NextIn(j, todo)}
    BY <1>6 DEF Rewrite
  <2>2. PICK d \in todo : d = NextIn(j, todo)
    BY <1>6, NextOf DEF Rewrite
  <2>3. UNCHANGED <<journals, lock, pc, draft, edits>> /\ pc[p] = "rewrite" /\ p \in lock
    BY <1>6 DEF Rewrite
  <2>4. draft = {} /\ \A q \in lock : q = p
    BY <2>3
  <2>5. disk' = [disk EXCEPT ![d] = Restored(j, d)] /\ todo' = todo \ {d} /\ d \in Docs
    BY <2>1, <2>2
  <2>6. \A i \in journals : i = j
    OBVIOUS
  <2>7. Restored(j, d) \in {j.previous[d], j.target[d]}
    BY DEF Restored
  <2>8. ASSUME edits = 0, NEW e \in Docs
        PROVE  disk'[e] \in {j.previous[e], j.target[e]} /\ (e \notin todo' => disk'[e] = Restored(j, e))
    <3>1. CASE e = d
      BY <2>5, <2>7, <3>1 DEF Version
    <3>2. CASE e # d
      BY <2>3, <2>5, <2>8, <3>2 DEF Known, Version
    <3> QED
      BY <3>1, <3>2
  <2> QED
    BY <2>3, <2>4, <2>6, <2>8 DEF Known, Restored
<1>7. ASSUME NEW p \in Processes, RecoverRefused(p) PROVE DiskOK'
  BY <1>7 DEF RecoverRefused, Known, Restored
<1>8. ASSUME NEW p \in Processes, RecoverFails(p) PROVE DiskOK'
  <2>1. PICK j \in journals :
          /\ \/ UNCHANGED disk
             \/ /\ todo # {}
                /\ Put(NextIn(j, todo), Restored(j, NextIn(j, todo)))
          /\ RecoveryFails(p, j)
    BY <1>8 DEF RecoverFails
  <2>2. lock' = {} /\ draft' = {} /\ UNCHANGED <<journals, edits>>
    BY <1>8, <2>1 DEF RecoverFails
  <2>3. \A i \in journals : i = j
    OBVIOUS
  <2>4. ASSUME edits = 0, NEW e \in Docs PROVE disk'[e] \in {j.previous[e], j.target[e]}
    <3>1. CASE UNCHANGED disk
      BY <3>1, <2>4 DEF Known
    <3>2. CASE todo # {} /\ Put(NextIn(j, todo), Restored(j, NextIn(j, todo)))
      BY <3>2, <2>4, NextOf DEF Known, Restored, Version
    <3> QED
      BY <2>1, <3>1, <3>2
  <2> QED
    BY <2>2, <2>3, <2>4 DEF Known
<1>9. ASSUME NEW p \in Processes, RecoverEnds(p) PROVE DiskOK'
  BY <1>9 DEF RecoverEnds, Known, Restored
<1>10. ASSUME NEW p \in Processes, RecoverEndFails(p) PROVE DiskOK'
  BY <1>10 DEF RecoverEndFails, Known, Restored
<1>11. ASSUME NEW p \in Processes, Records(p) PROVE DiskOK'
  BY <1>11 DEF Records, Known, Restored, Manifest
<1>12. ASSUME NEW p \in Processes, Stale(p) PROVE DiskOK'
  BY <1>12 DEF Stale, Known, Restored
<1>13. ASSUME NEW p \in Processes, RecordsFail(p) PROVE DiskOK'
  BY <1>13 DEF RecordsFail, Known, Restored
<1>14. ASSUME NEW p \in Processes, WriteManifest(p) PROVE DiskOK'
  <2>1. journals = {} /\ journals' = draft /\ draft' = {} /\ UNCHANGED <<disk, lock, edits>>
    BY <1>14 DEF WriteManifest
  <2>2. p \in lock /\ pc'[p] = "publish" /\ \A q \in lock : q = p
    BY <1>14 DEF WriteManifest
  <2>3. ASSUME NEW j \in draft, NEW d \in Docs, d \notin todo' PROVE j.previous[d] = j.target[d]
    BY <1>14, <2>3 DEF WriteManifest, Parts, Participants
  <2> QED
    BY <2>1, <2>2, <2>3 DEF Known
<1>15. ASSUME NEW p \in Processes, WriteManifestFails(p) PROVE DiskOK'
  BY <1>15 DEF WriteManifestFails, Known, Restored
<1>16. ASSUME NEW p \in Processes, Publish(p) PROVE DiskOK'
  <2>1. PICK j \in journals :
          IF Known(j, First(todo))
            THEN Put(First(todo), j.target[First(todo)]) /\ todo' = todo \ {First(todo)} /\ UNCHANGED pc
            ELSE Goto(p, "except") /\ UNCHANGED <<disk, todo>>
    BY <1>16 DEF Publish
  <2>2. PICK d \in todo : d = First(todo)
    BY <1>16, FirstOf DEF Publish
  <2>3. UNCHANGED <<journals, lock, draft, edits>> /\ pc[p] = "publish" /\ p \in lock
    BY <1>16 DEF Publish
  <2>4. draft = {} /\ (\A q \in lock : q = p) /\ \A i \in journals : i = j
    BY <2>3
  <2>5. ASSUME edits = 0, NEW e \in Docs
        PROVE  disk'[e] \in {j.previous[e], j.target[e]} /\ (e \notin todo' => disk'[e] = j.target[e])
    <3>1. Known(j, d) /\ d \in Docs /\ disk' = [disk EXCEPT ![d] = j.target[d]] /\ todo' = todo \ {d}
      BY <2>1, <2>2, <2>5
    <3>2. CASE e = d
      BY <3>1, <3>2 DEF Version
    <3>3. CASE e # d
      BY <2>3, <2>5, <3>1, <3>3 DEF Known, Version
    <3> QED
      BY <3>2, <3>3
  <2>6. edits = 0 => UNCHANGED pc
    BY <2>1, <2>2
  <2> QED
    BY <2>3, <2>4, <2>5, <2>6 DEF Known
<1>17. ASSUME NEW p \in Processes, PublishFails(p) PROVE DiskOK'
  <2>1. UNCHANGED disk \/ \E j \in journals : Put(First(todo), j.target[First(todo)])
    BY <1>17 DEF PublishFails
  <2>2. UNCHANGED <<journals, lock, draft, edits>> /\ pc'[p] = "except" /\ p \in lock /\ todo # {}
    BY <1>17 DEF PublishFails
  <2>3. draft = {} /\ (\A q \in lock : q = p)
    BY <1>17, <2>2 DEF PublishFails
  <2>4. ASSUME edits = 0, NEW j \in journals, NEW e \in Docs PROVE disk'[e] \in {j.previous[e], j.target[e]}
    <3>1. CASE UNCHANGED disk
      BY <3>1, <2>4 DEF Known
    <3>2. CASE Put(First(todo), j.target[First(todo)])
      BY <3>2, <2>2, <2>4, FirstOf DEF Known, Version
    <3> QED
      BY <2>1, <3>1, <3>2
  <2> QED
    BY <2>2, <2>3, <2>4 DEF Known
<1>18. ASSUME NEW p \in Processes, PublishBaselines(p) PROVE DiskOK'
  BY <1>18 DEF PublishBaselines, Known, Restored
<1>19. ASSUME NEW p \in Processes, PublishBaselinesFails(p) PROVE DiskOK'
  BY <1>19 DEF PublishBaselinesFails, Known, Restored
<1>20. ASSUME NEW p \in Processes, WriteMarker(p) PROVE DiskOK'
  <2>1. PICK j \in journals : journals' = Marked(j)
    BY <1>20 DEF WriteMarker
  <2>2. UNCHANGED <<disk, lock, draft, edits>> /\ pc[p] = "marker" /\ pc'[p] = "cleanup" /\ p \in lock
    BY <1>20 DEF WriteMarker
  <2>3. \A i \in journals' : i.previous = j.previous /\ i.target = j.target
    BY <2>1 DEF Marked, Journal
  <2>4. draft = {} /\ (\A q \in lock : q = p)
    BY <2>2
  <2> QED
    BY <2>2, <2>3, <2>4 DEF Known
<1>21. ASSUME NEW p \in Processes, WriteMarkerFails(p) PROVE DiskOK'
  <2>1. PICK j \in journals : journals' \in {journals, Marked(j)}
    BY <1>21 DEF WriteMarkerFails
  <2>2. UNCHANGED <<disk, lock, draft, edits>> /\ pc[p] = "marker" /\ pc'[p] = "except" /\ p \in lock
    BY <1>21 DEF WriteMarkerFails
  <2>3. \A i \in journals' : i.previous = j.previous /\ i.target = j.target
    BY <2>1 DEF Marked, Journal
  <2>4. draft = {} /\ (\A q \in lock : q = p)
    BY <2>2
  <2> QED
    BY <2>2, <2>3, <2>4 DEF Known
<1>22. ASSUME NEW p \in Processes, Cleanup(p) PROVE DiskOK'
  BY <1>22 DEF Cleanup, Known, Restored
<1>23. ASSUME NEW p \in Processes, CleanupFails(p) PROVE DiskOK'
  BY <1>23 DEF CleanupFails, Known, Restored
<1>24. ASSUME NEW p \in Processes, Except(p) PROVE DiskOK'
  BY <1>24 DEF Except, Known, Restored
<1>25. ASSUME NEW p \in Processes, ExceptFails(p) PROVE DiskOK'
  BY <1>25 DEF ExceptFails, Known, Restored
<1>26. ASSUME NEW p \in Processes, Crash(p) PROVE DiskOK'
  BY <1>26 DEF Crash, Known, Restored
<1>27. ASSUME NEW d \in Docs, ForeignEdit(d) PROVE DiskOK'
  BY <1>27 DEF ForeignEdit
<1> QED
  BY <1>0, <1>1, <1>2, <1>3, <1>4, <1>5, <1>6, <1>7, <1>8, <1>9, <1>10, <1>11, <1>12, <1>13,
     <1>14, <1>15, <1>16, <1>17, <1>18, <1>19, <1>20, <1>21, <1>22, <1>23, <1>24, <1>25, <1>26,
     <1>27 DEF Next, RecoveryStep, CommitStep

LEMMA InitInv == Init => IInv
<1> SUFFICES ASSUME Init PROVE IInv OBVIOUS
<1>1. TypeOK
  BY TypeInit
<1> QED
  BY <1>1 DEF Init, IInv, LockOK, PlaceOK, SeenOK, DiskOK, BaselinesOK, Inside

LEMMA InvStep == IInv /\ [Next]_vars => IInv'
BY TypeStep, LockStep, PlaceStep, SeenStep, DiskStep, BaselinesStep DEF IInv

LEMMA Invariance == Spec => []IInv
BY InitInv, InvStep, PTL DEF Spec

\* Whatever fails or dies, every variable of the activation keeps its type.
THEOREM TypeCorrect == Spec => []TypeOK
<1>1. IInv => TypeOK
  BY DEF IInv
<1> QED
  BY <1>1, Invariance, PTL

\* For any number of processes at most one activation is pending, and recovery is never
\* refused as long as every writer takes the lock (project_activation_journal.py:260-302).
THEOREM AlwaysResolvable == Spec => []JournalResolvable
<1>1. IInv => JournalResolvable
  BY DEF IInv, JournalResolvable, OneJournal, PlaceOK, DiskOK, Parts, Participants
<1> QED
  BY <1>1, Invariance, PTL

\* One failing operation never parts the baselines in memory from the working copy they
\* belong to (project_activation_journal.py:57-74, lifecycle_transactions.py).
THEOREM BaselinesAlwaysFollow == Spec => []BaselinesFollow
<1>1. IInv => BaselinesFollow
  BY DEF IInv, BaselinesFollow, BaselinesOK, LockOK, TypeOK, Inside
<1> QED
  BY <1>1, Invariance, PTL

-----------------------------------------------------------------------------
(* Foreign content.                                                        *)

ForeignStep ==
  \A d \in Docs :
    disk[d] = "foreign" /\ disk'[d] # "foreign" => \E j \in journals : j.previous[d] = "foreign"

\* Whatever a known participant is replaced with, its preimage was the foreign document.
LEMMA KnownReplaced ==
  ASSUME TypeOK, NEW j \in journals, NEW d \in Docs, Known(j, d),
         NEW content, disk' = [disk EXCEPT ![d] = content]
  PROVE  ForeignStep
<1>1. j.target[d] # "foreign"
  BY ContentAssumption DEF TypeOK, Journal, Targets
<1> QED
  BY <1>1 DEF ForeignStep, Known, TypeOK, Version

LEMMA ForeignEffect == TypeOK /\ Next => ForeignStep
<1> SUFFICES ASSUME TypeOK, Next PROVE ForeignStep OBVIOUS
<1> USE DEF bounds, held, local, Put
<1>1. CASE UNCHANGED disk
  BY <1>1 DEF ForeignStep
<1>2. ASSUME NEW p \in Processes, Rewrite(p) PROVE ForeignStep
  <2>1. todo \in SUBSET Docs /\ todo # {}
    BY <1>2 DEF Rewrite, TypeOK
  <2>2. PICK j \in journals : /\ Known(j, NextIn(j, todo))
                              /\ disk' = [disk EXCEPT ![NextIn(j, todo)] = Restored(j, NextIn(j, todo))]
    BY <1>2 DEF Rewrite
  <2>3. NextIn(j, todo) \in Docs
    BY <2>1, NextOf
  <2> QED
    BY <2>2, <2>3, KnownReplaced
<1>3. ASSUME NEW p \in Processes, RecoverFails(p), ~UNCHANGED disk PROVE ForeignStep
  <2>1. PICK j \in journals : /\ todo # {} /\ Known(j, NextIn(j, todo))
                              /\ disk' = [disk EXCEPT ![NextIn(j, todo)] = Restored(j, NextIn(j, todo))]
    BY <1>3 DEF RecoverFails
  <2>2. NextIn(j, todo) \in Docs
    BY <2>1, NextOf DEF TypeOK
  <2> QED
    BY <2>1, <2>2, KnownReplaced
<1>4. ASSUME NEW p \in Processes, Publish(p) \/ PublishFails(p), ~UNCHANGED disk PROVE ForeignStep
  <2>1. PICK j \in journals : /\ todo # {} /\ Known(j, First(todo))
                              /\ disk' = [disk EXCEPT ![First(todo)] = j.target[First(todo)]]
    BY <1>4 DEF Publish, PublishFails, Own
  <2>2. First(todo) \in Docs
    BY <2>1, FirstOf DEF TypeOK
  <2> QED
    BY <2>1, <2>2, KnownReplaced
<1>5. ASSUME NEW d \in Docs, ForeignEdit(d) PROVE ForeignStep
  BY <1>5 DEF ForeignEdit, ForeignStep, TypeOK, Version
<1>6. ASSUME NEW p \in Processes,
             Prepare(p) \/ Enter(p) \/ Busy(p) \/ NothingPending(p) \/ RecoverStart(p) \/
             RecoverRefused(p) \/ RecoverEnds(p) \/ RecoverEndFails(p) \/ Records(p) \/
             Stale(p) \/ RecordsFail(p) \/ WriteManifest(p) \/ WriteManifestFails(p) \/
             PublishBaselines(p) \/ PublishBaselinesFails(p) \/ WriteMarker(p) \/
             WriteMarkerFails(p) \/ Cleanup(p) \/ CleanupFails(p) \/ Except(p) \/
             ExceptFails(p) \/ Crash(p)
      PROVE  UNCHANGED disk
  BY <1>6 DEF Prepare, Enter, Busy, NothingPending, RecoverStart, RecoverRefused, RecoverEnds,
         RecoverEndFails, Records, Stale, RecordsFail, WriteManifest, WriteManifestFails,
         PublishBaselines, PublishBaselinesFails, WriteMarker, WriteMarkerFails, Cleanup,
         CleanupFails, Except, ExceptFails, Crash
<1> QED
  BY <1>1, <1>2, <1>3, <1>4, <1>5, <1>6 DEF Next, RecoveryStep, CommitStep

\* No publication and no recovery replaces a foreign document that is not its preimage
\* (project_activation_journal.py:273-302).
THEOREM ForeignAlwaysKept == Spec => ForeignKept
<1>1. IInv /\ [Next]_vars => [ForeignStep]_vars
  BY ForeignEffect DEF IInv
<1> QED
  BY <1>1, Invariance, PTL DEF Spec, ForeignKept, ForeignStep

-----------------------------------------------------------------------------
(* Reported failures.                                                      *)

\* Edits and failures are never forgotten.
LEMMA CountersGrow ==
  ASSUME TypeOK, Next
  PROVE  edits' >= edits /\ faults' >= faults
BY DEF TypeOK, Next, RecoveryStep, CommitStep, bounds, Fault, ForeignEdit, Prepare, Enter, Busy,
   NothingPending, RecoverStart, Rewrite, RecoverRefused,
       RecoverFails, RecoverEnds, RecoverEndFails, Records, Stale, RecordsFail,
       WriteManifest, WriteManifestFails, Publish, PublishFails, PublishBaselines,
       PublishBaselinesFails, WriteMarker, WriteMarkerFails, Cleanup, CleanupFails, Except,
       ExceptFails, Crash

Settled ==
  faults' <= 1 /\ edits' = 0 =>
    \A p \in lock \cap (failed' \ failed) :
      pc[p] = "except" \/ duty = "failed" => \A j \in journals' : j.by = p => j.phase # "committed"

LEMMA SettledStep == IInv /\ Next => Settled
<1> SUFFICES ASSUME IInv, Next, faults' <= 1, edits' = 0,
                    NEW p \in lock, p \in failed' \ failed, pc[p] = "except" \/ duty = "failed",
                    NEW j \in journals', j.by = p
             PROVE  j.phase # "committed"
  BY DEF Settled
<1> USE DEF bounds, held, local, Goto, Step
<1>1. edits = 0 /\ faults >= 1 /\ p \in Processes /\ p \notin failed /\ p \in failed'
      /\ pc[p] \in {"except", "recover", "rewrite"} /\ duty \in {"enter", "failed"}
  BY CountersGrow DEF IInv, TypeOK, BaselinesOK, LockOK
<1>2. ~(Fault)
  BY <1>1 DEF Fault, IInv, TypeOK
<1>3. \A q \in Processes : q # p => pc[q] \notin Inside
  BY <1>1 DEF IInv, LockOK
<1>4. ASSUME RecoverRefused(p) PROVE FALSE
  <2>1. PICK i \in journals : \/ \E d \in Parts(i) : ~Known(i, d)
                              \/ todo # {} /\ ~Known(i, NextIn(i, todo))
    BY <1>4 DEF RecoverRefused
  <2>2. \E d \in Docs : ~Known(i, d)
    BY <2>1, NextOf DEF Parts, Participants, IInv, TypeOK
  <2> QED
    BY <1>1, <2>2 DEF IInv, DiskOK
<1>5. ASSUME RecoverEnds(p) PROVE journals' = {}
  BY <1>5 DEF RecoverEnds, IInv, PlaceOK
<1>6. ASSUME Except(p) PROVE Own(p) = {} /\ journals' = journals
  BY <1>1, <1>6 DEF Except
<1>7. ASSUME NEW q \in Processes, failed' = failed \cup {q} PROVE q = p
  BY <1>1, <1>7
<1>8. ASSUME NEW q \in Processes,
             Prepare(q) \/ Enter(q) \/ NothingPending(q) \/ RecoverStart(q) \/ Rewrite(q) \/
             Records(q) \/ WriteManifest(q) \/ Publish(q) \/ PublishBaselines(q) \/
             WriteMarker(q) \/ Cleanup(q) \/ Crash(q)
      PROVE  failed' \subseteq failed
  BY <1>8 DEF Prepare, Enter, NothingPending, RecoverStart, Rewrite, Records, WriteManifest,
         Publish, PublishBaselines, WriteMarker, Cleanup, Crash, Leave, Return, Release, Succeeds
<1>9. ASSUME NEW q \in Processes,
             RecoverFails(q) \/ RecoverEndFails(q) \/ RecordsFail(q) \/ WriteManifestFails(q)
               \/ PublishFails(q) \/ PublishBaselinesFails(q) \/ WriteMarkerFails(q)
               \/ CleanupFails(q) \/ ExceptFails(q)
      PROVE  FALSE
  BY <1>2, <1>9 DEF RecoverFails, RecoverEndFails, RecordsFail, WriteManifestFails,
     PublishFails,
       PublishBaselinesFails, WriteMarkerFails, CleanupFails, ExceptFails
<1>10. ASSUME NEW q \in Processes, Busy(q) \/ Stale(q) PROVE FALSE
  BY <1>1, <1>7, <1>10 DEF Busy, Stale, FailsEarly
<1>11. ASSUME NEW q \in Processes, RecoverRefused(q) PROVE FALSE
  BY <1>4, <1>7, <1>11 DEF RecoverRefused, RecoveryFails, FailsEarly, FailsAfter
<1>12. ASSUME NEW q \in Processes, RecoverEnds(q) PROVE FALSE
  <2>1. failed' = failed \cup {q}
    BY <1>1, <1>12 DEF RecoverEnds, Succeeds, FailsAfter
  <2> QED
    BY <1>5, <1>7, <1>12, <2>1
<1>13. ASSUME NEW q \in Processes, Except(q) PROVE j.phase # "committed"
  <2>1. failed' = failed \cup {q}
    BY <1>1, <1>13 DEF Except, FailsAfter
  <2>2. Own(p) = {} /\ journals' = journals
    BY <1>6, <1>7, <1>13, <2>1
  <2> QED
    BY <2>2 DEF Own
<1>14. ASSUME NEW d \in Docs, ForeignEdit(d) PROVE failed' = failed
  BY <1>14 DEF ForeignEdit
<1> QED
  BY <1>1, <1>8, <1>9, <1>10, <1>11, <1>12, <1>13, <1>14 DEF Next, RecoveryStep, CommitStep

\* plans/workflow-closure-remediation, S03: with one failing operation no activation reports
\* a failure and happens at a later recovery (project_activation_journal.py:66-95).
THEOREM FailureAlwaysKeepsOld == Spec => FailureKeepsOld
<1>1. IInv /\ [Next]_vars => [Settled]_vars
  BY SettledStep
<1> QED
  BY <1>1, Invariance, PTL DEF Spec, FailureKeepsOld, Settled

-----------------------------------------------------------------------------
(* The refinement.                                                         *)

LEMMA ForceNone ==
  /\ TypeOK /\ journals = {} => InForce = disk
  /\ TypeOK' /\ journals' = {} => InForce' = disk'
BY DEF InForce, TypeOK, Version

\* A version that is pending stands for its targets once committed, else for its preimages.
ForceIs ==
  TypeOK /\ PlaceOK => \A j \in journals :
    (\A d \in Docs : Known(j, d)) => InForce = IF j.phase = "committed" THEN j.target ELSE j.previous

LEMMA ForceOf == ForceIs
<1> SUFFICES ASSUME TypeOK, PlaceOK, NEW j \in journals, \A d \in Docs : Known(j, d)
             PROVE  InForce = IF j.phase = "committed" THEN j.target ELSE j.previous
  BY DEF ForceIs
<1>1. \A i \in journals : i = j
  BY DEF PlaceOK
<1>2. j.target \in [Docs -> Contents \cup {"absent"}] /\ j.previous \in Version
  BY DEF TypeOK, Journal, Targets
<1>3. ASSUME NEW d \in Docs
      PROVE  InForce[d] = IF j.phase = "committed" THEN j.target[d] ELSE j.previous[d]
  <2> DEFINE pending == {i \in journals : d \in Parts(i)}
  <2>1. CASE d \in Parts(j)
    <3>1. pending = {j}
      BY <1>1, <2>1
    <3>2. InForce[d] = Restored(CHOOSE i \in pending : TRUE, d)
      BY <3>1 DEF InForce
    <3> QED
      BY <3>1, <3>2 DEF Restored
  <2>2. CASE d \notin Parts(j)
    <3>1. pending = {} /\ j.previous[d] = j.target[d]
      BY <1>1, <2>2 DEF Parts, Participants
    <3>2. InForce[d] = disk[d]
      BY <3>1 DEF InForce
    <3> QED
      BY <3>1, <3>2 DEF Known
  <2> QED
    BY <2>1, <2>2
<1>4. InForce = [d \in Docs |-> InForce[d]]
  BY DEF InForce
<1> QED
  BY <1>2, <1>3, <1>4 DEF Version


LEMMA ForceOfNext == ForceIs'
BY ForceOf, PTL

\* The documents that stay in force while the journal stays: those it names.
LEMMA ForceKept ==
  ASSUME IInv, IInv', edits = 0, edits' = 0, NEW j \in journals, UNCHANGED journals
  PROVE  InForce' = InForce
<1>1. InForce = IF j.phase = "committed" THEN j.target ELSE j.previous
  BY ForceOf DEF ForceIs, IInv, DiskOK
<1>2. InForce' = IF j.phase = "committed" THEN j.target ELSE j.previous
  <2>1. TypeOK' /\ PlaceOK' /\ j \in journals' /\ \A d \in Docs : Known(j, d)'
    BY DEF IInv, DiskOK
  <2> QED
    BY <2>1, ForceOfNext DEF ForceIs
<1> QED
  BY <1>1, <1>2

LEMMA SameForce ==
  ASSUME UNCHANGED <<disk, journals>>
  PROVE  InForce' = InForce
BY DEF InForce

\* Once everything is where the journal wants it, the journal may go.
LEMMA ForceRemoved ==
  ASSUME IInv, IInv', edits = 0, NEW j \in journals, \A d \in Docs : disk[d] = Restored(j, d),
         UNCHANGED disk, journals' \in {journals, journals \ {j}}
  PROVE  InForce' = InForce
<1>1. CASE UNCHANGED journals
  BY <1>1, SameForce
<1>2. CASE journals' = journals \ {j}
  <2>1. journals' = {} /\ InForce' = disk
    BY <1>2, ForceNone DEF IInv, PlaceOK
  <2>2. InForce = IF j.phase = "committed" THEN j.target ELSE j.previous
    BY ForceOf DEF ForceIs, IInv, DiskOK
  <2>3. disk = IF j.phase = "committed" THEN j.target ELSE j.previous
    BY DEF Restored, IInv, TypeOK, Journal, Version, Targets
  <2> QED
    BY <2>1, <2>2, <2>3
<1> QED
  BY <1>1, <1>2

\* Writing the marker is the activation: the targets replace what the candidate was
\* prepared from.
LEMMA ForceMarked ==
  ASSUME IInv, IInv', edits = 0, edits' = 0, NEW p \in Processes, pc[p] = "marker",
         NEW j \in journals, UNCHANGED <<disk, seen>>, journals' = Marked(j)
  PROVE  Atomic!Activate(p)
<1> DEFINE k == [j EXCEPT !.phase = "committed"]
<1>1. p \in lock /\ j.phase = "prepared" /\ \A d \in Guarded : j.previous[d] = seen[p][d]
  BY DEF IInv, LockOK, Inside, PlaceOK, SeenOK
<1>2. InForce = j.previous
  BY <1>1, ForceOf DEF ForceIs, IInv, DiskOK
<1>3. k \in journals' /\ k.phase = "committed" /\ k.target = j.target /\ j.target \in Targets
  BY DEF Marked, IInv, TypeOK, Journal
<1>4. InForce' = j.target
  BY <1>3, ForceOfNext DEF ForceIs, IInv, DiskOK
<1> QED
  BY <1>1, <1>2, <1>3, <1>4 DEF Atomic!Activate

LEMMA ForceStarted ==
  ASSUME IInv, IInv', edits = 0, edits' = 0, journals = {}, UNCHANGED disk,
         journals' \in {journals, draft}
  PROVE  InForce' = InForce
<1>1. CASE UNCHANGED journals
  BY <1>1, SameForce
<1>2. ASSUME NEW j \in draft, journals' = draft PROVE InForce' = InForce
  <2>1. j.previous = disk
    BY DEF IInv, DiskOK
  <2>2. j.phase = "prepared"
    BY DEF IInv, LockOK, PlaceOK
  <2>3. InForce' = j.previous
    BY <1>2, <2>2, ForceOfNext DEF ForceIs, IInv, DiskOK
  <2> QED
    BY <2>1, <2>3, ForceNone DEF IInv
<1> QED
  BY <1>1, <1>2

\* Every step keeps what is in force, but for the activation itself; what a process looks at
\* may change with it.
Keeps(p) == InForce' = InForce /\ \E v \in Seen : seen' = [seen EXCEPT ![p] = v]

LEMMA Looks ==
  ASSUME TypeOK, NEW p \in Processes, UNCHANGED seen \/ Return(p)
  PROVE  \E v \in Seen : seen' = [seen EXCEPT ![p] = v]
<1>1. CASE UNCHANGED seen
  <2>1. seen[p] \in Seen /\ seen' = [seen EXCEPT ![p] = seen[p]]
    BY <1>1 DEF TypeOK
  <2> QED
    BY <2>1
<1>2. CASE Return(p)
  <2>1. Blank \in Seen
    BY DEF Blank, Seen
  <2> QED
    BY <1>2, <2>1 DEF Return
<1> QED
  BY <1>1, <1>2

LEMMA StepEffect ==
  ASSUME IInv, IInv', Next, edits = 0, edits' = 0
  PROVE  \E p \in Processes : Keeps(p) \/ Atomic!Activate(p)
<1> USE DEF bounds, held, local, Goto, Step
<1>1. ASSUME NEW p \in Processes, Prepare(p) PROVE Keeps(p)
  <2>1. [d \in Guarded |-> disk[d]] \in Seen
    BY DocsAre DEF IInv, TypeOK, Version, Seen
  <2> QED
    BY <1>1, <2>1, SameForce DEF Prepare, Keeps
<1>2. ASSUME NEW p \in Processes,
             Enter(p) \/ Busy(p) \/ NothingPending(p) \/ RecoverStart(p) \/ RecoverRefused(p)
             \/ Records(p) \/ Stale(p) \/ RecordsFail(p) \/ PublishBaselines(p) \/
             PublishBaselinesFails(p) \/ Except(p) \/ ExceptFails(p) \/ Crash(p)
      PROVE  Keeps(p)
  <2>1. UNCHANGED <<disk, journals>> /\ (UNCHANGED seen \/ Return(p))
    BY <1>2 DEF Enter, Busy, NothingPending, RecoverStart, RecoverRefused, Records, Stale,
         RecordsFail, PublishBaselines, PublishBaselinesFails, Except, ExceptFails, Crash,
         RecoveryFails, FailsEarly, FailsAfter, Release
  <2> QED
    BY <2>1, SameForce, Looks DEF Keeps, IInv
<1>3. ASSUME NEW p \in Processes, Rewrite(p) \/ RecoverFails(p) PROVE Keeps(p)
  <2>1. journals # {} /\ UNCHANGED journals /\ (UNCHANGED seen \/ Return(p))
    BY <1>3 DEF Rewrite, RecoverFails, RecoveryFails, FailsEarly, FailsAfter, Release
  <2> QED
    BY <2>1, ForceKept, Looks DEF Keeps, IInv
<1>4. ASSUME NEW p \in Processes, Publish(p) \/ PublishFails(p) PROVE Keeps(p)
  <2>1. UNCHANGED <<journals, seen>> /\ (journals = {} => UNCHANGED disk)
    BY <1>4 DEF Publish, PublishFails, Own
  <2> QED
    BY <2>1, ForceKept, SameForce, Looks DEF Keeps, IInv
<1>5. ASSUME NEW p \in Processes, RecoverEnds(p) \/ RecoverEndFails(p) PROVE Keeps(p)
  <2>1. p \in lock /\ pc[p] = "rewrite" /\ todo = {}
    BY <1>5 DEF RecoverEnds, RecoverEndFails, IInv, LockOK, Inside
  <2>2. PICK j \in journals : journals' \in {journals, journals \ {j}}
    BY <1>5 DEF RecoverEnds, RecoverEndFails
  <2>3. UNCHANGED disk /\ (UNCHANGED seen \/ Return(p))
    BY <1>5 DEF RecoverEnds, RecoverEndFails, RecoveryFails, FailsEarly, FailsAfter, Succeeds,
       Release
  <2>4. \A d \in Docs : disk[d] = Restored(j, d)
    BY <2>1 DEF IInv, DiskOK, At
  <2> QED
    BY <2>2, <2>3, <2>4, ForceRemoved, Looks DEF Keeps, IInv
<1>6. ASSUME NEW p \in Processes, WriteManifest(p) \/ WriteManifestFails(p) PROVE Keeps(p)
  <2>1. journals = {} /\ UNCHANGED <<disk, seen>> /\ journals' \in {journals, draft}
    BY <1>6 DEF WriteManifest, WriteManifestFails, IInv, LockOK, PlaceOK, Inside
  <2> QED
    BY <2>1, ForceStarted, Looks DEF Keeps, IInv
<1>7. ASSUME NEW p \in Processes, WriteMarker(p) \/ WriteMarkerFails(p)
      PROVE  Keeps(p) \/ Atomic!Activate(p)
  <2>1. pc[p] = "marker" /\ UNCHANGED <<disk, seen>>
    BY <1>7 DEF WriteMarker, WriteMarkerFails
  <2>2. PICK j \in journals : journals' \in {journals, Marked(j)}
    BY <1>7 DEF WriteMarker, WriteMarkerFails, Own
  <2> QED
    BY <2>1, <2>2, SameForce, ForceMarked, Looks DEF Keeps, IInv
<1>8. ASSUME NEW p \in Processes, Cleanup(p) \/ CleanupFails(p) PROVE Keeps(p)
  <2>1. p \in lock /\ pc[p] = "cleanup"
    BY <1>8 DEF Cleanup, CleanupFails, IInv, LockOK, Inside
  <2>2. UNCHANGED disk /\ (UNCHANGED seen \/ Return(p)) /\ journals' \in {journals, journals \ Own(p)}
    BY <1>8 DEF Cleanup, CleanupFails, Succeeds, Release
  <2>3. CASE journals = {}
    BY <2>2, <2>3, SameForce, Looks DEF Keeps, IInv
  <2>4. ASSUME NEW j \in journals PROVE Keeps(p)
    <3>1. journals = {j} /\ j.by = p /\ j.phase = "committed"
      BY <2>1 DEF IInv, PlaceOK
    <3>2. \A d \in Docs : disk[d] = Restored(j, d)
      BY <2>1, <3>1 DEF IInv, DiskOK, At, Restored
    <3>3. journals' \in {journals, journals \ {j}}
      BY <2>2, <3>1 DEF Own
    <3> QED
      BY <2>2, <3>2, <3>3, ForceRemoved, Looks DEF Keeps, IInv
  <2> QED
    BY <2>3, <2>4
<1>9. ASSUME NEW d \in Docs, ForeignEdit(d) PROVE FALSE
  BY <1>9 DEF ForeignEdit, IInv, TypeOK
<1> QED
  BY <1>1, <1>2, <1>3, <1>4, <1>5, <1>6, <1>7, <1>8, <1>9 DEF Next, RecoveryStep, CommitStep

LEMMA AtomicStep ==
  ASSUME IInv, IInv', [Next]_vars
  PROVE  [Atomic!Next]_(Atomic!vars)
<1>1. CASE UNCHANGED vars
  BY <1>1, SameForce DEF vars, Atomic!vars
<1>2. CASE Next /\ edits' > 0
  BY <1>2 DEF Atomic!Next
<1>3. CASE Next /\ ~(edits' > 0)
  <2>1. edits = 0 /\ edits' = 0
    BY <1>3, CountersGrow DEF IInv, TypeOK
  <2>2. PICK p \in Processes : Keeps(p) \/ Atomic!Activate(p)
    BY <1>3, <2>1, StepEffect
  <2>3. Keeps(p) => Atomic!Look(p)
    BY DEF Keeps, Atomic!Look
  <2> QED
    BY <2>1, <2>2, <2>3 DEF Atomic!Next
<1> QED
  BY <1>1, <1>2, <1>3

\* Publishing the participants one by one, with a marker, failures, crashes and recoveries
\* by other processes, implements one atomic change on top of what the candidate was
\* prepared from.
THEOREM Refinement == Spec => AtomicSpec
<1>1. Init => Atomic!Init
  <2> SUFFICES ASSUME Init PROVE Atomic!Init
    OBVIOUS
  <2>1. InForce = disk /\ disk \in Version
    BY TypeInit, ForceNone DEF Init, TypeOK
  <2>2. Blank \in Seen
    BY DEF Blank, Seen
  <2> QED
    BY <2>1, <2>2 DEF Init, Atomic!Init
<1>2. IInv /\ IInv' /\ [Next]_vars => [Atomic!Next]_(Atomic!vars)
  BY AtomicStep
<1> QED
  BY <1>1, <1>2, Invariance, PTL DEF Spec, AtomicSpec, Atomic!Spec
=============================================================================
