-------------------------- MODULE ProjectSaveProofs --------------------------
(***************************************************************************)
(* ProjectSave for any number of processes, drafts, failures, crashes and  *)
(* edits: at most one journal is pending and it can be resolved, what was  *)
(* acknowledged stays, foreign content is kept, and saving is atomic.      *)
(*                                                                         *)
(* The argument: only the Variant is ever put back, so the Project's       *)
(* revision never falls, and a journal whose Project was replaced is past  *)
(* half way for good; no process knows more than what is committed, not    *)
(* even while a Variant is published that may still be taken back.         *)
(***************************************************************************)
EXTENDS ProjectSaveRefinement, TLAPS

Opening    == {"recover", "restored", "forward", "back"}
Publishing == {"variant", "variantCheck", "project", "projectCheck", "compensate", "finish"}
Inside     == Opening \cup Publishing \cup {"activate", "compare", "journal"}

\* A document follows another one if it is the same or has a lower revision.
Follows(old, new) == old.rev < new.rev \/ old = new

\* One process at a time is inside the lock.
LockOK ==
  /\ \A p \in Processes : p \in lock <=> pc[p] \in Inside
  /\ \A p, q \in lock : p = q

\* The journal a process may meet at each place, and what its operation is for.
PlaceOK ==
  /\ OneJournal
  /\ \A p \in lock :
       /\ pc[p] = "activate" => duty[p] = "open"
       /\ pc[p] \in {"compare", "journal"} \cup Publishing => duty[p] = "save"
       /\ pc[p] \in {"activate", "compare", "journal"} => journals = {}
       /\ pc[p] = "journal" => Journalled(p)
       /\ pc[p] \in Publishing => journals = IF Journalled(p) THEN {Prepared(p)} ELSE {}
       /\ pc[p] \in Opening /\ duty[p] = "failed" => Journalled(p) /\ journals = {Prepared(p)}
       /\ pc[p] \in {"variant", "variantCheck"} => "variant" \in request[p].writes
       /\ pc[p] \in {"project", "projectCheck"} => "project" \in request[p].writes
       /\ pc[p] = "compensate" => Journalled(p)

\* A request that may still be carried out rests on what its process knows.
Saving(p) ==
  \/ result[p] = "failed" \/ pc[p] \in {"saving", "reconcile"}
  \/ pc[p] \in Inside /\ duty[p] # "open"

RestsOn(p, d) ==
  IF d \in request[p].writes THEN known[p][d].rev < request[p].target[d].rev
                             ELSE known[p][d] = request[p].target[d]

RequestOK ==
  /\ \A p \in Processes : Saving(p) =>
       p \in opened /\ request[p].writes # {} /\ \A d \in Docs : RestsOn(p, d)
  /\ \A p \in lock, d \in Docs :
       pc[p] \in {"journal"} \cup Publishing => read[p][d].rev = known[p][d].rev

\* A draft names one request, and the journals of that request.
AuthorsOK ==
  /\ \A p \in Processes : \A d \in request[p].writes : request[p].target[d].by \in used
  /\ \A p, q \in Processes : \A d \in request[p].writes, e \in request[q].writes :
       request[p].target[d].by = request[q].target[e].by => p = q
  /\ \A j \in journals, d \in Docs : j.target[d].by \in used
  /\ \A j \in journals, p \in Processes, e \in Docs : \A d \in request[p].writes :
       j.target[e].by = request[p].target[d].by => j.target = request[p].target

\* A journal raises both revisions, and the Project never falls behind its preimage.
JournalOK ==
  \A j \in journals :
    /\ \A d \in Docs : j.previous[d].rev < j.target[d].rev
    /\ Follows(j.previous["project"], disk["project"])

\* What a process knows is never ahead of what is committed.
KnownOK == \A p \in opened, d \in Docs : Follows(known[p][d], Committed[d])

\* Nor of the Variant that the save under way may still put back.
HeldOK ==
  \A p \in lock : pc[p] \in {"variantCheck", "project", "compensate"} /\ Journalled(p) =>
    \A q \in opened : Follows(known[q]["variant"], read[p]["variant"])

\* What a save has published is still there, or was edited since.
StageOK ==
  \A p \in lock :
    /\ pc[p] \in {"project", "projectCheck", "finish"} /\ "variant" \in request[p].writes =>
         Follows(request[p].target["variant"], disk["variant"])
    /\ pc[p] = "finish" /\ "project" \in request[p].writes =>
         Follows(request[p].target["project"], disk["project"])
    /\ pc[p] = "forward" /\ duty[p] = "failed" =>
         \A d \in Docs : Follows(request[p].target[d], disk[d])

\* How far the holder of the lock has brought the documents, if nobody interferes.
At(p) ==
  /\ pc[p] \in {"journal"} \cup Publishing => read[p] = known[p]
  /\ pc[p] \in {"journal", "variant"} => disk = read[p]
  /\ pc[p] = "project" /\ ~Journalled(p) => disk = read[p]
  /\ \/ pc[p] \in {"variantCheck", "compensate"}
     \/ pc[p] = "project" /\ Journalled(p)
     => disk["project"] = read[p]["project"] /\ disk["variant"] = request[p].target["variant"]
  /\ pc[p] \in {"projectCheck", "finish"} => disk = request[p].target
  /\ pc[p] \in {"restored", "back"} => \A j \in journals : AllPrevious(j)
  /\ pc[p] = "forward" => \A j \in journals : AllTarget(j)

DiskOK == edits = 0 => (\A j \in journals : Resolvable(j)) /\ \A p \in lock : At(p)

IInv ==
  /\ TypeOK /\ LockOK /\ PlaceOK /\ RequestOK /\ AuthorsOK
  /\ JournalOK /\ KnownOK /\ HeldOK /\ StageOK /\ DiskOK

LEMMA SeedType == Seed \in Pair
BY DEF Seed, Pair, Document, Authors

-----------------------------------------------------------------------------
(* The invariant: one lemma per part, one step per action.                 *)

LEMMA TypeInit == Init => TypeOK
BY SeedType DEF Init, TypeOK, PC, NoRequest, SaveRequest

\* How an operation ends keeps the types of what its process keeps.
LEMMA EndTypes ==
  ASSUME TypeOK, NEW p \in Processes,
         SaveSucceeds(p) \/ SaveFails(p) \/ OpenFails(p) \/ OperationFails(p) \/ Raise(p)
  PROVE  /\ lock' \subseteq Processes /\ pc' \in [Processes -> PC]
         /\ duty' \in [Processes -> {"open", "save", "failed"}]
         /\ opened' = opened /\ known' \in [Processes -> Pair] /\ read' \in [Processes -> Pair]
         /\ request' = request /\ result' \in [Processes -> {"none", "saved", "failed"}]
         /\ used' = used
<1>1. request[p].target \in Pair
  BY DEF TypeOK, SaveRequest
<1>2. SaveSucceeds(p) \/ SaveFails(p) \/ OpenFails(p)
      \/ (UNCHANGED <<lock, local>> /\ Goto(p, "recover") /\ duty' = [duty EXCEPT ![p] = "failed"])
  BY DEF OperationFails, Raise
<1> QED
  BY <1>1, <1>2, SeedType
     DEF TypeOK, PC, SaveSucceeds, SaveFails, OpenFails, Goto, Forget, local

\* What a request writes is a pair of documents, and so is a journal's preimage.
LEMMA PairTypes ==
  ASSUME TypeOK
  PROVE  /\ \A p \in Processes : request[p].target \in Pair /\ Prepared(p) \in Journal
         /\ \A j \in journals : j.previous \in Pair /\ j.target \in Pair
         /\ \A pair \in Pair, d \in Docs, doc \in Document : [pair EXCEPT ![d] = doc] \in Pair
         /\ \A pair \in Pair, d \in Docs : pair[d] \in Document
         /\ "project" \in Docs /\ "variant" \in Docs
BY DEF TypeOK, SaveRequest, Journal, Prepared, Pair, Docs

LEMMA TypeStep == TypeOK /\ [Next]_vars => TypeOK'
<1> SUFFICES ASSUME TypeOK, [Next]_vars PROVE TypeOK' OBVIOUS
<1>0. CASE UNCHANGED vars
  BY <1>0 DEF TypeOK, vars, bounds, local
<1> USE DEF TypeOK, bounds, local, Goto, Step, Put, Spared, Fault, Forget, PC
<1>1. ASSUME NEW p \in Processes, Acquire(p) PROVE TypeOK'
  BY <1>1 DEF Acquire
<1>2. ASSUME NEW p \in Processes, Busy(p) PROVE TypeOK'
  BY <1>2, SeedType, EndTypes DEF Busy
<1>3. ASSUME NEW p \in Processes, LoadProject(p) PROVE TypeOK'
  BY <1>3, PairTypes DEF LoadProject
<1>4. ASSUME NEW p \in Processes, LoadVariant(p) PROVE TypeOK'
  BY <1>4, PairTypes DEF LoadVariant
<1>5. ASSUME NEW p \in Processes, LoadFails(p) PROVE TypeOK'
  BY <1>5, SeedType, EndTypes DEF LoadFails
<1>6. ASSUME NEW p \in Processes, Activate(p) PROVE TypeOK'
  BY <1>6, SeedType DEF Activate
<1>7. ASSUME NEW p \in Processes, ActivateFails(p) PROVE TypeOK'
  BY <1>7, SeedType, EndTypes DEF ActivateFails
<1>8. ASSUME NEW p \in Processes, NewSave(p) PROVE TypeOK'
  <2>1. PICK t \in Drafts \ used, W \in SUBSET Docs, step \in RevisionSteps, auto \in BOOLEAN :
          /\ W # {}
          /\ used' = used \cup {t}
          /\ request' = [request EXCEPT ![p] =
               [writes |-> W, automatic |-> auto,
                target |-> [d \in Docs |-> IF d \in W THEN [rev |-> known[p][d].rev + step, by |-> t]
                                                      ELSE known[p][d]]]]
    BY <1>8, Zenon DEF NewSave
  <2> DEFINE target == [d \in Docs |-> IF d \in W THEN [rev |-> known[p][d].rev + step, by |-> t]
                                                  ELSE known[p][d]]
  <2>2. target \in Pair
    BY StepAssumption DEF Pair, Document, Authors
  <2>3. [writes |-> W, automatic |-> auto, target |-> target] \in SaveRequest
    BY <2>2 DEF SaveRequest
  <2> QED
    BY <1>8, <2>1, <2>3 DEF NewSave
<1>9. ASSUME NEW p \in Processes, Retry(p) PROVE TypeOK'
  BY <1>9 DEF Retry
<1>10. ASSUME NEW p \in Processes, NothingPending(p) PROVE TypeOK'
  BY <1>10 DEF NothingPending
<1>11. ASSUME NEW p \in Processes, RecoverResolved(p) PROVE TypeOK'
  BY <1>11 DEF RecoverResolved
<1>12. ASSUME NEW p \in Processes, RecoverVariant(p) PROVE TypeOK'
  <2>1. PICK j \in journals : disk' = [disk EXCEPT !["variant"] = j.previous["variant"]]
    BY <1>12 DEF RecoverVariant
  <2>2. disk' \in Pair
    BY <2>1, PairTypes
  <2> QED
    BY <1>12, <2>2 DEF RecoverVariant
<1>13. ASSUME NEW p \in Processes, RecoverVerified(p) PROVE TypeOK'
  BY <1>13 DEF RecoverVerified
<1>14. ASSUME NEW p \in Processes, RecoverRefused(p) PROVE TypeOK'
  BY <1>14, SeedType, EndTypes DEF RecoverRefused
<1>15. ASSUME NEW p \in Processes, RecoverFails(p) PROVE TypeOK'
  <2>1. disk' \in Pair
    BY <1>15, PairTypes DEF RecoverFails
  <2> QED
    BY <1>15, <2>1, EndTypes DEF RecoverFails
<1>16. ASSUME NEW p \in Processes, RemoveJournal(p) PROVE TypeOK'
  <2>1. journals' \in SUBSET Journal
    BY <1>16 DEF RemoveJournal
  <2> QED
    BY <1>16, <2>1, EndTypes DEF RemoveJournal
<1>17. ASSUME NEW p \in Processes, RemoveFails(p) PROVE TypeOK'
  <2>1. journals' \in SUBSET Journal
    BY <1>17 DEF RemoveFails
  <2> QED
    BY <1>17, <2>1, EndTypes DEF RemoveFails
<1>18. ASSUME NEW p \in Processes, Compare(p) PROVE TypeOK'
  BY <1>18, SeedType, EndTypes DEF Compare
<1>19. ASSUME NEW p \in Processes, CompareFails(p) PROVE TypeOK'
  BY <1>19, SeedType, EndTypes DEF CompareFails
<1>20. ASSUME NEW p \in Processes, WriteJournal(p) PROVE TypeOK'
  BY <1>20, EndTypes, PairTypes DEF WriteJournal
<1>21. ASSUME NEW p \in Processes, WriteJournalFails(p) PROVE TypeOK'
  BY <1>21, EndTypes, PairTypes DEF WriteJournalFails
<1>22. ASSUME NEW p \in Processes, PublishVariant(p) PROVE TypeOK'
  <2>1. disk' \in Pair
    BY <1>22, PairTypes DEF PublishVariant
  <2> QED
    BY <1>22, <2>1, EndTypes DEF PublishVariant
<1>23. ASSUME NEW p \in Processes, PublishVariantFails(p) PROVE TypeOK'
  BY <1>23, SeedType, EndTypes DEF PublishVariantFails
<1>24. ASSUME NEW p \in Processes, CheckVariant(p) PROVE TypeOK'
  BY <1>24, SeedType, EndTypes DEF CheckVariant
<1>25. ASSUME NEW p \in Processes, PublishProject(p) PROVE TypeOK'
  <2>1. disk' \in Pair
    BY <1>25, PairTypes DEF PublishProject
  <2> QED
    BY <1>25, <2>1, EndTypes DEF PublishProject
<1>26. ASSUME NEW p \in Processes, PublishProjectFails(p) PROVE TypeOK'
  BY <1>26, SeedType, EndTypes DEF PublishProjectFails
<1>27. ASSUME NEW p \in Processes, CheckProject(p) PROVE TypeOK'
  BY <1>27, SeedType, EndTypes DEF CheckProject
<1>28. ASSUME NEW p \in Processes, CheckFails(p) PROVE TypeOK'
  BY <1>28, SeedType, EndTypes DEF CheckFails
<1>29. ASSUME NEW p \in Processes, Compensate(p) PROVE TypeOK'
  <2>1. disk' \in Pair
    BY <1>29, PairTypes DEF Compensate
  <2> QED
    BY <1>29, <2>1, EndTypes DEF Compensate
<1>30. ASSUME NEW p \in Processes, CompensateFails(p) PROVE TypeOK'
  BY <1>30, SeedType, EndTypes DEF CompensateFails
<1>31. ASSUME NEW p \in Processes, Finish(p) PROVE TypeOK'
  BY <1>31, SeedType, EndTypes DEF Finish
<1>32. ASSUME NEW p \in Processes, FinishUnclean(p) PROVE TypeOK'
  BY <1>32, SeedType, EndTypes DEF FinishUnclean
<1>33. ASSUME NEW p \in Processes, ReconcileMatches(p) PROVE TypeOK'
  BY <1>33, PairTypes DEF ReconcileMatches
<1>34. ASSUME NEW p \in Processes, ReconcileFails(p) PROVE TypeOK'
  BY <1>34 DEF ReconcileFails
<1>35. ASSUME NEW p \in Processes, Crash(p) PROVE TypeOK'
  BY <1>35, SeedType DEF Crash, NoRequest, SaveRequest
<1>36. ASSUME NEW d \in Docs, ForeignEdit(d) PROVE TypeOK'
  <2>1. [rev |-> disk[d].rev + 1, by |-> "foreign"] \in Document
    BY PairTypes DEF Document, Authors
  <2>2. disk' \in Pair
    BY <1>36, <2>1, PairTypes DEF ForeignEdit
  <2> QED
    BY <1>36, <2>2 DEF ForeignEdit
<1> QED
  BY <1>0, <1>1, <1>2, <1>3, <1>4, <1>5, <1>6, <1>7, <1>8, <1>9, <1>10, <1>11, <1>12, <1>13,
     <1>14, <1>15, <1>16, <1>17, <1>18, <1>19, <1>20, <1>21, <1>22, <1>23, <1>24, <1>25, <1>26,
     <1>27, <1>28, <1>29, <1>30, <1>31, <1>32, <1>33, <1>34, <1>35, <1>36
     DEF Next, ProcessStep, OpenStep, RecoveryStep, CommitStep, SaveStep

LEMMA LockStep == TypeOK /\ LockOK /\ [Next]_vars => LockOK'
<1> SUFFICES ASSUME TypeOK, LockOK, [Next]_vars PROVE LockOK' OBVIOUS
<1>0. CASE UNCHANGED vars
  BY <1>0 DEF LockOK, vars, bounds, local
<1> USE DEF LockOK, bounds, local, Goto, Step, Put, Spared, Fault, Forget, SaveSucceeds,
        SaveFails, OpenFails, OperationFails, Raise, Inside, Opening, Publishing, TypeOK, PC
<1>1. ASSUME NEW p \in Processes, Acquire(p) PROVE LockOK'
  BY <1>1 DEF Acquire
<1>2. ASSUME NEW p \in Processes, Busy(p) PROVE LockOK'
  BY <1>2 DEF Busy
<1>3. ASSUME NEW p \in Processes, LoadProject(p) PROVE LockOK'
  BY <1>3 DEF LoadProject
<1>4. ASSUME NEW p \in Processes, LoadVariant(p) PROVE LockOK'
  BY <1>4 DEF LoadVariant
<1>5. ASSUME NEW p \in Processes, LoadFails(p) PROVE LockOK'
  BY <1>5 DEF LoadFails
<1>6. ASSUME NEW p \in Processes, Activate(p) PROVE LockOK'
  BY <1>6 DEF Activate
<1>7. ASSUME NEW p \in Processes, ActivateFails(p) PROVE LockOK'
  BY <1>7 DEF ActivateFails
<1>8. ASSUME NEW p \in Processes, NewSave(p) PROVE LockOK'
  BY <1>8 DEF NewSave
<1>9. ASSUME NEW p \in Processes, Retry(p) PROVE LockOK'
  BY <1>9 DEF Retry
<1>10. ASSUME NEW p \in Processes, NothingPending(p) PROVE LockOK'
  BY <1>10 DEF NothingPending
<1>11. ASSUME NEW p \in Processes, RecoverResolved(p) PROVE LockOK'
  BY <1>11 DEF RecoverResolved
<1>12. ASSUME NEW p \in Processes, RecoverVariant(p) PROVE LockOK'
  BY <1>12 DEF RecoverVariant
<1>13. ASSUME NEW p \in Processes, RecoverVerified(p) PROVE LockOK'
  BY <1>13 DEF RecoverVerified
<1>14. ASSUME NEW p \in Processes, RecoverRefused(p) PROVE LockOK'
  BY <1>14 DEF RecoverRefused
<1>15. ASSUME NEW p \in Processes, RecoverFails(p) PROVE LockOK'
  BY <1>15 DEF RecoverFails
<1>16. ASSUME NEW p \in Processes, RemoveJournal(p) PROVE LockOK'
  BY <1>16 DEF RemoveJournal
<1>17. ASSUME NEW p \in Processes, RemoveFails(p) PROVE LockOK'
  BY <1>17 DEF RemoveFails
<1>18. ASSUME NEW p \in Processes, Compare(p) PROVE LockOK'
  BY <1>18 DEF Compare
<1>19. ASSUME NEW p \in Processes, CompareFails(p) PROVE LockOK'
  BY <1>19 DEF CompareFails
<1>20. ASSUME NEW p \in Processes, WriteJournal(p) PROVE LockOK'
  BY <1>20 DEF WriteJournal
<1>21. ASSUME NEW p \in Processes, WriteJournalFails(p) PROVE LockOK'
  BY <1>21 DEF WriteJournalFails
<1>22. ASSUME NEW p \in Processes, PublishVariant(p) PROVE LockOK'
  BY <1>22 DEF PublishVariant
<1>23. ASSUME NEW p \in Processes, PublishVariantFails(p) PROVE LockOK'
  BY <1>23 DEF PublishVariantFails
<1>24. ASSUME NEW p \in Processes, CheckVariant(p) PROVE LockOK'
  BY <1>24 DEF CheckVariant
<1>25. ASSUME NEW p \in Processes, PublishProject(p) PROVE LockOK'
  BY <1>25 DEF PublishProject
<1>26. ASSUME NEW p \in Processes, PublishProjectFails(p) PROVE LockOK'
  BY <1>26 DEF PublishProjectFails
<1>27. ASSUME NEW p \in Processes, CheckProject(p) PROVE LockOK'
  BY <1>27 DEF CheckProject
<1>28. ASSUME NEW p \in Processes, CheckFails(p) PROVE LockOK'
  BY <1>28 DEF CheckFails
<1>29. ASSUME NEW p \in Processes, Compensate(p) PROVE LockOK'
  BY <1>29 DEF Compensate
<1>30. ASSUME NEW p \in Processes, CompensateFails(p) PROVE LockOK'
  BY <1>30 DEF CompensateFails
<1>31. ASSUME NEW p \in Processes, Finish(p) PROVE LockOK'
  BY <1>31 DEF Finish
<1>32. ASSUME NEW p \in Processes, FinishUnclean(p) PROVE LockOK'
  BY <1>32 DEF FinishUnclean
<1>33. ASSUME NEW p \in Processes, ReconcileMatches(p) PROVE LockOK'
  BY <1>33 DEF ReconcileMatches
<1>34. ASSUME NEW p \in Processes, ReconcileFails(p) PROVE LockOK'
  BY <1>34 DEF ReconcileFails
<1>35. ASSUME NEW p \in Processes, Crash(p) PROVE LockOK'
  BY <1>35 DEF Crash
<1>36. ASSUME NEW d \in Docs, ForeignEdit(d) PROVE LockOK'
  BY <1>36 DEF ForeignEdit
<1> QED
  BY <1>0, <1>1, <1>2, <1>3, <1>4, <1>5, <1>6, <1>7, <1>8, <1>9, <1>10, <1>11, <1>12, <1>13,
     <1>14, <1>15, <1>16, <1>17, <1>18, <1>19, <1>20, <1>21, <1>22, <1>23, <1>24, <1>25, <1>26,
     <1>27, <1>28, <1>29, <1>30, <1>31, <1>32, <1>33, <1>34, <1>35, <1>36
     DEF Next, ProcessStep, OpenStep, RecoveryStep, CommitStep, SaveStep

LEMMA PlaceStep == TypeOK /\ LockOK /\ PlaceOK /\ RequestOK /\ [Next]_vars => PlaceOK'
<1> SUFFICES ASSUME TypeOK, LockOK, PlaceOK, RequestOK, [Next]_vars PROVE PlaceOK' OBVIOUS
<1>0. CASE UNCHANGED vars
  BY <1>0 DEF PlaceOK, OneJournal, Journalled, Prepared, vars, bounds, local
<1> USE DEF PlaceOK, OneJournal, bounds, local, Goto, Step, Put, Spared, Fault, Forget,
        SaveSucceeds, SaveFails, OpenFails, OperationFails, Raise, LockOK, Inside, Opening,
        Publishing, TypeOK, PC, Journalled, Prepared
<1>1. ASSUME NEW p \in Processes, Acquire(p) PROVE PlaceOK'
  BY <1>1 DEF Acquire
<1>2. ASSUME NEW p \in Processes, Busy(p) PROVE PlaceOK'
  BY <1>2 DEF Busy
<1>3. ASSUME NEW p \in Processes, LoadProject(p) PROVE PlaceOK'
  BY <1>3 DEF LoadProject
<1>4. ASSUME NEW p \in Processes, LoadVariant(p) PROVE PlaceOK'
  BY <1>4 DEF LoadVariant
<1>5. ASSUME NEW p \in Processes, LoadFails(p) PROVE PlaceOK'
  BY <1>5 DEF LoadFails
<1>6. ASSUME NEW p \in Processes, Activate(p) PROVE PlaceOK'
  BY <1>6 DEF Activate
<1>7. ASSUME NEW p \in Processes, ActivateFails(p) PROVE PlaceOK'
  BY <1>7 DEF ActivateFails
<1>8. ASSUME NEW p \in Processes, NewSave(p) PROVE PlaceOK'
  BY <1>8 DEF NewSave, Docs
<1>9. ASSUME NEW p \in Processes, Retry(p) PROVE PlaceOK'
  BY <1>9 DEF Retry
<1>10. ASSUME NEW p \in Processes, NothingPending(p) PROVE PlaceOK'
  BY <1>10 DEF NothingPending
<1>11. ASSUME NEW p \in Processes, RecoverResolved(p) PROVE PlaceOK'
  BY <1>11 DEF RecoverResolved
<1>12. ASSUME NEW p \in Processes, RecoverVariant(p) PROVE PlaceOK'
  BY <1>12 DEF RecoverVariant
<1>13. ASSUME NEW p \in Processes, RecoverVerified(p) PROVE PlaceOK'
  BY <1>13 DEF RecoverVerified
<1>14. ASSUME NEW p \in Processes, RecoverRefused(p) PROVE PlaceOK'
  BY <1>14 DEF RecoverRefused
<1>15. ASSUME NEW p \in Processes, RecoverFails(p) PROVE PlaceOK'
  BY <1>15 DEF RecoverFails
<1>16. ASSUME NEW p \in Processes, RemoveJournal(p) PROVE PlaceOK'
  BY <1>16 DEF RemoveJournal
<1>17. ASSUME NEW p \in Processes, RemoveFails(p) PROVE PlaceOK'
  BY <1>17 DEF RemoveFails
<1>18. ASSUME NEW p \in Processes, Compare(p) PROVE PlaceOK'
  <2>1. p \in lock /\ duty[p] = "save" /\ journals = {} /\ UNCHANGED <<journals, duty, request>>
    BY <1>18 DEF Compare
  <2>2. request[p].writes # {} /\ request[p].writes \subseteq Docs
    BY <2>1, <1>18 DEF Compare, RequestOK, Saving, SaveRequest
  <2>3. lock' \in {lock, {}} /\ \A q \in lock : q = p
    BY <1>18, <2>1 DEF Compare
  <2>4. lock' # {} => pc'[p] = IF Journalled(p) THEN "journal"
                             ELSE IF "variant" \in request[p].writes THEN "variant" ELSE "project"
    BY <1>18, <2>1, <2>3 DEF Compare
  <2> QED
    BY <2>1, <2>2, <2>3, <2>4 DEF Docs
<1>19. ASSUME NEW p \in Processes, CompareFails(p) PROVE PlaceOK'
  BY <1>19 DEF CompareFails
<1>20. ASSUME NEW p \in Processes, WriteJournal(p) PROVE PlaceOK'
  <2>1. p \in lock /\ duty[p] = "save" /\ journals = {} /\ Journalled(p)
    BY <1>20 DEF WriteJournal
  <2>2. lock' \in {lock, {}} /\ \A q \in lock : q = p
    BY <1>20, <2>1 DEF WriteJournal
  <2>3. journals' = {} \/ journals' = {Prepared(p)}
    BY <1>20, <2>1 DEF WriteJournal
  <2>4. lock' # {} => pc'[p] = "variant" /\ journals' = {Prepared(p)} /\ UNCHANGED <<read, duty, request>>
    BY <1>20, <2>1, <2>2 DEF WriteJournal
  <2> QED
    BY <2>1, <2>2, <2>3, <2>4 DEF Docs
<1>21. ASSUME NEW p \in Processes, WriteJournalFails(p) PROVE PlaceOK'
  BY <1>21 DEF WriteJournalFails
<1>22. ASSUME NEW p \in Processes, PublishVariant(p) PROVE PlaceOK'
  BY <1>22 DEF PublishVariant
<1>23. ASSUME NEW p \in Processes, PublishVariantFails(p) PROVE PlaceOK'
  BY <1>23 DEF PublishVariantFails
<1>24. ASSUME NEW p \in Processes, CheckVariant(p) PROVE PlaceOK'
  BY <1>24 DEF CheckVariant
<1>25. ASSUME NEW p \in Processes, PublishProject(p) PROVE PlaceOK'
  BY <1>25 DEF PublishProject
<1>26. ASSUME NEW p \in Processes, PublishProjectFails(p) PROVE PlaceOK'
  BY <1>26 DEF PublishProjectFails
<1>27. ASSUME NEW p \in Processes, CheckProject(p) PROVE PlaceOK'
  BY <1>27 DEF CheckProject
<1>28. ASSUME NEW p \in Processes, CheckFails(p) PROVE PlaceOK'
  BY <1>28 DEF CheckFails
<1>29. ASSUME NEW p \in Processes, Compensate(p) PROVE PlaceOK'
  BY <1>29 DEF Compensate
<1>30. ASSUME NEW p \in Processes, CompensateFails(p) PROVE PlaceOK'
  BY <1>30 DEF CompensateFails
<1>31. ASSUME NEW p \in Processes, Finish(p) PROVE PlaceOK'
  BY <1>31 DEF Finish
<1>32. ASSUME NEW p \in Processes, FinishUnclean(p) PROVE PlaceOK'
  BY <1>32 DEF FinishUnclean
<1>33. ASSUME NEW p \in Processes, ReconcileMatches(p) PROVE PlaceOK'
  BY <1>33 DEF ReconcileMatches
<1>34. ASSUME NEW p \in Processes, ReconcileFails(p) PROVE PlaceOK'
  BY <1>34 DEF ReconcileFails
<1>35. ASSUME NEW p \in Processes, Crash(p) PROVE PlaceOK'
  BY <1>35 DEF Crash
<1>36. ASSUME NEW d \in Docs, ForeignEdit(d) PROVE PlaceOK'
  BY <1>36 DEF ForeignEdit
<1> QED
  BY <1>0, <1>1, <1>2, <1>3, <1>4, <1>5, <1>6, <1>7, <1>8, <1>9, <1>10, <1>11, <1>12, <1>13,
     <1>14, <1>15, <1>16, <1>17, <1>18, <1>19, <1>20, <1>21, <1>22, <1>23, <1>24, <1>25, <1>26,
     <1>27, <1>28, <1>29, <1>30, <1>31, <1>32, <1>33, <1>34, <1>35, <1>36
     DEF Next, ProcessStep, OpenStep, RecoveryStep, CommitStep, SaveStep

LEMMA RequestStep == TypeOK /\ LockOK /\ PlaceOK /\ RequestOK /\ [Next]_vars => RequestOK'
<1> SUFFICES ASSUME TypeOK, LockOK, PlaceOK, RequestOK, [Next]_vars PROVE RequestOK' OBVIOUS
<1>0. CASE UNCHANGED vars
  BY <1>0 DEF RequestOK, Saving, RestsOn, vars, bounds, local
<1> USE DEF RequestOK, Saving, RestsOn, bounds, local, Goto, Step, Put, Spared, Fault, Forget,
        SaveSucceeds, SaveFails, OpenFails, OperationFails, Raise, LockOK, Inside, Opening,
        Publishing, TypeOK, PC, PlaceOK
<1>1. ASSUME NEW p \in Processes, Acquire(p) PROVE RequestOK'
  BY <1>1 DEF Acquire
<1>2. ASSUME NEW p \in Processes, Busy(p) PROVE RequestOK'
  BY <1>2 DEF Busy
<1>3. ASSUME NEW p \in Processes, LoadProject(p) PROVE RequestOK'
  BY <1>3 DEF LoadProject
<1>4. ASSUME NEW p \in Processes, LoadVariant(p) PROVE RequestOK'
  BY <1>4 DEF LoadVariant
<1>5. ASSUME NEW p \in Processes, LoadFails(p) PROVE RequestOK'
  BY <1>5 DEF LoadFails
<1>6. ASSUME NEW p \in Processes, Activate(p) PROVE RequestOK'
  BY <1>6 DEF Activate
<1>7. ASSUME NEW p \in Processes, ActivateFails(p) PROVE RequestOK'
  BY <1>7 DEF ActivateFails
<1>8. ASSUME NEW p \in Processes, NewSave(p) PROVE RequestOK'
  <2>1. PICK t \in Drafts \ used, W \in SUBSET Docs, step \in RevisionSteps, auto \in BOOLEAN :
          /\ W # {}
          /\ used' = used \cup {t}
          /\ request' = [request EXCEPT ![p] =
               [writes |-> W, automatic |-> auto,
                target |-> [d \in Docs |-> IF d \in W THEN [rev |-> known[p][d].rev + step, by |-> t]
                                                      ELSE known[p][d]]]]
    BY <1>8, Zenon DEF NewSave
  <2>2. /\ UNCHANGED <<lock, opened, known, read, duty>>
        /\ pc' = [pc EXCEPT ![p] = "saving"] /\ result' = [result EXCEPT ![p] = "none"]
        /\ p \in opened /\ p \notin lock
    BY <1>8 DEF NewSave
  <2>3. \A d \in Docs : known[p][d].rev \in Nat
    BY DEF Pair, Document
  <2>4. \A d \in Docs : RestsOn(p, d)'
    BY <2>1, <2>2, <2>3, StepAssumption
  <2>5. request'[p].writes # {} /\ \A q \in Processes : q # p => request'[q] = request[q]
    BY <2>1
  <2> QED
    BY <2>2, <2>4, <2>5
<1>9. ASSUME NEW p \in Processes, Retry(p) PROVE RequestOK'
  BY <1>9 DEF Retry
<1>10. ASSUME NEW p \in Processes, NothingPending(p) PROVE RequestOK'
  BY <1>10 DEF NothingPending
<1>11. ASSUME NEW p \in Processes, RecoverResolved(p) PROVE RequestOK'
  BY <1>11 DEF RecoverResolved
<1>12. ASSUME NEW p \in Processes, RecoverVariant(p) PROVE RequestOK'
  BY <1>12 DEF RecoverVariant
<1>13. ASSUME NEW p \in Processes, RecoverVerified(p) PROVE RequestOK'
  BY <1>13 DEF RecoverVerified
<1>14. ASSUME NEW p \in Processes, RecoverRefused(p) PROVE RequestOK'
  BY <1>14 DEF RecoverRefused
<1>15. ASSUME NEW p \in Processes, RecoverFails(p) PROVE RequestOK'
  BY <1>15 DEF RecoverFails
<1>16. ASSUME NEW p \in Processes, RemoveJournal(p) PROVE RequestOK'
  BY <1>16 DEF RemoveJournal
<1>17. ASSUME NEW p \in Processes, RemoveFails(p) PROVE RequestOK'
  BY <1>17 DEF RemoveFails
<1>18. ASSUME NEW p \in Processes, Compare(p) PROVE RequestOK'
  <2>1. p \in lock /\ UNCHANGED <<opened, known, duty, request>>
    BY <1>18 DEF Compare
  <2>2. lock' \in {lock, {}} /\ \A q \in lock : q = p
    BY <1>18, <2>1 DEF Compare
  <2>3. lock' # {} => \A d \in Docs : read'[p][d].rev = known[p][d].rev
    BY <1>18, <2>1, <2>2 DEF Compare, Stale
  <2>4. \A q \in Processes : Saving(q)' => Saving(q)
    BY <1>18 DEF Compare
  <2> QED
    BY <2>1, <2>2, <2>3, <2>4
<1>19. ASSUME NEW p \in Processes, CompareFails(p) PROVE RequestOK'
  BY <1>19 DEF CompareFails
<1>20. ASSUME NEW p \in Processes, WriteJournal(p) PROVE RequestOK'
  BY <1>20 DEF WriteJournal
<1>21. ASSUME NEW p \in Processes, WriteJournalFails(p) PROVE RequestOK'
  BY <1>21 DEF WriteJournalFails
<1>22. ASSUME NEW p \in Processes, PublishVariant(p) PROVE RequestOK'
  BY <1>22 DEF PublishVariant
<1>23. ASSUME NEW p \in Processes, PublishVariantFails(p) PROVE RequestOK'
  BY <1>23 DEF PublishVariantFails
<1>24. ASSUME NEW p \in Processes, CheckVariant(p) PROVE RequestOK'
  BY <1>24 DEF CheckVariant
<1>25. ASSUME NEW p \in Processes, PublishProject(p) PROVE RequestOK'
  BY <1>25 DEF PublishProject
<1>26. ASSUME NEW p \in Processes, PublishProjectFails(p) PROVE RequestOK'
  BY <1>26 DEF PublishProjectFails
<1>27. ASSUME NEW p \in Processes, CheckProject(p) PROVE RequestOK'
  BY <1>27 DEF CheckProject
<1>28. ASSUME NEW p \in Processes, CheckFails(p) PROVE RequestOK'
  BY <1>28 DEF CheckFails
<1>29. ASSUME NEW p \in Processes, Compensate(p) PROVE RequestOK'
  BY <1>29 DEF Compensate
<1>30. ASSUME NEW p \in Processes, CompensateFails(p) PROVE RequestOK'
  BY <1>30 DEF CompensateFails
<1>31. ASSUME NEW p \in Processes, Finish(p) PROVE RequestOK'
  BY <1>31 DEF Finish
<1>32. ASSUME NEW p \in Processes, FinishUnclean(p) PROVE RequestOK'
  BY <1>32 DEF FinishUnclean
<1>33. ASSUME NEW p \in Processes, ReconcileMatches(p) PROVE RequestOK'
  BY <1>33 DEF ReconcileMatches
<1>34. ASSUME NEW p \in Processes, ReconcileFails(p) PROVE RequestOK'
  BY <1>34 DEF ReconcileFails
<1>35. ASSUME NEW p \in Processes, Crash(p) PROVE RequestOK'
  BY <1>35 DEF Crash
<1>36. ASSUME NEW d \in Docs, ForeignEdit(d) PROVE RequestOK'
  BY <1>36 DEF ForeignEdit
<1> QED
  BY <1>0, <1>1, <1>2, <1>3, <1>4, <1>5, <1>6, <1>7, <1>8, <1>9, <1>10, <1>11, <1>12, <1>13,
     <1>14, <1>15, <1>16, <1>17, <1>18, <1>19, <1>20, <1>21, <1>22, <1>23, <1>24, <1>25, <1>26,
     <1>27, <1>28, <1>29, <1>30, <1>31, <1>32, <1>33, <1>34, <1>35, <1>36
     DEF Next, ProcessStep, OpenStep, RecoveryStep, CommitStep, SaveStep

LEMMA AuthorsStep == TypeOK /\ LockOK /\ PlaceOK /\ AuthorsOK /\ [Next]_vars => AuthorsOK'
<1> SUFFICES ASSUME TypeOK, LockOK, PlaceOK, AuthorsOK, [Next]_vars PROVE AuthorsOK' OBVIOUS
<1>0. CASE UNCHANGED vars
  BY <1>0 DEF AuthorsOK, vars, bounds, local
<1> USE DEF AuthorsOK, bounds, local, Goto, Step, Put, Spared, Fault, Forget, SaveSucceeds,
        SaveFails, OpenFails, OperationFails, Raise, LockOK, Inside, Opening, Publishing,
        TypeOK, PC, PlaceOK
<1>1. ASSUME NEW p \in Processes, Acquire(p) PROVE AuthorsOK'
  BY <1>1 DEF Acquire
<1>2. ASSUME NEW p \in Processes, Busy(p) PROVE AuthorsOK'
  BY <1>2 DEF Busy
<1>3. ASSUME NEW p \in Processes, LoadProject(p) PROVE AuthorsOK'
  BY <1>3 DEF LoadProject
<1>4. ASSUME NEW p \in Processes, LoadVariant(p) PROVE AuthorsOK'
  BY <1>4 DEF LoadVariant
<1>5. ASSUME NEW p \in Processes, LoadFails(p) PROVE AuthorsOK'
  BY <1>5 DEF LoadFails
<1>6. ASSUME NEW p \in Processes, Activate(p) PROVE AuthorsOK'
  BY <1>6 DEF Activate
<1>7. ASSUME NEW p \in Processes, ActivateFails(p) PROVE AuthorsOK'
  BY <1>7 DEF ActivateFails
<1>8. ASSUME NEW p \in Processes, NewSave(p) PROVE AuthorsOK'
  BY <1>8 DEF NewSave
<1>9. ASSUME NEW p \in Processes, Retry(p) PROVE AuthorsOK'
  BY <1>9 DEF Retry
<1>10. ASSUME NEW p \in Processes, NothingPending(p) PROVE AuthorsOK'
  BY <1>10 DEF NothingPending
<1>11. ASSUME NEW p \in Processes, RecoverResolved(p) PROVE AuthorsOK'
  BY <1>11 DEF RecoverResolved
<1>12. ASSUME NEW p \in Processes, RecoverVariant(p) PROVE AuthorsOK'
  BY <1>12 DEF RecoverVariant
<1>13. ASSUME NEW p \in Processes, RecoverVerified(p) PROVE AuthorsOK'
  BY <1>13 DEF RecoverVerified
<1>14. ASSUME NEW p \in Processes, RecoverRefused(p) PROVE AuthorsOK'
  BY <1>14 DEF RecoverRefused
<1>15. ASSUME NEW p \in Processes, RecoverFails(p) PROVE AuthorsOK'
  BY <1>15 DEF RecoverFails
<1>16. ASSUME NEW p \in Processes, RemoveJournal(p) PROVE AuthorsOK'
  BY <1>16 DEF RemoveJournal
<1>17. ASSUME NEW p \in Processes, RemoveFails(p) PROVE AuthorsOK'
  BY <1>17 DEF RemoveFails
<1>18. ASSUME NEW p \in Processes, Compare(p) PROVE AuthorsOK'
  BY <1>18 DEF Compare
<1>19. ASSUME NEW p \in Processes, CompareFails(p) PROVE AuthorsOK'
  BY <1>19 DEF CompareFails
<1>20. ASSUME NEW p \in Processes, WriteJournal(p) PROVE AuthorsOK'
  <2>1. p \in lock /\ journals = {} /\ request[p].writes = Docs /\ UNCHANGED <<request, used>>
    BY <1>20 DEF WriteJournal, Journalled
  <2>2. \A j \in journals' : j.target = request[p].target
    BY <1>20, <2>1 DEF WriteJournal, Prepared
  <2> QED
    BY <2>1, <2>2
<1>21. ASSUME NEW p \in Processes, WriteJournalFails(p) PROVE AuthorsOK'
  <2>1. p \in lock /\ journals = {} /\ request[p].writes = Docs /\ UNCHANGED <<request, used>>
    BY <1>21 DEF WriteJournalFails, Journalled
  <2>2. \A j \in journals' : j.target = request[p].target
    BY <1>21, <2>1 DEF WriteJournalFails, Prepared
  <2> QED
    BY <2>1, <2>2
<1>22. ASSUME NEW p \in Processes, PublishVariant(p) PROVE AuthorsOK'
  BY <1>22 DEF PublishVariant
<1>23. ASSUME NEW p \in Processes, PublishVariantFails(p) PROVE AuthorsOK'
  BY <1>23 DEF PublishVariantFails
<1>24. ASSUME NEW p \in Processes, CheckVariant(p) PROVE AuthorsOK'
  BY <1>24 DEF CheckVariant
<1>25. ASSUME NEW p \in Processes, PublishProject(p) PROVE AuthorsOK'
  BY <1>25 DEF PublishProject
<1>26. ASSUME NEW p \in Processes, PublishProjectFails(p) PROVE AuthorsOK'
  BY <1>26 DEF PublishProjectFails
<1>27. ASSUME NEW p \in Processes, CheckProject(p) PROVE AuthorsOK'
  BY <1>27 DEF CheckProject
<1>28. ASSUME NEW p \in Processes, CheckFails(p) PROVE AuthorsOK'
  BY <1>28 DEF CheckFails
<1>29. ASSUME NEW p \in Processes, Compensate(p) PROVE AuthorsOK'
  BY <1>29 DEF Compensate
<1>30. ASSUME NEW p \in Processes, CompensateFails(p) PROVE AuthorsOK'
  BY <1>30 DEF CompensateFails
<1>31. ASSUME NEW p \in Processes, Finish(p) PROVE AuthorsOK'
  BY <1>31 DEF Finish
<1>32. ASSUME NEW p \in Processes, FinishUnclean(p) PROVE AuthorsOK'
  BY <1>32 DEF FinishUnclean
<1>33. ASSUME NEW p \in Processes, ReconcileMatches(p) PROVE AuthorsOK'
  BY <1>33 DEF ReconcileMatches
<1>34. ASSUME NEW p \in Processes, ReconcileFails(p) PROVE AuthorsOK'
  BY <1>34 DEF ReconcileFails
<1>35. ASSUME NEW p \in Processes, Crash(p) PROVE AuthorsOK'
  BY <1>35 DEF Crash, NoRequest
<1>36. ASSUME NEW d \in Docs, ForeignEdit(d) PROVE AuthorsOK'
  BY <1>36 DEF ForeignEdit
<1> QED
  BY <1>0, <1>1, <1>2, <1>3, <1>4, <1>5, <1>6, <1>7, <1>8, <1>9, <1>10, <1>11, <1>12, <1>13,
     <1>14, <1>15, <1>16, <1>17, <1>18, <1>19, <1>20, <1>21, <1>22, <1>23, <1>24, <1>25, <1>26,
     <1>27, <1>28, <1>29, <1>30, <1>31, <1>32, <1>33, <1>34, <1>35, <1>36
     DEF Next, ProcessStep, OpenStep, RecoveryStep, CommitStep, SaveStep

LEMMA Reflexive == \A document : Follows(document, document)
BY DEF Follows

LEMMA Transitive ==
  ASSUME NEW a \in Document, NEW b \in Document, NEW c \in Document, Follows(a, b), Follows(b, c)
  PROVE  Follows(a, c)
BY DEF Follows, Document

\* What a save writes is newer than what it replaces.
LEMMA NewerThanRead ==
  ASSUME TypeOK, LockOK, PlaceOK, RequestOK, NEW p \in lock,
         pc[p] \in {"journal"} \cup Publishing, NEW d \in request[p].writes
  PROVE  d \in Docs /\ read[p][d].rev < request[p].target[d].rev
BY DEF TypeOK, SaveRequest, LockOK, PlaceOK, RequestOK, Saving, RestsOn, Inside, Publishing

LEMMA JournalStep ==
  TypeOK /\ LockOK /\ PlaceOK /\ RequestOK /\ JournalOK /\ [Next]_vars => JournalOK'
<1> SUFFICES ASSUME TypeOK, LockOK, PlaceOK, RequestOK, JournalOK, [Next]_vars
             PROVE  JournalOK' OBVIOUS
<1>0. CASE UNCHANGED vars
  BY <1>0 DEF JournalOK, Follows, vars, bounds, local
<1> USE DEF JournalOK, Follows, bounds, local, Goto, Step, Put, Spared, Fault, Forget,
        SaveSucceeds, SaveFails, OpenFails, OperationFails, Raise, LockOK, Inside, Opening,
        Publishing, PlaceOK
<1>1. ASSUME NEW p \in Processes, Acquire(p) PROVE JournalOK'
  BY <1>1 DEF Acquire
<1>2. ASSUME NEW p \in Processes, Busy(p) PROVE JournalOK'
  BY <1>2 DEF Busy
<1>3. ASSUME NEW p \in Processes, LoadProject(p) PROVE JournalOK'
  BY <1>3 DEF LoadProject
<1>4. ASSUME NEW p \in Processes, LoadVariant(p) PROVE JournalOK'
  BY <1>4 DEF LoadVariant
<1>5. ASSUME NEW p \in Processes, LoadFails(p) PROVE JournalOK'
  BY <1>5 DEF LoadFails
<1>6. ASSUME NEW p \in Processes, Activate(p) PROVE JournalOK'
  BY <1>6 DEF Activate
<1>7. ASSUME NEW p \in Processes, ActivateFails(p) PROVE JournalOK'
  BY <1>7 DEF ActivateFails
<1>8. ASSUME NEW p \in Processes, NewSave(p) PROVE JournalOK'
  BY <1>8 DEF NewSave
<1>9. ASSUME NEW p \in Processes, Retry(p) PROVE JournalOK'
  BY <1>9 DEF Retry
<1>10. ASSUME NEW p \in Processes, NothingPending(p) PROVE JournalOK'
  BY <1>10 DEF NothingPending
<1>11. ASSUME NEW p \in Processes, RecoverResolved(p) PROVE JournalOK'
  BY <1>11 DEF RecoverResolved
<1>12. ASSUME NEW p \in Processes, RecoverVariant(p) PROVE JournalOK'
  <2>1. disk'["project"] = disk["project"] /\ journals' = journals
    <3>1. UNCHANGED disk \/ \E doc : disk' = [disk EXCEPT !["variant"] = doc]
      BY <1>12 DEF RecoverVariant
    <3> QED
      BY <1>12, <3>1, PairTypes DEF RecoverVariant, TypeOK, Pair
  <2> QED
    BY <2>1
<1>13. ASSUME NEW p \in Processes, RecoverVerified(p) PROVE JournalOK'
  BY <1>13 DEF RecoverVerified
<1>14. ASSUME NEW p \in Processes, RecoverRefused(p) PROVE JournalOK'
  BY <1>14 DEF RecoverRefused
<1>15. ASSUME NEW p \in Processes, RecoverFails(p) PROVE JournalOK'
  <2>1. disk'["project"] = disk["project"] /\ journals' = journals
    <3>1. UNCHANGED disk \/ \E doc : disk' = [disk EXCEPT !["variant"] = doc]
      BY <1>15 DEF RecoverFails
    <3> QED
      BY <1>15, <3>1, PairTypes DEF RecoverFails, TypeOK, Pair
  <2> QED
    BY <2>1
<1>16. ASSUME NEW p \in Processes, RemoveJournal(p) PROVE JournalOK'
  BY <1>16 DEF RemoveJournal
<1>17. ASSUME NEW p \in Processes, RemoveFails(p) PROVE JournalOK'
  BY <1>17 DEF RemoveFails
<1>18. ASSUME NEW p \in Processes, Compare(p) PROVE JournalOK'
  BY <1>18 DEF Compare
<1>19. ASSUME NEW p \in Processes, CompareFails(p) PROVE JournalOK'
  BY <1>19 DEF CompareFails
<1>20. ASSUME NEW p \in Processes, WriteJournal(p) PROVE JournalOK'
  <2>1. CASE journals' = {}
    BY <2>1
  <2>2. CASE journals' # {}
    <3>1. /\ p \in lock /\ journals = {} /\ Journalled(p) /\ disk = read[p] /\ disk' = disk
          /\ journals' = {Prepared(p)} /\ pc[p] = "journal"
      BY <1>20, <2>2 DEF WriteJournal
    <3>2. \A d \in Docs : read[p][d].rev < request[p].target[d].rev
      BY <3>1, NewerThanRead DEF Journalled
    <3> QED
      BY <3>1, <3>2 DEF Prepared
  <2> QED
    BY <2>1, <2>2
<1>21. ASSUME NEW p \in Processes, WriteJournalFails(p) PROVE JournalOK'
  <2>1. CASE journals' = {}
    BY <2>1
  <2>2. CASE journals' # {}
    <3>1. /\ p \in lock /\ journals = {} /\ Journalled(p) /\ disk = read[p] /\ disk' = disk
          /\ journals' = {Prepared(p)} /\ pc[p] = "journal"
      BY <1>21, <2>2 DEF WriteJournalFails
    <3>2. \A d \in Docs : read[p][d].rev < request[p].target[d].rev
      BY <3>1, NewerThanRead DEF Journalled
    <3> QED
      BY <3>1, <3>2 DEF Prepared
  <2> QED
    BY <2>1, <2>2
<1>22. ASSUME NEW p \in Processes, PublishVariant(p) PROVE JournalOK'
  <2>1. disk'["project"] = disk["project"] /\ journals' = journals
    <3>1. UNCHANGED disk \/ \E doc : disk' = [disk EXCEPT !["variant"] = doc]
      BY <1>22 DEF PublishVariant
    <3> QED
      BY <1>22, <3>1, PairTypes DEF PublishVariant, TypeOK, Pair
  <2> QED
    BY <2>1
<1>23. ASSUME NEW p \in Processes, PublishVariantFails(p) PROVE JournalOK'
  BY <1>23 DEF PublishVariantFails
<1>24. ASSUME NEW p \in Processes, CheckVariant(p) PROVE JournalOK'
  BY <1>24 DEF CheckVariant
<1>25. ASSUME NEW p \in Processes, PublishProject(p) PROVE JournalOK'
  <2>1. CASE UNCHANGED disk
    BY <1>25, <2>1 DEF PublishProject
  <2>2. CASE ~UNCHANGED disk
    <3>1. p \in lock /\ disk' = [disk EXCEPT !["project"] = request[p].target["project"]]
          /\ journals' = journals /\ journals \in {{}, {Prepared(p)}}
      BY <1>25, <2>2 DEF PublishProject
    <3>2. disk'["project"] = request[p].target["project"]
      BY <3>1, PairTypes DEF TypeOK, Pair
    <3> QED
      BY <3>1, <3>2 DEF Prepared, Docs
  <2> QED
    BY <2>1, <2>2
<1>26. ASSUME NEW p \in Processes, PublishProjectFails(p) PROVE JournalOK'
  BY <1>26 DEF PublishProjectFails
<1>27. ASSUME NEW p \in Processes, CheckProject(p) PROVE JournalOK'
  BY <1>27 DEF CheckProject
<1>28. ASSUME NEW p \in Processes, CheckFails(p) PROVE JournalOK'
  BY <1>28 DEF CheckFails
<1>29. ASSUME NEW p \in Processes, Compensate(p) PROVE JournalOK'
  <2>1. disk'["project"] = disk["project"] /\ journals' = journals
    <3>1. UNCHANGED disk \/ \E doc : disk' = [disk EXCEPT !["variant"] = doc]
      BY <1>29 DEF Compensate
    <3> QED
      BY <1>29, <3>1, PairTypes DEF Compensate, TypeOK, Pair
  <2> QED
    BY <2>1
<1>30. ASSUME NEW p \in Processes, CompensateFails(p) PROVE JournalOK'
  BY <1>30 DEF CompensateFails
<1>31. ASSUME NEW p \in Processes, Finish(p) PROVE JournalOK'
  BY <1>31 DEF Finish
<1>32. ASSUME NEW p \in Processes, FinishUnclean(p) PROVE JournalOK'
  BY <1>32 DEF FinishUnclean
<1>33. ASSUME NEW p \in Processes, ReconcileMatches(p) PROVE JournalOK'
  BY <1>33 DEF ReconcileMatches
<1>34. ASSUME NEW p \in Processes, ReconcileFails(p) PROVE JournalOK'
  BY <1>34 DEF ReconcileFails
<1>35. ASSUME NEW p \in Processes, Crash(p) PROVE JournalOK'
  BY <1>35 DEF Crash
<1>36. ASSUME NEW d \in Docs, ForeignEdit(d) PROVE JournalOK'
  <2>1. disk' = [disk EXCEPT ![d] = [rev |-> disk[d].rev + 1, by |-> "foreign"]] /\ journals' = journals
    BY <1>36 DEF ForeignEdit
  <2>2. disk'["project"] = disk["project"] \/ disk'["project"].rev = disk["project"].rev + 1
    BY <2>1, PairTypes DEF TypeOK, Pair
  <2> QED
    BY <2>1, <2>2, PairTypes DEF TypeOK, Document
<1> QED
  BY <1>0, <1>1, <1>2, <1>3, <1>4, <1>5, <1>6, <1>7, <1>8, <1>9, <1>10, <1>11, <1>12, <1>13,
     <1>14, <1>15, <1>16, <1>17, <1>18, <1>19, <1>20, <1>21, <1>22, <1>23, <1>24, <1>25, <1>26,
     <1>27, <1>28, <1>29, <1>30, <1>31, <1>32, <1>33, <1>34, <1>35, <1>36
     DEF Next, ProcessStep, OpenStep, RecoveryStep, CommitStep, SaveStep

LEMMA StageStep ==
  TypeOK /\ LockOK /\ PlaceOK /\ RequestOK /\ StageOK /\ [Next]_vars => StageOK'
<1> SUFFICES ASSUME TypeOK, LockOK, PlaceOK, RequestOK, StageOK, [Next]_vars
             PROVE  StageOK' OBVIOUS
<1>0. CASE UNCHANGED vars
  BY <1>0 DEF StageOK, vars, bounds, local
<1> USE DEF StageOK, bounds, local, Goto, Step, Put, Spared, Fault, Forget, SaveSucceeds,
        SaveFails, OpenFails, OperationFails, Raise, LockOK, Inside, Opening, Publishing,
        PlaceOK, TypeOK, PC
<1>1. ASSUME NEW p \in Processes, Acquire(p) PROVE StageOK'
  BY <1>1, Reflexive DEF Acquire
<1>2. ASSUME NEW p \in Processes, Busy(p) PROVE StageOK'
  BY <1>2, Reflexive DEF Busy
<1>3. ASSUME NEW p \in Processes, LoadProject(p) PROVE StageOK'
  BY <1>3, Reflexive DEF LoadProject
<1>4. ASSUME NEW p \in Processes, LoadVariant(p) PROVE StageOK'
  BY <1>4, Reflexive DEF LoadVariant
<1>5. ASSUME NEW p \in Processes, LoadFails(p) PROVE StageOK'
  BY <1>5, Reflexive DEF LoadFails
<1>6. ASSUME NEW p \in Processes, Activate(p) PROVE StageOK'
  BY <1>6, Reflexive DEF Activate
<1>7. ASSUME NEW p \in Processes, ActivateFails(p) PROVE StageOK'
  BY <1>7, Reflexive DEF ActivateFails
<1>8. ASSUME NEW p \in Processes, NewSave(p) PROVE StageOK'
  BY <1>8, Reflexive DEF NewSave
<1>9. ASSUME NEW p \in Processes, Retry(p) PROVE StageOK'
  BY <1>9, Reflexive DEF Retry
<1>10. ASSUME NEW p \in Processes, NothingPending(p) PROVE StageOK'
  BY <1>10, Reflexive DEF NothingPending
<1>11. ASSUME NEW p \in Processes, RecoverResolved(p) PROVE StageOK'
  <2>1. /\ p \in lock /\ UNCHANGED <<disk, lock, duty, request>> /\ \A q \in lock : q = p
        /\ pc'[p] \in {"forward", "back"}
    BY <1>11 DEF RecoverResolved
  <2>2. pc'[p] = "forward" /\ duty[p] = "failed" => \A d \in Docs : request[p].target[d] = disk[d]
    BY <1>11 DEF RecoverResolved, AllTarget, IsTarget, Prepared
  <2> QED
    BY <2>1, <2>2, Reflexive
<1>12. ASSUME NEW p \in Processes, RecoverVariant(p) PROVE StageOK'
  BY <1>12, Reflexive DEF RecoverVariant
<1>13. ASSUME NEW p \in Processes, RecoverVerified(p) PROVE StageOK'
  BY <1>13, Reflexive DEF RecoverVerified
<1>14. ASSUME NEW p \in Processes, RecoverRefused(p) PROVE StageOK'
  BY <1>14, Reflexive DEF RecoverRefused
<1>15. ASSUME NEW p \in Processes, RecoverFails(p) PROVE StageOK'
  BY <1>15, Reflexive DEF RecoverFails
<1>16. ASSUME NEW p \in Processes, RemoveJournal(p) PROVE StageOK'
  BY <1>16, Reflexive DEF RemoveJournal
<1>17. ASSUME NEW p \in Processes, RemoveFails(p) PROVE StageOK'
  BY <1>17, Reflexive DEF RemoveFails
<1>18. ASSUME NEW p \in Processes, Compare(p) PROVE StageOK'
  BY <1>18, Reflexive DEF Compare
<1>19. ASSUME NEW p \in Processes, CompareFails(p) PROVE StageOK'
  BY <1>19, Reflexive DEF CompareFails
<1>20. ASSUME NEW p \in Processes, WriteJournal(p) PROVE StageOK'
  BY <1>20, Reflexive DEF WriteJournal
<1>21. ASSUME NEW p \in Processes, WriteJournalFails(p) PROVE StageOK'
  BY <1>21, Reflexive DEF WriteJournalFails
<1>22. ASSUME NEW p \in Processes, PublishVariant(p) PROVE StageOK'
  BY <1>22, Reflexive DEF PublishVariant
<1>23. ASSUME NEW p \in Processes, PublishVariantFails(p) PROVE StageOK'
  BY <1>23, Reflexive DEF PublishVariantFails
<1>24. ASSUME NEW p \in Processes, CheckVariant(p) PROVE StageOK'
  BY <1>24, Reflexive DEF CheckVariant
<1>25. ASSUME NEW p \in Processes, PublishProject(p) PROVE StageOK'
  <2>1. /\ p \in lock /\ pc[p] = "project" /\ \A q \in lock : q = p
        /\ pc'[p] \notin {"project", "finish", "forward"} /\ request' = request
        /\ lock' \subseteq lock
    BY <1>25 DEF PublishProject
  <2>2. disk'["variant"] = disk["variant"]
    <3>1. UNCHANGED disk \/ \E doc : disk' = [disk EXCEPT !["project"] = doc]
      BY <1>25 DEF PublishProject
    <3> QED
      BY <1>25, <3>1, PairTypes DEF PublishProject, Pair
  <2> QED
    BY <2>1, <2>2
<1>26. ASSUME NEW p \in Processes, PublishProjectFails(p) PROVE StageOK'
  BY <1>26, Reflexive DEF PublishProjectFails
<1>27. ASSUME NEW p \in Processes, CheckProject(p) PROVE StageOK'
  BY <1>27, Reflexive DEF CheckProject
<1>28. ASSUME NEW p \in Processes, CheckFails(p) PROVE StageOK'
  BY <1>28, Reflexive DEF CheckFails
<1>29. ASSUME NEW p \in Processes, Compensate(p) PROVE StageOK'
  BY <1>29, Reflexive DEF Compensate
<1>30. ASSUME NEW p \in Processes, CompensateFails(p) PROVE StageOK'
  BY <1>30, Reflexive DEF CompensateFails
<1>31. ASSUME NEW p \in Processes, Finish(p) PROVE StageOK'
  BY <1>31, Reflexive DEF Finish
<1>32. ASSUME NEW p \in Processes, FinishUnclean(p) PROVE StageOK'
  BY <1>32, Reflexive DEF FinishUnclean
<1>33. ASSUME NEW p \in Processes, ReconcileMatches(p) PROVE StageOK'
  BY <1>33, Reflexive DEF ReconcileMatches
<1>34. ASSUME NEW p \in Processes, ReconcileFails(p) PROVE StageOK'
  BY <1>34, Reflexive DEF ReconcileFails
<1>35. ASSUME NEW p \in Processes, Crash(p) PROVE StageOK'
  BY <1>35, Reflexive DEF Crash
<1>36. ASSUME NEW d \in Docs, ForeignEdit(d) PROVE StageOK'
  <2>1. /\ disk' = [disk EXCEPT ![d] = [rev |-> disk[d].rev + 1, by |-> "foreign"]]
        /\ UNCHANGED <<lock, pc, duty, request>>
    BY <1>36 DEF ForeignEdit
  <2>2. \A e \in Docs : disk'[e] = disk[e] \/ disk'[e].rev = disk[e].rev + 1
    BY <2>1, PairTypes DEF TypeOK, Pair
  <2>3. \A e \in Docs, q \in Processes : disk[e] \in Document /\ request[q].target[e] \in Document
    BY PairTypes
  <2>4. ASSUME NEW e \in Docs, NEW q \in Processes, Follows(request[q].target[e], disk[e])
        PROVE  Follows(request[q].target[e], disk'[e])
    BY <2>2, <2>3, <2>4 DEF Follows, Document
  <2> QED
    BY <2>1, <2>4, PairTypes
<1> QED
  BY <1>0, <1>1, <1>2, <1>3, <1>4, <1>5, <1>6, <1>7, <1>8, <1>9, <1>10, <1>11, <1>12, <1>13,
     <1>14, <1>15, <1>16, <1>17, <1>18, <1>19, <1>20, <1>21, <1>22, <1>23, <1>24, <1>25, <1>26,
     <1>27, <1>28, <1>29, <1>30, <1>31, <1>32, <1>33, <1>34, <1>35, <1>36
     DEF Next, ProcessStep, OpenStep, RecoveryStep, CommitStep, SaveStep

-----------------------------------------------------------------------------
(* What is committed: the preimage of a journal that is half way, else the *)
(* documents.                                                              *)

CommittedIs ==
  OneJournal => /\ \A j \in journals : HalfWay(j) => Committed = j.previous
                /\ (\A j \in journals : ~HalfWay(j)) => Committed = disk

LEMMA CommittedNow == CommittedIs
BY DEF CommittedIs, Committed, OneJournal

LEMMA CommittedNext == CommittedIs'
BY CommittedNow, PTL

LEMMA SameCommitted ==
  ASSUME UNCHANGED <<disk, journals>>
  PROVE  Committed' = Committed
BY DEF Committed, HalfWay, IsPrevious, IsTarget

LEMMA SamePair ==
  ASSUME NEW a \in Pair, NEW b \in Pair, a["project"] = b["project"], a["variant"] = b["variant"]
  PROVE  a = b
BY DEF Pair, Docs

LEMMA PutChanges ==
  ASSUME TypeOK, NEW d \in Docs, NEW doc, Put(d, doc)
  PROVE  disk'[d] = doc /\ \A e \in Docs : e # d => disk'[e] = disk[e]
BY DEF Put, TypeOK, Pair

\* The documents never fall behind what is committed, and the Project is always committed.
LEMMA CommittedBehind ==
  ASSUME TypeOK, OneJournal, JournalOK
  PROVE  /\ Committed \in Pair
         /\ Committed["project"] = disk["project"]
         /\ \A d \in Docs : Follows(Committed[d], disk[d])
<1>1. CASE \A j \in journals : ~HalfWay(j)
  BY <1>1, CommittedNow, Reflexive DEF CommittedIs, TypeOK
<1>2. ASSUME NEW j \in journals, HalfWay(j)
      PROVE  /\ Committed \in Pair
             /\ Committed["project"] = disk["project"]
             /\ \A d \in Docs : Follows(Committed[d], disk[d])
  <2>1. Committed = j.previous
    BY <1>2, CommittedNow DEF CommittedIs
  <2>2. disk["project"] = j.previous["project"] /\ disk["variant"] = j.target["variant"]
    BY <1>2 DEF HalfWay, IsPrevious, IsTarget
  <2>3. j.previous["variant"].rev < j.target["variant"].rev
    BY DEF JournalOK, Docs
  <2> QED
    BY <2>1, <2>2, <2>3, PairTypes DEF Follows, Docs
<1> QED
  BY <1>1, <1>2

BehindIs == TypeOK /\ OneJournal /\ JournalOK => Committed \in Pair

LEMMA BehindNow == BehindIs
BY CommittedBehind DEF BehindIs

LEMMA BehindNext == BehindIs'
BY BehindNow, PTL

\* Once its Project is replaced, a journal is past half way for good.
LEMMA NotHalfWay ==
  ASSUME NEW j, disk["project"] # j.previous["project"] \/ disk["variant"] # j.target["variant"]
                \/ disk["variant"] = j.previous["variant"]
  PROVE  ~HalfWay(j)
BY DEF HalfWay, IsPrevious, IsTarget

Grows == \A d \in Docs : Follows(Committed[d], Committed'[d])

\* Without a pending journal that is half way, a step that moves the documents forward
\* moves what is committed forward.
LEMMA GrowsWithDisk ==
  ASSUME TypeOK, TypeOK', OneJournal, OneJournal', JournalOK,
         \A d \in Docs : Follows(disk[d], disk'[d]), \A j \in journals' : ~HalfWay(j)'
  PROVE  Grows
<1>1. Committed' = disk'
  BY CommittedNext DEF CommittedIs
<1>2. disk \in Pair /\ disk' \in Pair
  BY DEF TypeOK
<1> QED
  BY <1>1, <1>2, CommittedBehind, Transitive DEF Grows, Pair

\* Restoring the Variant of a half-way journal does not show.
LEMMA RecoverKeeps ==
  ASSUME TypeOK, PlaceOK, PlaceOK', NEW p \in Processes, RecoverVariant(p) \/ RecoverFails(p)
  PROVE  Committed' = Committed
<1>1. journals' = journals
  BY DEF RecoverVariant, RecoverFails
<1>2. CASE UNCHANGED disk
  BY <1>1, <1>2, SameCommitted
<1>3. ASSUME NEW j \in journals, HalfWay(j), Put("variant", j.previous["variant"])
      PROVE  Committed' = Committed
  <2>1. \A i \in journals' : i = j
    BY <1>1 DEF PlaceOK, OneJournal
  <2>2. disk'["variant"] = j.previous["variant"] /\ disk'["project"] = j.previous["project"]
    BY <1>3, PutChanges, PairTypes DEF HalfWay, IsPrevious
  <2>3. Committed = j.previous /\ Committed' = disk'
    BY <1>3, <2>1, <2>2, CommittedNow, CommittedNext
       DEF CommittedIs, PlaceOK, HalfWay, IsTarget, IsPrevious
  <2>4. j.previous \in Pair /\ DOMAIN disk' = Docs /\ disk' = [d \in Docs |-> disk'[d]]
    BY <1>3, PairTypes DEF Put, TypeOK, Pair
  <2>5. j.previous = [d \in Docs |-> j.previous[d]]
    BY <2>4 DEF Pair
  <2> QED
    BY <2>2, <2>3, <2>4, <2>5 DEF Docs
<1> QED
  BY <1>2, <1>3 DEF RecoverVariant, RecoverFails

LEMMA CommittedStep ==
  ASSUME TypeOK, LockOK, PlaceOK, RequestOK, AuthorsOK, JournalOK,
         TypeOK', LockOK', PlaceOK', JournalOK', Next
  PROVE  Grows \/ \E p \in Processes : Compensate(p)
<1>0. OneJournal /\ OneJournal'
  BY DEF PlaceOK
<1> USE DEF bounds, local
<1>1. ASSUME UNCHANGED <<disk, journals>> PROVE Grows
  BY <1>1, SameCommitted, Reflexive DEF Grows
<1>2. ASSUME NEW p \in Processes, RecoverVariant(p) \/ RecoverFails(p) PROVE Grows
  BY <1>2, RecoverKeeps, Reflexive DEF Grows
<1>3. ASSUME UNCHANGED disk, journals' = {} PROVE Grows
  BY <1>3, <1>0, GrowsWithDisk, Reflexive
<1>4. ASSUME NEW p \in Processes, WriteJournal(p) \/ WriteJournalFails(p), ~UNCHANGED journals PROVE Grows
  <2>1. journals' = journals \cup {Prepared(p)} /\ disk = read[p] /\ disk' = disk /\ journals = {}
    BY <1>4 DEF WriteJournal, WriteJournalFails, LockOK, PlaceOK, Inside
  <2>2. \A j \in journals' : ~HalfWay(j)'
    BY <2>1 DEF Prepared, HalfWay, IsPrevious, IsTarget
  <2> QED
    BY <1>0, <2>1, <2>2, GrowsWithDisk, Reflexive
<1>5. ASSUME NEW p \in Processes, PublishVariant(p), ~UNCHANGED disk PROVE Grows
  <2>1. /\ p \in lock /\ "variant" \in request[p].writes /\ pc[p] = "variant" /\ journals' = journals
        /\ disk["variant"] = read[p]["variant"] /\ Put("variant", request[p].target["variant"])
    BY <1>5 DEF PublishVariant, LockOK, PlaceOK, Inside, Publishing
  <2>2. disk'["variant"] = request[p].target["variant"] /\ disk'["project"] = disk["project"]
    BY <2>1, PutChanges, PairTypes
  <2>3. \A d \in Docs : Follows(disk[d], disk'[d])
    BY <2>1, <2>2, NewerThanRead, Reflexive DEF Publishing, Follows, Docs
  <2>4. CASE \A j \in journals' : ~HalfWay(j)'
    BY <1>0, <2>3, <2>4, GrowsWithDisk
  <2>5. ASSUME NEW j \in journals, HalfWay(j)' PROVE Grows
    <3>1. Committed' = j.previous
      BY <1>0, <2>1, <2>5, CommittedNext DEF CommittedIs
    <3>2. j = Prepared(p)
      BY <2>1 DEF PlaceOK, Publishing
    <3>3. Committed = disk
      BY <1>0, <2>1, <3>2, CommittedNow, NotHalfWay DEF CommittedIs, Prepared, OneJournal
    <3>4. disk = j.previous
      <4>1. disk["project"] = j.previous["project"] /\ disk["variant"] = j.previous["variant"]
        BY <2>1, <2>2, <2>5, <3>2 DEF HalfWay, IsPrevious, Prepared
      <4> QED
        BY <4>1, PairTypes, SamePair DEF TypeOK
    <3> QED
      BY <3>1, <3>3, <3>4, Reflexive DEF Grows
  <2> QED
    BY <2>1, <2>4, <2>5
<1>6. ASSUME NEW p \in Processes, PublishProject(p), ~UNCHANGED disk PROVE Grows
  <2>1. /\ p \in lock /\ "project" \in request[p].writes /\ pc[p] = "project" /\ journals' = journals
        /\ disk["project"] = read[p]["project"] /\ Put("project", request[p].target["project"])
    BY <1>6 DEF PublishProject, LockOK, PlaceOK, Inside, Publishing
  <2>2. disk'["project"] = request[p].target["project"] /\ disk'["variant"] = disk["variant"]
    BY <2>1, PutChanges, PairTypes
  <2>3. read[p]["project"].rev < request[p].target["project"].rev
    BY <2>1, NewerThanRead DEF Publishing
  <2>4. \A d \in Docs : Follows(disk[d], disk'[d])
    BY <2>1, <2>2, <2>3, Reflexive DEF Follows, Docs
  <2>5. \A j \in journals' : ~HalfWay(j)'
    <3>1. \A j \in journals : j = Prepared(p)
      BY <2>1 DEF PlaceOK, Publishing
    <3>2. request[p].target["project"] # read[p]["project"]
      BY <2>3, PairTypes DEF TypeOK, Document
    <3> QED
      BY <2>1, <2>2, <3>1, <3>2 DEF HalfWay, IsPrevious, Prepared
  <2> QED
    BY <1>0, <2>4, <2>5, GrowsWithDisk
<1>7. ASSUME NEW d \in Docs, ForeignEdit(d) PROVE Grows
  <2>1. Put(d, [rev |-> disk[d].rev + 1, by |-> "foreign"]) /\ journals' = journals
    BY <1>7 DEF ForeignEdit
  <2>2. /\ disk'[d] = [rev |-> disk[d].rev + 1, by |-> "foreign"]
        /\ \A e \in Docs : e # d => disk'[e] = disk[e]
    BY <2>1, PutChanges
  <2>3. \A e \in Docs : disk[e].rev \in Nat
    BY PairTypes DEF TypeOK, Document
  <2>4. \A e \in Docs : Follows(disk[e], disk'[e])
    BY <2>2, <2>3 DEF Follows
  <2>5. \A j \in journals : ~HalfWay(j)'
    <3> SUFFICES ASSUME NEW j \in journals PROVE ~HalfWay(j)'
      OBVIOUS
    <3>1. CASE d = "project"
      <4>1. j.previous["project"].rev <= disk["project"].rev /\ j.previous["project"].rev \in Nat
        BY <2>3, PairTypes DEF JournalOK, Follows, Document
      <4>2. disk'["project"] # j.previous["project"]
        BY <2>2, <2>3, <3>1, <4>1
      <4> QED
        BY <2>1, <4>2 DEF HalfWay, IsPrevious
    <3>2. CASE d = "variant"
      <4>1. j.target["variant"].by # "foreign"
        BY AuthorAssumption, PairTypes DEF AuthorsOK, TypeOK
      <4> QED
        BY <2>1, <2>2, <3>2, <4>1 DEF HalfWay, IsTarget
    <3> QED
      BY <3>1, <3>2 DEF Docs
  <2> QED
    BY <1>0, <2>1, <2>4, <2>5, GrowsWithDisk
<1>8. ASSUME NEW p \in Processes,
             Acquire(p) \/ Busy(p) \/ LoadProject(p) \/ LoadVariant(p) \/ LoadFails(p)
             \/ Activate(p) \/ ActivateFails(p) \/ NewSave(p) \/ Retry(p) \/ NothingPending(p)
             \/ RecoverResolved(p) \/ RecoverVerified(p) \/ RecoverRefused(p) \/ Compare(p)
             \/ CompareFails(p) \/ PublishVariantFails(p) \/ CheckVariant(p)
             \/ PublishProjectFails(p) \/ CheckProject(p) \/ CheckFails(p)
             \/ CompensateFails(p) \/ FinishUnclean(p) \/ ReconcileMatches(p)
             \/ ReconcileFails(p) \/ Crash(p)
      PROVE  UNCHANGED <<disk, journals>>
  BY <1>8 DEF Acquire, Busy, LoadProject, LoadVariant, LoadFails, Activate, ActivateFails,
     NewSave,
         Retry, NothingPending, RecoverResolved, RecoverVerified, RecoverRefused, Compare,
         CompareFails, PublishVariantFails, CheckVariant, PublishProjectFails, CheckProject,
         CheckFails, CompensateFails, FinishUnclean, ReconcileMatches, ReconcileFails, Crash
<1>9. ASSUME NEW p \in Processes, RemoveJournal(p) \/ RemoveFails(p) \/ Finish(p)
      PROVE  UNCHANGED disk /\ (UNCHANGED journals \/ journals' = {})
  <2>1. UNCHANGED disk
    BY <1>9 DEF RemoveJournal, RemoveFails, Finish
  <2>2. UNCHANGED journals \/ \E j : journals' = journals \ {j}
    BY <1>9 DEF RemoveJournal, RemoveFails, Finish
  <2> QED
    BY <1>0, <2>1, <2>2 DEF OneJournal
<1>10. ASSUME NEW p \in Processes,
              RecoverVariant(p) \/ RecoverFails(p) \/ PublishVariant(p) \/ PublishProject(p)
       PROVE  UNCHANGED journals
  BY <1>10 DEF RecoverVariant, RecoverFails, PublishVariant, PublishProject
<1>11. ASSUME NEW p \in Processes, WriteJournal(p) \/ WriteJournalFails(p) PROVE UNCHANGED disk
  BY <1>11 DEF WriteJournal, WriteJournalFails
<1>12. ASSUME NEW p \in Processes, ProcessStep(p) \/ Crash(p) PROVE Grows \/ Compensate(p)
  <2>1. CASE RecoverVariant(p) \/ RecoverFails(p) \/ PublishVariant(p) \/ PublishProject(p)
    BY <1>1, <1>2, <1>5, <1>6, <1>10, <2>1
  <2>2. CASE WriteJournal(p) \/ WriteJournalFails(p)
    BY <1>1, <1>4, <1>11, <2>2
  <2>3. CASE RemoveJournal(p) \/ RemoveFails(p) \/ Finish(p)
    BY <1>1, <1>3, <1>9, <2>3
  <2>4. CASE UNCHANGED <<disk, journals>>
    BY <1>1, <2>4
  <2> QED
    BY <1>8, <1>12, <2>1, <2>2, <2>3, <2>4
       DEF ProcessStep, OpenStep, RecoveryStep, CommitStep, SaveStep
<1> QED
  BY <1>7, <1>12 DEF Next

\* A half-way journal and an automatic save that finds its target: the Variant would be both
\* the journal's target and, at the latest, what the process knew before.
LEMMA ReconcileSees ==
  ASSUME TypeOK, PlaceOK, RequestOK, AuthorsOK, JournalOK, KnownOK,
         NEW p \in Processes, pc[p] = "reconcile", PersistedMatches(p)
  PROVE  Committed = disk
<1>1. SUFFICES ASSUME NEW j \in journals, HalfWay(j) PROVE FALSE
  BY CommittedNow DEF CommittedIs, PlaceOK
<1>2. /\ disk["project"] = j.previous["project"] /\ disk["variant"] = j.target["variant"]
      /\ disk = request[p].target
  BY <1>1 DEF HalfWay, IsPrevious, IsTarget, PersistedMatches
<1>3. /\ p \in opened /\ \A d \in Docs : RestsOn(p, d)
      /\ \A d \in Docs : j.previous[d].rev < j.target[d].rev
      /\ "project" \in Docs /\ "variant" \in Docs
  BY PairTypes DEF RequestOK, Saving, JournalOK
<1>4. Committed = j.previous
  BY <1>1, CommittedNow DEF CommittedIs, PlaceOK
<1>5. CASE "variant" \in request[p].writes
  <2>1. j.target = request[p].target
    BY <1>2, <1>3, <1>5 DEF AuthorsOK
  <2> QED
    BY <1>2, <1>3, <2>1, PairTypes DEF Document
<1>6. CASE "variant" \notin request[p].writes
  <2>1. known[p]["variant"] = j.target["variant"]
    BY <1>2, <1>3, <1>6 DEF RestsOn
  <2>2. Follows(j.target["variant"], j.previous["variant"])
    BY <1>3, <1>4, <2>1 DEF KnownOK
  <2> QED
    BY <1>3, <2>2, PairTypes DEF Follows, Document
<1> QED
  BY <1>5, <1>6

Succeeds(p) ==
  \/ Finish(p) \/ FinishUnclean(p)
  \/ RemoveJournal(p) /\ pc[p] = "forward" /\ duty[p] = "failed"

\* When a save reports success, what it wrote is in force, or was edited since.
LEMMA SavedIsThere ==
  ASSUME TypeOK, LockOK, PlaceOK, RequestOK, JournalOK, KnownOK, StageOK,
         NEW p \in Processes, Succeeds(p), NEW d \in Docs
  PROVE  Follows(request[p].target[d], Committed[d])
<1>1. p \in lock /\ pc[p] \in {"finish", "forward"} /\ (pc[p] = "forward" => duty[p] = "failed")
  BY DEF Succeeds, Finish, FinishUnclean, RemoveJournal, LockOK, Inside, Publishing, Opening
<1>2. journals = IF Journalled(p) THEN {Prepared(p)} ELSE {}
  BY <1>1 DEF PlaceOK, Publishing, Opening
<1>3. p \in opened /\ RestsOn(p, d)
  <2>1. duty[p] # "open"
    BY <1>1 DEF PlaceOK, Publishing
  <2>2. Saving(p)
    BY <1>1, <2>1 DEF Saving, Inside, Publishing, Opening
  <2> QED
    BY <2>2 DEF RequestOK
<1>4. CASE d \notin request[p].writes
  BY <1>3, <1>4 DEF RestsOn, KnownOK
<1>5. CASE d \in request[p].writes
  <2>1. \A e \in request[p].writes : e \in Docs => Follows(request[p].target[e], disk[e])
    BY <1>1, <1>2 DEF StageOK, Docs
  <2>2. \A j \in journals : ~HalfWay(j)
    <3> SUFFICES ASSUME NEW j \in journals PROVE ~HalfWay(j)
      OBVIOUS
    <3>1. j = Prepared(p) /\ request[p].writes = Docs
      BY <1>2 DEF Journalled
    <3>2. Follows(j.target["project"], disk["project"])
      BY <2>1, <3>1, PairTypes DEF Prepared
    <3>3. j.previous["project"].rev < j.target["project"].rev
      BY PairTypes DEF JournalOK
    <3>4. disk["project"] # j.previous["project"]
      BY <3>2, <3>3, PairTypes DEF Follows, Document, TypeOK
    <3> QED
      BY <3>4 DEF HalfWay, IsPrevious
  <2>3. Committed = disk
    BY <2>2, CommittedNow DEF CommittedIs, PlaceOK
  <2> QED
    BY <1>5, <2>1, <2>3
<1> QED
  BY <1>4, <1>5

\* Who learns of documents, and which.
LEMMA Taught ==
  ASSUME TypeOK, Next, NEW q \in Processes, q \in opened' \ opened \/ known'[q] # known[q]
  PROVE  \/ Activate(q) /\ SameCandidate(q) /\ known'[q] = read[q]
         \/ (Succeeds(q) \/ ReconcileMatches(q)) /\ known'[q] = request[q].target
<1> USE DEF bounds, local
<1>1. ASSUME NEW p \in Processes, Activate(p)
      PROVE  q = p /\ SameCandidate(q) /\ known'[q] = read[q]
  BY <1>1 DEF Activate, TypeOK
<1>2. ASSUME NEW p \in Processes, Finish(p) \/ FinishUnclean(p)
      PROVE  q = p /\ Succeeds(q) /\ known'[q] = request[q].target
  BY <1>2 DEF Finish, FinishUnclean, SaveSucceeds, Succeeds, TypeOK
<1>3. ASSUME NEW p \in Processes, RemoveJournal(p)
      PROVE  q = p /\ Succeeds(q) /\ known'[q] = request[q].target
  BY <1>3 DEF RemoveJournal, SaveSucceeds, SaveFails, Succeeds, TypeOK
<1>4. ASSUME NEW p \in Processes, ReconcileMatches(p)
      PROVE  q = p /\ known'[q] = request[q].target
  BY <1>4 DEF ReconcileMatches, TypeOK
<1>5. ASSUME NEW p \in Processes,
             Acquire(p) \/ Busy(p) \/ LoadProject(p) \/ LoadVariant(p) \/ LoadFails(p)
             \/ ActivateFails(p) \/ NewSave(p) \/ Retry(p) \/ NothingPending(p)
             \/ RecoverResolved(p) \/ RecoverVariant(p) \/ RecoverVerified(p)
             \/ RecoverRefused(p) \/ RecoverFails(p) \/ RemoveFails(p) \/ Compare(p)
             \/ CompareFails(p) \/ WriteJournal(p) \/ WriteJournalFails(p)
             \/ PublishVariant(p) \/ PublishVariantFails(p) \/ CheckVariant(p)
             \/ PublishProject(p) \/ PublishProjectFails(p) \/ CheckProject(p)
             \/ CheckFails(p) \/ Compensate(p) \/ CompensateFails(p) \/ ReconcileFails(p)
             \/ Crash(p)
      PROVE  FALSE
  BY <1>5 DEF Acquire, Busy, LoadProject, LoadVariant, LoadFails, ActivateFails, NewSave, Retry,
         NothingPending, RecoverResolved, RecoverVariant, RecoverVerified, RecoverRefused,
         RecoverFails, RemoveFails, Compare, CompareFails, WriteJournal, WriteJournalFails,
         PublishVariant, PublishVariantFails, CheckVariant, PublishProject,
         PublishProjectFails, CheckProject, CheckFails, Compensate, CompensateFails,
         ReconcileFails, Crash,
         SaveFails, OpenFails, OperationFails, Raise
<1>6. ASSUME NEW d \in Docs, ForeignEdit(d) PROVE FALSE
  BY <1>6 DEF ForeignEdit
<1>7. PICK p \in Processes : ProcessStep(p) \/ Crash(p)
  BY <1>6 DEF Next
<1>8. \/ Activate(p) \/ Finish(p) \/ FinishUnclean(p) \/ RemoveJournal(p) \/ ReconcileMatches(p)
  BY <1>5, <1>7 DEF ProcessStep, OpenStep, RecoveryStep, CommitStep, SaveStep
<1> QED
  BY <1>1, <1>2, <1>3, <1>4, <1>8


LEMMA HeldStep ==
  TypeOK /\ LockOK /\ PlaceOK /\ KnownOK /\ HeldOK /\ [Next]_vars => HeldOK'
<1> SUFFICES ASSUME TypeOK, LockOK, PlaceOK, KnownOK, HeldOK, [Next]_vars PROVE HeldOK' OBVIOUS
<1>0. CASE UNCHANGED vars
  BY <1>0 DEF HeldOK, Journalled, vars, bounds, local
<1> USE DEF HeldOK, bounds, local, Goto, Step, Put, Spared, Fault, Forget, SaveSucceeds,
        SaveFails, OpenFails, OperationFails, Raise, LockOK, Inside, Opening, Publishing,
        PlaceOK, TypeOK, PC, Journalled
<1>1. ASSUME NEW p \in Processes, Acquire(p) PROVE HeldOK'
  BY <1>1 DEF Acquire
<1>2. ASSUME NEW p \in Processes, Busy(p) PROVE HeldOK'
  BY <1>2 DEF Busy
<1>3. ASSUME NEW p \in Processes, LoadProject(p) PROVE HeldOK'
  BY <1>3 DEF LoadProject
<1>4. ASSUME NEW p \in Processes, LoadVariant(p) PROVE HeldOK'
  BY <1>4 DEF LoadVariant
<1>5. ASSUME NEW p \in Processes, LoadFails(p) PROVE HeldOK'
  BY <1>5 DEF LoadFails
<1>6. ASSUME NEW p \in Processes, Activate(p) PROVE HeldOK'
  BY <1>6 DEF Activate
<1>7. ASSUME NEW p \in Processes, ActivateFails(p) PROVE HeldOK'
  BY <1>7 DEF ActivateFails
<1>8. ASSUME NEW p \in Processes, NewSave(p) PROVE HeldOK'
  BY <1>8 DEF NewSave
<1>9. ASSUME NEW p \in Processes, Retry(p) PROVE HeldOK'
  BY <1>9 DEF Retry
<1>10. ASSUME NEW p \in Processes, NothingPending(p) PROVE HeldOK'
  BY <1>10 DEF NothingPending
<1>11. ASSUME NEW p \in Processes, RecoverResolved(p) PROVE HeldOK'
  BY <1>11 DEF RecoverResolved
<1>12. ASSUME NEW p \in Processes, RecoverVariant(p) PROVE HeldOK'
  BY <1>12 DEF RecoverVariant
<1>13. ASSUME NEW p \in Processes, RecoverVerified(p) PROVE HeldOK'
  BY <1>13 DEF RecoverVerified
<1>14. ASSUME NEW p \in Processes, RecoverRefused(p) PROVE HeldOK'
  BY <1>14 DEF RecoverRefused
<1>15. ASSUME NEW p \in Processes, RecoverFails(p) PROVE HeldOK'
  BY <1>15 DEF RecoverFails
<1>16. ASSUME NEW p \in Processes, RemoveJournal(p) PROVE HeldOK'
  BY <1>16 DEF RemoveJournal
<1>17. ASSUME NEW p \in Processes, RemoveFails(p) PROVE HeldOK'
  BY <1>17 DEF RemoveFails
<1>18. ASSUME NEW p \in Processes, Compare(p) PROVE HeldOK'
  BY <1>18 DEF Compare
<1>19. ASSUME NEW p \in Processes, CompareFails(p) PROVE HeldOK'
  BY <1>19 DEF CompareFails
<1>20. ASSUME NEW p \in Processes, WriteJournal(p) PROVE HeldOK'
  BY <1>20 DEF WriteJournal
<1>21. ASSUME NEW p \in Processes, WriteJournalFails(p) PROVE HeldOK'
  BY <1>21 DEF WriteJournalFails
<1>22. ASSUME NEW p \in Processes, PublishVariant(p) PROVE HeldOK'
  <2>1. /\ UNCHANGED <<known, opened, read, request>> \/ lock' = {} \/ pc'[p] = "recover"
        /\ p \in lock /\ pc[p] = "variant" /\ \A q \in lock : q = p
    BY <1>22 DEF PublishVariant
  <2>2. lock' \subseteq lock
    BY <1>22 DEF PublishVariant
  <2>3. CASE disk["variant"] = read[p]["variant"]
    <3>1. \A j \in journals : ~HalfWay(j)
      BY <2>1, <2>3, NotHalfWay DEF Prepared
    <3>2. Committed = disk
      BY <3>1, CommittedNow DEF CommittedIs
    <3>3. \A q \in opened : Follows(known[q]["variant"], read[p]["variant"])
      BY <2>3, <3>2, PairTypes DEF KnownOK
    <3> QED
      BY <1>22, <2>1, <2>2, <2>3, <3>3 DEF PublishVariant
  <2>4. CASE disk["variant"] # read[p]["variant"]
    BY <1>22, <2>1, <2>2, <2>4 DEF PublishVariant
  <2> QED
    BY <2>3, <2>4
<1>23. ASSUME NEW p \in Processes, PublishVariantFails(p) PROVE HeldOK'
  BY <1>23 DEF PublishVariantFails
<1>24. ASSUME NEW p \in Processes, CheckVariant(p) PROVE HeldOK'
  BY <1>24 DEF CheckVariant
<1>25. ASSUME NEW p \in Processes, PublishProject(p) PROVE HeldOK'
  BY <1>25 DEF PublishProject
<1>26. ASSUME NEW p \in Processes, PublishProjectFails(p) PROVE HeldOK'
  BY <1>26 DEF PublishProjectFails
<1>27. ASSUME NEW p \in Processes, CheckProject(p) PROVE HeldOK'
  BY <1>27 DEF CheckProject
<1>28. ASSUME NEW p \in Processes, CheckFails(p) PROVE HeldOK'
  BY <1>28 DEF CheckFails
<1>29. ASSUME NEW p \in Processes, Compensate(p) PROVE HeldOK'
  BY <1>29 DEF Compensate
<1>30. ASSUME NEW p \in Processes, CompensateFails(p) PROVE HeldOK'
  BY <1>30 DEF CompensateFails
<1>31. ASSUME NEW p \in Processes, Finish(p) PROVE HeldOK'
  BY <1>31 DEF Finish
<1>32. ASSUME NEW p \in Processes, FinishUnclean(p) PROVE HeldOK'
  BY <1>32 DEF FinishUnclean
<1>33. ASSUME NEW p \in Processes, ReconcileMatches(p) PROVE HeldOK'
  BY <1>33 DEF ReconcileMatches
<1>34. ASSUME NEW p \in Processes, ReconcileFails(p) PROVE HeldOK'
  BY <1>34 DEF ReconcileFails
<1>35. ASSUME NEW p \in Processes, Crash(p) PROVE HeldOK'
  BY <1>35 DEF Crash
<1>36. ASSUME NEW d \in Docs, ForeignEdit(d) PROVE HeldOK'
  BY <1>36 DEF ForeignEdit
<1> QED
  BY <1>0, <1>1, <1>2, <1>3, <1>4, <1>5, <1>6, <1>7, <1>8, <1>9, <1>10, <1>11, <1>12, <1>13,
     <1>14, <1>15, <1>16, <1>17, <1>18, <1>19, <1>20, <1>21, <1>22, <1>23, <1>24, <1>25, <1>26,
     <1>27, <1>28, <1>29, <1>30, <1>31, <1>32, <1>33, <1>34, <1>35, <1>36
     DEF Next, ProcessStep, OpenStep, RecoveryStep, CommitStep, SaveStep

\* A compensation puts back what nobody's knowledge is ahead of.
LEMMA CompensateKeeps ==
  ASSUME TypeOK, LockOK, PlaceOK, JournalOK, KnownOK, HeldOK, PlaceOK',
         NEW p \in Processes, Compensate(p), NEW q \in opened, NEW d \in Docs
  PROVE  Follows(known[q][d], Committed'[d])
<1>1. /\ p \in lock /\ pc[p] = "compensate" /\ Journalled(p) /\ journals' = journals
      /\ journals = {Prepared(p)}
  BY DEF Compensate, LockOK, PlaceOK, Inside, Publishing, bounds
<1>2. CASE UNCHANGED disk
  BY <1>1, <1>2, SameCommitted DEF KnownOK
<1>3. CASE Put("variant", read[p]["variant"])
  <2>1. disk'["variant"] = read[p]["variant"] /\ disk'["project"] = disk["project"]
    BY <1>3, PutChanges, PairTypes
  <2>2. \A j \in journals' : ~HalfWay(j)'
    BY <1>1, <2>1 DEF HalfWay, IsTarget, IsPrevious, Prepared
  <2>3. Committed' = disk'
    BY <2>2, CommittedNext DEF CommittedIs, PlaceOK
  <2>4. Follows(known[q]["variant"], read[p]["variant"])
    BY <1>1 DEF HeldOK
  <2>5. Follows(known[q]["project"], disk["project"])
    BY CommittedBehind, PairTypes DEF KnownOK, PlaceOK
  <2> QED
    BY <2>1, <2>3, <2>4, <2>5 DEF Docs
<1> QED
  BY <1>2, <1>3 DEF Compensate

\* Teaching and compensating are different steps.
LEMMA TeachingIsNotCompensating ==
  ASSUME TypeOK, LockOK, NEW p \in Processes, NEW q \in Processes, Compensate(p),
         Succeeds(q) \/ ReconcileMatches(q)
  PROVE  FALSE
<1>1. pc[p] = "compensate" /\ pc'[p] # "compensate"
  BY DEF Compensate, Raise, SaveFails, Goto, TypeOK
<1>2. pc[q] \in {"finish", "forward", "reconcile"} /\ pc' = [pc EXCEPT ![q] = "ready"]
  BY DEF Succeeds, Finish, FinishUnclean, RemoveJournal, ReconcileMatches, SaveSucceeds, Step,
     Goto
<1> QED
  BY <1>1, <1>2 DEF TypeOK

LEMMA KnownStep ==
  ASSUME TypeOK, LockOK, PlaceOK, RequestOK, AuthorsOK, JournalOK, KnownOK, HeldOK, StageOK,
         TypeOK', LockOK', PlaceOK', JournalOK', [Next]_vars
  PROVE  KnownOK'
<1>1. CASE UNCHANGED vars
  BY <1>1, SameCommitted DEF KnownOK, vars, local
<1>2. CASE Next
  <2> SUFFICES ASSUME NEW q \in opened', NEW d \in Docs
               PROVE  Follows(known'[q][d], Committed'[d])
    BY DEF KnownOK
  <2>0. q \in Processes /\ Committed \in Pair /\ Committed' \in Pair /\ known'[q] \in Pair
    <3>1. Committed' \in Pair
      BY BehindNext DEF BehindIs, PlaceOK
    <3> QED
      BY <3>1, CommittedBehind DEF TypeOK, PlaceOK
  <2>1. CASE q \in opened /\ known'[q] = known[q] /\ Grows
    BY <2>0, <2>1, Transitive DEF KnownOK, Grows, Pair
  <2>2. CASE q \in opened /\ known'[q] = known[q] /\ ~Grows
    BY <1>2, <2>0, <2>2, CompensateKeeps, CommittedStep
  <2>3. CASE Activate(q) /\ SameCandidate(q) /\ known'[q] = read[q]
    <3>1. journals = {} /\ UNCHANGED <<disk, journals>>
      BY <2>3, <2>0 DEF Activate, Step, LockOK, PlaceOK, Inside, bounds
    <3>2. Committed' = disk
      BY <3>1, CommittedNext DEF CommittedIs, PlaceOK
    <3> QED
      BY <2>3, <3>2, Reflexive DEF SameCandidate
  <2>4. CASE (Succeeds(q) \/ ReconcileMatches(q)) /\ known'[q] = request[q].target
    <3>1. Follows(request[q].target[d], Committed[d])
      BY <2>0, <2>4, SavedIsThere, ReconcileSees, Reflexive DEF ReconcileMatches, Step,
         PersistedMatches
    <3>2. Grows
      BY <1>2, <2>0, <2>4, CommittedStep, TeachingIsNotCompensating
    <3> QED
      BY <2>0, <2>4, <3>1, <3>2, Transitive DEF Grows, Pair
  <2> QED
    BY <1>2, <2>0, <2>1, <2>2, <2>3, <2>4, Taught
<1> QED
  BY <1>1, <1>2

\* Inside its save, a process has a journal exactly if it writes both documents, and what it
\* does not write is what it knows.
LEMMA SaveFacts ==
  ASSUME TypeOK, LockOK, PlaceOK, RequestOK, NEW p \in lock, pc[p] \in Publishing
  PROVE  /\ journals = IF Journalled(p) THEN {Prepared(p)} ELSE {}
         /\ \A d \in Docs : IF d \in request[p].writes
                              THEN read[p][d] # request[p].target[d]
                              ELSE known[p][d] = request[p].target[d]
         /\ request[p].writes \subseteq Docs
<1>1. duty[p] = "save" /\ Saving(p)
  BY DEF PlaceOK, LockOK, Saving, Inside, Publishing
<1>2. ASSUME NEW d \in Docs, d \in request[p].writes PROVE read[p][d] # request[p].target[d]
  <2>1. read[p][d].rev < request[p].target[d].rev
    BY <1>2, NewerThanRead
  <2>2. read[p][d] \in Document /\ p \in Processes
    BY PairTypes DEF TypeOK
  <2> QED
    BY <2>1, <2>2 DEF Document
<1>3. \A d \in Docs : d \notin request[p].writes => known[p][d] = request[p].target[d]
  BY <1>1 DEF RequestOK, RestsOn, TypeOK
<1> QED
  BY <1>2, <1>3 DEF PlaceOK, TypeOK, SaveRequest


LEMMA DiskStep ==
  TypeOK /\ LockOK /\ PlaceOK /\ RequestOK /\ KnownOK /\ DiskOK /\ TypeOK' /\ [Next]_vars
    => DiskOK'
<1> SUFFICES ASSUME TypeOK, LockOK, PlaceOK, RequestOK, KnownOK, DiskOK, TypeOK', [Next]_vars
             PROVE  DiskOK' OBVIOUS
<1>0. CASE UNCHANGED vars
  BY <1>0 DEF DiskOK, At, Resolvable, AllPrevious, AllTarget, HalfWay, IsPrevious, IsTarget,
     Journalled, vars, bounds, local
<1>1. ASSUME NEW p \in Processes, RecoverResolved(p) PROVE DiskOK'
  <2>1. PICK j \in journals :
          \/ AllTarget(j) /\ Goto(p, "forward")
          \/ AllPrevious(j) /\ Goto(p, "back")
    BY <1>1 DEF RecoverResolved, Step
  <2>2. /\ UNCHANGED <<disk, journals, lock, edits, read, known, request>>
        /\ p \in lock /\ \A q \in lock : q = p
    BY <1>1 DEF RecoverResolved, Goto, Step, Fault, bounds, local, LockOK, Inside, Opening,
       Publishing, PlaceOK
  <2>3. (pc'[p] = "forward" /\ AllTarget(j)') \/ (pc'[p] = "back" /\ AllPrevious(j)')
    <3>1. (pc'[p] = "forward" /\ AllTarget(j)) \/ (pc'[p] = "back" /\ AllPrevious(j))
      BY <2>1, <2>2 DEF Goto, TypeOK, LockOK
    <3>2. (AllTarget(j) => AllTarget(j)') /\ (AllPrevious(j) => AllPrevious(j)')
      BY <2>2 DEF AllTarget, AllPrevious, IsTarget, IsPrevious
    <3> QED
      BY <3>1, <3>2
  <2>4. \A i \in journals' : i = j
    BY <2>2 DEF PlaceOK, OneJournal
  <2> QED
    BY <2>2, <2>3, <2>4, SMT DEF DiskOK, At, Publishing, Resolvable
<1>2. ASSUME NEW p \in Processes, RecoverVariant(p) PROVE DiskOK'
  <2>1. PICK j \in journals : HalfWay(j) /\ Put("variant", j.previous["variant"])
    BY <1>2 DEF RecoverVariant
  <2>2. /\ UNCHANGED <<journals, lock, edits>> /\ p \in lock /\ \A q \in lock : q = p
        /\ pc'[p] = "restored"
    BY <1>2 DEF RecoverVariant, TypeOK, Goto, Step, Fault, bounds, local, LockOK, Inside,
       Opening, Publishing, PlaceOK
  <2>3. disk'["variant"] = j.previous["variant"] /\ disk'["project"] = j.previous["project"]
    BY <2>1, PutChanges, PairTypes DEF HalfWay, IsPrevious
  <2>4. AllPrevious(j)'
    BY <2>3 DEF AllPrevious, IsPrevious, Docs
  <2>5. \A i \in journals' : i = j
    BY <2>2 DEF PlaceOK, OneJournal
  <2> QED
    BY <2>2, <2>4, <2>5 DEF DiskOK, At, Publishing, Resolvable
<1>3. ASSUME NEW p \in Processes, RecoverFails(p) PROVE DiskOK'
  <2>1. lock' = {} /\ UNCHANGED <<journals, edits>>
    BY <1>3 DEF RecoverFails, OperationFails, OpenFails, SaveFails, TypeOK, Goto, Step, Fault,
       bounds, local, LockOK, Inside, Opening, Publishing, PlaceOK
  <2>2. CASE UNCHANGED disk
    BY <2>1, <2>2 DEF DiskOK, Resolvable, AllPrevious, AllTarget, HalfWay, IsPrevious, IsTarget
  <2>3. ASSUME NEW j \in journals, HalfWay(j), Put("variant", j.previous["variant"])
        PROVE  DiskOK'
    <3>1. disk'["variant"] = j.previous["variant"] /\ disk'["project"] = j.previous["project"]
      BY <2>3, PutChanges, PairTypes DEF HalfWay, IsPrevious
    <3>2. \A i \in journals : i = j
      BY DEF PlaceOK, OneJournal
    <3>3. AllPrevious(j)'
      BY <3>1 DEF AllPrevious, IsPrevious, Docs
    <3> QED
      BY <2>1, <3>2, <3>3 DEF DiskOK, Resolvable
  <2> QED
    BY <1>3, <2>2, <2>3 DEF RecoverFails
<1>4. ASSUME NEW p \in Processes, Compare(p) PROVE DiskOK'
  <2>1. p \in lock /\ journals = {} /\ UNCHANGED <<disk, journals, edits>> /\ \A q \in lock : q = p
    BY <1>4 DEF Compare, Goto, Step, Fault, bounds, local, LockOK, Inside, Opening, Publishing,
       PlaceOK
  <2>2. CASE lock' = {}
    BY <2>1, <2>2 DEF DiskOK
  <2>3. CASE lock' # {}
    <3>1. /\ ~Stale(p) /\ read' = [read EXCEPT ![p] = disk] /\ UNCHANGED <<lock, known, request>>
          /\ pc'[p] = IF Journalled(p) THEN "journal"
                      ELSE IF "variant" \in request[p].writes THEN "variant" ELSE "project"
      BY <1>4, <2>1, <2>3 DEF Compare, SaveFails, Goto, TypeOK
    <3>2. p \in opened
      BY <1>4, <2>1 DEF Compare, RequestOK, Saving, PlaceOK, Inside
    <3>3. Committed = disk
      BY <2>1, CommittedNow DEF CommittedIs, OneJournal
    <3>4. ASSUME NEW d \in Docs PROVE known[p][d] = disk[d]
      <4>1. Follows(known[p][d], disk[d]) /\ disk[d].rev = known[p][d].rev
        BY <3>1, <3>2, <3>3 DEF Stale, KnownOK
      <4>2. disk[d].rev \in Nat
        BY PairTypes DEF TypeOK, Document
      <4> QED
        BY <4>1, <4>2 DEF Follows
    <3>5. known[p] = disk
      BY <3>4, PairTypes, SamePair DEF TypeOK
    <3>6. read'[p] = known[p]
      BY <3>1, <3>5 DEF TypeOK
    <3> QED
      BY <2>1, <3>1, <3>5, <3>6 DEF DiskOK, At, Publishing, Journalled
  <2> QED
    BY <2>2, <2>3
<1>5. ASSUME NEW p \in Processes, PublishVariant(p) PROVE DiskOK'
  <2>1. p \in lock /\ pc[p] = "variant" /\ UNCHANGED <<journals, edits>> /\ \A q \in lock : q = p
    BY <1>5 DEF PublishVariant, Goto, Step, Fault, bounds, local, LockOK, Inside, Opening,
       Publishing, PlaceOK
  <2>2. SUFFICES ASSUME edits = 0 PROVE DiskOK'
    BY <2>1 DEF DiskOK
  <2>3. disk = read[p] /\ read[p] = known[p]
    BY <2>1, <2>2 DEF DiskOK, At, Publishing
  <2>4. /\ Put("variant", request[p].target["variant"]) /\ pc'[p] = "variantCheck"
        /\ UNCHANGED <<lock, read, known, request>>
    BY <1>5, <2>3 DEF PublishVariant, Goto, TypeOK, local
  <2>5. disk'["variant"] = request[p].target["variant"] /\ disk'["project"] = read[p]["project"]
    BY <2>3, <2>4, PutChanges, PairTypes
  <2>6. \A j \in journals : HalfWay(j)'
    BY <2>1, <2>4, <2>5, SaveFacts, PairTypes
       DEF Publishing, Journalled, Prepared, HalfWay, IsPrevious, IsTarget
  <2> QED
    BY <2>1, <2>3, <2>4, <2>5, <2>6 DEF DiskOK, At, Publishing, Resolvable
<1>6. ASSUME NEW p \in Processes, CheckVariant(p) PROVE DiskOK'
  <2>1. /\ p \in lock /\ pc[p] = "variantCheck" /\ UNCHANGED <<disk, journals, edits>>
        /\ \A q \in lock : q = p
    BY <1>6 DEF CheckVariant, Goto, Step, Fault, bounds, local, LockOK, Inside, Opening,
       Publishing, PlaceOK
  <2>2. SUFFICES ASSUME edits = 0 PROVE DiskOK'
    BY <2>1 DEF DiskOK
  <2>3. /\ disk["project"] = read[p]["project"] /\ disk["variant"] = request[p].target["variant"]
        /\ read[p] = known[p] /\ "variant" \in request[p].writes
    BY <2>1, <2>2 DEF DiskOK, At, Publishing, PlaceOK
  <2>4. /\ pc'[p] = IF "project" \in request[p].writes THEN "project" ELSE "finish"
        /\ UNCHANGED <<lock, read, known, request>>
    BY <1>6, <2>3 DEF CheckVariant, Goto, TypeOK, local
  <2>5. \A j \in journals : Resolvable(j)'
    BY <2>1, <2>2 DEF DiskOK, Resolvable, AllPrevious, AllTarget, HalfWay, IsPrevious, IsTarget
  <2>6. CASE "project" \in request[p].writes
    <3>1. Journalled(p)'
      BY <2>1, <2>3, <2>4, <2>6, SaveFacts DEF Publishing, Journalled, Docs
    <3> QED
      BY <2>1, <2>3, <2>4, <2>5, <2>6, <3>1 DEF DiskOK, At, Publishing
  <2>7. CASE "project" \notin request[p].writes
    <3>1. disk["project"] = request[p].target["project"]
      BY <2>1, <2>3, <2>7, SaveFacts, PairTypes DEF Publishing
    <3>2. disk = request[p].target
      BY <2>3, <3>1, PairTypes, SamePair DEF TypeOK
    <3> QED
      BY <2>1, <2>3, <2>4, <2>5, <2>7, <3>2 DEF DiskOK, At, Publishing
  <2> QED
    BY <2>6, <2>7
<1>7. ASSUME NEW p \in Processes, PublishProject(p) PROVE DiskOK'
  <2>1. /\ p \in lock /\ pc[p] = "project" /\ UNCHANGED <<journals, edits>>
        /\ "project" \in request[p].writes /\ \A q \in lock : q = p
    BY <1>7 DEF PublishProject, Goto, Step, Fault, bounds, local, LockOK, Inside, Opening,
       Publishing, PlaceOK
  <2>2. SUFFICES ASSUME edits = 0 PROVE DiskOK'
    BY <2>1 DEF DiskOK
  <2>3. /\ disk["project"] = read[p]["project"] /\ read[p] = known[p]
        /\ IF Journalled(p) THEN disk["variant"] = request[p].target["variant"] ELSE disk = read[p]
    BY <2>1, <2>2 DEF DiskOK, At, Publishing
  <2>4. /\ Put("project", request[p].target["project"]) /\ pc'[p] = "projectCheck"
        /\ UNCHANGED <<lock, read, known, request>>
    BY <1>7, <2>3 DEF PublishProject, Goto, TypeOK, local
  <2>5. disk'["project"] = request[p].target["project"] /\ disk'["variant"] = disk["variant"]
    BY <2>4, PutChanges, PairTypes
  <2>6. disk["variant"] = request[p].target["variant"]
    BY <2>1, <2>3, SaveFacts, PairTypes DEF Publishing, Journalled, Docs
  <2>7. disk' = request[p].target
    BY <2>5, <2>6, PairTypes, SamePair DEF TypeOK
  <2>8. \A j \in journals : AllTarget(j)'
    BY <2>1, <2>7, SaveFacts, PairTypes
       DEF Publishing, Journalled, Prepared, AllTarget, IsTarget, IsPrevious
  <2> QED
    BY <2>1, <2>3, <2>4, <2>7, <2>8 DEF DiskOK, At, Publishing, Resolvable
<1>8. ASSUME NEW p \in Processes, Compensate(p) PROVE DiskOK'
  <2>1. /\ p \in lock /\ pc[p] = "compensate" /\ UNCHANGED <<journals, edits>>
        /\ Journalled(p) /\ \A q \in lock : q = p
    BY <1>8 DEF Compensate, Goto, Step, Fault, bounds, local, LockOK, Inside, Opening,
       Publishing, PlaceOK
  <2>2. SUFFICES ASSUME edits = 0 PROVE DiskOK'
    BY <2>1 DEF DiskOK
  <2>3. disk["project"] = read[p]["project"] /\ disk["variant"] = request[p].target["variant"]
    BY <2>1, <2>2 DEF DiskOK, At, Publishing
  <2>4. Put("variant", read[p]["variant"]) /\ pc'[p] = "recover" /\ lock' = lock
    BY <1>8, <2>1, <2>3 DEF Compensate, Raise, Goto, TypeOK
  <2>5. disk'["variant"] = read[p]["variant"] /\ disk'["project"] = read[p]["project"]
    BY <2>3, <2>4, PutChanges, PairTypes
  <2>6. \A j \in journals : AllPrevious(j)'
    BY <2>1, <2>5, SaveFacts DEF Publishing, Journalled, Prepared, AllPrevious, IsPrevious, Docs
  <2> QED
    BY <2>1, <2>4, <2>6 DEF DiskOK, At, Publishing, Resolvable
<1> USE DEF DiskOK, At, bounds, local, Goto, Step, Put, Spared, Fault, Forget, SaveSucceeds,
        SaveFails, OpenFails, OperationFails, Raise, LockOK, Inside, Opening, Publishing,
        PlaceOK, TypeOK, PC, Resolvable, AllPrevious, AllTarget, HalfWay, IsPrevious, IsTarget,
        Journalled, Prepared
<1>9. ASSUME NEW p \in Processes, Acquire(p) PROVE DiskOK'
  BY <1>9 DEF Acquire
<1>10. ASSUME NEW p \in Processes, Busy(p) PROVE DiskOK'
  BY <1>10 DEF Busy
<1>11. ASSUME NEW p \in Processes, LoadProject(p) PROVE DiskOK'
  BY <1>11 DEF LoadProject
<1>12. ASSUME NEW p \in Processes, LoadVariant(p) PROVE DiskOK'
  BY <1>12 DEF LoadVariant
<1>13. ASSUME NEW p \in Processes, LoadFails(p) PROVE DiskOK'
  BY <1>13 DEF LoadFails
<1>14. ASSUME NEW p \in Processes, Activate(p) PROVE DiskOK'
  BY <1>14 DEF Activate
<1>15. ASSUME NEW p \in Processes, ActivateFails(p) PROVE DiskOK'
  BY <1>15 DEF ActivateFails
<1>16. ASSUME NEW p \in Processes, NewSave(p) PROVE DiskOK'
  BY <1>16 DEF NewSave
<1>17. ASSUME NEW p \in Processes, Retry(p) PROVE DiskOK'
  BY <1>17 DEF Retry
<1>18. ASSUME NEW p \in Processes, NothingPending(p) PROVE DiskOK'
  BY <1>18 DEF NothingPending
<1>19. ASSUME NEW p \in Processes, RecoverVerified(p) PROVE DiskOK'
  BY <1>19 DEF RecoverVerified
<1>20. ASSUME NEW p \in Processes, RecoverRefused(p) PROVE DiskOK'
  BY <1>20 DEF RecoverRefused
<1>21. ASSUME NEW p \in Processes, RemoveJournal(p) PROVE DiskOK'
  BY <1>21 DEF RemoveJournal
<1>22. ASSUME NEW p \in Processes, RemoveFails(p) PROVE DiskOK'
  BY <1>22 DEF RemoveFails
<1>23. ASSUME NEW p \in Processes, CompareFails(p) PROVE DiskOK'
  BY <1>23 DEF CompareFails
<1>24. ASSUME NEW p \in Processes, WriteJournal(p) PROVE DiskOK'
  BY <1>24 DEF WriteJournal
<1>25. ASSUME NEW p \in Processes, WriteJournalFails(p) PROVE DiskOK'
  BY <1>25 DEF WriteJournalFails
<1>26. ASSUME NEW p \in Processes, PublishVariantFails(p) PROVE DiskOK'
  BY <1>26 DEF PublishVariantFails
<1>27. ASSUME NEW p \in Processes, PublishProjectFails(p) PROVE DiskOK'
  BY <1>27 DEF PublishProjectFails
<1>28. ASSUME NEW p \in Processes, CheckProject(p) PROVE DiskOK'
  BY <1>28 DEF CheckProject
<1>29. ASSUME NEW p \in Processes, CheckFails(p) PROVE DiskOK'
  BY <1>29 DEF CheckFails
<1>30. ASSUME NEW p \in Processes, CompensateFails(p) PROVE DiskOK'
  BY <1>30 DEF CompensateFails
<1>31. ASSUME NEW p \in Processes, Finish(p) PROVE DiskOK'
  BY <1>31 DEF Finish
<1>32. ASSUME NEW p \in Processes, FinishUnclean(p) PROVE DiskOK'
  BY <1>32 DEF FinishUnclean
<1>33. ASSUME NEW p \in Processes, ReconcileMatches(p) PROVE DiskOK'
  BY <1>33 DEF ReconcileMatches
<1>34. ASSUME NEW p \in Processes, ReconcileFails(p) PROVE DiskOK'
  BY <1>34 DEF ReconcileFails
<1>35. ASSUME NEW p \in Processes, Crash(p) PROVE DiskOK'
  BY <1>35 DEF Crash
<1>36. ASSUME NEW d \in Docs, ForeignEdit(d) PROVE DiskOK'
  BY <1>36 DEF ForeignEdit
<1> QED
  BY <1>0, <1>1, <1>2, <1>3, <1>4, <1>5, <1>6, <1>7, <1>8, <1>9, <1>10, <1>11, <1>12, <1>13,
     <1>14, <1>15, <1>16, <1>17, <1>18, <1>19, <1>20, <1>21, <1>22, <1>23, <1>24, <1>25, <1>26,
     <1>27, <1>28, <1>29, <1>30, <1>31, <1>32, <1>33, <1>34, <1>35, <1>36
     DEF Next, ProcessStep, OpenStep, RecoveryStep, CommitStep, SaveStep

LEMMA InitInv == Init => IInv
<1> SUFFICES ASSUME Init PROVE IInv
  OBVIOUS
<1>1. TypeOK
  BY TypeInit
<1>2. Committed = disk /\ journals = {}
  BY CommittedNow DEF CommittedIs, OneJournal, Init
<1> QED
  BY <1>1, <1>2
     DEF Init, IInv, LockOK, PlaceOK, RequestOK, AuthorsOK, JournalOK, KnownOK, HeldOK, StageOK, DiskOK,
         OneJournal, NoRequest, Saving, Inside, Opening, Publishing

LEMMA InvStep == IInv /\ [Next]_vars => IInv'
<1> SUFFICES ASSUME IInv, [Next]_vars PROVE IInv'
  OBVIOUS
<1>1. TypeOK' /\ LockOK' /\ PlaceOK' /\ RequestOK' /\ AuthorsOK' /\ JournalOK' /\ StageOK'
  BY TypeStep, LockStep, PlaceStep, RequestStep, AuthorsStep, JournalStep, StageStep DEF IInv
<1>2. KnownOK' /\ HeldOK' /\ DiskOK'
  BY <1>1, KnownStep, HeldStep, DiskStep DEF IInv
<1> QED
  BY <1>1, <1>2 DEF IInv

LEMMA Invariance == Spec => []IInv
BY InitInv, InvStep, PTL DEF Spec

\* Whatever fails or dies, every variable of the save protocol keeps its type.
THEOREM TypeCorrect == Spec => []TypeOK
<1>1. IInv => TypeOK
  BY DEF IInv
<1> QED
  BY <1>1, Invariance, PTL

\* For any number of processes, saves, failures and crashes at most one journal is pending,
\* and as long as every writer takes the lock it can be resolved: recovery never refuses
\* (project_save_journal.py, _recover_journal and _record_state).
THEOREM AlwaysResolvable == Spec => []JournalResolvable
<1>1. IInv => JournalResolvable
  BY DEF IInv, JournalResolvable, PlaceOK, DiskOK
<1> QED
  BY <1>1, Invariance, PTL

\* No recovery and no compensation takes back what a process was told is saved or has opened
\* (project_save_journal.py, commit and _recover_journal; project_write_lock.py).
THEOREM AcknowledgedAlwaysStays == Spec => []AcknowledgedStays
<1>1. IInv => AcknowledgedStays
  <2> SUFFICES ASSUME IInv, NEW p \in opened, NEW d \in Docs
               PROVE  known[p][d].rev <= Committed[d].rev
    BY DEF AcknowledgedStays
  <2>1. Follows(known[p][d], Committed[d])
    BY DEF IInv, KnownOK
  <2>2. known[p][d].rev \in Nat /\ Committed[d].rev \in Nat
    BY CommittedBehind, PairTypes DEF IInv, PlaceOK, TypeOK, Document
  <2> QED
    BY <2>1, <2>2 DEF Follows
<1> QED
  BY <1>1, Invariance, PTL

-----------------------------------------------------------------------------
(* Foreign content.                                                        *)

ForeignStep ==
  \A d \in Docs :
    disk[d].by = "foreign" /\ disk'[d] # disk[d] =>
      \/ edits' # edits
      \/ \E p \in lock : p \in opened /\ known[p][d] = disk[d]

\* What a save is about to replace is what its process knows, by the revisions compared.
LEMMA PublishesOverKnown ==
  ASSUME IInv, NEW p \in lock, pc[p] \in {"variant", "project"}, NEW d \in Docs,
         disk[d] = read[p][d], Committed[d] = disk[d]
  PROVE  p \in opened /\ known[p][d] = disk[d]
<1>1. p \in opened
  BY DEF IInv, TypeOK, RequestOK, Saving, PlaceOK, LockOK, Inside, Publishing
<1>2. known[p][d].rev = disk[d].rev /\ disk[d].rev \in Nat
  BY PairTypes DEF IInv, RequestOK, Publishing, TypeOK, Document
<1>3. Follows(known[p][d], disk[d])
  BY <1>1 DEF IInv, KnownOK
<1> QED
  BY <1>1, <1>2, <1>3 DEF Follows

LEMMA ForeignEffect == IInv /\ Next => ForeignStep
<1> SUFFICES ASSUME IInv, Next PROVE ForeignStep
  OBVIOUS
<1>0. TypeOK /\ OneJournal /\ JournalOK
  BY DEF IInv, PlaceOK
<1> USE DEF bounds, local
<1>1. ASSUME UNCHANGED disk PROVE ForeignStep
  BY <1>1 DEF ForeignStep
<1>2. ASSUME NEW p \in Processes, RecoverVariant(p) \/ RecoverFails(p) PROVE ForeignStep
  <2>1. ASSUME NEW j \in journals, HalfWay(j), Put("variant", j.previous["variant"])
        PROVE  ForeignStep
    <3>1. disk["variant"].by \in Drafts
      BY <2>1, PairTypes, <1>0 DEF HalfWay, IsTarget, IInv, AuthorsOK, TypeOK
    <3>2. disk'["project"] = disk["project"]
      BY <1>0, <2>1, PutChanges, PairTypes
    <3> QED
      BY <3>1, <3>2, AuthorAssumption DEF ForeignStep, Docs
  <2> QED
    BY <1>1, <1>2, <2>1 DEF RecoverVariant, RecoverFails
<1>3. ASSUME NEW p \in Processes, PublishVariant(p) PROVE ForeignStep
  <2>1. CASE UNCHANGED disk
    BY <1>1, <2>1
  <2>2. CASE disk["variant"] = read[p]["variant"] /\ Put("variant", request[p].target["variant"])
    <3>1. p \in lock /\ pc[p] = "variant"
      BY <1>3 DEF PublishVariant, IInv, LockOK, Inside, Publishing
    <3>2. \A j \in journals : ~HalfWay(j)
      BY <2>2, <3>1, NotHalfWay DEF IInv, PlaceOK, Publishing, Prepared
    <3>3. Committed = disk
      BY <1>0, <3>2, CommittedNow DEF CommittedIs
    <3>4. p \in opened /\ known[p]["variant"] = disk["variant"]
      BY <2>2, <3>1, <3>3, PublishesOverKnown, PairTypes, <1>0
    <3>5. disk'["project"] = disk["project"]
      BY <1>0, <2>2, PutChanges, PairTypes
    <3> QED
      BY <3>1, <3>4, <3>5 DEF ForeignStep, Docs
  <2> QED
    BY <1>3, <2>1, <2>2 DEF PublishVariant
<1>4. ASSUME NEW p \in Processes, PublishProject(p) PROVE ForeignStep
  <2>1. CASE UNCHANGED disk
    BY <1>1, <2>1
  <2>2. CASE disk["project"] = read[p]["project"] /\ Put("project", request[p].target["project"])
    <3>1. p \in lock /\ pc[p] = "project"
      BY <1>4 DEF PublishProject, IInv, LockOK, Inside, Publishing
    <3>2. p \in opened /\ known[p]["project"] = disk["project"]
      BY <1>0, <2>2, <3>1, CommittedBehind, PublishesOverKnown, PairTypes
    <3>3. disk'["variant"] = disk["variant"]
      BY <1>0, <2>2, PutChanges, PairTypes
    <3> QED
      BY <3>1, <3>2, <3>3 DEF ForeignStep, Docs
  <2> QED
    BY <1>4, <2>1, <2>2 DEF PublishProject
<1>5. ASSUME NEW p \in Processes, Compensate(p) PROVE ForeignStep
  <2>1. CASE UNCHANGED disk
    BY <1>1, <2>1
  <2>2. CASE disk["variant"] = request[p].target["variant"] /\ Put("variant", read[p]["variant"])
    <3>1. Journalled(p)
      BY <1>5 DEF Compensate, IInv, LockOK, PlaceOK, Inside, Publishing
    <3>2. disk["variant"].by \in Drafts
      BY <2>2, <3>1, PairTypes, <1>0 DEF Journalled, IInv, AuthorsOK, TypeOK
    <3>3. disk'["project"] = disk["project"]
      BY <1>0, <2>2, PutChanges, PairTypes
    <3> QED
      BY <3>2, <3>3, AuthorAssumption DEF ForeignStep, Docs
  <2> QED
    BY <1>5, <2>1, <2>2 DEF Compensate
<1>6. ASSUME NEW d \in Docs, ForeignEdit(d) PROVE ForeignStep
  BY <1>0, <1>6 DEF ForeignEdit, ForeignStep, TypeOK
<1>7. ASSUME NEW p \in Processes,
             Acquire(p) \/ Busy(p) \/ LoadProject(p) \/ LoadVariant(p) \/ LoadFails(p)
             \/ Activate(p) \/ ActivateFails(p) \/ NewSave(p) \/ Retry(p) \/ NothingPending(p)
             \/ RecoverResolved(p) \/ RecoverVerified(p) \/ RecoverRefused(p)
             \/ RemoveJournal(p) \/ RemoveFails(p) \/ Compare(p) \/ CompareFails(p)
             \/ WriteJournal(p) \/ WriteJournalFails(p) \/ PublishVariantFails(p)
             \/ CheckVariant(p) \/ PublishProjectFails(p) \/ CheckProject(p) \/ CheckFails(p)
             \/ CompensateFails(p) \/ Finish(p) \/ FinishUnclean(p) \/ ReconcileMatches(p)
             \/ ReconcileFails(p) \/ Crash(p)
      PROVE  UNCHANGED disk
  BY <1>7 DEF Acquire, Busy, LoadProject, LoadVariant, LoadFails, Activate, ActivateFails,
     NewSave,
         Retry, NothingPending, RecoverResolved, RecoverVerified, RecoverRefused,
         RemoveJournal, RemoveFails, Compare, CompareFails, WriteJournal, WriteJournalFails,
         PublishVariantFails, CheckVariant, PublishProjectFails, CheckProject, CheckFails,
         CompensateFails, Finish, FinishUnclean, ReconcileMatches, ReconcileFails, Crash
<1>8. ASSUME NEW p \in Processes, ProcessStep(p) \/ Crash(p) PROVE ForeignStep
  <2>1. CASE RecoverVariant(p) \/ RecoverFails(p) \/ PublishVariant(p) \/ PublishProject(p)
             \/ Compensate(p)
    BY <1>2, <1>3, <1>4, <1>5, <2>1
  <2>2. CASE UNCHANGED disk
    BY <1>1, <2>2
  <2> QED
    BY <1>7, <1>8, <2>1, <2>2 DEF ProcessStep, OpenStep, RecoveryStep, CommitStep, SaveStep
<1> QED
  BY <1>6, <1>8 DEF Next

\* A foreign document is replaced only by a save of a process that has opened that very
\* content, although a save compares only revisions with what its process knows
\* (project_save_journal.py, commit and _compensate_variant).
THEOREM ForeignAlwaysKept == Spec => ForeignKept
<1>1. IInv /\ [Next]_vars => [ForeignStep]_vars
  BY ForeignEffect
<1>2. Spec => [][ForeignStep]_vars
  BY <1>1, Invariance, PTL DEF Spec
<1> QED
  BY <1>2, PTL DEF ForeignKept, ForeignStep

-----------------------------------------------------------------------------
(* The refinement.                                                         *)

\* As long as every writer takes the lock, each step keeps what is committed and known, is
\* the one save, teaches a process what is committed, or ends a process.
Keeps == Committed' = Committed /\ UNCHANGED <<opened, known>>

\* A journal that is not half way may go.
LEMMA SettledGoes ==
  ASSUME IInv, IInv', UNCHANGED disk, journals' \subseteq journals, \A j \in journals : ~HalfWay(j)
  PROVE  Committed = disk /\ Committed' = disk
<1>1. OneJournal /\ OneJournal'
  BY DEF IInv, PlaceOK
<1>2. \A j \in journals' : ~HalfWay(j)'
  BY DEF HalfWay, IsPrevious, IsTarget
<1> QED
  BY <1>1, <1>2, CommittedNow, CommittedNext DEF CommittedIs

LEMMA Resolved ==
  ASSUME NEW j, AllPrevious(j) \/ AllTarget(j)
  PROVE  ~HalfWay(j)
BY DEF AllPrevious, AllTarget, HalfWay, IsPrevious, IsTarget, Docs

LEMMA WriteJournalKeeps ==
  ASSUME IInv, IInv', NEW p \in Processes, WriteJournal(p) \/ WriteJournalFails(p)
  PROVE  Keeps
<1>1. UNCHANGED <<disk, opened, known>> /\ journals = {}
  BY DEF WriteJournal, WriteJournalFails, SaveFails, local, IInv, LockOK, PlaceOK, Inside
<1>2. CASE UNCHANGED journals
  BY <1>1, <1>2, SameCommitted DEF Keeps
<1>3. CASE ~UNCHANGED journals
  <2>1. journals' = {Prepared(p)} /\ disk = read[p]
    BY <1>1, <1>3 DEF WriteJournal, WriteJournalFails
  <2>2. \A j \in journals' : ~HalfWay(j)'
    BY <1>1, <2>1 DEF Prepared, HalfWay, IsPrevious, IsTarget
  <2>3. Committed' = disk /\ Committed = disk
    BY <1>1, <2>2, CommittedNow, CommittedNext DEF CommittedIs, IInv, PlaceOK
  <2> QED
    BY <1>1, <2>3 DEF Keeps
<1> QED
  BY <1>2, <1>3

LEMMA PublishVariantEffect ==
  ASSUME IInv, IInv', edits = 0, edits' = 0, NEW p \in Processes, PublishVariant(p)
  PROVE  Keeps \/ Atomic!Save(p)
<1>1. /\ p \in lock /\ pc[p] = "variant" /\ "variant" \in request[p].writes /\ journals' = journals
      /\ TypeOK /\ OneJournal /\ OneJournal'
  BY DEF PublishVariant, IInv, LockOK, PlaceOK, Inside, Publishing, bounds
<1>2. disk = read[p] /\ read[p] = known[p] /\ p \in opened
  BY <1>1 DEF IInv, DiskOK, At, RequestOK, Saving, PlaceOK, Inside, Publishing
<1>3. Put("variant", request[p].target["variant"]) /\ UNCHANGED <<opened, known>>
  BY <1>1, <1>2 DEF PublishVariant, local
<1>4. disk'["variant"] = request[p].target["variant"] /\ disk'["project"] = disk["project"]
  BY <1>1, <1>3, PutChanges, PairTypes
<1>5. Committed = disk
  <2>1. \A j \in journals : ~HalfWay(j)
    BY <1>1, <1>2, NotHalfWay DEF IInv, PlaceOK, Publishing, Prepared
  <2> QED
    BY <1>1, <2>1, CommittedNow DEF CommittedIs
<1>6. journals = IF Journalled(p) THEN {Prepared(p)} ELSE {}
  BY <1>1 DEF IInv, PlaceOK, Publishing
<1>7. read[p]["variant"].rev < request[p].target["variant"].rev
  BY <1>1, NewerThanRead DEF IInv, Publishing
<1>8. CASE Journalled(p)
  <2>1. \A j \in journals' : HalfWay(j)' /\ j.previous = read[p]
    <3>1. request[p].target["variant"] # read[p]["variant"]
      BY <1>1, <1>7, PairTypes DEF TypeOK, Document
    <3> QED
      BY <1>1, <1>2, <1>4, <1>6, <1>8, <3>1 DEF HalfWay, IsPrevious, IsTarget, Prepared
  <2>2. Committed' = read[p]
    BY <1>1, <1>6, <1>8, <2>1, CommittedNext DEF CommittedIs
  <2> QED
    BY <1>2, <1>3, <1>5, <2>2 DEF Keeps
<1>9. CASE ~Journalled(p)
  <2>1. Committed' = disk'
    BY <1>1, <1>6, <1>9, CommittedNext DEF CommittedIs
  <2>2. disk' \in [Docs -> Document]
    BY DEF IInv, TypeOK, Pair
  <2>3. \A d \in Docs : disk'[d] # disk[d] => disk'[d].rev > disk[d].rev
    BY <1>2, <1>4, <1>7, PairTypes DEF Docs
  <2> QED
    BY <1>2, <1>3, <1>5, <2>1, <2>2, <2>3 DEF Atomic!Save
<1> QED
  BY <1>8, <1>9

LEMMA PublishProjectEffect ==
  ASSUME IInv, IInv', edits = 0, edits' = 0, NEW p \in Processes, PublishProject(p)
  PROVE  Keeps \/ Atomic!Save(p)
<1>1. /\ p \in lock /\ pc[p] = "project" /\ "project" \in request[p].writes /\ journals' = journals
      /\ TypeOK /\ OneJournal /\ OneJournal'
  BY DEF PublishProject, IInv, LockOK, PlaceOK, Inside, Publishing, bounds
<1>2. /\ read[p] = known[p] /\ p \in opened /\ disk["project"] = read[p]["project"]
      /\ IF Journalled(p) THEN disk["variant"] = request[p].target["variant"] ELSE disk = read[p]
  BY <1>1 DEF IInv, DiskOK, At, RequestOK, Saving, PlaceOK, Inside, Publishing
<1>3. Put("project", request[p].target["project"]) /\ UNCHANGED <<opened, known>>
  BY <1>1, <1>2 DEF PublishProject, local
<1>4. disk'["project"] = request[p].target["project"] /\ disk'["variant"] = disk["variant"]
  BY <1>1, <1>3, PutChanges, PairTypes
<1>5. \A d \in request[p].writes : d \in Docs /\ read[p][d].rev < request[p].target[d].rev
  BY <1>1, NewerThanRead DEF IInv, Publishing
<1>6. journals = IF Journalled(p) THEN {Prepared(p)} ELSE {}
  BY <1>1 DEF IInv, PlaceOK, Publishing
<1>7. read[p]["project"] # request[p].target["project"]
  BY <1>1, <1>5, PairTypes DEF TypeOK, Document
<1>8. Committed = read[p]
  <2>1. CASE Journalled(p)
    <3>1. "variant" \in request[p].writes
      BY <2>1 DEF Journalled, Docs
    <3>2. read[p]["variant"] # request[p].target["variant"]
      BY <1>1, <1>5, <3>1, PairTypes DEF TypeOK, Document
    <3>3. HalfWay(Prepared(p))
      BY <1>2, <2>1, <3>2 DEF HalfWay, IsPrevious, IsTarget, Prepared
    <3> QED
      BY <1>1, <1>6, <2>1, <3>3, CommittedNow DEF CommittedIs, Prepared
  <2>2. CASE ~Journalled(p)
    BY <1>1, <1>2, <1>6, <2>2, CommittedNow DEF CommittedIs
  <2> QED
    BY <2>1, <2>2
<1>9. Committed' = disk'
  <2>1. \A j \in journals' : ~HalfWay(j)'
    BY <1>1, <1>4, <1>6, <1>7 DEF HalfWay, IsPrevious, Prepared
  <2> QED
    BY <1>1, <2>1, CommittedNext DEF CommittedIs
<1>10. disk' \in [Docs -> Document]
  BY DEF IInv, TypeOK, Pair
<1>11. \A d \in Docs : disk'[d] # read[p][d] => disk'[d].rev > read[p][d].rev
  <2>1. ASSUME Journalled(p) PROVE read[p]["variant"].rev < request[p].target["variant"].rev
    BY <1>5, <2>1 DEF Journalled, Docs
  <2>2. disk'["project"].rev > read[p]["project"].rev
    BY <1>1, <1>4, <1>5, PairTypes DEF TypeOK, Document
  <2>3. disk'["variant"] # read[p]["variant"] => disk'["variant"].rev > read[p]["variant"].rev
    BY <1>1, <1>2, <1>4, <2>1, PairTypes DEF TypeOK, Document
  <2> QED
    BY <2>2, <2>3 DEF Docs
<1> QED
  BY <1>2, <1>3, <1>8, <1>9, <1>10, <1>11 DEF Atomic!Save

LEMMA CompensateEffect ==
  ASSUME IInv, IInv', edits = 0, NEW p \in Processes, Compensate(p)
  PROVE  Keeps
<1>1. /\ p \in lock /\ pc[p] = "compensate" /\ Journalled(p) /\ journals' = journals
      /\ journals = {Prepared(p)} /\ TypeOK /\ OneJournal /\ OneJournal'
  BY DEF Compensate, IInv, LockOK, PlaceOK, Inside, Publishing, bounds
<1>2. disk["project"] = read[p]["project"] /\ disk["variant"] = request[p].target["variant"]
  BY <1>1 DEF IInv, DiskOK, At, Publishing
<1>3. Put("variant", read[p]["variant"]) /\ UNCHANGED <<opened, known>>
  BY <1>1, <1>2 DEF Compensate, Raise, local
<1>4. disk'["variant"] = read[p]["variant"] /\ disk'["project"] = read[p]["project"]
  BY <1>1, <1>2, <1>3, PutChanges, PairTypes
<1>5. disk' = read[p]
  BY <1>4, SamePair DEF IInv, TypeOK
<1>6. Committed = read[p]
  <2>1. read[p]["variant"] # request[p].target["variant"]
    BY <1>1, SaveFacts DEF IInv, Publishing, Journalled, Docs
  <2>2. HalfWay(Prepared(p))
    BY <1>2, <2>1 DEF HalfWay, IsPrevious, IsTarget, Prepared
  <2> QED
    BY <1>1, <2>2, CommittedNow DEF CommittedIs, Prepared
<1>7. Committed' = disk'
  <2>1. \A j \in journals' : ~HalfWay(j)'
    BY <1>1, <1>4 DEF HalfWay, IsTarget, IsPrevious, Prepared
  <2> QED
    BY <1>1, <2>1, CommittedNext DEF CommittedIs
<1> QED
  BY <1>3, <1>5, <1>6, <1>7 DEF Keeps

LEMMA SucceedsEffect ==
  ASSUME IInv, IInv', edits = 0, NEW p \in Processes, Succeeds(p)
  PROVE  Atomic!Learn(p)
<1>1. /\ p \in lock /\ pc[p] \in {"finish", "forward"} /\ (pc[p] = "forward" => duty[p] = "failed")
      /\ UNCHANGED <<disk, opened>> /\ known' = [known EXCEPT ![p] = request[p].target]
      /\ journals' \subseteq journals
  BY DEF Succeeds, Finish, FinishUnclean, RemoveJournal, SaveSucceeds, IInv, LockOK, Inside,
         Publishing, Opening
<1>2. journals = IF Journalled(p) THEN {Prepared(p)} ELSE {}
  BY <1>1 DEF IInv, PlaceOK, Publishing, Opening
<1>3. disk = request[p].target
  <2>1. CASE pc[p] = "finish"
    BY <1>1, <2>1 DEF IInv, DiskOK, At
  <2>2. CASE pc[p] = "forward"
    <3>1. journals = {Prepared(p)} /\ AllTarget(Prepared(p))
      BY <1>1, <2>2 DEF IInv, PlaceOK, DiskOK, At, Opening
    <3>2. \A d \in Docs : disk[d] = request[p].target[d]
      BY <3>1 DEF AllTarget, IsTarget, Prepared
    <3> QED
      BY <3>2, PairTypes, SamePair DEF IInv, TypeOK
  <2> QED
    BY <1>1, <2>1, <2>2
<1>4. \A j \in journals : ~HalfWay(j)
  <2> SUFFICES ASSUME NEW j \in journals PROVE ~HalfWay(j)
    OBVIOUS
  <2>1. j.target = request[p].target /\ j.previous["project"].rev < j.target["project"].rev
    BY <1>2, PairTypes DEF IInv, JournalOK, Prepared
  <2>2. disk["project"] # j.previous["project"]
    BY <1>3, <2>1, PairTypes DEF IInv, TypeOK, Document
  <2> QED
    BY <2>2, NotHalfWay
<1>5. Committed = disk /\ Committed' = disk
  BY <1>1, <1>4, SettledGoes
<1>6. p \in opened
  BY <1>1 DEF IInv, RequestOK, Saving, PlaceOK, Inside, Publishing, Opening
<1> QED
  BY <1>1, <1>3, <1>5, <1>6 DEF Atomic!Learn

LEMMA RemovalEffect ==
  ASSUME IInv, IInv', edits = 0, NEW p \in Processes, RemoveJournal(p) \/ RemoveFails(p), ~Succeeds(p)
  PROVE  Keeps
<1>1. /\ p \in lock /\ pc[p] \in {"forward", "back"} /\ UNCHANGED <<disk, opened, known>>
      /\ journals' \subseteq journals
  BY DEF Succeeds, RemoveJournal, RemoveFails, OperationFails, OpenFails, SaveFails, local,
     IInv,
         LockOK, Inside, Opening
<1>2. \A j \in journals : AllPrevious(j) \/ AllTarget(j)
  BY <1>1 DEF IInv, DiskOK, At
<1> QED
  BY <1>1, <1>2, Resolved, SettledGoes DEF Keeps

LEMMA StepEffect ==
  ASSUME IInv, IInv', Next, edits = 0, edits' = 0
  PROVE  Keeps \/ \E p \in Processes : Atomic!Learn(p) \/ Atomic!Save(p) \/ Atomic!Close(p)
<1> USE DEF bounds, local
<1>1. ASSUME NEW p \in Processes,
             Acquire(p) \/ Busy(p) \/ LoadProject(p) \/ LoadVariant(p) \/ LoadFails(p)
             \/ ActivateFails(p) \/ NewSave(p) \/ Retry(p) \/ NothingPending(p)
             \/ RecoverResolved(p) \/ RecoverVerified(p) \/ RecoverRefused(p) \/ Compare(p)
             \/ CompareFails(p) \/ PublishVariantFails(p) \/ CheckVariant(p)
             \/ PublishProjectFails(p) \/ CheckProject(p) \/ CheckFails(p)
             \/ CompensateFails(p) \/ ReconcileFails(p)
      PROVE  Keeps
  <2>1. UNCHANGED <<disk, journals, opened, known>>
    BY <1>1 DEF Acquire, Busy, LoadProject, LoadVariant, LoadFails, ActivateFails, NewSave,
       Retry,
         NothingPending, RecoverResolved, RecoverVerified, RecoverRefused, Compare,
         CompareFails, PublishVariantFails, CheckVariant, PublishProjectFails, CheckProject,
         CheckFails, CompensateFails, ReconcileFails,
         SaveFails, OpenFails, OperationFails, Raise
  <2> QED
    BY <2>1, SameCommitted DEF Keeps
<1>2. ASSUME NEW p \in Processes, Activate(p) PROVE Keeps \/ Atomic!Learn(p)
  <2>1. UNCHANGED <<disk, journals>> /\ journals = {}
    BY <1>2 DEF Activate, Step, IInv, LockOK, PlaceOK, Inside
  <2>2. Committed = disk /\ Committed' = disk
    BY <2>1, SettledGoes
  <2>3. CASE SameCandidate(p)
    BY <1>2, <2>2, <2>3 DEF Activate, SameCandidate, Atomic!Learn
  <2>4. CASE ~SameCandidate(p)
    BY <1>2, <2>2, <2>4 DEF Activate, Keeps
  <2> QED
    BY <2>3, <2>4
<1>3. ASSUME NEW p \in Processes, RecoverVariant(p) \/ RecoverFails(p) PROVE Keeps
  <2>1. UNCHANGED <<opened, known>>
    BY <1>3 DEF RecoverVariant, RecoverFails, OperationFails, OpenFails, SaveFails
  <2> QED
    BY <1>3, <2>1, RecoverKeeps DEF IInv, Keeps
<1>4. ASSUME NEW p \in Processes, ReconcileMatches(p) PROVE Atomic!Learn(p)
  <2>1. pc[p] = "reconcile" /\ PersistedMatches(p) /\ UNCHANGED <<disk, journals, opened>>
        /\ known' = [known EXCEPT ![p] = request[p].target]
    BY <1>4 DEF ReconcileMatches, Step
  <2>2. Committed = request[p].target
    BY <2>1, ReconcileSees DEF IInv, PersistedMatches
  <2>3. p \in opened
    BY <2>1 DEF IInv, RequestOK, Saving
  <2> QED
    BY <2>1, <2>2, <2>3, SameCommitted DEF Atomic!Learn
<1>5. ASSUME NEW p \in Processes, Crash(p) PROVE Atomic!Close(p)
  <2>1. UNCHANGED <<disk, journals, known>> /\ opened' = opened \ {p}
    BY <1>5 DEF Crash
  <2> QED
    BY <2>1, SameCommitted DEF Atomic!Close
<1>6. ASSUME NEW p \in Processes, Finish(p) \/ FinishUnclean(p) PROVE Atomic!Learn(p)
  BY <1>6, SucceedsEffect DEF Succeeds
<1>7. ASSUME NEW p \in Processes, RemoveJournal(p) \/ RemoveFails(p) PROVE Keeps \/ Atomic!Learn(p)
  BY <1>7, SucceedsEffect, RemovalEffect
<1>8. ASSUME NEW d \in Docs, ForeignEdit(d) PROVE FALSE
  BY <1>8 DEF ForeignEdit, IInv, TypeOK
<1>9. PICK p \in Processes : ProcessStep(p) \/ Crash(p)
  BY <1>8 DEF Next
<1>10. CASE WriteJournal(p) \/ WriteJournalFails(p)
  BY <1>10, WriteJournalKeeps
<1>11. CASE PublishVariant(p) \/ PublishProject(p)
  BY <1>11, PublishVariantEffect, PublishProjectEffect
<1>12. CASE Compensate(p)
  BY <1>12, CompensateEffect
<1> QED
  BY <1>1, <1>2, <1>3, <1>4, <1>5, <1>6, <1>7, <1>9, <1>10, <1>11, <1>12
     DEF ProcessStep, OpenStep, RecoveryStep, CommitStep, SaveStep

LEMMA EditsGrow == TypeOK /\ Next => edits' >= edits
<1> SUFFICES ASSUME TypeOK, Next PROVE edits' = edits \/ edits' = edits + 1
  BY DEF TypeOK
<1>1. ASSUME NEW d \in Docs, ForeignEdit(d) PROVE edits' = edits + 1
  BY <1>1 DEF ForeignEdit
<1>2. ASSUME NEW p \in Processes, ProcessStep(p) \/ Crash(p) PROVE edits' = edits
  BY <1>2 DEF ProcessStep, OpenStep, RecoveryStep, CommitStep, SaveStep, bounds, Fault, Acquire,
     Busy, LoadProject, LoadVariant, LoadFails, Activate, ActivateFails, NewSave, Retry,
     NothingPending, RecoverResolved, RecoverVariant, RecoverVerified, RecoverRefused,
     RecoverFails, RemoveJournal, RemoveFails, Compare, CompareFails, WriteJournal,
     WriteJournalFails, PublishVariant, PublishVariantFails, CheckVariant, PublishProject,
     PublishProjectFails, CheckProject, CheckFails, Compensate, CompensateFails, Finish,
     FinishUnclean, ReconcileMatches, ReconcileFails, Crash
<1> QED
  BY <1>1, <1>2 DEF Next

LEMMA AtomicStep ==
  ASSUME IInv, IInv', [Next]_vars
  PROVE  [Atomic!Next]_(Atomic!vars)
<1>1. CASE UNCHANGED vars
  BY <1>1, SameCommitted DEF vars, local, bounds, Atomic!vars
<1>2. CASE Next /\ edits' > 0
  BY <1>2 DEF Atomic!Next
<1>3. CASE Next /\ ~(edits' > 0)
  <2>1. edits = 0 /\ edits' = 0
    BY <1>3, EditsGrow DEF IInv, TypeOK
  <2>2. CASE Keeps
    BY <2>1, <2>2 DEF Keeps, Atomic!vars
  <2>3. CASE \E p \in Processes : Atomic!Learn(p) \/ Atomic!Save(p) \/ Atomic!Close(p)
    BY <2>1, <2>3 DEF Atomic!Next
  <2> QED
    BY <1>3, <2>1, <2>2, <2>3, StepEffect
<1> QED
  BY <1>1, <1>2, <1>3

\* Replacing two files one after the other under a journal, with failures, crashes,
\* compensations, recoveries by other processes and an automatic save that looks again,
\* implements one atomic save on top of what its process has opened.
THEOREM Refinement == Spec => AtomicSpec
<1>1. Init => Atomic!Init
  <2> SUFFICES ASSUME Init PROVE Atomic!Init
    OBVIOUS
  <2>1. Committed = Seed
    BY CommittedNow DEF Init, CommittedIs, OneJournal
  <2> QED
    BY <2>1, SeedType DEF Init, Pair, Atomic!Init
<1>2. IInv /\ IInv' /\ [Next]_vars => [Atomic!Next]_(Atomic!vars)
  BY AtomicStep
<1> QED
  BY <1>1, <1>2, Invariance, PTL DEF Spec, AtomicSpec, Atomic!Spec
=============================================================================
