---------------------------- MODULE AtomicUpdate ----------------------------
(***************************************************************************)
(* What replacing a source file promises: all records of the Project       *)
(* change together, at one instant, and only on top of the very version    *)
(* the update had previewed, whatever other saves do meanwhile.  The       *)
(* promise ends when a program that ignores the lock edits a record.       *)
(***************************************************************************)
CONSTANTS Processes, Records, Versions

VARIABLES
  docs,     \* the records, as the next process to enter the lock will find them
  seen,     \* the version each process has previewed, if any, as a set
  disturbed \* a program that ignores the lock has edited a record

vars == <<docs, seen, disturbed>>

Init ==
  /\ docs \in Versions
  /\ seen = [p \in Processes |-> {}]
  /\ disturbed = FALSE

Preview(p) == seen' = [seen EXCEPT ![p] = {docs}] /\ UNCHANGED docs
Forget(p)  == seen' = [seen EXCEPT ![p] = {}] /\ UNCHANGED docs

Update(p) ==
  /\ docs \in seen[p]
  /\ docs' \in {v \in Versions : \A r \in Records : v[r] # docs[r]}
  /\ UNCHANGED seen \/ seen' = [seen EXCEPT ![p] = {}]

Save(r) ==
  /\ \E v \in Versions : docs' = [docs EXCEPT ![r] = v[r]]
  /\ UNCHANGED seen

Next ==
  \/ disturbed'
  \/ /\ ~disturbed /\ ~disturbed'
     /\ \/ \E p \in Processes : Preview(p) \/ Forget(p) \/ Update(p)
        \/ \E r \in Records : Save(r)

Spec == Init /\ [][Next]_vars
=============================================================================
