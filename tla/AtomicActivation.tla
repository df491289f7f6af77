-------------------------- MODULE AtomicActivation --------------------------
(***************************************************************************)
(* What an activation promises: all participants change together, at one   *)
(* instant, and the guarded ones only on top of the very contents the      *)
(* activation was prepared from.  The promise ends when a program that     *)
(* ignores the lock edits a document.                                      *)
(***************************************************************************)
CONSTANTS Processes, Guarded, Versions, Goals, Views

VARIABLES
  docs,    \* the documents, as the next process to enter the lock will find them
  seen,    \* what each process prepares its activation from
  disturbed \* a program that ignores the lock has edited a document

vars == <<docs, seen, disturbed>>

Init ==
  /\ docs \in Versions
  /\ seen \in [Processes -> Views]
  /\ disturbed = FALSE

\* A look takes no lock for long: it may find the middle of somebody's activation.
Look(p) ==
  /\ \E v \in Views : seen' = [seen EXCEPT ![p] = v]
  /\ UNCHANGED docs

Activate(p) ==
  /\ \A d \in Guarded : seen[p][d] = docs[d]
  /\ docs' \in Goals
  /\ UNCHANGED seen

Next ==
  \/ disturbed'
  \/ ~disturbed /\ ~disturbed' /\ \E p \in Processes : Look(p) \/ Activate(p)

Spec == Init /\ [][Next]_vars
=============================================================================
