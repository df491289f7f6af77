----------------------------- MODULE AtomicSave -----------------------------
(***************************************************************************)
(* What saving promises: the Project and its Variant change together, at   *)
(* one instant, and only on top of the very documents the saving process   *)
(* had opened or saved last; a process is told of a save only after it     *)
(* happened.  Failures, crashes and recoveries do not show.  The promise   *)
(* ends when a program that ignores the lock edits a document.             *)
(***************************************************************************)
EXTENDS Naturals

CONSTANTS Processes, Docs, Documents

VARIABLES
  pair,     \* the formal documents, as the next process to open them will find them
  opened,   \* processes with an active Project
  known,    \* what each of them opened or last saved
  disturbed \* a program that ignores the lock has edited a document

vars == <<pair, opened, known, disturbed>>

Init ==
  /\ pair \in [Docs -> Documents]
  /\ opened = {}
  /\ known = [p \in Processes |-> pair]
  /\ disturbed = FALSE

\* Opening, and learning that a save went through: the process now knows the pair.
Learn(p) ==
  /\ known' = [known EXCEPT ![p] = pair]
  /\ opened' = opened \cup {p}
  /\ UNCHANGED pair

Save(p) ==
  /\ p \in opened
  /\ known[p] = pair
  /\ pair' \in [Docs -> Documents]
  /\ \A d \in Docs : pair'[d] # pair[d] => pair'[d].rev > pair[d].rev
  /\ UNCHANGED <<opened, known>>

Close(p) ==
  /\ opened' = opened \ {p}
  /\ UNCHANGED <<pair, known>>

Next ==
  \/ disturbed'
  \/ ~disturbed /\ ~disturbed' /\ \E p \in Processes : Learn(p) \/ Save(p) \/ Close(p)

Spec == Init /\ [][Next]_vars
=============================================================================
