------------------------ MODULE AssistantRequestMC ------------------------
(***************************************************************************)
(* Small instances of AssistantRequest: a change of the project and a      *)
(* report, which needs the change or can be worked on beside it.           *)
(***************************************************************************)
EXTENDS AssistantRequestRefinement, TLC

CONSTANTS change, report

ReportNeedsChange == [i \in Items |-> IF i = report THEN {change} ELSE {}]

\* Two changes that do not need each other are interchangeable.
Independent       == [i \in Items |-> {}]
Symmetry          == Permutations(Items)

OneCall    == [d \in 1 .. MaxBatches |-> 1]
TwoThenOne == [d \in 1 .. MaxBatches |-> IF d = 1 THEN 2 ELSE 1]
=============================================================================
