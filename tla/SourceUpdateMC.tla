--------------------------- MODULE SourceUpdateMC ---------------------------
(***************************************************************************)
(* SourceUpdate and its refinement for TLC: processes are interchangeable, *)
(* and so are contents.                                                    *)
(***************************************************************************)
EXTENDS SourceUpdateRefinement, TLC

Symmetry == Permutations(Processes) \cup Permutations(Contents)
=============================================================================
