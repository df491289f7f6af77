--------------------------- MODULE ProjectSaveMC ---------------------------
(***************************************************************************)
(* ProjectSave and its refinement for TLC: processes are interchangeable,  *)
(* and so are drafts.                                                      *)
(***************************************************************************)
EXTENDS ProjectSaveRefinement, TLC

Symmetry == Permutations(Processes) \cup Permutations(Drafts)
=============================================================================
