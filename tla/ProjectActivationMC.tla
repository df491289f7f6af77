------------------------ MODULE ProjectActivationMC ------------------------
(***************************************************************************)
(* ProjectActivation and its refinement for TLC: processes are             *)
(* interchangeable, and so are contents.                                   *)
(***************************************************************************)
EXTENDS ProjectActivationRefinement, TLC

Symmetry == Permutations(Processes) \cup Permutations(Contents)
=============================================================================
