------------------------- MODULE PluginPublicationMC -------------------------
(***************************************************************************)
(* PluginPublication for TLC: jobs are interchangeable.                    *)
(***************************************************************************)
EXTENDS PluginPublication, TLC

Symmetry == Permutations(Jobs)
=============================================================================
