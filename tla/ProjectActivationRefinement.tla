-------------------- MODULE ProjectActivationRefinement --------------------
(***************************************************************************)
(* ProjectActivation implements AtomicActivation: an activation happens    *)
(* when its committed marker is in place.                                  *)
(***************************************************************************)
EXTENDS ProjectActivation

Atomic ==
  INSTANCE AtomicActivation WITH
    Versions <- Version, Goals <- Targets, Views <- Seen, docs <- InForce,
    disturbed <- edits > 0

\* Publishing the participants one by one, a marker, failures, crashes and recoveries by
\* other processes look like one atomic change of all participants, until a writer that
\* ignores the lock interferes.
AtomicSpec == Atomic!Spec
=============================================================================
