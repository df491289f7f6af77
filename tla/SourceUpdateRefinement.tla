----------------------- MODULE SourceUpdateRefinement -----------------------
(***************************************************************************)
(* SourceUpdate implements AtomicUpdate: an update happens when its marker *)
(* is in place, or when its process gives up with everything published.    *)
(***************************************************************************)
EXTENDS SourceUpdate

Atomic ==
  INSTANCE AtomicUpdate WITH
    Versions <- [Records -> Contents], docs <- InForce, disturbed <- edits > 0

\* Publishing the records one by one, a marker, failures, crashes and recoveries by other
\* processes look like one atomic change of all records, until a writer that ignores the
\* lock interferes.
AtomicSpec == Atomic!Spec
=============================================================================
