----------------------- MODULE ProjectSaveRefinement -----------------------
(***************************************************************************)
(* ProjectSave implements AtomicSave: a pending journal that is half way   *)
(* stands for the pair before the save, and the save happens when its last *)
(* document is replaced.                                                   *)
(***************************************************************************)
EXTENDS ProjectSave

Atomic == INSTANCE AtomicSave WITH Documents <- Document, pair <- Committed,
                           disturbed <- edits > 0

\* Two files, a journal, failures and crashes at any point look like one atomic save that
\* builds on what its process had opened, until a writer that ignores the lock interferes.
AtomicSpec == Atomic!Spec
=============================================================================
