--------------------- MODULE AssistantRequestRefinement ---------------------
(***************************************************************************)
(* AssistantRequest implements RequestLifecycle: turns, steps, operations, *)
(* jobs, failed saves and restarts are steps the promise does not mention. *)
(* A worker of the promise is a batch.                                     *)
(***************************************************************************)
EXTENDS AssistantRequest

\* What an item amounts to.  A restart can show a failed item waiting again, because
\* another of its operations is open; that it failed stays among its reasons.
Shown(item) ==
  IF "failed" \in item.waits THEN "failed"
  ELSE IF item.status \in {"pending", "waiting"} THEN "none" ELSE item.status

verdictBar == [i \in Items |-> Shown(req.items[i])]
writtenBar ==
  {[item |-> req.ops[e].item, rev |-> req.ops[e].rev, worker |-> req.ops[e].batch] : e \in applied}
vouchedBar ==
  {[item |-> req.ops[e].item, rev |-> req.ops[e].rev] :
     e \in {f \in DOMAIN req.ops : req.ops[f].receipt \in {"attested", "report"}
                                   /\ req.ops[f].status = "succeeded"}}

Lifecycle == INSTANCE RequestLifecycle
  WITH Workers <- Batches, Ways <- Targets,
       phase <- req.status, way <- req.target, revision <- req.rev,
       verdict <- verdictBar, written <- writtenBar, vouched <- vouchedBar

\* A request keeps its promise: through the gate each item of a revision is written by one
\* batch, before its verdict and never after a stop; a verdict is given once, and a good
\* one rests on such a write or on what a tool or the user has said; a request is completed
\* only with every item satisfied, and a stopped one ends the way the user asked for.
RequestSpec == Lifecycle!Spec
=============================================================================
