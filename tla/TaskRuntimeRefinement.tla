----------------------- MODULE TaskRuntimeRefinement -----------------------
(***************************************************************************)
(* TaskRuntime implements TaskLifecycle: pausing, dispatching, permits and *)
(* the closing of the application are steps the promise does not mention.  *)
(***************************************************************************)
EXTENDS TaskRuntime

PhaseOf ==
  [absent |-> "none", queued |-> "active", running |-> "active", paused |-> "active",
   cancelling |-> "cancelRequested",
   cancelled |-> "cancelled", completed |-> "completed", failed |-> "failed"]

phaseBar   == [j \in Jobs |-> PhaseOf[state[j]]]
effectsBar == [j \in Jobs |-> {n \in Nonces :
                 runs[n] > 0 /\ \E p \in issued : p.nonce = n /\ p.run = j}]

Lifecycle == INSTANCE TaskLifecycle
  WITH Tickets <- Nonces, phase <- phaseBar, effects <- effectsBar

\* The runtime keeps the lifecycle promise: one end per job, completed only without an
\* accepted cancel request, no formal mutation after one, and no mutation executed twice.
LifecycleSpec == Lifecycle!Spec
=============================================================================
