--------------------------- MODULE TaskLifecycle ---------------------------
(***************************************************************************)
(* What the task runtime promises the rest of the application about a job, *)
(* without threads, revisions or permits: a job is admitted once, a        *)
(* cancellation request is a barrier after which none of its formal        *)
(* mutations starts, and it ends once, as completed only if no request was *)
(* ever accepted.  TaskRuntime implements it (TaskRuntimeRefinement).      *)
(***************************************************************************)
CONSTANTS Jobs, Tickets   \* a ticket authorises one formal mutation

VARIABLES
  phase,     \* [Jobs -> Phases]
  effects    \* [Jobs -> SUBSET Tickets]: the mutations executed for a job

vars == <<phase, effects>>

Results == {"cancelled", "completed", "failed"}
Phases  == {"none", "active", "cancelRequested"} \cup Results

TypeOK ==
  /\ phase \in [Jobs -> Phases]
  /\ effects \in [Jobs -> SUBSET Tickets]

Init ==
  /\ phase = [j \in Jobs |-> "none"]
  /\ effects = [j \in Jobs |-> {}]

Become(j, from, to) ==
  /\ phase[j] = from
  /\ phase' = [phase EXCEPT ![j] = to]

Admit(j) == Become(j, "none", "active") /\ UNCHANGED effects

RequestCancel(j) == Become(j, "active", "cancelRequested") /\ UNCHANGED effects

\* Ending a job; a job nobody has started may be cancelled at once.
End(j) ==
  /\ \/ \E result \in Results : Become(j, "active", result)
     \/ \E result \in {"cancelled", "failed"} : Become(j, "cancelRequested", result)
  /\ UNCHANGED effects

\* A mutation that raises leaves the job failed.
Mutate(j, t) ==
  /\ \A k \in Jobs : t \notin effects[k]
  /\ effects' = [effects EXCEPT ![j] = @ \cup {t}]
  /\ phase[j] = "active"
  /\ phase' = phase \/ Become(j, "active", "failed")

Next == \E j \in Jobs :
  Admit(j) \/ RequestCancel(j) \/ End(j) \/ \E t \in Tickets : Mutate(j, t)

Spec == Init /\ [][Next]_vars
=============================================================================
