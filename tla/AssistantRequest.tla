-------------------------- MODULE AssistantRequest --------------------------
(***************************************************************************)
(* One request of the smart assistant: the items the user asked for, the   *)
(* batches of tool calls that work on them, the write operations (effects) *)
(* of those batches, and the background jobs some operations start.        *)
(* Everything in req is saved in the Session before it is acknowledged;    *)
(* leases, tools, jobs and the event router die with the process.          *)
(*                                                                         *)
(* The actors are the tool worker of each batch, the background jobs, the  *)
(* router that records how jobs ended, and the user, who pauses, amends    *)
(* or stops the request, cancels jobs and settles unknown outcomes.        *)
(***************************************************************************)
EXTENDS Naturals, FiniteSets, FiniteSetsExt, Sequences

CONSTANTS
  Items, Answers,       \* what was asked; the items a saved answer satisfies
  Needs,                \* [Items -> SUBSET Items], the dependencies
  Calls,                \* [Batches -> the number of tool calls of the batch]
  Targets,              \* how a request may be stopped
  MaxBatches, MaxOps, MaxRevision,
  MaxFaults, MaxCrashes \* saves that fail, and restarts

ASSUME RequestAssumption ==
  /\ Answers \subseteq Items /\ IsFiniteSet(Items)
  /\ Needs \in [Items -> SUBSET Items]
  /\ Targets \subseteq {"cancelled", "superseded", "failed"} /\ Targets # {}
  /\ {MaxBatches, MaxOps, MaxRevision, MaxFaults, MaxCrashes} \subseteq Nat
  /\ Calls \in [1 .. MaxBatches -> Nat \ {0}]

VARIABLES
  req,          \* the saved request
  leases,       \* the scheduler's turn lease, if any
  tools,        \* [Batches -> where the worker of the batch is]
  interrupted,  \* batches whose unstarted steps are being given up
  owner,        \* the operation that holds the write resource, or 0
  receipts,     \* step receipts whose save failed, kept for a retry
  jobs,         \* [Ops -> state of the operation's job]
  heard,        \* jobs whose terminal event has been published
  bound,        \* jobs the router knows
  unsaved,      \* of those, the ones whose result could not be saved
  notice,       \* a change of the request has not been announced yet
  applied,      \* operations whose commit has changed the project
  faults, crashes

worker  == <<leases, tools, interrupted, owner, receipts>>
runtime == <<jobs, heard, bound, unsaved>>
ghosts  == <<applied, crashes>>
vars    == <<req, worker, runtime, notice, ghosts, faults>>

Batches == 1 .. MaxBatches
Ops     == 1 .. MaxOps

\* Nothing depends on whether an operation, a batch or a job failed or was cancelled.
UnsettledOps     == {"bound", "running", "unknown"}
SettledOps       == {"succeeded", "failed"}
UnsettledBatches == {"running", "unknown"}
Ended            == {"completed", "failed"}
Reasons          == {"unknown", "control", "reconciled", "failed"}

-----------------------------------------------------------------------------
(* The request as a value: what the code computes before it saves.         *)

Terminal(r) == r.status \notin {"open", "stopping"}

OpenOps(r)   == {e \in DOMAIN r.ops : r.ops[e].status \in UnsettledOps}
Unsettled(r) ==
  \/ OpenOps(r) # {}
  \/ \E d \in DOMAIN r.batches : r.batches[d].status \in UnsettledBatches

Having(r, status) == {i \in Items : r.items[i].status = status}
SetItems(r, I, item(_)) ==
  [r EXCEPT !.items = [i \in Items |-> IF i \in I THEN item(@[i]) ELSE @[i]]]

Fail(r, I) ==
  SetItems(r, I, LAMBDA item : [status |-> "failed", waits |-> {"failed"}])

Hold(r, I, status, reason) ==
  SetItems(r, I, LAMBDA item : [status |-> status, waits |-> item.waits \cup {reason}])

\* Items that wait, directly or not, for one that failed: the least set with all of them.
Dependants(r) ==
  LET lost == Having(r, "failed") \cup Having(r, "cancelled")
      idle == Having(r, "pending") \cup Having(r, "waiting")
      waitFor(S) == {i \in idle : Needs[i] \cap S # {}}
  IN  {i \in idle : \A S \in SUBSET idle : waitFor(lost \cup S) \subseteq S => i \in S}

Conclude(r) ==
  CASE Having(r, "satisfied") = Items -> [r EXCEPT !.status = "completed"]
    [] /\ Having(r, "failed") # {}
       /\ Having(r, "satisfied") \cup Having(r, "failed") \cup Having(r, "cancelled") = Items
         -> [r EXCEPT !.status = "failed"]
    [] OTHER -> r

\* Mutant: a stop takes back what has been done.
StopAll(r) ==
  [SetItems(r, Items, LAMBDA item : [item EXCEPT !.status = "cancelled"])
     EXCEPT !.status = r.target]

Stop(r) ==
  [SetItems(r, Items \ (Having(r, "satisfied") \cup Having(r, "failed")),
            LAMBDA item : [item EXCEPT !.status = "cancelled"])
     EXCEPT !.status = r.target]

\* Mutant: a request converges while operations are still open.
ConvergeAtOnce(r) ==
  IF Terminal(r) THEN r
  ELSE IF r.status = "stopping" THEN Stop(r)
  ELSE Conclude(Fail(r, Dependants(r)))

Converge(r) ==
  IF Terminal(r) \/ Unsettled(r) THEN r
  ELSE IF r.status = "stopping" THEN Stop(r)
  ELSE Conclude(Fail(r, Dependants(r)))

\* Saved evidence satisfies items only of an open request.
Satisfy(r, I) ==
  Converge(IF r.status = "open"
           THEN SetItems(r, I, LAMBDA item : [status |-> "satisfied", waits |-> {}])
           ELSE r)

\* The outcome of an operation; success alone never satisfies its item.
RecordOutcome(r, e, outcome) ==
  LET op   == r.ops[e]
      told == [r EXCEPT !.ops[e].status = outcome]
  IN  IF op.status \in SettledOps THEN r
      ELSE Converge(
        IF outcome = "succeeded" \/ op.rev # r.rev \/ Terminal(r) THEN told
        ELSE IF outcome = "unknown" THEN Hold(told, {op.item}, "waiting", "unknown")
        ELSE Hold(told, {op.item}, "failed", "failed"))

Leaves(r, d) == {e \in DOMAIN r.ops : r.ops[e].batch = d}
AllGood(r, d) == \A e \in Leaves(r, d) : r.ops[e].status = "succeeded"

\* A running batch ends once every step has its receipt and no operation is open.
Refresh(r, d) ==
  LET b == r.batches[d] IN
  IF \/ b.status # "running"
     \/ \E s \in DOMAIN b.steps : b.steps[s] \in {"waiting", "started"}
     \/ Leaves(r, d) \cap OpenOps(r) # {}
  THEN b
  ELSE [b EXCEPT !.status =
         IF AllGood(r, d) /\ \A s \in DOMAIN b.steps : b.steps[s] = "completed" THEN "completed" ELSE "failed"]

\* Mutant: batches are judged although the request has ended.
JudgeLate(r) ==
  LET decided == {d \in DOMAIN r.batches :
                    /\ r.batches[d].status \notin UnsettledBatches
                    /\ r.batches[d].rev = r.rev
                    /\ Leaves(r, d) # {} /\ Leaves(r, d) \cap OpenOps(r) = {}}
      good    == {d \in decided : r.batches[d].status = "completed" /\ AllGood(r, d)}
      itemsOf(D) == {r.batches[d].item : d \in D}
  IN  Satisfy(Fail(r, itemsOf(decided \ good)), itemsOf(good))

\* Ended batches decide the item they worked on; a batch without writes decides nothing.
Judge(r) ==
  LET decided == {d \in DOMAIN r.batches :
                    /\ r.batches[d].status \notin UnsettledBatches
                    /\ r.batches[d].rev = r.rev
                    /\ Leaves(r, d) # {} /\ Leaves(r, d) \cap OpenOps(r) = {}}
      good    == {d \in decided : r.batches[d].status = "completed" /\ AllGood(r, d)}
      itemsOf(D) == {r.batches[d].item : d \in D}
  IN  IF Terminal(r) THEN r
      ELSE Satisfy(Fail(r, itemsOf(decided \ good)), itemsOf(good))

ReconcileBatches(r) ==
  Judge([r EXCEPT !.batches = [d \in DOMAIN @ |-> Refresh(r, d)]])

\* The first terminal receipt of a step wins.
FinishStep(r, x) ==
  IF r.batches[x.batch].steps[x.step] \in {"completed", "failed"} THEN r
  ELSE ReconcileBatches([r EXCEPT !.batches[x.batch].steps[x.step] =
                           IF x.ok THEN "completed" ELSE "failed"])

\* After a restart no result is assumed: open work is unknown, old permission void.
Recover(r) ==
  LET open == OpenOps(r)
      held == IF Terminal(r) THEN {}
              ELSE {r.ops[e].item : e \in {f \in open : r.ops[f].rev = r.rev}}
      known == [Hold(r, held, "waiting", "unknown")
                  EXCEPT !.ops = [e \in DOMAIN @ |->
                                    IF e \in open THEN [@[e] EXCEPT !.status = "unknown"] ELSE @[e]],
                         !.epoch = @ + 1]
      lose(d) == LET b == Refresh(known, d)
                 IN  IF b.status = "running" THEN [b EXCEPT !.status = "unknown"] ELSE b
  IN  ReconcileBatches([known EXCEPT !.batches = [d \in DOMAIN @ |-> lose(d)]])

WithdrawBatches(r) ==
  [r EXCEPT !.epoch = @ + 1,
            !.batches = [d \in DOMAIN @ |->
               IF @[d].status = "running" THEN [@[d] EXCEPT !.status = "failed"] ELSE @[d]]]

\* May this operation still write?  Asked before a job is bound or started and
\* again at every mutation.
MayWrite(e) ==
  LET op == req.ops[e] IN
  /\ req.status = "open" /\ op.rev = req.rev
  /\ op.epoch = req.epoch
  /\ req.items[op.item].waits = {}
  /\ op.status \in {"bound", "running"}

\* Mutant: an item is free although a batch that has not written yet works on it.
BusyWriting(r) == {r.ops[e].item : e \in OpenOps(r)}

Busy(r) ==
  {r.ops[e].item : e \in OpenOps(r)}
    \cup {r.batches[d].item : d \in {b \in DOMAIN r.batches : r.batches[b].status \in UnsettledBatches}}

Ready(r) ==
  IF r.status # "open" \/ r.paused THEN {}
  ELSE {i \in Having(r, "pending") \cup Having(r, "waiting") :
          /\ r.items[i].waits = {} /\ i \notin Busy(r)
          /\ Needs[i] \subseteq Having(r, "satisfied")}

-----------------------------------------------------------------------------
Untouched == [status |-> "pending", waits |-> {}]
Absent    == [at |-> "over", op |-> 0, step |-> 0, ok |-> FALSE]
Idle      == [Absent EXCEPT !.at = "idle"]

Init ==
  /\ req = [status |-> "open", target |-> "none", rev |-> 1, epoch |-> 0,
            paused |-> FALSE, items |-> [i \in Items |-> Untouched],
            ops |-> <<>>, batches |-> <<>>]
  /\ leases = {} /\ tools = [d \in Batches |-> Absent] /\ interrupted = {}
  /\ owner = 0 /\ receipts = {}
  /\ jobs = [e \in Ops |-> "none"] /\ heard = {} /\ bound = {} /\ unsaved = {}
  /\ notice = FALSE /\ applied = {} /\ faults = 0 /\ crashes = 0

Save(r)   == req' = r /\ UNCHANGED faults
SaveFails == faults < MaxFaults /\ faults' = faults + 1 /\ UNCHANGED req

Release(e) == owner' = IF owner = e THEN 0 ELSE owner

GoTo(d, at) == tools' = [tools EXCEPT ![d].at = at]
Close(d, ok) == tools' = [tools EXCEPT ![d].at = "closing", ![d].ok = ok]

\* New work needs the lease, the current request, and no result waiting to be saved.
Current(l) ==
  /\ req.status = "open" /\ req.rev = l.rev
  /\ receipts = {} /\ unsaved = {}
Admitted(l) == Current(l) /\ ~req.paused /\ req.epoch = l.epoch

Holding(d) == {l \in leases : l.batch = d /\ Admitted(l)}

-----------------------------------------------------------------------------
(* Turns.                                                                  *)

TakeTurn ==
  /\ leases = {} /\ Ready(req) # {}
  /\ \E work \in SUBSET (Ready(req) \ Answers) :
       /\ Cardinality(work) = IF Ready(req) \subseteq Answers THEN 0 ELSE 1
       /\ leases' = {[batch |-> 0, rev |-> req.rev, epoch |-> req.epoch,
                      ready |-> (Ready(req) \cap Answers) \cup work]}
  /\ UNCHANGED <<req, tools, interrupted, owner, receipts, runtime, notice, ghosts, faults>>

Answer ==
  /\ \E l \in leases : \E i \in l.ready \cap Answers :
       /\ req.status = "open" /\ req.rev = l.rev /\ req.epoch = l.epoch
       /\ Save(Satisfy(req, {i}))
  /\ UNCHANGED <<worker, runtime, notice, ghosts>>

\* The turn ends or the user stops it (unstarted steps are given up), or another
\* window takes the session over.
EndTurn ==
  /\ leases # {} /\ leases' = {}
  /\ interrupted' = interrupted \cup ({l.batch : l \in leases} \ {0})
  /\ UNCHANGED <<req, tools, owner, receipts, runtime, notice, ghosts, faults>>

Handoff ==
  /\ leases # {} /\ leases' = {}
  /\ UNCHANGED <<req, tools, interrupted, owner, receipts, runtime, notice, ghosts, faults>>

BeginBatch ==
  \E l \in leases : \E i \in l.ready \ Answers :
    /\ l.batch = 0 /\ Current(l) /\ Len(req.batches) < MaxBatches
    /\ LET d == Len(req.batches) + 1 IN
       /\ Save([req EXCEPT !.batches = Append(@,
                 [item |-> i, rev |-> l.rev, status |-> "running",
                  steps |-> [s \in 1 .. Calls[d] |-> "waiting"]])])
       /\ leases' = {[l EXCEPT !.batch = d]}
       /\ tools' = [tools EXCEPT ![d] = Idle]
    /\ UNCHANGED <<interrupted, owner, receipts, runtime, notice, ghosts>>

-----------------------------------------------------------------------------
(* The worker of batch d.                                                  *)

Waiting(d) == {s \in DOMAIN req.batches[d].steps : req.batches[d].steps[s] = "waiting"}

StartStep(d) ==
  /\ tools[d].at = "idle" /\ Waiting(d) # {} /\ Holding(d) # {}
  /\ req.batches[d].status = "running"
  /\ LET s == Min(Waiting(d)) IN
     \/ /\ Save([req EXCEPT !.batches[d].steps[s] = "started"])
        /\ tools' = [tools EXCEPT ![d] = [Idle EXCEPT !.at = "started", !.step = s]]
        /\ UNCHANGED <<interrupted, receipts>>
     \/ /\ SaveFails      \* no tool has run: a failed receipt is kept instead
        /\ GoTo(d, "over") /\ interrupted' = interrupted \cup {d}
        /\ receipts' = receipts \cup {[batch |-> d, step |-> s, ok |-> FALSE]}
  /\ UNCHANGED <<leases, owner, runtime, notice, ghosts>>

RefuseStart(d) ==
  /\ tools[d].at = "idle" /\ Waiting(d) # {} /\ Holding(d) = {}
  /\ GoTo(d, "over") /\ interrupted' = interrupted \cup {d}
  /\ UNCHANGED <<req, leases, owner, receipts, runtime, notice, ghosts, faults>>

\* Mutant: the write resource is shared.
MayAdmitShared(d) ==
  /\ Holding(d) # {}
  /\ req.items[req.batches[d].item].waits = {}

MayAdmit(d) ==
  /\ Holding(d) # {} /\ owner = 0
  /\ req.items[req.batches[d].item].waits = {}

\* The intent of the write is saved before the tool runs.
Admit(d) ==
  /\ tools[d].at = "started" /\ MayAdmit(d) /\ Len(req.ops) < MaxOps
  /\ LET e == Len(req.ops) + 1 IN
     \/ /\ Save([req EXCEPT !.ops = Append(@,
                  [item |-> req.batches[d].item, batch |-> d, rev |-> req.rev,
                   epoch |-> req.epoch, status |-> "running",
                   job |-> FALSE, receipt |-> "none"])])
        /\ owner' = e
        /\ tools' = [tools EXCEPT ![d].at = "running", ![d].op = e]
     \/ SaveFails /\ Close(d, FALSE) /\ UNCHANGED owner
  /\ UNCHANGED <<leases, interrupted, receipts, runtime, notice, ghosts>>

\* No write is admitted: refused by a guard or by MayAdmit, or a call that only reads,
\* which may fail as well.
Refuse(d) ==
  /\ tools[d].at = "started" /\ \E ok \in BOOLEAN : Close(d, ok)
  /\ UNCHANGED <<req, leases, interrupted, owner, receipts, runtime, notice, ghosts, faults>>

\* Check and mutation are one step under the service lock.  If the receipt of a
\* mutation that ran cannot be saved, the tool is told that nothing was committed.
Commit(d) ==
  /\ tools[d].at = "running" /\ MayWrite(tools[d].op)
  /\ applied' = applied \cup {tools[d].op}
  /\ \/ Save([req EXCEPT !.ops[tools[d].op].receipt = "commit"]) /\ GoTo(d, "committed")
     \/ SaveFails /\ GoTo(d, "refused")
  /\ UNCHANGED <<leases, interrupted, owner, receipts, runtime, notice, crashes>>

\* The tool returns and its word is taken: the receipt is its own report, whether it has
\* committed anything or not.  A result that cannot be saved leaves the operation running
\* in the store.
After(d) ==
  LET e == tools[d].op IN
  /\ tools[d].at \in {"running", "committed", "refused"}
  /\ \/ \E ok \in BOOLEAN :
          /\ Save(RecordOutcome([req EXCEPT !.ops[e].receipt = "report"], e,
                                 IF ok THEN "succeeded" ELSE "failed"))
          /\ Close(d, ok)
     \/ SaveFails /\ Close(d, FALSE)
  /\ Release(e)
  /\ UNCHANGED <<leases, interrupted, receipts, runtime, notice, ghosts>>

\* The tool raises: what it has done is unknown, and its resource stays taken.
Failed(d) ==
  /\ tools[d].at \in {"running", "committed", "refused"}
  /\ Save(RecordOutcome(req, tools[d].op, "unknown")) \/ SaveFails
  /\ Close(d, FALSE)
  /\ UNCHANGED <<leases, interrupted, owner, receipts, runtime, notice, ghosts>>

\* The receipt of the step; one that cannot be saved is kept for the next announcement.
\* A step may fail although its operation succeeded: the result was partial, the attempt
\* could not be saved, a guard rejected what the tool said.
Finish(d) ==
  /\ tools[d].at = "closing"
  /\ \E ok \in {FALSE, tools[d].ok} :
       LET x == [batch |-> d, step |-> tools[d].step, ok |-> ok] IN
       \/ Save(FinishStep(req, x)) /\ UNCHANGED receipts
       \/ SaveFails /\ receipts' = receipts \cup {x}
  /\ tools' = [tools EXCEPT ![d] = Idle]
  /\ UNCHANGED <<leases, interrupted, owner, runtime, notice, ghosts>>

GiveUp(r, d, S) ==
  IF S = {} THEN r
  ELSE ReconcileBatches([r EXCEPT !.batches[d].steps =
         [s \in DOMAIN @ |-> IF s \in S THEN "failed" ELSE @[s]]])

\* The unstarted steps of an interrupted batch get failed receipts, under the lock.
Interrupt(d) ==
  /\ d \in interrupted /\ interrupted' = interrupted \ {d}
  /\ \E lost \in SUBSET Waiting(d) :
       /\ lost # {} => faults < MaxFaults
       /\ faults' = IF lost = {} THEN faults ELSE faults + 1
       /\ req' = GiveUp(req, d, Waiting(d) \ lost)
       /\ receipts' = {x \in receipts : x.batch = d => x.step \notin Waiting(d)}
                        \cup {[batch |-> d, step |-> s, ok |-> FALSE] : s \in lost}
  /\ UNCHANGED <<leases, tools, owner, runtime, notice, ghosts>>

-----------------------------------------------------------------------------
(* An operation that runs as a background job.                             *)

Submit(d) ==
  /\ tools[d].at = "running" /\ tools[d].op \notin applied
  /\ jobs' = [jobs EXCEPT ![tools[d].op] = "queued"]
  /\ GoTo(d, "submitted")
  /\ UNCHANGED <<req, leases, interrupted, owner, receipts, heard, bound, unsaved,
                 notice, ghosts, faults>>

Stopped(j) == IF j = "queued" THEN "failed" ELSE IF j = "running" THEN "cancelling" ELSE j

\* Saving which job works for the operation; on failure the job is withdrawn.
Associate(d) ==
  LET e == tools[d].op IN
  /\ tools[d].at = "submitted"
  /\ \/ /\ MayWrite(e)
        /\ Save([req EXCEPT !.ops[e].job = TRUE, !.ops[e].status = "bound"])
        /\ GoTo(d, "associated") /\ UNCHANGED jobs
     \/ /\ \/ ~MayWrite(e) /\ UNCHANGED <<req, faults>>
           \/ MayWrite(e) /\ SaveFails
        /\ jobs' = [jobs EXCEPT ![e] = Stopped(@)]
        /\ GoTo(d, "refused")
  /\ UNCHANGED <<leases, interrupted, owner, receipts, heard, bound, unsaved, notice, ghosts>>

\* Only now does the router know the job.
Bind(d) ==
  /\ tools[d].at = "associated"
  /\ bound' = bound \cup {tools[d].op}
  /\ GoTo(d, "bound")
  /\ UNCHANGED <<req, leases, interrupted, owner, receipts, jobs, heard, unsaved,
                 notice, ghosts, faults>>

\* The last check before the thread starts; a refused job stays queued.
Launch(d) ==
  LET e == tools[d].op IN
  /\ tools[d].at = "bound"
  /\ \/ /\ jobs[e] = "queued" /\ MayWrite(e)
        /\ Save([req EXCEPT !.ops[e].status = "running"])
        /\ jobs' = [jobs EXCEPT ![e] = "running"]
        /\ Close(d, TRUE)
     \/ /\ \/ ~(jobs[e] = "queued" /\ MayWrite(e)) /\ UNCHANGED <<req, faults>>
           \/ jobs[e] = "queued" /\ MayWrite(e) /\ SaveFails
        /\ Close(d, FALSE) /\ UNCHANGED jobs
  /\ UNCHANGED <<leases, interrupted, owner, receipts, heard, bound, unsaved, notice, ghosts>>

JobCommit(e) ==
  /\ jobs[e] = "running" /\ e \notin applied /\ MayWrite(e)
  /\ applied' = applied \cup {e}
  /\ Save([req EXCEPT !.ops[e].receipt = "commit"]) \/ SaveFails
  /\ UNCHANGED <<worker, runtime, notice, crashes>>

JobEnd(e) ==
  /\ \/ jobs[e] = "running" /\ \E end \in {"completed", "failed"} : jobs' = [jobs EXCEPT ![e] = end]
     \/ jobs[e] = "cancelling" /\ jobs' = [jobs EXCEPT ![e] = "failed"]
  /\ UNCHANGED <<req, worker, heard, bound, unsaved, notice, ghosts, faults>>

\* Mutant: the end of a job is taken for the end of its write.
VerdictTrusting(e) == IF jobs[e] = "completed" THEN "succeeded" ELSE jobs[e]

\* A job that completed without a saved commit proves nothing.
Verdict(e) ==
  IF jobs[e] # "completed" THEN jobs[e]
  ELSE IF req.ops[e].receipt = "commit" THEN "succeeded" ELSE "unknown"

Deliver(e, r) == ReconcileBatches(RecordOutcome(r, e, Verdict(e)))

Told(e) ==
  /\ Save(Deliver(e, req))
  /\ bound' = bound \ {e} /\ unsaved' = unsaved \ {e}
  /\ (IF Verdict(e) = "unknown" THEN UNCHANGED owner ELSE Release(e))
  /\ notice' = TRUE

\* The terminal event of a job: the router drops it if it does not know the job,
\* and keeps the result for later if three saves fail.
Hear(e) ==
  /\ jobs[e] \in Ended /\ e \notin heard
  /\ heard' = heard \cup {e}
  /\ \/ e \notin bound /\ UNCHANGED <<req, faults, bound, unsaved, owner, notice>>
     \/ e \in bound /\ Told(e)
     \/ /\ e \in bound /\ SaveFails
        /\ unsaved' = unsaved \cup {e} /\ UNCHANGED <<bound, owner, notice>>
  /\ UNCHANGED <<leases, tools, interrupted, receipts, jobs, ghosts>>

\* Every announcement of a change tries once more to save what was kept back,
RetryResult(e) ==
  /\ notice /\ e \in unsaved /\ Told(e)
  /\ UNCHANGED <<leases, tools, interrupted, receipts, jobs, heard, ghosts>>

RetryReceipt(x) ==
  /\ notice /\ x \in receipts
  /\ Save(FinishStep(req, x)) /\ receipts' = receipts \ {x}
  /\ UNCHANGED <<leases, tools, interrupted, owner, runtime, notice, ghosts>>

\* Mutant: only an amendment makes running jobs stale.
StaleAmended(r, e) == r.rev # r.ops[e].rev

Stale(r, e) == r.status = "stopping" \/ r.rev # r.ops[e].rev

\* and then cancels the known jobs of a stopping or amended request.
Notify ==
  /\ notice /\ notice' = FALSE
  /\ \/ receipts = {} /\ unsaved = {} /\ UNCHANGED <<req, faults>>
     \/ (receipts # {} \/ unsaved # {}) /\ SaveFails
  /\ jobs' = [e \in Ops |-> IF e \in bound /\ Stale(req, e) THEN Stopped(jobs[e]) ELSE jobs[e]]
  /\ UNCHANGED <<worker, heard, bound, unsaved, ghosts>>

-----------------------------------------------------------------------------
(* The user.                                                               *)

Command(r) ==
  /\ req.status = "open"
  /\ Save(r) /\ notice' = TRUE
  /\ UNCHANGED <<worker, runtime, ghosts>>

Pause == Command([req EXCEPT !.paused = TRUE])

Resume ==
  Command(Converge(SetItems([req EXCEPT !.paused = FALSE], Items,
    LAMBDA item : [status |-> IF item = [status |-> "waiting", waits |-> {"reconciled"}]
                              THEN "pending" ELSE item.status,
                   waits  |-> item.waits \ {"reconciled"}])))

\* Mutant: the request forgets how it is to be stopped.
CancelNoTarget == Command(Converge(WithdrawBatches([req EXCEPT !.status = "stopping"])))

Cancel ==
  \E target \in Targets :
    Command(Converge(WithdrawBatches([req EXCEPT !.status = "stopping", !.target = target])))

Amend ==
  /\ req.rev < MaxRevision
  /\ Command(WithdrawBatches([req EXCEPT !.rev = @ + 1, !.items = [i \in Items |-> Untouched]]))

\* Cancelling a job from the task centre acts on the job first and then blocks the item.
CancelJob(e) ==
  /\ jobs[e] \in {"queued", "running"}
  /\ jobs' = [jobs EXCEPT ![e] = Stopped(@)]
  /\ \/ /\ req.ops[e].job
        /\ Save(SetItems(req, {req.ops[e].item},
                  LAMBDA item : [item EXCEPT !.waits = @ \cup {"control"}]))
        /\ notice' = TRUE
     \/ ~req.ops[e].job /\ UNCHANGED <<req, faults, notice>>
     \/ req.ops[e].job /\ SaveFails /\ UNCHANGED notice
  /\ UNCHANGED <<worker, heard, bound, unsaved, ghosts>>

\* The user states what an operation of unknown outcome did; its job must be over.
\* The item continues only after an explicit resume.
Settle(e, outcome) ==
  /\ req.ops[e].status = "unknown" /\ jobs[e] \in Ended \cup {"none"}
  /\ LET r    == RecordOutcome([req EXCEPT !.ops[e].receipt = "attested"], e, outcome)
         mine == IF Terminal(r) \/ r.rev # r.ops[e].rev THEN {} ELSE {r.ops[e].item}
     IN  Save(Converge(ReconcileBatches(SetItems(r, mine, LAMBDA item :
           [item EXCEPT !.waits = (@ \ {"unknown"}) \cup {"reconciled"}]))))
  /\ Release(e) /\ notice' = TRUE
  /\ UNCHANGED <<leases, tools, interrupted, receipts, runtime, ghosts>>

SettleBatch(d, outcome) ==
  /\ req.batches[d].status = "unknown" /\ Leaves(req, d) \cap OpenOps(req) = {}
  /\ Save(ReconcileBatches([req EXCEPT !.batches[d].status = outcome]))
  /\ notice' = TRUE
  /\ UNCHANGED <<worker, runtime, ghosts>>

-----------------------------------------------------------------------------
Crash ==
  /\ crashes < MaxCrashes /\ crashes' = crashes + 1
  /\ Save(Recover(req))
  /\ leases' = {} /\ tools' = [d \in Batches |-> Absent] /\ interrupted' = {}
  /\ owner' = 0 /\ receipts' = {}
  /\ jobs' = [e \in Ops |-> "none"] /\ heard' = {} /\ bound' = {} /\ unsaved' = {}
  /\ notice' = FALSE
  /\ UNCHANGED applied

Tool(d) ==
  \/ StartStep(d) \/ RefuseStart(d) \/ Admit(d) \/ Refuse(d) \/ Commit(d)
  \/ After(d) \/ Failed(d) \/ Finish(d)
  \/ Submit(d) \/ Associate(d) \/ Bind(d) \/ Launch(d)

Job(e) == JobCommit(e) \/ JobEnd(e) \/ Hear(e)

User ==
  \/ Pause \/ Resume \/ Cancel \/ Amend
  \/ \E e \in DOMAIN req.ops :
       CancelJob(e) \/ \E outcome \in SettledOps : Settle(e, outcome)
  \/ \E d \in DOMAIN req.batches, outcome \in Ended : SettleBatch(d, outcome)

Next ==
  \/ TakeTurn \/ Answer \/ EndTurn \/ Handoff \/ BeginBatch
  \/ \E d \in DOMAIN req.batches : Tool(d) \/ Interrupt(d)
  \/ \E e \in DOMAIN req.ops : Job(e)
  \/ \E e \in unsaved : RetryResult(e)
  \/ \E x \in receipts : RetryReceipt(x)
  \/ Notify \/ User \/ Crash

Spec == Init /\ [][Next]_vars

Working == {"running", "committed", "refused", "submitted", "associated", "bound"}
Places  == Working \cup {"idle", "started", "closing", "over"}

\* The worker of an operation, the delivery of events and the listeners run on; a
\* job need only end once its cancellation is requested.  The subscripts name what
\* each of them moves, so that a step that does not is no progress.
Fairness ==
  /\ WF_tools(\E d \in Batches : tools[d].at \in Working
                /\ \E at \in Places, ok \in BOOLEAN : tools' = [tools EXCEPT ![d].at = at, ![d].ok = ok])
  /\ WF_jobs(\E e \in Ops : jobs[e] = "cancelling" /\ jobs' = [jobs EXCEPT ![e] = "failed"])
  /\ WF_heard(\E e \in Ops : jobs[e] \in Ended /\ heard' = heard \cup {e})
  /\ WF_notice(notice /\ notice' = FALSE)

FairSpec == Spec /\ Fairness

-----------------------------------------------------------------------------
Item  == [status : {"pending", "waiting", "satisfied", "failed", "cancelled"}, waits : SUBSET Reasons]
Op    == [item : Items \ Answers, batch : Batches, rev : Nat, epoch : Nat, job : BOOLEAN,
          status : UnsettledOps \cup SettledOps, receipt : {"none", "commit", "report", "attested"}]
Batch == [item : Items \ Answers, rev : Nat, status : UnsettledBatches \cup Ended,
          steps : Seq({"waiting", "started", "completed", "failed"})]

\* Types of the saved request and of what the process remembers about it.
TypeOK ==
  /\ req \in [status : {"open", "stopping", "completed"} \cup Targets \cup {"failed"},
              target : Targets \cup {"none"}, rev : Nat, epoch : Nat, paused : BOOLEAN,
              items : [Items -> Item], ops : Seq(Op), batches : Seq(Batch)]
  /\ leases \subseteq [batch : {0} \cup Batches, rev : Nat, epoch : Nat, ready : SUBSET Items]
  /\ Cardinality(leases) <= 1
  /\ tools \in [Batches -> [at : Places, op : {0} \cup Ops, step : Nat, ok : BOOLEAN]]
  /\ interrupted \subseteq Batches /\ owner \in {0} \cup Ops
  /\ receipts \subseteq [batch : Batches, step : Nat, ok : BOOLEAN]
  /\ jobs \in [Ops -> {"none", "queued", "running", "cancelling"} \cup Ended]
  /\ heard \subseteq Ops /\ bound \subseteq Ops /\ unsaved \subseteq bound /\ applied \subseteq Ops
  /\ notice \in BOOLEAN /\ faults \in Nat /\ crashes \in Nat

\* Somebody still works for this operation: its tool runs, or its job lives.  Not every
\* tool asks the gate: an archive is unpacked and a dictionary saved whatever has become
\* of the request in the meantime, and nothing of it is recorded.  So whoever is at work
\* may write at any time.
AtWork(e) ==
  \/ \E d \in Batches : /\ tools[d].op = e
                        /\ tools[d].at \in {"running", "committed", "refused"}
  \/ jobs[e] \in {"queued", "running", "cancelling"}

\* A request reaches a terminal state only when no operation or batch of it is
\* open or unknown and nobody is left who could still change the project.
TerminalMeansSettled ==
  Terminal(req) => ~Unsettled(req) /\ \A e \in Ops : ~AtWork(e)

\* An operation owns the write resource as long as anybody works for it, so two
\* operations never write side by side, whatever is stopped, amended or handed over.
WorkOwnsResource == \A e \in Ops : AtWork(e) => owner = e

\* Within one revision an item is written, with or without asking, by the calls of a single
\* batch: neither a failed save, a restart nor a resume makes the assistant do the same
\* work again.
WrittenOnce ==
  \A e, f \in DOMAIN req.ops :
    (req.ops[e].item = req.ops[f].item /\ req.ops[e].rev = req.ops[f].rev)
      => req.ops[e].batch = req.ops[f].batch

\* What the success of an operation rests on: of a job, a commit that changed the project;
\* of a tool, its report; of either, the word of the user.
Grounded(e) ==
  \/ req.ops[e].receipt = "attested"
  \/ IF req.ops[e].job THEN e \in applied ELSE req.ops[e].receipt = "report"

\* A satisfied execution item is backed by a batch of the current revision whose
\* operations all succeeded, no job just because it came to an end, and for which nobody
\* works any more.
SatisfiedIsBacked ==
  \A i \in Items \ Answers : req.items[i].status = "satisfied" =>
    \E d \in DOMAIN req.batches :
      /\ req.batches[d].item = i /\ req.batches[d].rev = req.rev
      /\ Leaves(req, d) # {}
      /\ \A e \in Leaves(req, d) :
           req.ops[e].status = "succeeded" /\ Grounded(e) /\ ~AtWork(e)

\* A late result never changes the verdict on a request that has ended or on its items.
TerminalIsFinal ==
  [][Terminal(req) => /\ req'.status = req.status
                      /\ \A i \in Items : req'.items[i].status = req.items[i].status]_vars

\* Nobody will tell the outcome of e: its job ended before the router knew it, or its
\* start was refused after the jobs of the stopped request had been cancelled.
Lost(e) ==
  /\ e \in DOMAIN req.ops /\ req.ops[e].job /\ req.ops[e].status \in {"bound", "running"}
  /\ \/ e \in heard \ unsaved
     \/ /\ jobs[e] = "queued" /\ ~notice
        /\ \A d \in Batches : tools[d].op = e => tools[d].at \notin Working

\* A stopped request comes to an end or to a question for the user, unless a save
\* failed or the outcome of a job was lost.
StopSettles ==
  (req.status = "stopping") ~>
    \/ Terminal(req) \/ faults > 0
    \/ \E e \in DOMAIN req.ops : req.ops[e].status = "unknown"
    \/ \E d \in DOMAIN req.batches : req.batches[d].status = "unknown"
    \/ \E e \in Ops : Lost(e)

\* The outcome of a job that has ended is recorded with its operation.
EndedJobsAreRecorded ==
  \A e \in Ops :
    (e \in DOMAIN req.ops /\ req.ops[e].job /\ jobs[e] \in Ended)
      ~> (e \in DOMAIN req.ops /\ (req.ops[e].status \notin {"bound", "running"} \/ faults > 0))
=============================================================================
