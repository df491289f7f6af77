---------------------- MODULE AssistantRequestProofs ----------------------
(***************************************************************************)
(* AssistantRequest for any items, dependencies, calls and bounds, and any *)
(* number of failed saves and restarts: its types, WorkOwnsResource,       *)
(* TerminalMeansSettled, WrittenOnce, SatisfiedIsBacked, TerminalIsFinal.  *)
(*                                                                         *)
(* The argument has two halves.  Of the request as a value (ReqInv): every *)
(* operation the code applies to it before a save keeps that of the        *)
(* batches of one item and revision only the last has writes, and that a   *)
(* batch with writes is unsettled or has decided its item.  Of the process *)
(* around it: a lease belongs to the newest batch or to unwritten items, a *)
(* worker stays in the step it has started, and an operation for which a   *)
(* worker or a job still lives is open and holds the resource.  What a     *)
(* change of the request leaves to the workers is said once, in Keeps.     *)
(***************************************************************************)
EXTENDS AssistantRequest, SequenceTheorems, FiniteSetTheorems, WellFoundedInduction, TLAPS

-----------------------------------------------------------------------------
(* The library facts the proofs need. *)

\* A nonempty set of numbers contains its minimum.
LEMMA MinIn ==
  ASSUME NEW S \in SUBSET Nat, S # {}
  PROVE  Min(S) \in S
<1> DEFINE Less == {p \in Nat \X Nat : p[1] < p[2]}
<1>1. Less = OpToRel(<, Nat)
  BY DEF OpToRel
<1>2. IsWellFoundedOn(Less, Nat)
  BY <1>1, NatLessThanWellFounded
<1>3. PICK x \in S : \A y \in S : ~ (<<y, x>> \in Less)
  <2> HIDE DEF Less
  <2> QED
    BY <1>2, WFMin
<1>4. \A y \in S : x <= y
  <2> SUFFICES ASSUME NEW y \in S, y < x PROVE FALSE
    OBVIOUS
  <2>1. <<y, x>> \in Less
    OBVIOUS
  <2> QED
    BY <1>3, <2>1
<1> QED
  BY <1>4 DEF Min

\* A sequence whose elements are replaced stays a sequence of the same length.
LEMMA SeqLike ==
  ASSUME NEW S, NEW s \in Seq(S), NEW f \in [DOMAIN s -> S]
  PROVE  f \in Seq(S) /\ Len(f) = Len(s) /\ DOMAIN f = DOMAIN s
<1>1. Len(s) \in Nat /\ DOMAIN s = 1 .. Len(s)
  BY LenProperties
<1>2. f \in [1 .. Len(s) -> S]
  BY <1>1
<1>3. f \in Seq(S)
  BY <1>1, <1>2, SeqDef
<1>4. DOMAIN f = 1 .. Len(f) /\ Len(f) \in Nat
  BY <1>3, LenProperties
<1>5. Len(f) = Len(s)
  BY <1>1, <1>2, <1>4
<1> QED
  BY <1>1, <1>2, <1>3, <1>5

-----------------------------------------------------------------------------
(* Requests and what holds of them between two saves. *)

StepStates == {"waiting", "started", "completed", "failed"}

\* The requests of TypeOK.
Request ==
  [status : {"open", "stopping", "completed"} \cup Targets \cup {"failed"},
   target : Targets \cup {"none"}, rev : Nat, epoch : Nat, paused : BOOLEAN,
   items : [Items -> Item], ops : Seq(Op), batches : Seq(Batch)]

\* A request being stopped knows how; a batch is no newer than its request.
StopOK(r)  == r.status = "stopping" => r.target \in Targets
CountOK(r) == /\ Len(r.ops) <= MaxOps /\ Len(r.batches) <= MaxBatches
              /\ \A d \in DOMAIN r.batches : r.batches[d].rev <= r.rev

\* A background job works for the operation; it is never sent back to its tool.
HasJob(op) == op.job

\* What the success of an operation rests on (Grounded).
Rests(op, e, done) ==
  \/ op.receipt = "attested"
  \/ IF HasJob(op) THEN e \in done ELSE op.receipt = "report"

\* An operation works on the item and the revision of its batch, and success rests on
\* something.
OpsOK(r, done) ==
  /\ done \subseteq DOMAIN r.ops
  /\ \A e \in DOMAIN r.ops :
       /\ r.ops[e].batch \in DOMAIN r.batches
       /\ r.ops[e].item = r.batches[r.ops[e].batch].item
       /\ r.ops[e].rev = r.batches[r.ops[e].batch].rev
       /\ r.ops[e].receipt = "commit" => e \in done
       /\ r.ops[e].status = "succeeded" => Rests(r.ops[e], e, done)

\* Of the batches of one item and revision only the last one has writes.
OneWriter(r) ==
  \A c, d \in DOMAIN r.batches :
    c < d /\ r.batches[c].item = r.batches[d].item /\ r.batches[c].rev = r.batches[d].rev
      => Leaves(r, c) = {}

\* While the request is open, a batch with writes is unsettled or has decided its item.
Decided(r) ==
  r.status = "open" => \A d \in DOMAIN r.batches :
    r.batches[d].rev = r.rev /\ Leaves(r, d) # {} =>
      \/ r.batches[d].status \in UnsettledBatches
      \/ Leaves(r, d) \cap OpenOps(r) # {}
      \/ r.items[r.batches[d].item].status \in {"satisfied", "failed"}

\* The evidence behind a satisfied item: SatisfiedIsBacked, and the batch has ended.
Backed(r, done, i) ==
  \E d \in DOMAIN r.batches :
    /\ r.batches[d].item = i /\ r.batches[d].rev = r.rev
    /\ r.batches[d].status = "completed"
    /\ Leaves(r, d) # {}
    /\ \A e \in Leaves(r, d) :
         r.ops[e].status = "succeeded" /\ Rests(r.ops[e], e, done)

SatBacked(r, done) ==
  \A i \in Items \ Answers : r.items[i].status = "satisfied" => Backed(r, done, i)

Concluded(r) == Terminal(r) => ~Unsettled(r)

\* What holds of a request before its batches have been judged, and after.
Base(r, done) ==
  /\ r \in Request /\ StopOK(r) /\ CountOK(r) /\ OpsOK(r, done) /\ OneWriter(r)
  /\ SatBacked(r, done) /\ Concluded(r)

ReqInv(r, done) == Base(r, done) /\ Decided(r)

LEMMA Typed ==
  ASSUME NEW r \in Request
  PROVE  /\ Len(r.ops) \in Nat /\ DOMAIN r.ops = 1 .. Len(r.ops) /\ r.ops \in [DOMAIN r.ops -> Op]
         /\ Len(r.batches) \in Nat /\ DOMAIN r.batches = 1 .. Len(r.batches)
         /\ r.batches \in [DOMAIN r.batches -> Batch]
         /\ r.items \in [Items -> Item] /\ r.rev \in Nat /\ r.epoch \in Nat
         /\ r.status \in {"open", "stopping", "completed"} \cup Targets \cup {"failed"}
         /\ r.target \in Targets \cup {"none"} /\ r.paused \in BOOLEAN
BY LenProperties DEF Request

LEMMA TypedSteps ==
  ASSUME NEW b \in Batch
  PROVE  /\ DOMAIN b.steps \subseteq Nat
         /\ b.steps \in [DOMAIN b.steps -> StepStates]
<1>1. b.steps \in Seq(StepStates)
  BY DEF Batch, StepStates
<1> QED
  BY <1>1, LenProperties

LEMMA TypedLeaf ==
  ASSUME NEW r \in Request, NEW e \in DOMAIN r.ops
  PROVE  r.ops[e] \in Op
BY Typed

LEMMA TypedBatch ==
  ASSUME NEW r \in Request, NEW d \in DOMAIN r.batches
  PROVE  r.batches[d] \in Batch
BY Typed

\* Only the status and the items of a request change: a verdict.
SameWork(r, c) ==
  /\ c.target = r.target /\ c.rev = r.rev /\ c.epoch = r.epoch /\ c.paused = r.paused
  /\ c.ops = r.ops /\ c.batches = r.batches

Verdicts(r, c) ==
  /\ c \in Request /\ SameWork(r, c)
  /\ Terminal(r) => c.status = r.status /\ \A i \in Items : c.items[i].status = r.items[i].status
  /\ Terminal(c) => Terminal(r) \/ ~Unsettled(r)
  /\ c.status \in {"open", "stopping"} => c.status = r.status
  /\ c.status = "open" => \A i \in Items :
       r.items[i].status \in {"satisfied", "failed"} => c.items[i].status \in {"satisfied", "failed"}

NoNewSatisfied(r, c) ==
  \A i \in Items : c.items[i].status = "satisfied" => r.items[i].status = "satisfied"

LEMMA TerminalStatus ==
  ASSUME NEW r \in Request
  PROVE  /\ ~Terminal(r) <=> r.status \in {"open", "stopping"}
         /\ \A t \in Targets : t \notin {"open", "stopping"}
BY RequestAssumption DEF Terminal

LEMMA ConvergeFacts ==
  ASSUME NEW r \in Request, StopOK(r), NEW c, c = Converge(r)
  PROVE  Verdicts(r, c) /\ NoNewSatisfied(r, c)
<1>1. CASE Terminal(r) \/ Unsettled(r)
  BY <1>1 DEF Converge, Verdicts, SameWork, NoNewSatisfied
<1>2. CASE ~Terminal(r) /\ ~Unsettled(r) /\ r.status = "stopping"
  <2>1. c = Stop(r) /\ r.target \in Targets
    BY <1>2 DEF Converge, StopOK
  <2> DEFINE g == SetItems(r, Items \ (Having(r, "satisfied") \cup Having(r, "failed")),
                           LAMBDA item : [item EXCEPT !.status = "cancelled"])
  <2>2. /\ g \in Request /\ SameWork(r, g)
        /\ \A i \in Items : g.items[i].status \in {r.items[i].status, "cancelled"}
    <3> DEFINE I == Items \ (Having(r, "satisfied") \cup Having(r, "failed"))
               f == [i \in Items |-> IF i \in I THEN [r.items[i] EXCEPT !.status = "cancelled"]
                                              ELSE r.items[i]]
    <3>1. /\ f \in [Items -> Item]
          /\ \A i \in Items : f[i].status \in {r.items[i].status, "cancelled"}
      <4>1. \A i \in Items : r.items[i] \in Item
        BY DEF Request
      <4> HIDE DEF I
      <4> QED
        BY <4>1 DEF Item
    <3>2. g = [r EXCEPT !.items = f]
      BY DEF SetItems, Request
    <3> HIDE DEF f
    <3> QED
      BY <3>1, <3>2 DEF Request, SameWork
  <2>3. c = [g EXCEPT !.status = r.target]
    BY <2>1 DEF Stop
  <2> HIDE DEF g
  <2>4. /\ c \in Request /\ SameWork(r, c) /\ c.status = r.target
        /\ \A i \in Items : c.items[i].status \in {r.items[i].status, "cancelled"}
    BY <2>1, <2>2, <2>3 DEF Request, SameWork
  <2> QED
    BY <1>2, <2>1, <2>4, TerminalStatus DEF Verdicts, NoNewSatisfied
<1>3. CASE ~Terminal(r) /\ ~Unsettled(r) /\ r.status # "stopping"
  <2> DEFINE f == Fail(r, Dependants(r))
  <2>1. c = Conclude(f)
    BY <1>3 DEF Converge
  <2>2. /\ f \in Request /\ SameWork(r, f) /\ f.status = r.status
        /\ \A i \in Items : f.items[i].status \in {r.items[i].status, "failed"}
    BY DEF Fail, SetItems, Request, Item, Reasons, SameWork
  <2> HIDE DEF f
  <2>3. /\ c \in Request /\ SameWork(f, c) /\ c.items = f.items
        /\ c.status \in {"completed", "failed", f.status}
    <3>1. \/ c = f
          \/ \E to \in {"completed", "failed"} : c = [f EXCEPT !.status = to]
      BY <2>1 DEF Conclude
    <3>2. CASE c = f
      BY <2>2, <3>2 DEF SameWork
    <3>3. ASSUME NEW to \in {"completed", "failed"}, c = [f EXCEPT !.status = to]
          PROVE  /\ c \in Request /\ SameWork(f, c) /\ c.items = f.items
                 /\ c.status \in {"completed", "failed", f.status}
      BY <2>2, <3>3 DEF Request, SameWork
    <3> QED
      BY <2>2, <3>1, <3>2, <3>3
  <2>4. r.status = "open"
    BY <1>3 DEF Terminal
  <2> QED
    BY <1>3, <2>2, <2>3, <2>4 DEF Verdicts, NoNewSatisfied, SameWork, Terminal
<1> QED
  BY <1>1, <1>2, <1>3

LEMMA SameUnsettled ==
  ASSUME NEW r, NEW c, SameWork(r, c)
  PROVE  /\ OpenOps(c) = OpenOps(r) /\ (Unsettled(c) <=> Unsettled(r))
         /\ \A d : Leaves(c, d) = Leaves(r, d)
BY DEF SameWork, OpenOps, Unsettled, Leaves

LEMMA VerdictsCompose ==
  ASSUME NEW r, NEW g, NEW c, Verdicts(r, g), Verdicts(g, c)
  PROVE  Verdicts(r, c)
<1>1. Unsettled(g) <=> Unsettled(r)
  BY SameUnsettled DEF Verdicts
<1>2. Terminal(r) => Terminal(g)
  BY DEF Verdicts, Terminal
<1> QED
  BY <1>1, <1>2 DEF Verdicts, SameWork

LEMMA FailFacts ==
  ASSUME NEW r \in Request, NEW I, ~Terminal(r), NEW c, c = Fail(r, I)
  PROVE  /\ Verdicts(r, c) /\ NoNewSatisfied(r, c) /\ c.status = r.status
         /\ \A i \in Items : i \in I => c.items[i].status = "failed"
<1>1. /\ c \in Request /\ SameWork(r, c) /\ c.status = r.status
      /\ \A i \in Items : c.items[i].status = IF i \in I THEN "failed" ELSE r.items[i].status
  BY DEF Fail, SetItems, Request, Item, Reasons, SameWork
<1> QED
  BY <1>1 DEF Verdicts, NoNewSatisfied, Terminal

LEMMA SatisfyFacts ==
  ASSUME NEW r \in Request, StopOK(r), NEW I, NEW c, c = Satisfy(r, I)
  PROVE  /\ Verdicts(r, c)
         /\ \A i \in Items : c.items[i].status = "satisfied" => r.items[i].status = "satisfied" \/ i \in I
         /\ c.status = "open" => \A i \in Items : i \in I => c.items[i].status \in {"satisfied", "failed"}
<1> DEFINE g == IF r.status = "open"
                THEN SetItems(r, I, LAMBDA item : [status |-> "satisfied", waits |-> {}])
                ELSE r
<1>1. /\ g \in Request /\ SameWork(r, g) /\ g.status = r.status
      /\ \A i \in Items : g.items[i].status = IF r.status = "open" /\ i \in I THEN "satisfied"
                                               ELSE r.items[i].status
  BY DEF SetItems, Request, Item, Reasons, SameWork
<1>2. c = Converge(g)
  BY DEF Satisfy
<1> HIDE DEF g
<1>3. Verdicts(r, g) /\ StopOK(g)
  BY <1>1 DEF Verdicts, StopOK, SameWork, Terminal
<1>4. Verdicts(g, c) /\ NoNewSatisfied(g, c)
  BY <1>1, <1>2, <1>3, ConvergeFacts
<1>5. Verdicts(r, c)
  BY <1>3, <1>4, VerdictsCompose
<1>6. ASSUME NEW i \in Items, c.items[i].status = "satisfied"
      PROVE  r.items[i].status = "satisfied" \/ i \in I
  BY <1>1, <1>4, <1>6 DEF NoNewSatisfied
<1>7. ASSUME c.status = "open", NEW i \in Items, i \in I
      PROVE  c.items[i].status \in {"satisfied", "failed"}
  BY <1>1, <1>4, <1>7 DEF Verdicts
<1> QED
  BY <1>5, <1>6, <1>7

\* What holds of the evidence of a request survives every verdict that is backed.
LEMMA VerdictsBase ==
  ASSUME NEW r, NEW c, NEW done, Base(r, done), Verdicts(r, c),
         \A i \in Items \ Answers : c.items[i].status = "satisfied" =>
           r.items[i].status = "satisfied" \/ Backed(r, done, i)
  PROVE  Base(c, done)
<1>1. /\ OpenOps(c) = OpenOps(r) /\ (Unsettled(c) <=> Unsettled(r))
      /\ \A d : Leaves(c, d) = Leaves(r, d)
  BY SameUnsettled DEF Verdicts
<1>2. c \in Request /\ StopOK(c) /\ CountOK(c) /\ OpsOK(c, done)
  BY DEF Base, Verdicts, SameWork, StopOK, CountOK, OpsOK
<1>3. OneWriter(c)
  BY <1>1 DEF Base, Verdicts, SameWork, OneWriter
<1>4. \A i : Backed(r, done, i) => Backed(c, done, i)
  BY <1>1 DEF Verdicts, SameWork, Backed
<1>5. SatBacked(c, done)
  BY <1>4 DEF Base, SatBacked
<1>6. Concluded(c)
  BY <1>1 DEF Base, Verdicts, Concluded
<1> QED
  BY <1>2, <1>3, <1>5, <1>6 DEF Base

\* Judging keeps what holds of a request and decides every item whose batch has ended.
LEMMA JudgeFacts ==
  ASSUME NEW r, NEW done, Base(r, done), NEW c, c = Judge(r)
  PROVE  Verdicts(r, c) /\ ReqInv(c, done)
<1>0. r \in Request /\ StopOK(r) /\ Concluded(r)
  BY DEF Base
<1>1. CASE Terminal(r)
  <2>1. c = r /\ r.status # "open"
    BY <1>1 DEF Judge, Terminal
  <2> QED
    BY <1>0, <2>1 DEF Verdicts, SameWork, ReqInv, Decided
<1>2. CASE ~Terminal(r)
  <2> DEFINE decided == {d \in DOMAIN r.batches :
                    /\ r.batches[d].status \notin UnsettledBatches
                    /\ r.batches[d].rev = r.rev
                    /\ Leaves(r, d) # {} /\ Leaves(r, d) \cap OpenOps(r) = {}}
             good == {d \in decided : r.batches[d].status = "completed" /\ AllGood(r, d)}
             itemsOf(D) == {r.batches[d].item : d \in D}
             lost == itemsOf(decided \ good)
             won == itemsOf(good)
             f == Fail(r, lost)
  <2>1. c = Satisfy(f, won)
    BY <1>2 DEF Judge
  <2>2. /\ Verdicts(r, f) /\ NoNewSatisfied(r, f) /\ f.status = r.status
        /\ \A i \in Items : i \in lost => f.items[i].status = "failed"
    <3> HIDE DEF lost
    <3> QED
      BY <1>0, <1>2, FailFacts
  <2>3. f \in Request /\ StopOK(f)
    BY <1>0, <2>2 DEF Verdicts, SameWork, StopOK
  <2>4. /\ Verdicts(f, c)
        /\ \A i \in Items : c.items[i].status = "satisfied" => f.items[i].status = "satisfied" \/ i \in won
        /\ c.status = "open" => \A i \in Items : i \in won => c.items[i].status \in {"satisfied", "failed"}
    <3> HIDE DEF f, won
    <3> QED
      BY <2>1, <2>3, SatisfyFacts
  <2>5. Verdicts(r, c)
    BY <2>2, <2>4, VerdictsCompose
  <2>6. ASSUME NEW i \in won PROVE Backed(r, done, i)
    <3>1. PICK d \in good : i = r.batches[d].item
      BY <2>6
    <3>2. /\ d \in DOMAIN r.batches /\ r.batches[d].rev = r.rev
          /\ r.batches[d].status = "completed" /\ Leaves(r, d) # {} /\ AllGood(r, d)
      BY <3>1
    <3>3. \A e \in Leaves(r, d) : r.ops[e].status = "succeeded" /\ e \in DOMAIN r.ops
      BY <3>2 DEF AllGood, Leaves
    <3>4. \A e \in Leaves(r, d) : Rests(r.ops[e], e, done)
      BY <3>3 DEF Base, OpsOK
    <3> QED
      BY <3>1, <3>2, <3>3, <3>4 DEF Backed
  <2>7. Base(c, done)
    <3>1. \A i \in Items \ Answers : c.items[i].status = "satisfied" =>
            r.items[i].status = "satisfied" \/ Backed(r, done, i)
      BY <2>2, <2>4, <2>6 DEF NoNewSatisfied
    <3> HIDE DEF f, won, lost, good, decided
    <3> QED
      BY <2>5, <3>1, VerdictsBase
  <2>8. Decided(c)
    <3> SUFFICES ASSUME c.status = "open", NEW d \in DOMAIN c.batches,
                        c.batches[d].rev = c.rev, Leaves(c, d) # {},
                        c.batches[d].status \notin UnsettledBatches,
                        Leaves(c, d) \cap OpenOps(c) = {}
                 PROVE  c.items[c.batches[d].item].status \in {"satisfied", "failed"}
      BY DEF Decided
    <3>1. SameWork(r, c) /\ Leaves(c, d) = Leaves(r, d) /\ OpenOps(c) = OpenOps(r)
      BY <2>5, SameUnsettled DEF Verdicts
    <3>2. d \in decided /\ c.batches[d].item = r.batches[d].item
      BY <3>1 DEF SameWork
    <3>3. r.batches[d].item \in Items
      BY <1>0, <3>2, TypedBatch DEF Batch
    <3>4. CASE d \in good
      BY <2>4, <3>2, <3>3, <3>4
    <3>5. CASE d \in decided \ good
      <4>1. r.batches[d].item \in lost
        BY <3>5
      <4>2. f.items[r.batches[d].item].status = "failed"
        BY <2>2, <3>3, <4>1
      <4> HIDE DEF f
      <4> QED
        BY <2>4, <3>2, <3>3, <4>2 DEF Verdicts
    <3> QED
      BY <3>2, <3>4, <3>5
  <2> QED
    BY <2>5, <2>7, <2>8 DEF ReqInv
<1> QED
  BY <1>1, <1>2

-----------------------------------------------------------------------------
(* Batches. *)

\* What a change of a request leaves alone, for the workers of its batches: the steps
\* outside X that have started stay so, and their batches keep running.
Steady(r, c, X) ==
  /\ c.rev = r.rev /\ (c.status = "open" => r.status = "open")
  /\ DOMAIN c.ops = DOMAIN r.ops
  /\ \A e \in DOMAIN r.ops : /\ c.ops[e].item = r.ops[e].item /\ c.ops[e].rev = r.ops[e].rev
                             /\ c.ops[e].batch = r.ops[e].batch
                             /\ HasJob(r.ops[e]) => HasJob(c.ops[e])
  /\ Len(c.batches) = Len(r.batches) /\ DOMAIN c.batches = DOMAIN r.batches
  /\ \A d \in DOMAIN r.batches :
       /\ c.batches[d].item = r.batches[d].item /\ c.batches[d].rev = r.batches[d].rev
       /\ DOMAIN c.batches[d].steps = DOMAIN r.batches[d].steps
       /\ \A s \in DOMAIN r.batches[d].steps :
            r.batches[d].steps[s] = "started" /\ <<d, s>> \notin X =>
              /\ c.batches[d].steps[s] = "started"
              /\ r.batches[d].status = "running" => c.batches[d].status = "running"

\* The verdict on a request that has ended is final.
Final(r, c) ==
  Terminal(r) => c.status = r.status /\ \A i \in Items : c.items[i].status = r.items[i].status

LEMMA VerdictsSteady ==
  ASSUME NEW r, NEW c, Verdicts(r, c)
  PROVE  Steady(r, c, {}) /\ Final(r, c)
BY DEF Verdicts, SameWork, Steady, Final

LEMMA SteadyCompose ==
  ASSUME NEW r, NEW g, NEW c, NEW X, Steady(r, g, X), Steady(g, c, {})
  PROVE  Steady(r, c, X)
<1>1. \A d \in DOMAIN r.batches :
        /\ d \in DOMAIN g.batches
        /\ c.batches[d].item = r.batches[d].item /\ c.batches[d].rev = r.batches[d].rev
        /\ DOMAIN c.batches[d].steps = DOMAIN r.batches[d].steps
  BY DEF Steady
<1>2. ASSUME NEW d \in DOMAIN r.batches, NEW s \in DOMAIN r.batches[d].steps,
             r.batches[d].steps[s] = "started", <<d, s>> \notin X
      PROVE  /\ c.batches[d].steps[s] = "started"
             /\ r.batches[d].status = "running" => c.batches[d].status = "running"
  BY <1>1, <1>2 DEF Steady
<1> QED
  BY <1>1, <1>2 DEF Steady

LEMMA FinalCompose ==
  ASSUME NEW r, NEW g, NEW c, Final(r, g), Final(g, c)
  PROVE  Final(r, c)
BY DEF Final, Terminal

\* Batches move on: steps change, unsettled batches settle.
BatchMoves(r, c) ==
  /\ c \in Request /\ c.status = r.status /\ c.target = r.target /\ c.rev = r.rev
  /\ c.items = r.items /\ c.ops = r.ops
  /\ Len(c.batches) = Len(r.batches) /\ DOMAIN c.batches = DOMAIN r.batches
  /\ \A d \in DOMAIN r.batches :
       /\ c.batches[d].item = r.batches[d].item /\ c.batches[d].rev = r.batches[d].rev
       /\ DOMAIN c.batches[d].steps = DOMAIN r.batches[d].steps
       /\ \/ c.batches[d].status = r.batches[d].status
          \/ /\ r.batches[d].status \in UnsettledBatches
             /\ c.batches[d].status \in Ended \cup {"unknown"}

LEMMA BatchMovesBase ==
  ASSUME NEW r, NEW c, NEW done, Base(r, done), BatchMoves(r, c)
  PROVE  Base(c, done) /\ Final(r, c) /\ OpenOps(c) = OpenOps(r)
         /\ \A d : Leaves(c, d) = Leaves(r, d)
<1>1. OpenOps(c) = OpenOps(r) /\ \A d : Leaves(c, d) = Leaves(r, d)
  BY DEF BatchMoves, OpenOps, Leaves
<1>2. c \in Request /\ StopOK(c) /\ CountOK(c) /\ OpsOK(c, done)
  BY DEF Base, BatchMoves, StopOK, CountOK, OpsOK
<1>3. OneWriter(c)
  BY <1>1 DEF Base, BatchMoves, OneWriter
<1>4. \A i : Backed(r, done, i) => Backed(c, done, i)
  <2> SUFFICES ASSUME NEW i, NEW d \in DOMAIN r.batches,
                      r.batches[d].item = i, r.batches[d].rev = r.rev,
                      r.batches[d].status = "completed", Leaves(r, d) # {},
                      \A e \in Leaves(r, d) : r.ops[e].status = "succeeded"
                                              /\ Rests(r.ops[e], e, done)
               PROVE  Backed(c, done, i)
    BY DEF Backed
  <2>1. c.batches[d].status = "completed"
    BY DEF BatchMoves, UnsettledBatches
  <2> QED
    BY <1>1, <2>1 DEF BatchMoves, Backed
<1>5. SatBacked(c, done)
  BY <1>4 DEF Base, BatchMoves, SatBacked
<1>6. Concluded(c)
  <2>1. Unsettled(c) => Unsettled(r)
    BY <1>1 DEF Unsettled, BatchMoves
  <2> QED
    BY <2>1 DEF Base, BatchMoves, Concluded, Terminal
<1>7. Final(r, c)
  BY DEF BatchMoves, Final
<1> QED
  BY <1>1, <1>2, <1>3, <1>5, <1>6, <1>7 DEF Base

\* Replacing the batches of a request.
LEMMA NewBatches ==
  ASSUME NEW r \in Request, NEW f \in [DOMAIN r.batches -> Batch], NEW c,
         c = [r EXCEPT !.batches = f]
  PROVE  /\ c \in Request /\ c.batches = f
         /\ Len(c.batches) = Len(r.batches) /\ DOMAIN c.batches = DOMAIN r.batches
         /\ c.status = r.status /\ c.target = r.target /\ c.rev = r.rev /\ c.items = r.items
         /\ c.ops = r.ops /\ c.epoch = r.epoch /\ c.paused = r.paused
<1>1. r.batches \in Seq(Batch)
  BY DEF Request
<1>2. f \in Seq(Batch) /\ Len(f) = Len(r.batches) /\ DOMAIN f = DOMAIN r.batches
  BY <1>1, SeqLike
<1> QED
  BY <1>2 DEF Request

LEMMA RefreshFacts ==
  ASSUME NEW r \in Request, NEW d \in DOMAIN r.batches, NEW b, b = Refresh(r, d)
  PROVE  /\ b \in Batch
         /\ b.item = r.batches[d].item /\ b.rev = r.batches[d].rev /\ b.steps = r.batches[d].steps
         /\ \/ b.status = r.batches[d].status
            \/ /\ r.batches[d].status = "running" /\ b.status \in Ended
               /\ \A s \in DOMAIN b.steps : b.steps[s] # "started"
<1> DEFINE old == r.batches[d]
<1>1. old \in Batch
  BY TypedBatch
<1>2. CASE b = old
  BY <1>1, <1>2
<1>3. CASE /\ old.status = "running"
           /\ ~ \E s \in DOMAIN old.steps : old.steps[s] \in {"waiting", "started"}
           /\ \E status \in Ended : b = [old EXCEPT !.status = status]
  <2>1. PICK status \in Ended : b = [old EXCEPT !.status = status]
    BY <1>3
  <2>2. b \in Batch /\ b.item = old.item /\ b.rev = old.rev /\ b.steps = old.steps /\ b.status = status
    <3> HIDE DEF old
    <3> QED
      BY <1>1, <2>1 DEF Batch
  <2> QED
    BY <1>3, <2>2
<1> QED
  BY <1>2, <1>3 DEF Refresh, Ended

LEMMA ReconcileFacts ==
  ASSUME NEW r, NEW done, Base(r, done), NEW c, c = ReconcileBatches(r)
  PROVE  /\ ReqInv(c, done) /\ Steady(r, c, {}) /\ Final(r, c) /\ c.ops = r.ops
         /\ \A d \in DOMAIN r.batches : c.batches[d].steps = r.batches[d].steps
<1>0. r \in Request
  BY DEF Base
<1> DEFINE f == [d \in DOMAIN r.batches |-> Refresh(r, d)]
           g == [r EXCEPT !.batches = f]
<1>1. c = Judge(g)
  BY DEF ReconcileBatches
<1>2. \A d \in DOMAIN r.batches :
        /\ f[d] \in Batch
        /\ f[d].item = r.batches[d].item /\ f[d].rev = r.batches[d].rev
        /\ f[d].steps = r.batches[d].steps
        /\ \/ f[d].status = r.batches[d].status
           \/ /\ r.batches[d].status = "running" /\ f[d].status \in Ended
              /\ \A s \in DOMAIN f[d].steps : f[d].steps[s] # "started"
  BY <1>0, RefreshFacts
<1>3. f \in [DOMAIN r.batches -> Batch]
  BY <1>2
<1> HIDE DEF f
<1>4. /\ g \in Request /\ g.batches = f
      /\ Len(g.batches) = Len(r.batches) /\ DOMAIN g.batches = DOMAIN r.batches
      /\ g.status = r.status /\ g.target = r.target /\ g.rev = r.rev /\ g.items = r.items
      /\ g.ops = r.ops /\ g.epoch = r.epoch /\ g.paused = r.paused
  BY <1>0, <1>3, NewBatches
<1> HIDE DEF g
<1>5. BatchMoves(r, g)
  BY <1>2, <1>4 DEF BatchMoves, UnsettledBatches
<1>6. Base(g, done) /\ Final(r, g)
  BY <1>5, BatchMovesBase
<1>7. Steady(r, g, {})
  BY <1>2, <1>4 DEF Steady
<1>8. Verdicts(g, c) /\ ReqInv(c, done)
  BY <1>1, <1>6, JudgeFacts
<1>9. Steady(g, c, {}) /\ Final(g, c)
  BY <1>8, VerdictsSteady
<1>10. c.ops = r.ops /\ c.batches = f
  BY <1>4, <1>8 DEF Verdicts, SameWork
<1> QED
  BY <1>2, <1>6, <1>7, <1>8, <1>9, <1>10, SteadyCompose, FinalCompose

\* Replacing the steps of one batch.
LEMMA NewSteps ==
  ASSUME NEW r \in Request, NEW d \in DOMAIN r.batches,
         NEW f \in [DOMAIN r.batches[d].steps -> StepStates], NEW c,
         c = [r EXCEPT !.batches[d].steps = f]
  PROVE  /\ BatchMoves(r, c)
         /\ c.batches[d].steps = f
         /\ \A k \in DOMAIN r.batches : k # d => c.batches[k].steps = r.batches[k].steps
         /\ \A k \in DOMAIN r.batches : c.batches[k].status = r.batches[k].status
<1> DEFINE old == r.batches[d]
           new == [old EXCEPT !.steps = f]
           all == [r.batches EXCEPT ![d] = new]
<1>1. old \in Batch /\ r.batches \in [DOMAIN r.batches -> Batch]
  BY Typed, TypedBatch
<1>2. f \in Seq(StepStates)
  <2>1. old.steps \in Seq(StepStates)
    BY <1>1 DEF Batch, StepStates
  <2> QED
    BY <2>1, SeqLike
<1>3. /\ new \in Batch /\ new.item = old.item /\ new.rev = old.rev /\ new.status = old.status
      /\ new.steps = f
  <2> HIDE DEF old
  <2> QED
    BY <1>1, <1>2 DEF Batch, StepStates
<1>4. all \in [DOMAIN r.batches -> Batch]
  <2> HIDE DEF new
  <2> QED
    BY <1>1, <1>3
<1>5. c = [r EXCEPT !.batches = all]
  BY DEF Request
<1>6. /\ all[d] = new /\ \A k \in DOMAIN r.batches : k # d => all[k] = r.batches[k]
  <2> HIDE DEF new
  <2> QED
    BY <1>1
<1> HIDE DEF all, new
<1>7. /\ c \in Request /\ c.batches = all
      /\ Len(c.batches) = Len(r.batches) /\ DOMAIN c.batches = DOMAIN r.batches
      /\ c.status = r.status /\ c.target = r.target /\ c.rev = r.rev /\ c.items = r.items
      /\ c.ops = r.ops
  <2>1. r \in Request
    OBVIOUS
  <2> QED
    BY ONLY <1>4, <1>5, <2>1, NewBatches
<1>8. DOMAIN f = DOMAIN old.steps
  OBVIOUS
<1> QED
  BY <1>3, <1>6, <1>7, <1>8 DEF BatchMoves

LEMMA MovesDecided ==
  ASSUME NEW r, NEW c, NEW done, ReqInv(r, done), BatchMoves(r, c),
         \A d \in DOMAIN r.batches : c.batches[d].status = r.batches[d].status
  PROVE  ReqInv(c, done)
<1>1. Base(c, done) /\ OpenOps(c) = OpenOps(r) /\ \A d : Leaves(c, d) = Leaves(r, d)
  BY BatchMovesBase DEF ReqInv
<1>2. Decided(c)
  BY <1>1 DEF ReqInv, Decided, BatchMoves
<1> QED
  BY <1>1, <1>2 DEF ReqInv

LEMMA FinishStepFacts ==
  ASSUME NEW r, NEW done, ReqInv(r, done), NEW x, x.batch \in DOMAIN r.batches,
         NEW c, c = FinishStep(r, x)
  PROVE  /\ ReqInv(c, done) /\ Steady(r, c, {<<x.batch, x.step>>}) /\ Final(r, c)
         /\ c.ops = r.ops
<1>0. Base(r, done) /\ r \in Request
  BY DEF ReqInv, Base
<1>1. CASE c = r
  BY <1>1 DEF Steady, Final
<1>2. CASE c # r
  <2>0. PICK d \in DOMAIN r.batches : d = x.batch
    OBVIOUS
  <2> DEFINE v == IF x.ok THEN "completed" ELSE "failed"
             old == r.batches[d].steps
             f == [old EXCEPT ![x.step] = v]
             g == [r EXCEPT !.batches[d].steps = f]
  <2>1. c = ReconcileBatches(g)
    BY <1>2, <2>0 DEF FinishStep
  <2>2. old \in [DOMAIN old -> StepStates]
    BY <1>0, TypedBatch, TypedSteps
  <2>3. /\ f \in [DOMAIN old -> StepStates]
        /\ \A s \in DOMAIN old : s # x.step => f[s] = old[s]
    <3> HIDE DEF old
    <3> QED
      BY <2>2 DEF StepStates
  <2>4. /\ BatchMoves(r, g) /\ g.batches[d].steps = f
        /\ \A k \in DOMAIN r.batches : k # d => g.batches[k].steps = r.batches[k].steps
        /\ \A k \in DOMAIN r.batches : g.batches[k].status = r.batches[k].status
    <3> HIDE DEF f
    <3> QED
      BY <1>0, <2>3, NewSteps
  <2> HIDE DEF g, f
  <2>5. Base(g, done) /\ Final(r, g)
    BY <1>0, <2>4, BatchMovesBase
  <2>6. Steady(r, g, {<<x.batch, x.step>>})
    BY <2>0, <2>3, <2>4 DEF Steady, BatchMoves
  <2>7. ReqInv(c, done) /\ Steady(g, c, {}) /\ Final(g, c) /\ c.ops = g.ops
    BY <2>1, <2>5, ReconcileFacts
  <2> QED
    BY <2>4, <2>5, <2>6, <2>7, SteadyCompose, FinalCompose DEF BatchMoves
<1> QED
  BY <1>1, <1>2

LEMMA GiveUpFacts ==
  ASSUME NEW r, NEW done, ReqInv(r, done), NEW d \in DOMAIN r.batches,
         NEW S, \A s \in S : s \in DOMAIN r.batches[d].steps /\ r.batches[d].steps[s] # "started",
         NEW c, c = GiveUp(r, d, S)
  PROVE  /\ ReqInv(c, done) /\ Steady(r, c, {}) /\ Final(r, c) /\ c.ops = r.ops
<1>0. Base(r, done) /\ r \in Request
  BY DEF ReqInv, Base
<1>1. CASE S = {}
  BY <1>1 DEF GiveUp, Steady, Final
<1>2. CASE S # {}
  <2> DEFINE old == r.batches[d].steps
             f == [s \in DOMAIN old |-> IF s \in S THEN "failed" ELSE old[s]]
             g == [r EXCEPT !.batches[d].steps = f]
  <2>1. c = ReconcileBatches(g)
    BY <1>2 DEF GiveUp, Request
  <2>2. old \in [DOMAIN old -> StepStates]
    BY <1>0, TypedBatch, TypedSteps
  <2>3. /\ f \in [DOMAIN old -> StepStates]
        /\ \A s \in DOMAIN old : s \notin S => f[s] = old[s]
    <3> HIDE DEF old
    <3> QED
      BY <2>2 DEF StepStates
  <2>4. /\ BatchMoves(r, g) /\ g.batches[d].steps = f
        /\ \A k \in DOMAIN r.batches : k # d => g.batches[k].steps = r.batches[k].steps
        /\ \A k \in DOMAIN r.batches : g.batches[k].status = r.batches[k].status
    <3> HIDE DEF f
    <3> QED
      BY <1>0, <2>3, NewSteps
  <2> HIDE DEF g, f
  <2>5. Base(g, done) /\ Final(r, g)
    BY <1>0, <2>4, BatchMovesBase
  <2>6. Steady(r, g, {})
    BY <2>3, <2>4 DEF Steady, BatchMoves
  <2>7. ReqInv(c, done) /\ Steady(g, c, {}) /\ Final(g, c) /\ c.ops = g.ops
    BY <2>1, <2>5, ReconcileFacts
  <2> QED
    BY <2>4, <2>5, <2>6, <2>7, SteadyCompose, FinalCompose DEF BatchMoves
<1> QED
  BY <1>1, <1>2

-----------------------------------------------------------------------------
(* Operations. *)

\* One open operation moves on.
OpMoves(r, c, e) ==
  /\ c \in Request /\ c.status = r.status /\ c.target = r.target /\ c.rev = r.rev
  /\ c.items = r.items /\ c.batches = r.batches
  /\ Len(c.ops) = Len(r.ops) /\ DOMAIN c.ops = DOMAIN r.ops
  /\ \A f \in DOMAIN r.ops : f # e => c.ops[f] = r.ops[f]
  /\ e \in OpenOps(r)
  /\ c.ops[e].item = r.ops[e].item /\ c.ops[e].rev = r.ops[e].rev
  /\ c.ops[e].batch = r.ops[e].batch /\ (HasJob(r.ops[e]) => HasJob(c.ops[e]))

\* Replacing one operation of a request.
LEMMA NewOp ==
  ASSUME NEW r \in Request, NEW e \in OpenOps(r), NEW op \in Op, NEW c,
         c = [r EXCEPT !.ops[e] = op],
         op.item = r.ops[e].item, op.rev = r.ops[e].rev, op.batch = r.ops[e].batch,
         HasJob(r.ops[e]) => HasJob(op)
  PROVE  OpMoves(r, c, e) /\ c.ops[e] = op
<1>1. e \in DOMAIN r.ops
  BY DEF OpenOps
<1>2. r.ops \in [DOMAIN r.ops -> Op]
  BY Typed
<1> DEFINE all == [r.ops EXCEPT ![e] = op]
<1>3. /\ all \in [DOMAIN r.ops -> Op] /\ all[e] = op
      /\ \A f \in DOMAIN r.ops : f # e => all[f] = r.ops[f]
  BY <1>1, <1>2
<1>4. c = [r EXCEPT !.ops = all]
  BY DEF Request
<1> HIDE DEF all
<1>5. r.ops \in Seq(Op)
  BY DEF Request
<1>6. all \in Seq(Op) /\ Len(all) = Len(r.ops) /\ DOMAIN all = DOMAIN r.ops
  BY <1>3, <1>5, SeqLike
<1>7. /\ c \in Request /\ c.ops = all
      /\ c.status = r.status /\ c.target = r.target /\ c.rev = r.rev /\ c.items = r.items
      /\ c.batches = r.batches
  BY <1>4, <1>6 DEF Request
<1> QED
  BY <1>3, <1>6, <1>7 DEF OpMoves

LEMMA OpMovesLeaves ==
  ASSUME NEW r, NEW c, NEW e, OpMoves(r, c, e)
  PROVE  /\ \A d : Leaves(c, d) = Leaves(r, d)
         /\ OpenOps(c) = IF c.ops[e].status \in UnsettledOps THEN OpenOps(r) ELSE OpenOps(r) \ {e}
         /\ e \in DOMAIN r.ops /\ Unsettled(r)
<1>1. e \in DOMAIN r.ops
  BY DEF OpMoves, OpenOps
<1> QED
  BY <1>1 DEF OpMoves, Leaves, OpenOps, Unsettled

LEMMA OpMovesBase ==
  ASSUME NEW r, NEW c, NEW e, NEW done, NEW more, Base(r, done), OpMoves(r, c, e),
         done \subseteq more, more \subseteq DOMAIN r.ops,
         c.ops[e].receipt = "commit" => e \in more,
         c.ops[e].status = "succeeded" => Rests(c.ops[e], e, more)
  PROVE  Base(c, more) /\ ~Terminal(r) /\ Steady(r, c, {})
<1>1. /\ \A d : Leaves(c, d) = Leaves(r, d)
      /\ e \in DOMAIN r.ops /\ Unsettled(r) /\ r.ops[e].status \in UnsettledOps
  <2>1. e \in OpenOps(r)
    BY DEF OpMoves
  <2> QED
    BY <2>1, OpMovesLeaves DEF OpenOps
<1>2. ~Terminal(r) /\ ~Terminal(c)
  BY <1>1 DEF Base, Concluded, OpMoves, Terminal
<1>3. c \in Request /\ StopOK(c) /\ CountOK(c)
  BY DEF Base, OpMoves, StopOK, CountOK
<1>4. OpsOK(c, more)
  <2> SUFFICES ASSUME NEW f \in DOMAIN r.ops
               PROVE  /\ c.ops[f].batch \in DOMAIN r.batches
                      /\ c.ops[f].item = r.batches[c.ops[f].batch].item
                      /\ c.ops[f].rev = r.batches[c.ops[f].batch].rev
                      /\ c.ops[f].receipt = "commit" => f \in more
                      /\ c.ops[f].status = "succeeded" => Rests(c.ops[f], f, more)
    BY DEF OpMoves, OpsOK
  <2>1. CASE f = e
    BY <2>1 DEF OpMoves, Base, OpsOK
  <2>2. CASE f # e
    BY <2>2 DEF OpMoves, Base, OpsOK, Rests
  <2> QED
    BY <2>1, <2>2
<1>5. OneWriter(c)
  BY <1>1 DEF Base, OpMoves, OneWriter
<1>6. SatBacked(c, more)
  <2> SUFFICES ASSUME NEW i \in Items \ Answers, c.items[i].status = "satisfied"
               PROVE  Backed(c, more, i)
    BY DEF SatBacked
  <2>1. Backed(r, done, i)
    BY DEF OpMoves, Base, SatBacked
  <2>2. PICK d \in DOMAIN r.batches :
          /\ r.batches[d].item = i /\ r.batches[d].rev = r.rev
          /\ r.batches[d].status = "completed"
          /\ Leaves(r, d) # {}
          /\ \A f \in Leaves(r, d) :
               r.ops[f].status = "succeeded" /\ Rests(r.ops[f], f, done)
    BY <2>1 DEF Backed
  <2>3. \A f \in Leaves(r, d) : f # e /\ f \in DOMAIN r.ops
    BY <1>1, <2>2 DEF Leaves, UnsettledOps
  <2>4. \A f \in Leaves(r, d) : c.ops[f] = r.ops[f]
    BY <2>3 DEF OpMoves
  <2>5. \A f \in Leaves(r, d) : c.ops[f].status = "succeeded" /\ Rests(c.ops[f], f, more)
    BY <2>2, <2>4 DEF Rests
  <2> QED
    BY <1>1, <2>2, <2>5 DEF OpMoves, Backed
<1>7. Concluded(c)
  BY <1>2 DEF Concluded
<1>8. Steady(r, c, {})
  BY DEF OpMoves, Steady
<1> QED
  BY <1>2, <1>3, <1>4, <1>5, <1>6, <1>7, <1>8 DEF Base

\* An operation that stays open leaves its batch undecided.
LEMMA OpMovesDecided ==
  ASSUME NEW r, NEW c, NEW e, Decided(r), OpMoves(r, c, e), c.ops[e].status \in UnsettledOps
  PROVE  Decided(c)
<1>1. OpenOps(c) = OpenOps(r) /\ \A d : Leaves(c, d) = Leaves(r, d)
  BY OpMovesLeaves
<1>2. /\ c.status = r.status /\ c.batches = r.batches /\ c.rev = r.rev /\ c.items = r.items
  BY DEF OpMoves
<1> QED
  BY <1>1, <1>2 DEF Decided

LEMMA HoldFacts ==
  ASSUME NEW r \in Request, NEW I, NEW status \in {"waiting", "failed"}, NEW reason \in Reasons,
         NEW c, c = Hold(r, I, status, reason)
  PROVE  /\ c \in Request /\ SameWork(r, c) /\ c.status = r.status
         /\ \A i \in Items : c.items[i].status = IF i \in I THEN status ELSE r.items[i].status
BY DEF Hold, SetItems, Request, Item, SameWork

-----------------------------------------------------------------------------
(* Items, and outcomes of operations. *)

\* Items change, none becomes satisfied; a pause or an epoch may change with them.
ItemMoves(r, c) ==
  /\ c \in Request /\ c.status = r.status /\ c.target = r.target /\ c.rev = r.rev
  /\ c.ops = r.ops /\ c.batches = r.batches
  /\ NoNewSatisfied(r, c)

LEMMA ItemMovesBase ==
  ASSUME NEW r, NEW c, NEW done, Base(r, done), ItemMoves(r, c)
  PROVE  Base(c, done) /\ Steady(r, c, {}) /\ (Terminal(c) <=> Terminal(r))
         /\ OpenOps(c) = OpenOps(r) /\ \A d : Leaves(c, d) = Leaves(r, d)
<1>1. OpenOps(c) = OpenOps(r) /\ \A d : Leaves(c, d) = Leaves(r, d)
  BY DEF ItemMoves, OpenOps, Leaves
<1>2. c \in Request /\ StopOK(c) /\ CountOK(c) /\ OpsOK(c, done)
  BY DEF Base, ItemMoves, StopOK, CountOK, OpsOK
<1>3. OneWriter(c)
  BY <1>1 DEF Base, ItemMoves, OneWriter
<1>4. \A i : Backed(r, done, i) => Backed(c, done, i)
  BY <1>1 DEF ItemMoves, Backed
<1>5. SatBacked(c, done)
  BY <1>4 DEF Base, ItemMoves, SatBacked, NoNewSatisfied
<1>6. Concluded(c) /\ (Terminal(c) <=> Terminal(r))
  BY <1>1 DEF Base, ItemMoves, Concluded, Unsettled, Terminal
<1>7. Steady(r, c, {})
  BY DEF ItemMoves, Steady
<1> QED
  BY <1>1, <1>2, <1>3, <1>5, <1>6, <1>7 DEF Base

LEMMA VerdictsDecided ==
  ASSUME NEW r, NEW c, Decided(r), Verdicts(r, c), r \in Request
  PROVE  Decided(c)
<1>1. OpenOps(c) = OpenOps(r) /\ \A d : Leaves(c, d) = Leaves(r, d)
  BY SameUnsettled DEF Verdicts
<1> SUFFICES ASSUME c.status = "open", NEW d \in DOMAIN c.batches,
                    c.batches[d].rev = c.rev, Leaves(c, d) # {},
                    c.batches[d].status \notin UnsettledBatches,
                    Leaves(c, d) \cap OpenOps(c) = {}
             PROVE  c.items[c.batches[d].item].status \in {"satisfied", "failed"}
  BY DEF Decided
<1>2. r.items[r.batches[d].item].status \in {"satisfied", "failed"}
  BY <1>1 DEF Decided, Verdicts, SameWork
<1>3. r.batches[d].item \in Items
  BY TypedBatch DEF Verdicts, SameWork, Batch
<1> QED
  BY <1>2, <1>3 DEF Verdicts, SameWork

\* Converging keeps what holds of a request.
LEMMA ConvergeKeeps ==
  ASSUME NEW r, NEW done, Base(r, done), NEW c, c = Converge(r)
  PROVE  /\ Base(c, done) /\ Steady(r, c, {}) /\ Final(r, c) /\ SameWork(r, c)
         /\ Decided(r) => Decided(c)
<1>1. r \in Request /\ StopOK(r)
  BY DEF Base
<1>2. Verdicts(r, c) /\ NoNewSatisfied(r, c)
  BY <1>1, ConvergeFacts
<1>3. Base(c, done)
  BY <1>2, VerdictsBase DEF NoNewSatisfied
<1>4. Steady(r, c, {}) /\ Final(r, c) /\ SameWork(r, c)
  BY <1>2, VerdictsSteady DEF Verdicts
<1>5. Decided(r) => Decided(c)
  BY <1>1, <1>2, VerdictsDecided
<1> QED
  BY <1>3, <1>4, <1>5

\* Two batches with writes work on different items or for different revisions.
LEMMA OnlyWriter ==
  ASSUME NEW r \in Request, OneWriter(r), NEW c \in DOMAIN r.batches, NEW d \in DOMAIN r.batches,
         r.batches[c].item = r.batches[d].item, r.batches[c].rev = r.batches[d].rev,
         Leaves(r, c) # {}, Leaves(r, d) # {}
  PROVE  c = d
<1>1. c \in Nat /\ d \in Nat
  BY Typed
<1> QED
  BY <1>1 DEF OneWriter

\* The outcome of an operation reaches the request: its item is held or fails, and the
\* request may converge.  Its batch is still to be judged unless it is unsettled.
LEMMA RecordOutcomeFacts ==
  ASSUME NEW r, NEW done, Base(r, done), NEW e \in DOMAIN r.ops,
         NEW outcome \in SettledOps \cup {"unknown"},
         outcome = "succeeded" => Rests(r.ops[e], e, done),
         NEW c, c = RecordOutcome(r, e, outcome)
  PROVE  /\ Base(c, done) /\ Steady(r, c, {}) /\ Final(r, c) /\ c.batches = r.batches
         /\ \A f \in DOMAIN r.ops : f # e => c.ops[f] = r.ops[f]
         /\ c.ops[e].receipt = r.ops[e].receipt
         /\ c.ops[e].status = IF r.ops[e].status \in SettledOps THEN r.ops[e].status ELSE outcome
         /\ /\ Decided(r)
            /\ \/ outcome = "unknown"
               \/ r.ops[e].status \in SettledOps
               \/ r.status = "open" /\ r.batches[r.ops[e].batch].rev = r.rev
                    => r.batches[r.ops[e].batch].status \in UnsettledBatches
            => Decided(c)
<1>0. r \in Request /\ Concluded(r) /\ OneWriter(r)
  BY DEF Base
<1>1. CASE r.ops[e].status \in SettledOps
  <2>1. c = r
    BY <1>1 DEF RecordOutcome
  <2> QED
    BY <1>1, <2>1 DEF Steady, Final
<1>2. CASE r.ops[e].status \notin SettledOps
  <2> DEFINE op == [r.ops[e] EXCEPT !.status = outcome]
             told == [r EXCEPT !.ops[e] = op]
             item == r.ops[e].item
             d == r.ops[e].batch
  <2>1. r.ops[e] \in Op
    BY <1>0, TypedLeaf
  <2>2. r.ops[e].status \in UnsettledOps /\ e \in OpenOps(r)
    BY <1>2, <2>1 DEF Op, OpenOps
  <2>3. /\ op \in Op /\ op.item = item /\ op.rev = r.ops[e].rev /\ op.batch = d
        /\ op.status = outcome /\ op.receipt = r.ops[e].receipt /\ (HasJob(op) <=> HasJob(r.ops[e]))
    BY <2>1 DEF Op, UnsettledOps, HasJob
  <2>4. ~Terminal(r)
    BY <1>0, <2>2 DEF Concluded, Unsettled
  <2>5. \E g : /\ c = Converge(g)
               /\ \/ g = told
                  \/ g = Hold(told, {item}, "waiting", "unknown") /\ outcome = "unknown"
                     /\ r.ops[e].rev = r.rev
                  \/ g = Hold(told, {item}, "failed", "failed")
    BY <1>2 DEF RecordOutcome, Request
  <2> HIDE DEF op
  <2>6. OpMoves(r, told, e) /\ told.ops[e] = op
    BY <1>0, <2>2, <2>3, NewOp
  <2> HIDE DEF told
  <2>7. Base(told, done) /\ Steady(r, told, {})
    <3>1. done \subseteq DOMAIN r.ops /\ (op.receipt = "commit" => e \in done)
      BY <2>3 DEF Base, OpsOK
    <3>2. told.ops[e].status = "succeeded" => Rests(told.ops[e], e, done)
      BY <2>3, <2>6 DEF Rests
    <3> QED
      BY <2>6, <3>1, <3>2, OpMovesBase
  <2>8. told \in Request /\ item \in Items
    BY <2>1, <2>7 DEF Base, Op
  <2>9. PICK g : /\ c = Converge(g) /\ ItemMoves(told, g)
                 /\ \/ g = told
                    \/ /\ outcome = "unknown" /\ r.ops[e].rev = r.rev
                       /\ \A i \in Items : i # item => g.items[i].status = told.items[i].status
                    \/ \A i \in Items : g.items[i].status \in {told.items[i].status, "failed"}
    <3>1. PICK g : /\ c = Converge(g)
                   /\ \/ g = told
                      \/ g = Hold(told, {item}, "waiting", "unknown") /\ outcome = "unknown"
                         /\ r.ops[e].rev = r.rev
                      \/ g = Hold(told, {item}, "failed", "failed")
      BY <2>5
    <3>2. CASE g = told
      BY <2>8, <3>1, <3>2 DEF ItemMoves, NoNewSatisfied
    <3>3. CASE g = Hold(told, {item}, "waiting", "unknown") /\ outcome = "unknown" /\ r.ops[e].rev = r.rev
      <4>1. /\ g \in Request /\ SameWork(told, g) /\ g.status = told.status
            /\ \A i \in Items : g.items[i].status = IF i \in {item} THEN "waiting" ELSE told.items[i].status
        BY <2>8, <3>3, HoldFacts DEF Reasons
      <4>2. ItemMoves(told, g)
        BY <4>1 DEF ItemMoves, NoNewSatisfied, SameWork
      <4> QED
        BY <3>1, <3>3, <4>1, <4>2
    <3>4. CASE g = Hold(told, {item}, "failed", "failed")
      <4>1. /\ g \in Request /\ SameWork(told, g) /\ g.status = told.status
            /\ \A i \in Items : g.items[i].status = IF i \in {item} THEN "failed" ELSE told.items[i].status
        BY <2>8, <3>4, HoldFacts DEF Reasons
      <4>2. ItemMoves(told, g)
        BY <4>1 DEF ItemMoves, NoNewSatisfied, SameWork
      <4> QED
        BY <3>1, <3>4, <4>1, <4>2
    <3> QED
      BY <3>1, <3>2, <3>3, <3>4
  <2>10. Base(g, done) /\ Steady(told, g, {})
    BY <2>7, <2>9, ItemMovesBase
  <2>11. /\ Base(c, done) /\ Steady(g, c, {}) /\ SameWork(g, c)
         /\ Decided(g) => Decided(c)
    BY <2>9, <2>10, ConvergeKeeps
  <2>12. Steady(r, c, {}) /\ Final(r, c)
    BY <2>4, <2>7, <2>10, <2>11, SteadyCompose DEF Final
  <2>13. /\ c.batches = r.batches /\ c.ops = told.ops
    BY <2>6, <2>9, <2>11 DEF OpMoves, ItemMoves, SameWork
  <2>14. ASSUME Decided(r),
                \/ outcome = "unknown"
                \/ r.status = "open" /\ r.batches[d].rev = r.rev => r.batches[d].status \in UnsettledBatches
         PROVE  Decided(g)
    <3>1. /\ e \in Leaves(r, d) /\ d \in DOMAIN r.batches /\ r.batches[d].item = item
          /\ r.batches[d].rev = r.ops[e].rev
      BY <1>0, <2>2 DEF Base, OpsOK, Leaves
    <3>2. /\ \A k : Leaves(g, k) = Leaves(r, k)
          /\ OpenOps(g) = IF outcome \in UnsettledOps THEN OpenOps(r) ELSE OpenOps(r) \ {e}
      BY <2>3, <2>6, <2>7, <2>9, OpMovesLeaves, ItemMovesBase
    <3>3. g.status = r.status /\ g.batches = r.batches /\ g.rev = r.rev /\ told.items = r.items
      BY <2>6, <2>9 DEF OpMoves, ItemMoves
    <3> SUFFICES ASSUME g.status = "open", NEW k \in DOMAIN g.batches,
                        g.batches[k].rev = g.rev, Leaves(g, k) # {},
                        g.batches[k].status \notin UnsettledBatches,
                        Leaves(g, k) \cap OpenOps(g) = {}
                 PROVE  g.items[g.batches[k].item].status \in {"satisfied", "failed"}
      BY DEF Decided
    <3>4. k # d
      <4>1. outcome # "unknown" \/ k # d
        BY <2>2, <3>1, <3>2 DEF UnsettledOps
      <4>2. outcome # "unknown" => k # d
        BY <2>14, <3>3
      <4> QED
        BY <4>1, <4>2
    <3>5. e \notin Leaves(r, k)
      BY <3>4 DEF Leaves
    <3>6. Leaves(r, k) # {} /\ Leaves(r, k) \cap OpenOps(r) = {}
      BY <3>2, <3>5
    <3>7. r.items[r.batches[k].item].status \in {"satisfied", "failed"}
      BY <2>14, <3>3, <3>6 DEF Decided
    <3>8. r.batches[k].item \in Items
      BY <1>0, <3>3, TypedBatch DEF Batch
    <3>9. r.ops[e].rev = r.rev => r.batches[k].item # item
      <4> SUFFICES ASSUME r.ops[e].rev = r.rev, r.batches[k].item = item PROVE FALSE
        OBVIOUS
      <4>1. Leaves(r, d) # {} /\ r.batches[k].rev = r.batches[d].rev /\ k \in DOMAIN r.batches
        BY <3>1, <3>3
      <4> QED
        BY <1>0, <3>1, <3>4, <3>6, <4>1, OnlyWriter
    <3> QED
      BY <2>9, <3>3, <3>7, <3>8, <3>9
  <2> QED
    BY <1>2, <2>3, <2>6, <2>11, <2>12, <2>13, <2>14 DEF OpMoves
<1> QED
  BY <1>1, <1>2

-----------------------------------------------------------------------------
(* Restart, commands and the user's answers. *)

\* For the workers: what a change leaves of the operations, the batches and the steps
\* outside X that have started.  Weaker than Steady, a withdrawn batch has ended.
Keeps(r, c, X) ==
  /\ DOMAIN c.ops = DOMAIN r.ops
  /\ \A e \in DOMAIN r.ops : c.ops[e].batch = r.ops[e].batch /\ (HasJob(r.ops[e]) => HasJob(c.ops[e]))
  /\ Len(c.batches) = Len(r.batches) /\ DOMAIN c.batches = DOMAIN r.batches
  /\ \A d : Leaves(c, d) = Leaves(r, d)
  /\ \A d \in DOMAIN r.batches :
       /\ c.batches[d].item = r.batches[d].item /\ c.batches[d].rev = r.batches[d].rev
       /\ DOMAIN c.batches[d].steps = DOMAIN r.batches[d].steps
       /\ \A s \in DOMAIN r.batches[d].steps :
            r.batches[d].steps[s] = "started" /\ <<d, s>> \notin X =>
              /\ c.batches[d].steps[s] = "started"
              /\ /\ c.status = "open" /\ c.batches[d].rev = c.rev
                 /\ r.status = "open" /\ r.batches[d].rev = r.rev => r.batches[d].status = "running"
                 => c.batches[d].status = "running"

LEMMA SteadyKeeps ==
  ASSUME NEW r, NEW c, NEW X, Steady(r, c, X)
  PROVE  Keeps(r, c, X)
<1>1. \A d : Leaves(c, d) = Leaves(r, d)
  BY DEF Steady, Leaves
<1> QED
  BY <1>1 DEF Steady, Keeps

LEMMA NewItems ==
  ASSUME NEW r \in Request, NEW f \in [Items -> Item], NEW c, c = [r EXCEPT !.items = f]
  PROVE  /\ c \in Request /\ c.items = f /\ SameWork(r, c) /\ c.status = r.status
BY DEF Request, SameWork

\* Giving up every operation that is open makes it unknown.
LEMMA ForgetBase ==
  ASSUME NEW r, NEW done, Base(r, done), NEW f \in [DOMAIN r.ops -> Op],
         NEW c \in Request, c.ops = f,
         c.items = r.items, c.batches = r.batches, c.rev = r.rev,
         c.status = r.status, c.target = r.target,
         \A e \in DOMAIN r.ops :
           \/ f[e] = r.ops[e] /\ e \notin OpenOps(r)
           \/ /\ e \in OpenOps(r) /\ f[e].status = "unknown"
              /\ f[e].item = r.ops[e].item /\ f[e].rev = r.ops[e].rev /\ f[e].batch = r.ops[e].batch
              /\ f[e].receipt = r.ops[e].receipt
  PROVE  Base(c, done) /\ Final(r, c)
<1>1. r \in Request /\ r.ops \in Seq(Op) /\ r.epoch \in Nat
  BY DEF Base, Request
<1>2. f \in Seq(Op) /\ Len(f) = Len(r.ops) /\ DOMAIN f = DOMAIN r.ops
  BY <1>1, SeqLike
<1>3. /\ c \in Request /\ c.ops = f /\ c.items = r.items /\ c.batches = r.batches
      /\ c.status = r.status /\ c.target = r.target /\ c.rev = r.rev
  OBVIOUS
<1>4. \A d : Leaves(c, d) = Leaves(r, d)
  BY <1>2, <1>3 DEF Leaves
<1>5. OpenOps(c) = OpenOps(r)
  BY <1>2, <1>3 DEF OpenOps, UnsettledOps
<1>6. StopOK(c) /\ CountOK(c) /\ OneWriter(c) /\ Concluded(c)
  BY <1>2, <1>3, <1>4, <1>5 DEF Base, StopOK, CountOK, OneWriter, Concluded, Unsettled, Terminal
<1>7. OpsOK(c, done)
  <2> SUFFICES ASSUME NEW e \in DOMAIN r.ops
               PROVE  /\ f[e].batch \in DOMAIN r.batches
                      /\ f[e].item = r.batches[f[e].batch].item
                      /\ f[e].rev = r.batches[f[e].batch].rev
                      /\ f[e].receipt = "commit" => e \in done
                      /\ f[e].status = "succeeded" => Rests(f[e], e, done)
    BY <1>2, <1>3 DEF Base, OpsOK
  <2> QED
    BY DEF Base, OpsOK
<1>8. \A i : Backed(r, done, i) => Backed(c, done, i)
  <2> SUFFICES ASSUME NEW i, NEW d \in DOMAIN r.batches,
                      r.batches[d].item = i, r.batches[d].rev = r.rev,
                      r.batches[d].status = "completed", Leaves(r, d) # {},
                      \A e \in Leaves(r, d) : r.ops[e].status = "succeeded"
                                              /\ Rests(r.ops[e], e, done)
               PROVE  Backed(c, done, i)
    BY DEF Backed
  <2>1. \A e \in Leaves(r, d) : f[e] = r.ops[e]
    BY DEF Leaves, OpenOps, UnsettledOps
  <2> QED
    BY <1>3, <1>4, <2>1 DEF Backed
<1>9. SatBacked(c, done)
  BY <1>3, <1>8 DEF Base, SatBacked
<1>10. Final(r, c)
  BY <1>3 DEF Final
<1> QED
  BY <1>3, <1>6, <1>7, <1>9, <1>10 DEF Base

\* After a restart the request is as sound as before.
LEMMA RecoverFacts ==
  ASSUME NEW r, NEW done, ReqInv(r, done), NEW c, c = Recover(r)
  PROVE  ReqInv(c, done) /\ Final(r, c)
<1>0. Base(r, done) /\ r \in Request
  BY DEF ReqInv, Base
<1> DEFINE open == OpenOps(r)
           held == IF Terminal(r) THEN {}
                   ELSE {r.ops[e].item : e \in {f \in open : r.ops[f].rev = r.rev}}
           h == Hold(r, held, "waiting", "unknown")
           f == [e \in DOMAIN r.ops |-> IF e \in open THEN [r.ops[e] EXCEPT !.status = "unknown"]
                                                      ELSE r.ops[e]]
           known == [h EXCEPT !.ops = f, !.epoch = @ + 1]
           lose(d) == LET b == Refresh(known, d)
                      IN  IF b.status = "running" THEN [b EXCEPT !.status = "unknown"] ELSE b
           all == [d \in DOMAIN known.batches |-> lose(d)]
           m == [known EXCEPT !.batches = all]
<1>1. /\ h \in Request /\ SameWork(r, h) /\ h.status = r.status
      /\ \A i \in Items : h.items[i].status = IF i \in held THEN "waiting" ELSE r.items[i].status
  <2> HIDE DEF held
  <2> QED
    BY <1>0, HoldFacts DEF Reasons
<1>2. Base(h, done) /\ Final(r, h) /\ OpenOps(h) = open
  <2>1. ItemMoves(r, h)
    <3> HIDE DEF h, held
    <3> QED
      BY <1>1 DEF ItemMoves, NoNewSatisfied, SameWork
  <2> HIDE DEF h
  <2> QED
    BY <1>0, <1>1, <2>1, ItemMovesBase DEF Final
<1>3. c = ReconcileBatches(m)
  <2>1. h.ops = r.ops
    BY <1>1 DEF SameWork
  <2>2. known = [Hold(r, held, "waiting", "unknown")
                  EXCEPT !.ops = [e \in DOMAIN @ |->
                                    IF e \in open THEN [@[e] EXCEPT !.status = "unknown"] ELSE @[e]],
                         !.epoch = @ + 1]
    BY <2>1
  <2> HIDE DEF known
  <2> QED
    BY <2>2 DEF Recover
<1>4. /\ f \in [DOMAIN h.ops -> Op]
      /\ \A e \in DOMAIN h.ops :
           \/ f[e] = h.ops[e] /\ e \notin OpenOps(h)
           \/ /\ e \in OpenOps(h) /\ f[e].status = "unknown"
              /\ f[e].item = h.ops[e].item /\ f[e].rev = h.ops[e].rev /\ f[e].batch = h.ops[e].batch
              /\ f[e].receipt = h.ops[e].receipt
  <2>1. \A e \in DOMAIN r.ops : r.ops[e] \in Op
    BY <1>0, TypedLeaf
  <2>2. h.ops = r.ops
    BY <1>1 DEF SameWork
  <2> HIDE DEF open, h
  <2>3. \A e \in DOMAIN r.ops :
          LET op == [r.ops[e] EXCEPT !.status = "unknown"]
          IN  /\ op \in Op /\ op.status = "unknown"
              /\ op.item = r.ops[e].item /\ op.rev = r.ops[e].rev /\ op.batch = r.ops[e].batch
              /\ op.receipt = r.ops[e].receipt
    BY <2>1 DEF Op, UnsettledOps
  <2> QED
    BY <1>2, <2>1, <2>2, <2>3
<1> HIDE DEF h, f
<1>5. Base(known, done) /\ Final(h, known) /\ known.batches = h.batches
  <2>1. h.ops \in Seq(Op) /\ h.epoch + 1 \in Nat
    BY <1>1, Typed DEF Request
  <2>2. f \in Seq(Op)
    BY <1>4, <2>1, SeqLike
  <2>3. /\ known \in Request /\ known.ops = f
        /\ known.items = h.items /\ known.batches = h.batches /\ known.rev = h.rev
        /\ known.status = h.status /\ known.target = h.target
    BY <1>1, <2>1, <2>2 DEF Request
  <2> HIDE DEF known
  <2> QED
    BY <1>2, <1>4, <2>3, ForgetBase
<1> HIDE DEF known
<1>6. /\ all \in [DOMAIN known.batches -> Batch]
      /\ \A d \in DOMAIN known.batches :
           /\ all[d].item = known.batches[d].item /\ all[d].rev = known.batches[d].rev
           /\ all[d].steps = known.batches[d].steps
           /\ \/ all[d].status = known.batches[d].status
              \/ /\ known.batches[d].status \in UnsettledBatches
                 /\ all[d].status \in Ended \cup {"unknown"}
  <2> SUFFICES ASSUME NEW d \in DOMAIN known.batches
               PROVE  /\ lose(d) \in Batch
                      /\ lose(d).item = known.batches[d].item /\ lose(d).rev = known.batches[d].rev
                      /\ lose(d).steps = known.batches[d].steps
                      /\ \/ lose(d).status = known.batches[d].status
                         \/ /\ known.batches[d].status \in UnsettledBatches
                            /\ lose(d).status \in Ended \cup {"unknown"}
    OBVIOUS
  <2> DEFINE b == Refresh(known, d)
  <2>1. /\ b \in Batch
        /\ b.item = known.batches[d].item /\ b.rev = known.batches[d].rev
        /\ b.steps = known.batches[d].steps
        /\ \/ b.status = known.batches[d].status
           \/ known.batches[d].status = "running" /\ b.status \in Ended
    BY <1>5, RefreshFacts DEF Base
  <2> HIDE DEF b
  <2>2. CASE b.status = "running"
    <3>1. lose(d) = [b EXCEPT !.status = "unknown"]
      BY <2>2 DEF b
    <3> QED
      BY <2>1, <2>2, <3>1 DEF Batch, UnsettledBatches, Ended
  <2>3. CASE b.status # "running"
    <3>1. lose(d) = b
      BY <2>3 DEF b
    <3> QED
      BY <2>1, <3>1 DEF UnsettledBatches
  <2> QED
    BY <2>2, <2>3
<1> HIDE DEF all
<1>7. BatchMoves(known, m)
  <2>1. /\ m \in Request /\ m.batches = all
        /\ Len(m.batches) = Len(known.batches) /\ DOMAIN m.batches = DOMAIN known.batches
        /\ m.status = known.status /\ m.target = known.target /\ m.rev = known.rev
        /\ m.items = known.items /\ m.ops = known.ops
    BY <1>5, <1>6, NewBatches DEF Base
  <2> HIDE DEF m
  <2> QED
    BY <1>6, <2>1 DEF BatchMoves
<1> HIDE DEF m
<1>8. Base(m, done) /\ Final(known, m)
  BY <1>5, <1>7, BatchMovesBase
<1>9. ReqInv(c, done) /\ Final(m, c)
  BY <1>3, <1>8, ReconcileFacts
<1> QED
  BY <1>2, <1>5, <1>8, <1>9, FinalCompose

LEMMA KeepsCompose ==
  ASSUME NEW r, NEW g, NEW c, NEW X, Keeps(r, g, X), Keeps(g, c, {})
  PROVE  Keeps(r, c, X)
<1>1. \A d \in DOMAIN r.batches :
        /\ d \in DOMAIN g.batches
        /\ c.batches[d].item = r.batches[d].item /\ c.batches[d].rev = r.batches[d].rev
        /\ DOMAIN c.batches[d].steps = DOMAIN r.batches[d].steps
  BY DEF Keeps
<1>2. ASSUME NEW d \in DOMAIN r.batches, NEW s \in DOMAIN r.batches[d].steps,
             r.batches[d].steps[s] = "started", <<d, s>> \notin X
      PROVE  /\ c.batches[d].steps[s] = "started"
             /\ /\ c.status = "open" /\ c.batches[d].rev = c.rev
                /\ r.status = "open" /\ r.batches[d].rev = r.rev => r.batches[d].status = "running"
                => c.batches[d].status = "running"
  BY <1>1, <1>2 DEF Keeps
<1> QED
  BY <1>1, <1>2 DEF Keeps

LEMMA KeepsSame ==
  ASSUME NEW r
  PROVE  Keeps(r, r, {}) /\ Final(r, r)
BY DEF Keeps, Final

LEMMA AnswerFacts ==
  ASSUME NEW r, NEW done, ReqInv(r, done), NEW i \in Answers, NEW c, c = Satisfy(r, {i})
  PROVE  ReqInv(c, done) /\ Keeps(r, c, {}) /\ Final(r, c) /\ c.ops = r.ops
<1>0. Base(r, done) /\ Decided(r) /\ r \in Request /\ StopOK(r)
  BY DEF ReqInv, Base
<1>1. /\ Verdicts(r, c)
      /\ \A k \in Items : c.items[k].status = "satisfied" => r.items[k].status = "satisfied" \/ k \in {i}
  BY <1>0, SatisfyFacts
<1>2. Base(c, done)
  BY <1>0, <1>1, VerdictsBase
<1>3. Decided(c)
  BY <1>0, <1>1, VerdictsDecided
<1>4. Steady(r, c, {}) /\ Final(r, c)
  BY <1>1, VerdictsSteady
<1> QED
  BY <1>1, <1>2, <1>3, <1>4, SteadyKeeps DEF ReqInv, Verdicts, SameWork

LEMMA WithdrawFacts ==
  ASSUME NEW r \in Request, NEW c, c = WithdrawBatches(r)
  PROVE  /\ BatchMoves(r, c)
         /\ \A d \in DOMAIN r.batches : c.batches[d].steps = r.batches[d].steps
<1> DEFINE all == [d \in DOMAIN r.batches |->
                     IF r.batches[d].status = "running" THEN [r.batches[d] EXCEPT !.status = "failed"]
                                                        ELSE r.batches[d]]
<1>1. /\ all \in [DOMAIN r.batches -> Batch]
      /\ \A d \in DOMAIN r.batches :
           /\ all[d].item = r.batches[d].item /\ all[d].rev = r.batches[d].rev
           /\ all[d].steps = r.batches[d].steps
           /\ \/ all[d].status = r.batches[d].status
              \/ r.batches[d].status \in UnsettledBatches /\ all[d].status \in Ended \cup {"unknown"}
  <2> SUFFICES ASSUME NEW d \in DOMAIN r.batches
               PROVE  /\ all[d] \in Batch
                      /\ all[d].item = r.batches[d].item /\ all[d].rev = r.batches[d].rev
                      /\ all[d].steps = r.batches[d].steps
                      /\ \/ all[d].status = r.batches[d].status
                         \/ /\ r.batches[d].status \in UnsettledBatches
                            /\ all[d].status \in Ended \cup {"unknown"}
    <3> HIDE DEF all
    <3>1. all = [d \in DOMAIN r.batches |-> all[d]]
      BY DEF all
    <3> QED
      BY <3>1
  <2>1. PICK b \in Batch : b = r.batches[d]
    BY TypedBatch
  <2>2. all[d] = IF b.status = "running" THEN [b EXCEPT !.status = "failed"] ELSE b
    BY <2>1
  <2> HIDE DEF all
  <2> QED
    BY <2>1, <2>2 DEF Batch, UnsettledBatches, Ended
<1>2. c = [r EXCEPT !.epoch = r.epoch + 1, !.batches = all] /\ r.epoch + 1 \in Nat
  BY Typed DEF WithdrawBatches
<1> HIDE DEF all
<1>3. all \in Seq(Batch) /\ Len(all) = Len(r.batches) /\ DOMAIN all = DOMAIN r.batches
  BY <1>1, SeqLike DEF Request
<1>4. /\ c \in Request /\ c.batches = all
      /\ c.status = r.status /\ c.target = r.target /\ c.rev = r.rev /\ c.items = r.items
      /\ c.ops = r.ops
  BY <1>2, <1>3 DEF Request
<1> QED
  BY <1>1, <1>3, <1>4 DEF BatchMoves

\* Stopping a request voids its batches and may end it at once.
LEMMA CancelFacts ==
  ASSUME NEW r, NEW done, ReqInv(r, done), r.status = "open", NEW target \in Targets,
         NEW c, c = Converge(WithdrawBatches([r EXCEPT !.status = "stopping", !.target = target]))
  PROVE  ReqInv(c, done) /\ Keeps(r, c, {}) /\ Final(r, c) /\ c.ops = r.ops
<1> DEFINE s == [r EXCEPT !.status = "stopping", !.target = target]
           w == WithdrawBatches(s)
<1>0. Base(r, done) /\ r \in Request
  BY DEF ReqInv, Base
<1>1. /\ s \in Request /\ s.status = "stopping" /\ s.target = target
      /\ s.ops = r.ops /\ s.batches = r.batches /\ s.items = r.items /\ s.rev = r.rev
  BY <1>0 DEF Request
<1>2. c = Converge(w)
  OBVIOUS
<1> HIDE DEF s
<1>3. /\ OpenOps(s) = OpenOps(r) /\ \A d : Leaves(s, d) = Leaves(r, d)
      /\ \A i : Backed(r, done, i) => Backed(s, done, i)
  BY <1>1 DEF OpenOps, Leaves, Backed
<1>4. Base(s, done)
  BY <1>0, <1>1, <1>3 DEF Base, StopOK, CountOK, OpsOK, OneWriter, SatBacked, Concluded, Terminal
<1>5. /\ BatchMoves(s, w)
      /\ \A d \in DOMAIN s.batches : w.batches[d].steps = s.batches[d].steps
  BY <1>1, WithdrawFacts
<1> HIDE DEF w
<1>6. Base(w, done) /\ \A d : Leaves(w, d) = Leaves(s, d)
  BY <1>4, <1>5, BatchMovesBase
<1>7. /\ Base(c, done) /\ Steady(w, c, {}) /\ SameWork(w, c)
  BY <1>2, <1>6, ConvergeKeeps
<1>8. w.status = "stopping" /\ c.status # "open"
  BY <1>1, <1>5, <1>7 DEF BatchMoves, Steady
<1>9. Decided(c)
  BY <1>8 DEF Decided
<1>10. Keeps(r, w, {})
  BY <1>1, <1>3, <1>5, <1>6, <1>8 DEF BatchMoves, Keeps
<1>11. Keeps(r, c, {})
  BY <1>7, <1>10, SteadyKeeps, KeepsCompose
<1> QED
  BY <1>1, <1>5, <1>7, <1>9, <1>11 DEF ReqInv, BatchMoves, SameWork, Final, Terminal

\* An amendment starts a revision in which nothing has been done.
LEMMA AmendFacts ==
  ASSUME NEW r, NEW done, ReqInv(r, done), r.status = "open",
         NEW c, c = WithdrawBatches([r EXCEPT !.rev = @ + 1, !.items = [i \in Items |-> Untouched]])
  PROVE  ReqInv(c, done) /\ Keeps(r, c, {}) /\ Final(r, c) /\ c.ops = r.ops
<1> DEFINE s == [r EXCEPT !.rev = @ + 1, !.items = [i \in Items |-> Untouched]]
<1>0. Base(r, done) /\ r \in Request /\ r.rev \in Nat /\ r.rev + 1 \in Nat
  BY Typed DEF ReqInv, Base
<1>1. /\ s \in Request /\ s.status = "open" /\ s.target = r.target
      /\ s.ops = r.ops /\ s.batches = r.batches /\ s.rev = r.rev + 1
      /\ \A i \in Items : s.items[i].status = "pending"
  <2>1. [i \in Items |-> Untouched] \in [Items -> Item]
    BY DEF Untouched, Item
  <2>2. s = [r EXCEPT !.rev = r.rev + 1, !.items = [i \in Items |-> Untouched]]
    OBVIOUS
  <2> HIDE DEF s
  <2>3. /\ s \in Request /\ s.status = r.status /\ s.target = r.target
        /\ s.ops = r.ops /\ s.batches = r.batches /\ s.rev = r.rev + 1
        /\ s.items = [i \in Items |-> Untouched]
    BY <1>0, <2>1, <2>2 DEF Request
  <2> QED
    BY <2>3 DEF Untouched
<1>2. c = WithdrawBatches(s)
  OBVIOUS
<1> HIDE DEF s
<1>3. OpenOps(s) = OpenOps(r) /\ \A d : Leaves(s, d) = Leaves(r, d)
  BY <1>1 DEF OpenOps, Leaves
<1>4. \A d \in DOMAIN s.batches : s.batches[d].rev < s.rev
  <2> SUFFICES ASSUME NEW d \in DOMAIN r.batches PROVE r.batches[d].rev < r.rev + 1
    BY <1>1
  <2>1. r.batches[d].rev <= r.rev
    BY <1>0 DEF Base, CountOK
  <2>2. r.batches[d].rev \in Nat
    BY <1>0, TypedBatch DEF Batch
  <2> QED
    BY <1>0, <2>1, <2>2
<1>5. Base(s, done)
  <2>1. CountOK(s)
    <3>1. \A d \in DOMAIN s.batches : s.batches[d].rev \in Nat
      BY <1>1, TypedBatch DEF Batch
    <3>2. \A d \in DOMAIN s.batches : s.batches[d].rev <= s.rev
      BY <1>0, <1>1, <1>4, <3>1
    <3> QED
      BY <1>0, <1>1, <3>2 DEF Base, CountOK
  <2>2. OneWriter(s) /\ OpsOK(s, done)
    BY <1>0, <1>1, <1>3 DEF Base, OpsOK, OneWriter
  <2>3. StopOK(s) /\ SatBacked(s, done) /\ Concluded(s)
    BY <1>1 DEF StopOK, SatBacked, Concluded, Terminal
  <2> QED
    BY <1>1, <2>1, <2>2, <2>3 DEF Base
<1>6. /\ BatchMoves(s, c)
      /\ \A d \in DOMAIN s.batches : c.batches[d].steps = s.batches[d].steps
  BY <1>1, <1>2, WithdrawFacts
<1>7. Base(c, done) /\ \A d : Leaves(c, d) = Leaves(s, d)
  BY <1>5, <1>6, BatchMovesBase
<1>8. \A d \in DOMAIN c.batches : c.batches[d].rev # c.rev
  <2>1. \A d \in DOMAIN s.batches : s.batches[d].rev \in Nat
    BY <1>1, TypedBatch DEF Batch
  <2>2. \A d \in DOMAIN s.batches : s.batches[d].rev # s.rev
    BY <1>0, <1>1, <1>4, <2>1
  <2> QED
    BY <1>6, <2>2 DEF BatchMoves
<1>9. Decided(c)
  BY <1>8 DEF Decided
<1>10. Keeps(r, c, {})
  <2>1. /\ c.ops = s.ops /\ Len(c.batches) = Len(s.batches) /\ DOMAIN c.batches = DOMAIN s.batches
        /\ \A d \in DOMAIN s.batches :
             /\ c.batches[d].item = s.batches[d].item /\ c.batches[d].rev = s.batches[d].rev
             /\ c.batches[d].steps = s.batches[d].steps
    BY ONLY <1>6 DEF BatchMoves
  <2> QED
    BY ONLY <1>1, <1>3, <1>7, <1>8, <2>1 DEF Keeps
<1> QED
  BY <1>1, <1>6, <1>7, <1>9, <1>10 DEF ReqInv, BatchMoves, Final, Terminal

\* Pausing, resuming and blocking change no verdict.
LEMMA QuietFacts ==
  ASSUME NEW r, NEW done, ReqInv(r, done), NEW c, ItemMoves(r, c),
         Terminal(r) => \A i \in Items : c.items[i].status = r.items[i].status,
         \A i \in Items : r.items[i].status \in {"satisfied", "failed"} =>
           c.items[i].status \in {"satisfied", "failed"}
  PROVE  ReqInv(c, done) /\ Keeps(r, c, {}) /\ Final(r, c) /\ c.ops = r.ops
<1>0. Base(r, done) /\ Decided(r) /\ r \in Request
  BY DEF ReqInv, Base
<1>1. /\ Base(c, done) /\ Steady(r, c, {})
      /\ OpenOps(c) = OpenOps(r) /\ \A d : Leaves(c, d) = Leaves(r, d)
  BY <1>0, ItemMovesBase
<1>2. Decided(c)
  <2> SUFFICES ASSUME c.status = "open", NEW d \in DOMAIN c.batches,
                      c.batches[d].rev = c.rev, Leaves(c, d) # {},
                      c.batches[d].status \notin UnsettledBatches,
                      Leaves(c, d) \cap OpenOps(c) = {}
               PROVE  c.items[c.batches[d].item].status \in {"satisfied", "failed"}
    BY DEF Decided
  <2>1. r.items[r.batches[d].item].status \in {"satisfied", "failed"}
    BY <1>0, <1>1 DEF Decided, ItemMoves
  <2>2. r.batches[d].item \in Items
    BY <1>0, TypedBatch DEF ItemMoves, Batch
  <2> QED
    BY <2>1, <2>2 DEF ItemMoves
<1> QED
  BY <1>1, <1>2, SteadyKeeps DEF ReqInv, Final, ItemMoves

LEMMA PauseFacts ==
  ASSUME NEW r, NEW done, ReqInv(r, done), NEW c, c = [r EXCEPT !.paused = TRUE]
  PROVE  ReqInv(c, done) /\ Keeps(r, c, {}) /\ Final(r, c) /\ c.ops = r.ops
<1>1. r \in Request
  BY DEF ReqInv, Base
<1>2. ItemMoves(r, c) /\ c.items = r.items
  BY <1>1 DEF Request, ItemMoves, NoNewSatisfied
<1> QED
  BY <1>2, QuietFacts

LEMMA ResumedItem ==
  ASSUME NEW item \in Item, NEW new,
         new = [status |-> IF item = [status |-> "waiting", waits |-> {"reconciled"}]
                           THEN "pending" ELSE item.status,
                waits  |-> item.waits \ {"reconciled"}]
  PROVE  /\ new \in Item
         /\ new.status = item.status \/ (new.status = "pending" /\ item.status = "waiting")
<1>1. CASE item = [status |-> "waiting", waits |-> {"reconciled"}]
  <2>1. item.status = "waiting"
    BY <1>1
  <2> QED
    BY <1>1, <2>1 DEF Item
<1>2. CASE item # [status |-> "waiting", waits |-> {"reconciled"}]
  BY <1>2 DEF Item
<1> QED
  BY <1>1, <1>2

LEMMA ResumeFacts ==
  ASSUME NEW r, NEW done, ReqInv(r, done), r.status = "open", NEW c,
         c = Converge(SetItems([r EXCEPT !.paused = FALSE], Items,
               LAMBDA item : [status |-> IF item = [status |-> "waiting", waits |-> {"reconciled"}]
                                         THEN "pending" ELSE item.status,
                              waits  |-> item.waits \ {"reconciled"}]))
  PROVE  ReqInv(c, done) /\ Keeps(r, c, {}) /\ Final(r, c) /\ c.ops = r.ops
<1> DEFINE f == [i \in Items |->
                   [status |-> IF r.items[i] = [status |-> "waiting", waits |-> {"reconciled"}]
                               THEN "pending" ELSE r.items[i].status,
                    waits  |-> r.items[i].waits \ {"reconciled"}]]
           g == [r EXCEPT !.paused = FALSE, !.items = f]
<1>1. r \in Request
  BY DEF ReqInv, Base
<1>2. c = Converge(g)
  BY <1>1 DEF SetItems, Request
<1>3. /\ f \in [Items -> Item]
      /\ \A i \in Items : \/ f[i].status = r.items[i].status
                          \/ f[i].status = "pending" /\ r.items[i].status = "waiting"
  <2> SUFFICES ASSUME NEW i \in Items
               PROVE  /\ f[i] \in Item
                      /\ \/ f[i].status = r.items[i].status
                         \/ f[i].status = "pending" /\ r.items[i].status = "waiting"
    <3> HIDE DEF f
    <3>1. f = [i \in Items |-> f[i]]
      BY DEF f
    <3> QED
      BY <3>1
  <2>1. r.items[i] \in Item
    BY <1>1 DEF Request
  <2> QED
    BY <2>1, ResumedItem
<1> HIDE DEF f
<1>4. /\ g \in Request /\ g.items = f /\ g.status = r.status /\ g.target = r.target
      /\ g.rev = r.rev /\ g.ops = r.ops /\ g.batches = r.batches
  BY <1>1, <1>3 DEF Request
<1> HIDE DEF g
<1>5. ItemMoves(r, g)
  BY <1>3, <1>4 DEF ItemMoves, NoNewSatisfied
<1>6. ReqInv(g, done) /\ Keeps(r, g, {}) /\ g.ops = r.ops
  BY <1>3, <1>4, <1>5, QuietFacts DEF Terminal
<1>7. ReqInv(c, done) /\ Steady(g, c, {}) /\ c.ops = g.ops
  BY <1>2, <1>6, ConvergeKeeps DEF ReqInv, SameWork
<1>8. Keeps(r, c, {})
  <2>1. Keeps(g, c, {})
    BY <1>7, SteadyKeeps
  <2> QED
    BY <1>6, <2>1, KeepsCompose
<1>9. Final(r, c)
  BY DEF Final, Terminal
<1> QED
  BY <1>6, <1>7, <1>8, <1>9

LEMMA BlockFacts ==
  ASSUME NEW r, NEW done, ReqInv(r, done), NEW i \in Items, NEW c,
         c = SetItems(r, {i}, LAMBDA item : [item EXCEPT !.waits = @ \cup {"control"}])
  PROVE  ReqInv(c, done) /\ Keeps(r, c, {}) /\ Final(r, c) /\ c.ops = r.ops
<1> DEFINE f == [k \in Items |-> IF k \in {i} THEN [r.items[k] EXCEPT !.waits = @ \cup {"control"}]
                                              ELSE r.items[k]]
<1>1. r \in Request /\ r.items \in [Items -> Item]
  BY DEF ReqInv, Base, Request
<1>2. c = [r EXCEPT !.items = f]
  BY <1>1 DEF SetItems
<1>3. /\ f \in [Items -> Item] /\ \A k \in Items : f[k].status = r.items[k].status
  <2> SUFFICES ASSUME NEW k \in Items
               PROVE  f[k] \in Item /\ f[k].status = r.items[k].status
    <3> HIDE DEF f
    <3>1. f = [k \in Items |-> f[k]]
      BY DEF f
    <3> QED
      BY <3>1
  <2>1. PICK item \in Item : item = r.items[k]
    BY <1>1
  <2>2. f[k] = item \/ f[k] = [item EXCEPT !.waits = item.waits \cup {"control"}]
    BY <2>1
  <2> HIDE DEF f
  <2> QED
    BY <2>1, <2>2 DEF Item, Reasons
<1> HIDE DEF f
<1>4. c \in Request /\ c.items = f /\ SameWork(r, c) /\ c.status = r.status
  BY ONLY <1>1, <1>2, <1>3, NewItems
<1>5. ItemMoves(r, c)
  BY <1>3, <1>4 DEF ItemMoves, NoNewSatisfied, SameWork
<1> QED
  BY <1>3, <1>4, <1>5, QuietFacts

\* The outcome the user states for an operation of unknown outcome.
LEMMA SettleFacts ==
  ASSUME NEW r, NEW done, ReqInv(r, done), NEW e \in DOMAIN r.ops, r.ops[e].status = "unknown",
         NEW outcome \in SettledOps, NEW told, NEW mine, NEW c,
         told = RecordOutcome([r EXCEPT !.ops[e].receipt = "attested"], e, outcome),
         c = Converge(ReconcileBatches(SetItems(told, mine, LAMBDA item :
               [item EXCEPT !.waits = (@ \ {"unknown"}) \cup {"reconciled"}])))
  PROVE  /\ ReqInv(c, done) /\ Keeps(r, c, {}) /\ Final(r, c)
         /\ \A f \in DOMAIN r.ops : f # e => c.ops[f] = r.ops[f]
         /\ c.ops[e].status = outcome
<1>0. Base(r, done) /\ r \in Request /\ Concluded(r)
  BY DEF ReqInv, Base
<1> DEFINE op == [r.ops[e] EXCEPT !.receipt = "attested"]
           s == [r EXCEPT !.ops[e] = op]
<1>1. r.ops[e] \in Op /\ e \in OpenOps(r)
  BY <1>0, TypedLeaf DEF OpenOps, UnsettledOps
<1>2. /\ op \in Op /\ op.item = r.ops[e].item /\ op.rev = r.ops[e].rev /\ op.batch = r.ops[e].batch
      /\ op.status = "unknown" /\ op.receipt = "attested" /\ (HasJob(op) <=> HasJob(r.ops[e]))
  BY <1>1 DEF Op, HasJob
<1>3. told = RecordOutcome(s, e, outcome)
  OBVIOUS
<1> HIDE DEF op
<1>4. OpMoves(r, s, e) /\ s.ops[e] = op
  BY <1>0, <1>1, <1>2, NewOp
<1> HIDE DEF s
<1>5. Base(s, done) /\ Steady(r, s, {}) /\ ~Terminal(r)
  <2>1. done \subseteq DOMAIN r.ops
    BY <1>0 DEF Base, OpsOK
  <2> QED
    BY <1>0, <1>2, <1>4, <2>1, OpMovesBase
<1>6. /\ Base(told, done) /\ Steady(s, told, {})
      /\ \A f \in DOMAIN s.ops : f # e => told.ops[f] = s.ops[f]
      /\ told.ops[e].status = outcome
  <2>1. e \in DOMAIN s.ops /\ s.ops[e].status \notin SettledOps /\ s.ops[e].receipt = "attested"
    BY <1>2, <1>4 DEF OpMoves, SettledOps
  <2>2. outcome \in SettledOps \cup {"unknown"}
    OBVIOUS
  <2>3. Rests(s.ops[e], e, done)
    BY <2>1 DEF Rests
  <2> QED
    BY ONLY <1>3, <1>5, <2>1, <2>2, <2>3, RecordOutcomeFacts
<1> DEFINE f == [i \in Items |-> IF i \in mine
                   THEN [told.items[i] EXCEPT !.waits = (@ \ {"unknown"}) \cup {"reconciled"}]
                   ELSE told.items[i]]
           g == [told EXCEPT !.items = f]
           h == ReconcileBatches(g)
<1>7. told \in Request /\ told.items \in [Items -> Item]
  BY <1>6 DEF Base, Request
<1>8. c = Converge(h)
  BY <1>7 DEF SetItems
<1>9. f \in [Items -> Item] /\ \A i \in Items : f[i].status = told.items[i].status
  <2> SUFFICES ASSUME NEW i \in Items
               PROVE  f[i] \in Item /\ f[i].status = told.items[i].status
    <3> HIDE DEF f
    <3>1. f = [k \in Items |-> f[k]]
      BY DEF f
    <3> QED
      BY <3>1
  <2>1. PICK item \in Item : item = told.items[i]
    BY <1>7
  <2>2. f[i] = item \/ f[i] = [item EXCEPT !.waits = (item.waits \ {"unknown"}) \cup {"reconciled"}]
    BY <2>1
  <2>3. [item EXCEPT !.waits = (item.waits \ {"unknown"}) \cup {"reconciled"}] \in Item
    BY ONLY <2>1 DEF Item, Reasons
  <2>4. [item EXCEPT !.waits = (item.waits \ {"unknown"}) \cup {"reconciled"}].status = item.status
    BY ONLY <2>1 DEF Item
  <2> HIDE DEF f
  <2> QED
    BY <2>1, <2>2, <2>3, <2>4
<1> HIDE DEF f, h
<1>10. g \in Request /\ g.items = f /\ SameWork(told, g) /\ g.status = told.status
  BY <1>7, <1>9, NewItems
<1> HIDE DEF g
<1>11. ItemMoves(told, g)
  BY <1>9, <1>10 DEF ItemMoves, NoNewSatisfied, SameWork
<1>12. Base(g, done) /\ Steady(told, g, {}) /\ g.ops = told.ops
  BY <1>6, <1>10, <1>11, ItemMovesBase DEF SameWork
<1>13. ReqInv(h, done) /\ Steady(g, h, {}) /\ h.ops = g.ops
  BY <1>12, ReconcileFacts DEF h
<1>14. ReqInv(c, done) /\ Steady(h, c, {}) /\ c.ops = h.ops
  BY <1>8, <1>13, ConvergeKeeps DEF ReqInv, SameWork
<1>15. Steady(r, c, {})
  BY <1>5, <1>6, <1>12, <1>13, <1>14, SteadyCompose
<1>16. \A k \in DOMAIN r.ops : k # e => c.ops[k] = r.ops[k]
  <2>1. c.ops = told.ops
    BY <1>12, <1>13, <1>14
  <2>2. \A k \in DOMAIN r.ops : k \in DOMAIN s.ops /\ (k # e => s.ops[k] = r.ops[k])
    BY <1>4 DEF OpMoves
  <2> QED
    BY ONLY <1>6, <2>1, <2>2
<1> QED
  BY <1>5, <1>6, <1>12, <1>13, <1>14, <1>15, <1>16, SteadyKeeps DEF Final

LEMMA SettleBatchFacts ==
  ASSUME NEW r, NEW done, ReqInv(r, done), NEW d \in DOMAIN r.batches,
         r.batches[d].status = "unknown", NEW outcome \in Ended,
         NEW c, c = ReconcileBatches([r EXCEPT !.batches[d].status = outcome])
  PROVE  ReqInv(c, done) /\ Keeps(r, c, {}) /\ Final(r, c) /\ c.ops = r.ops
<1> DEFINE b == [r.batches[d] EXCEPT !.status = outcome]
           all == [r.batches EXCEPT ![d] = b]
           g == [r EXCEPT !.batches = all]
<1>0. Base(r, done) /\ r \in Request
  BY DEF ReqInv, Base
<1>1. r.batches[d] \in Batch /\ r.batches \in [DOMAIN r.batches -> Batch]
  BY <1>0, Typed
<1>2. /\ b \in Batch /\ b.item = r.batches[d].item /\ b.rev = r.batches[d].rev
      /\ b.steps = r.batches[d].steps /\ b.status = outcome
  BY <1>1 DEF Batch
<1>3. c = ReconcileBatches(g)
  OBVIOUS
<1> HIDE DEF b
<1>4. /\ all \in [DOMAIN r.batches -> Batch] /\ all[d] = b
      /\ \A k \in DOMAIN r.batches : k # d => all[k] = r.batches[k]
  BY <1>1, <1>2
<1> HIDE DEF all
<1>5. /\ g \in Request /\ g.batches = all
      /\ Len(g.batches) = Len(r.batches) /\ DOMAIN g.batches = DOMAIN r.batches
      /\ g.status = r.status /\ g.target = r.target /\ g.rev = r.rev /\ g.items = r.items
      /\ g.ops = r.ops
  BY <1>0, <1>4, NewBatches
<1> HIDE DEF g
<1>6. /\ BatchMoves(r, g)
      /\ \A k \in DOMAIN r.batches : g.batches[k].steps = r.batches[k].steps
      /\ \A k \in DOMAIN r.batches : r.batches[k].status = "running" => g.batches[k].status = "running"
  BY <1>2, <1>4, <1>5 DEF BatchMoves, UnsettledBatches
<1>7. Base(g, done) /\ Final(r, g)
  BY <1>0, <1>6, BatchMovesBase
<1>8. Steady(r, g, {})
  BY <1>6 DEF Steady, BatchMoves
<1>9. ReqInv(c, done) /\ Steady(g, c, {}) /\ Final(g, c) /\ c.ops = g.ops
  BY <1>3, <1>7, ReconcileFacts
<1> QED
  BY <1>5, <1>7, <1>8, <1>9, SteadyCompose, SteadyKeeps, FinalCompose

-----------------------------------------------------------------------------
(* Batches begin, steps start, operations are admitted and move on. *)

LEMMA AppendFacts ==
  ASSUME NEW S, NEW s \in Seq(S), NEW x \in S, NEW t, t = Append(s, x)
  PROVE  /\ t \in Seq(S) /\ Len(s) \in Nat /\ Len(t) = Len(s) + 1
         /\ DOMAIN s = 1 .. Len(s) /\ DOMAIN t = DOMAIN s \cup {Len(t)} /\ Len(t) \notin DOMAIN s
         /\ t[Len(t)] = x /\ \A k \in DOMAIN s : t[k] = s[k]
<1>1. t \in Seq(S) /\ Len(s) \in Nat /\ Len(t) = Len(s) + 1
  BY AppendProperties, LenProperties
<1>2. DOMAIN s = 1 .. Len(s) /\ DOMAIN t = 1 .. Len(t)
  BY <1>1, LenProperties
<1>3. t[Len(t)] = x /\ \A k \in 1 .. Len(s) : t[k] = s[k]
  BY <1>1, AppendProperties
<1>4. 1 .. Len(t) = 1 .. Len(s) \cup {Len(t)} /\ Len(t) \notin 1 .. Len(s)
  BY <1>1
<1> QED
  BY <1>1, <1>2, <1>3, <1>4

LEMMA BackedKept ==
  ASSUME NEW r, NEW c, NEW done, c.rev = r.rev,
         \A k \in DOMAIN r.batches : r.batches[k].status = "completed" =>
           /\ k \in DOMAIN c.batches /\ c.batches[k] = r.batches[k] /\ Leaves(c, k) = Leaves(r, k)
           /\ \A f \in Leaves(r, k) : c.ops[f] = r.ops[f]
  PROVE  \A i : Backed(r, done, i) => Backed(c, done, i)
BY DEF Backed

\* A new batch may write an item only if no batch of its revision has written it.
LEMMA BeginFacts ==
  ASSUME NEW r, NEW done, ReqInv(r, done), r.status = "open", Len(r.batches) < MaxBatches,
         NEW b \in Batch, b.status = "running", b.rev = r.rev,
         \A k \in DOMAIN r.batches :
           r.batches[k].item = b.item /\ r.batches[k].rev = b.rev => Leaves(r, k) = {},
         NEW c \in Request, c.batches = Append(r.batches, b),
         c.status = r.status, c.target = r.target, c.rev = r.rev, c.items = r.items, c.ops = r.ops,
         NEW n, n = Len(c.batches)
  PROVE  /\ ReqInv(c, done) /\ Final(r, c) /\ c.status = r.status /\ c.rev = r.rev /\ c.ops = r.ops
         /\ DOMAIN c.batches = DOMAIN r.batches \cup {n} /\ n \notin DOMAIN r.batches
         /\ \A k \in DOMAIN r.batches : c.batches[k] = r.batches[k]
         /\ c.batches[n] = b /\ n \in Batches
         /\ \A k : Leaves(c, k) = Leaves(r, k)
<1>0. Base(r, done) /\ Decided(r) /\ r \in Request
  BY DEF ReqInv, Base
<1> DEFINE all == Append(r.batches, b)
<1>1. c.batches = all
  OBVIOUS
<1>2. /\ all \in Seq(Batch) /\ Len(r.batches) \in Nat /\ Len(all) = Len(r.batches) + 1
      /\ DOMAIN r.batches = 1 .. Len(r.batches)
      /\ DOMAIN all = DOMAIN r.batches \cup {Len(all)} /\ Len(all) \notin DOMAIN r.batches
      /\ all[Len(all)] = b /\ \A k \in DOMAIN r.batches : all[k] = r.batches[k]
  <2>1. r.batches \in Seq(Batch)
    BY <1>0 DEF Request
  <2> QED
    BY <2>1, AppendFacts
<1> HIDE DEF all
<1>3. /\ c \in Request /\ c.batches = all /\ n = Len(all)
      /\ c.status = r.status /\ c.target = r.target /\ c.rev = r.rev /\ c.items = r.items
      /\ c.ops = r.ops
  BY <1>0, <1>1, <1>2 DEF Request
<1>4. OpenOps(c) = OpenOps(r) /\ \A k : Leaves(c, k) = Leaves(r, k)
  BY <1>3 DEF OpenOps, Leaves
<1>5. Leaves(r, n) = {}
  BY <1>0, <1>2, <1>3 DEF Leaves, Base, OpsOK
<1>6. MaxBatches \in Nat /\ n \in Batches /\ Len(c.batches) <= MaxBatches
  <2>1. MaxBatches \in Nat
    BY RequestAssumption
  <2> QED
    BY <1>2, <1>3, <2>1 DEF Batches
<1>7. CountOK(c) /\ StopOK(c) /\ OpsOK(c, done)
  <2>1. \A k \in DOMAIN c.batches : c.batches[k].rev <= c.rev
    <3> SUFFICES ASSUME NEW k \in DOMAIN c.batches PROVE c.batches[k].rev <= c.rev
      OBVIOUS
    <3>1. CASE k = n
      <4>1. r.rev \in Nat
        BY <1>0, Typed
      <4> QED
        BY <1>2, <1>3, <3>1, <4>1
    <3>2. CASE k # n
      BY <1>0, <1>2, <1>3, <3>2 DEF Base, CountOK
    <3> QED
      BY <3>1, <3>2
  <2>2. OpsOK(c, done)
    <3>1. OpsOK(r, done)
      BY <1>0 DEF Base
    <3>2. \A k \in DOMAIN r.batches : k \in DOMAIN c.batches /\ c.batches[k] = r.batches[k]
      BY <1>2, <1>3
    <3> QED
      BY ONLY <1>3, <3>1, <3>2 DEF OpsOK
  <2> QED
    BY <1>0, <1>3, <1>6, <2>1, <2>2 DEF Base, CountOK, StopOK
<1>8. OneWriter(c)
  <2> SUFFICES ASSUME NEW k \in DOMAIN c.batches, NEW m \in DOMAIN c.batches, k < m,
                      c.batches[k].item = c.batches[m].item, c.batches[k].rev = c.batches[m].rev
               PROVE  Leaves(c, k) = {}
    BY DEF OneWriter
  <2>1. CASE k = n
    BY <1>4, <1>5, <2>1
  <2>2. CASE k # n /\ m = n
    BY <1>2, <1>3, <1>4, <2>2
  <2>3. CASE k # n /\ m # n
    BY <1>0, <1>2, <1>3, <1>4, <2>3 DEF Base, OneWriter
  <2> QED
    BY <2>1, <2>2, <2>3
<1>9. \A i : Backed(r, done, i) => Backed(c, done, i)
  <2>1. c.rev = r.rev /\ \A k \in DOMAIN r.batches : k \in DOMAIN c.batches /\ c.batches[k] = r.batches[k]
    BY <1>2, <1>3
  <2>2. \A k : Leaves(c, k) = Leaves(r, k) /\ \A f \in Leaves(r, k) : c.ops[f] = r.ops[f]
    BY <1>3, <1>4
  <2> QED
    BY ONLY <2>1, <2>2, BackedKept
<1>10. SatBacked(c, done) /\ Concluded(c)
  BY <1>0, <1>3, <1>9 DEF Base, SatBacked, Concluded, Terminal
<1>11. Decided(c)
  <2> SUFFICES ASSUME NEW k \in DOMAIN c.batches,
                      c.batches[k].rev = c.rev, Leaves(c, k) # {},
                      c.batches[k].status \notin UnsettledBatches,
                      Leaves(c, k) \cap OpenOps(c) = {}
               PROVE  c.items[c.batches[k].item].status \in {"satisfied", "failed"}
    BY DEF Decided
  <2>1. k # n
    BY <1>4, <1>5
  <2> QED
    BY <1>0, <1>2, <1>3, <1>4, <2>1 DEF Decided
<1> QED
  BY <1>2, <1>3, <1>4, <1>6, <1>7, <1>8, <1>10, <1>11 DEF ReqInv, Base, Final

\* Only the newest batch gets operations, and only while it runs.
LEMMA AdmitFacts ==
  ASSUME NEW r, NEW done, ReqInv(r, done), r.status = "open", Len(r.ops) < MaxOps,
         NEW d \in DOMAIN r.batches, d = Len(r.batches), r.batches[d].status = "running",
         NEW op \in Op, op.batch = d, op.item = r.batches[d].item, op.rev = r.batches[d].rev,
         op.status = "running", op.receipt = "none",
         NEW c \in Request, c.ops = Append(r.ops, op),
         c.status = r.status, c.target = r.target, c.rev = r.rev, c.items = r.items,
         c.batches = r.batches, NEW e, e = Len(c.ops)
  PROVE  /\ ReqInv(c, done) /\ Final(r, c) /\ c.status = r.status /\ c.rev = r.rev
         /\ c.batches = r.batches
         /\ DOMAIN c.ops = DOMAIN r.ops \cup {e} /\ e \notin DOMAIN r.ops /\ e = Len(r.ops) + 1
         /\ \A f \in DOMAIN r.ops : c.ops[f] = r.ops[f]
         /\ c.ops[e] = op /\ e \in Ops
         /\ \A k : k # d => Leaves(c, k) = Leaves(r, k)
<1>0. Base(r, done) /\ Decided(r) /\ r \in Request
  BY DEF ReqInv, Base
<1> DEFINE all == Append(r.ops, op)
<1>1. c.ops = all
  OBVIOUS
<1>2. /\ all \in Seq(Op) /\ Len(r.ops) \in Nat /\ Len(all) = Len(r.ops) + 1
      /\ DOMAIN r.ops = 1 .. Len(r.ops)
      /\ DOMAIN all = DOMAIN r.ops \cup {Len(all)} /\ Len(all) \notin DOMAIN r.ops
      /\ all[Len(all)] = op /\ \A k \in DOMAIN r.ops : all[k] = r.ops[k]
  <2>1. r.ops \in Seq(Op)
    BY <1>0 DEF Request
  <2> QED
    BY <2>1, AppendFacts
<1> HIDE DEF all
<1>3. /\ c \in Request /\ c.ops = all /\ e = Len(all)
      /\ c.status = r.status /\ c.target = r.target /\ c.rev = r.rev /\ c.items = r.items
      /\ c.batches = r.batches
  BY <1>0, <1>1, <1>2 DEF Request
<1>4. MaxOps \in Nat /\ e \in Ops /\ Len(c.ops) <= MaxOps
  <2>1. MaxOps \in Nat
    BY RequestAssumption
  <2> QED
    BY <1>2, <1>3, <2>1 DEF Ops
<1>5. /\ \A k : k # d => Leaves(c, k) = Leaves(r, k)
      /\ e \in Leaves(c, d) /\ e \in OpenOps(c)
      /\ \A f \in DOMAIN r.ops : f \in OpenOps(c) <=> f \in OpenOps(r)
  BY <1>2, <1>3 DEF Leaves, OpenOps, UnsettledOps
<1>6. CountOK(c) /\ StopOK(c) /\ Concluded(c)
  BY <1>0, <1>3, <1>4 DEF Base, CountOK, StopOK, Concluded, Terminal
<1>7. OpsOK(c, done)
  <2> SUFFICES ASSUME NEW f \in DOMAIN c.ops
               PROVE  /\ c.ops[f].batch \in DOMAIN r.batches
                      /\ c.ops[f].item = r.batches[c.ops[f].batch].item
                      /\ c.ops[f].rev = r.batches[c.ops[f].batch].rev
                      /\ c.ops[f].receipt = "commit" => f \in done
                      /\ c.ops[f].status = "succeeded" => Rests(c.ops[f], f, done)
    <3>1. done \subseteq DOMAIN c.ops
      BY <1>0, <1>2, <1>3 DEF Base, OpsOK
    <3> QED
      BY <1>3, <3>1 DEF OpsOK
  <2>1. CASE f = e
    BY <1>2, <1>3, <2>1
  <2>2. CASE f # e
    BY <1>0, <1>2, <1>3, <2>2 DEF Base, OpsOK
  <2> QED
    BY <2>1, <2>2
<1>8. OneWriter(c)
  <2> SUFFICES ASSUME NEW k \in DOMAIN c.batches, NEW m \in DOMAIN c.batches, k < m,
                      c.batches[k].item = c.batches[m].item, c.batches[k].rev = c.batches[m].rev
               PROVE  Leaves(c, k) = {}
    BY DEF OneWriter
  <2>1. k # d
    <3>1. m \in 1 .. Len(r.batches) /\ Len(r.batches) \in Nat /\ k \in 1 .. Len(r.batches)
      BY <1>0, <1>3, Typed
    <3> QED
      BY <3>1
  <2>2. Leaves(r, k) = {}
    BY <1>0, <1>3 DEF Base, OneWriter
  <2> QED
    BY <1>5, <2>1, <2>2
<1>9. \A i : Backed(r, done, i) => Backed(c, done, i)
  <2>1. \A k \in DOMAIN r.batches : r.batches[k].status = "completed" =>
          Leaves(c, k) = Leaves(r, k) /\ \A f \in Leaves(r, k) : c.ops[f] = r.ops[f]
    BY <1>2, <1>3, <1>5 DEF Leaves
  <2>2. c.rev = r.rev /\ \A k \in DOMAIN r.batches : k \in DOMAIN c.batches /\ c.batches[k] = r.batches[k]
    BY <1>3
  <2> QED
    BY ONLY <2>1, <2>2, BackedKept
<1>10. SatBacked(c, done)
  BY <1>0, <1>3, <1>9 DEF Base, SatBacked
<1>11. Decided(c)
  <2> SUFFICES ASSUME NEW k \in DOMAIN c.batches,
                      c.batches[k].rev = c.rev, Leaves(c, k) # {},
                      c.batches[k].status \notin UnsettledBatches,
                      Leaves(c, k) \cap OpenOps(c) = {}
               PROVE  c.items[c.batches[k].item].status \in {"satisfied", "failed"}
    BY DEF Decided
  <2>1. k # d
    BY <1>5
  <2>2. Leaves(r, k) # {} /\ Leaves(r, k) \cap OpenOps(r) = {}
    BY <1>5, <2>1 DEF Leaves
  <2> QED
    BY <1>0, <1>3, <2>2 DEF Decided
<1> QED
  BY <1>2, <1>3, <1>4, <1>5, <1>6, <1>7, <1>8, <1>10, <1>11 DEF ReqInv, Base, Final

\* A waiting step starts.
LEMMA StartFacts ==
  ASSUME NEW r, NEW done, ReqInv(r, done), NEW d \in DOMAIN r.batches,
         NEW s \in DOMAIN r.batches[d].steps, r.batches[d].steps[s] = "waiting",
         NEW c, c = [r EXCEPT !.batches[d].steps[s] = "started"]
  PROVE  /\ ReqInv(c, done) /\ Keeps(r, c, {}) /\ Final(r, c) /\ c.ops = r.ops
         /\ c.status = r.status /\ c.rev = r.rev
         /\ c.batches[d].status = r.batches[d].status /\ c.batches[d].steps[s] = "started"
<1> DEFINE old == r.batches[d].steps
           f == [old EXCEPT ![s] = "started"]
           g == [r EXCEPT !.batches[d].steps = f]
<1>0. r \in Request
  BY DEF ReqInv, Base
<1>1. c = g
  OBVIOUS
<1>2. old \in [DOMAIN old -> StepStates]
  BY <1>0, TypedBatch, TypedSteps
<1>3. /\ f \in [DOMAIN old -> StepStates] /\ f[s] = "started"
      /\ \A t \in DOMAIN old : t # s => f[t] = old[t]
  <2>1. s \in DOMAIN old
    OBVIOUS
  <2> HIDE DEF old
  <2> QED
    BY <1>2, <2>1 DEF StepStates
<1>4. /\ BatchMoves(r, g) /\ g.batches[d].steps = f
      /\ \A k \in DOMAIN r.batches : k # d => g.batches[k].steps = r.batches[k].steps
      /\ \A k \in DOMAIN r.batches : g.batches[k].status = r.batches[k].status
  <2> HIDE DEF f
  <2> QED
    BY <1>0, <1>3, NewSteps
<1> HIDE DEF g, f
<1>5. ReqInv(g, done) /\ Final(r, g)
  BY <1>4, MovesDecided, BatchMovesBase DEF ReqInv
<1>6. Steady(r, g, {})
  BY <1>3, <1>4 DEF Steady, BatchMoves
<1> QED
  BY <1>1, <1>3, <1>4, <1>5, <1>6, SteadyKeeps DEF BatchMoves

\* An open operation changes and stays open.
LEMMA OpFacts ==
  ASSUME NEW r, NEW done, ReqInv(r, done), NEW e \in OpenOps(r), NEW op \in Op,
         op.item = r.ops[e].item, op.rev = r.ops[e].rev, op.batch = r.ops[e].batch,
         op.status \in UnsettledOps, HasJob(r.ops[e]) => HasJob(op),
         NEW more, done \subseteq more, more \subseteq DOMAIN r.ops,
         op.receipt = "commit" => e \in more,
         NEW c, c = [r EXCEPT !.ops[e] = op]
  PROVE  /\ ReqInv(c, more) /\ Keeps(r, c, {}) /\ Final(r, c) /\ c.ops[e] = op
         /\ \A f \in DOMAIN r.ops : f # e => c.ops[f] = r.ops[f]
<1>0. Base(r, done) /\ Decided(r) /\ r \in Request
  BY DEF ReqInv, Base
<1>1. OpMoves(r, c, e) /\ c.ops[e] = op
  BY <1>0, NewOp
<1>2. op.status # "succeeded"
  BY DEF UnsettledOps
<1>3. Base(c, more) /\ ~Terminal(r) /\ Steady(r, c, {})
  BY <1>0, <1>1, <1>2, OpMovesBase
<1>4. Decided(c)
  BY <1>0, <1>1, OpMovesDecided
<1> QED
  BY <1>1, <1>3, <1>4, SteadyKeeps DEF ReqInv, Final, OpMoves

\* Work that has been done is known to be done whether or not it was recorded.
LEMMA MoreDone ==
  ASSUME NEW r, NEW done, NEW more, ReqInv(r, done), done \subseteq more, more \subseteq DOMAIN r.ops
  PROVE  ReqInv(r, more)
<1>0. \A op, e : Rests(op, e, done) => Rests(op, e, more)
  BY DEF Rests
<1>1. OpsOK(r, more)
  BY <1>0 DEF ReqInv, Base, OpsOK
<1>2. \A i : Backed(r, done, i) => Backed(r, more, i)
  BY <1>0 DEF Backed
<1>3. SatBacked(r, more)
  BY <1>2 DEF ReqInv, Base, SatBacked
<1> QED
  BY <1>1, <1>3 DEF ReqInv, Base

-----------------------------------------------------------------------------
(* What holds of the process between two steps. *)

\* The rest of TypeOK, but for the number of leases.
ProcessOK ==
  /\ leases \subseteq [batch : {0} \cup Batches, rev : Nat, epoch : Nat, ready : SUBSET Items]
  /\ tools \in [Batches -> [at : Places, op : {0} \cup Ops, step : Nat, ok : BOOLEAN]]
  /\ interrupted \subseteq Batches /\ owner \in {0} \cup Ops
  /\ receipts \subseteq [batch : Batches, step : Nat, ok : BOOLEAN]
  /\ jobs \in [Ops -> {"none", "queued", "running", "cancelling"} \cup Ended]
  /\ heard \subseteq Ops /\ bound \subseteq Ops /\ unsaved \subseteq bound
  /\ notice \in BOOLEAN /\ faults \in Nat /\ crashes \in Nat

\* The lease belongs to the newest batch, or to items that no batch of its revision
\* has written.
Leased(l) ==
  /\ l.batch # 0 => l.batch = Len(req.batches) /\ req.batches[l.batch].rev = l.rev
  /\ l.batch = 0 => \A i \in l.ready \ Answers : \A d \in DOMAIN req.batches :
       req.batches[d].item = i /\ req.batches[d].rev = l.rev => Leaves(req, d) = {}

LeaseOK == \A l \in leases : Leased(l) /\ \A m \in leases : l = m

Active == Working \cup {"started", "closing"}

\* The worker of a batch has started the step it is in, and no kept receipt is about
\* that step; while its request is current, its batch runs.
StepOf(d) ==
  /\ tools[d].at # "over" => d \in DOMAIN req.batches
  /\ tools[d].at \in Active =>
       /\ tools[d].step \in DOMAIN req.batches[d].steps
       /\ req.batches[d].steps[tools[d].step] = "started"
       /\ \A x \in receipts : x.batch = d => x.step # tools[d].step
       /\ req.status = "open" /\ req.batches[d].rev = req.rev => req.batches[d].status = "running"

StepOK == \A d \in Batches : StepOf(d)

\* The operation of a worker is one of its batch and holds the resource; until the router
\* knows its job nobody but the worker settles it.
WorkerOf(d) ==
  tools[d].at \in Working =>
    /\ tools[d].op \in DOMAIN req.ops /\ req.ops[tools[d].op].batch = d
    /\ tools[d].at \in {"running", "committed", "refused", "submitted"} =>
         req.ops[tools[d].op].status = "running" /\ owner = tools[d].op /\ ~HasJob(req.ops[tools[d].op])
    /\ tools[d].at = "associated" => req.ops[tools[d].op].status = "bound" /\ HasJob(req.ops[tools[d].op])
    /\ tools[d].at \in {"running", "committed"} => jobs[tools[d].op] = "none"
    /\ tools[d].at = "refused" => jobs[tools[d].op] \in {"none", "failed"}
    /\ tools[d].at \in {"submitted", "associated", "bound"} => jobs[tools[d].op] \in {"queued", "failed"}
    /\ tools[d].at # "bound" => tools[d].op \notin bound

ToolOK == \A d \in Batches : WorkerOf(d)

Living == {"queued", "running", "cancelling"}

\* A job that lives works for an open operation, which holds the resource.
JobOf(e) ==
  /\ jobs[e] # "none" => e \in DOMAIN req.ops
  /\ jobs[e] \in Living => req.ops[e].status \in {"bound", "running"} /\ owner = e
  /\ e \in unsaved => jobs[e] \in Ended

JobOK ==
  /\ bound \subseteq DOMAIN req.ops /\ \A e \in bound : HasJob(req.ops[e])
  /\ \A x \in receipts : x.batch \in DOMAIN req.batches
  /\ \A e \in Ops : JobOf(e)

IInv == ReqInv(req, applied) /\ ProcessOK /\ LeaseOK /\ StepOK /\ ToolOK /\ JobOK

\* The same lease, of an older revision or not, survives every change of the request.
LEMMA LeaseKept ==
  ASSUME LeaseOK, req \in Request, NEW X, Keeps(req, req', X), leases' \in SUBSET leases,
         \A l \in leases : l.batch \in Nat
  PROVE  LeaseOK'
<1> SUFFICES ASSUME NEW l \in leases' PROVE Leased(l)' /\ \A m \in leases' : l = m
  BY DEF LeaseOK
<1>1. Leased(l) /\ \A m \in leases : l = m
  BY DEF LeaseOK
<1>2. l.batch # 0 => l.batch = Len(req'.batches) /\ req'.batches[l.batch].rev = l.rev
  <2> SUFFICES ASSUME l.batch # 0
               PROVE  l.batch = Len(req'.batches) /\ req'.batches[l.batch].rev = l.rev
    OBVIOUS
  <2>1. l.batch \in DOMAIN req.batches
    BY <1>1, Typed DEF Leased
  <2> QED
    BY <1>1, <2>1 DEF Leased, Keeps
<1>3. l.batch = 0 => \A i \in l.ready \ Answers : \A d \in DOMAIN req'.batches :
        req'.batches[d].item = i /\ req'.batches[d].rev = l.rev => Leaves(req', d) = {}
  BY <1>1 DEF Leased, Keeps
<1> QED
  BY <1>1, <1>2, <1>3 DEF Leased

\* A worker stays in the step it is in, whatever else is saved.
LEMMA StepKept ==
  ASSUME NEW d \in Batches, StepOf(d), NEW X, Keeps(req, req', X),
         tools'[d].at # "over" => tools[d].at # "over",
         tools'[d].at \in Active =>
           /\ tools[d].at \in Active /\ tools'[d].step = tools[d].step
           /\ <<d, tools[d].step>> \notin X
           /\ \A x \in receipts' : x \in receipts \/ x.batch # d \/ x.step # tools[d].step
  PROVE  StepOf(d)'
<1>1. tools'[d].at # "over" => d \in DOMAIN req'.batches
  BY DEF StepOf, Keeps
<1>2. ASSUME tools'[d].at \in Active
      PROVE  /\ tools'[d].step \in DOMAIN req'.batches[d].steps
             /\ req'.batches[d].steps[tools'[d].step] = "started"
             /\ \A x \in receipts' : x.batch = d => x.step # tools'[d].step
             /\ req'.status = "open" /\ req'.batches[d].rev = req'.rev => req'.batches[d].status = "running"
  <2>1. /\ tools[d].at # "over" /\ d \in DOMAIN req.batches
        /\ tools[d].step \in DOMAIN req.batches[d].steps
        /\ req.batches[d].steps[tools[d].step] = "started"
        /\ \A x \in receipts : x.batch = d => x.step # tools[d].step
        /\ req.status = "open" /\ req.batches[d].rev = req.rev => req.batches[d].status = "running"
    BY <1>2 DEF StepOf, Active, Working
  <2> QED
    BY <1>2, <2>1 DEF Keeps
<1> QED
  BY <1>1, <1>2 DEF StepOf

\* A worker's operation stays as it is while others work, until the router knows its job.
LEMMA WorkerKept ==
  ASSUME NEW d \in Batches, WorkerOf(d), tools'[d].at = tools[d].at, tools'[d].op = tools[d].op,
         tools[d].at \in Working =>
           /\ tools[d].op \in DOMAIN req'.ops
           /\ req'.ops[tools[d].op].batch = req.ops[tools[d].op].batch
           /\ tools[d].at # "bound" => /\ req'.ops[tools[d].op].status = req.ops[tools[d].op].status
                                       /\ HasJob(req'.ops[tools[d].op]) <=> HasJob(req.ops[tools[d].op])
                                       /\ owner' = owner
                                       /\ tools[d].op \in bound' => tools[d].op \in bound
           /\ \/ jobs'[tools[d].op] = jobs[tools[d].op]
              \/ jobs[tools[d].op] = "queued" /\ jobs'[tools[d].op] = "failed"
  PROVE  WorkerOf(d)'
BY DEF WorkerOf, Working

\* No two workers have the same operation.
LEMMA OneWorker ==
  ASSUME ToolOK, NEW c \in Batches, NEW d \in Batches, tools[c].at \in Working,
         tools[d].at \in Working, tools[c].op = tools[d].op
  PROVE  c = d
BY DEF ToolOK, WorkerOf

\* An operation of which a job lives, or which the router knows, is no longer its worker's.
LEMMA JobKept ==
  ASSUME NEW e \in Ops, JobOf(e),
         e \in DOMAIN req.ops => e \in DOMAIN req'.ops,
         jobs'[e] # "none" => jobs[e] # "none",
         jobs'[e] \in Living => /\ jobs[e] \in Living /\ owner' = owner
                                /\ req'.ops[e].status = req.ops[e].status,
         e \in unsaved' => (e \in unsaved \/ jobs[e] \in Ended)
                            /\ (jobs[e] \in Ended => jobs'[e] \in Ended)
  PROVE  JobOf(e)'
BY DEF JobOf

LEMMA InvTypeOK ==
  ASSUME IInv
  PROVE  TypeOK
<1>1. req \in Request /\ applied \subseteq DOMAIN req.ops /\ Len(req.ops) <= MaxOps
  BY DEF IInv, ReqInv, Base, OpsOK, CountOK
<1>2. applied \subseteq Ops
  <2>1. DOMAIN req.ops = 1 .. Len(req.ops) /\ Len(req.ops) \in Nat
    BY <1>1, Typed
  <2>2. MaxOps \in Nat
    BY RequestAssumption
  <2>3. 1 .. Len(req.ops) \subseteq 1 .. MaxOps
    BY <1>1, <2>1, <2>2
  <2> QED
    BY <1>1, <2>1, <2>3 DEF Ops
<1>3. Cardinality(leases) <= 1
  <2>1. \A l, m \in leases : l = m
    BY DEF IInv, LeaseOK
  <2>2. CASE leases = {}
    BY <2>2, FS_EmptySet
  <2>3. CASE leases # {}
    <3>1. PICK l : leases = {l}
      BY <2>1, <2>3
    <3> QED
      BY <3>1, FS_Singleton
  <2> QED
    BY <2>2, <2>3
<1>4. unsaved \subseteq bound
  BY DEF IInv, ProcessOK
<1> QED
  BY <1>1, <1>2, <1>3, <1>4 DEF IInv, ProcessOK, TypeOK, Request

LEMMA InitInv == Init => IInv
<1> SUFFICES ASSUME Init PROVE IInv
  OBVIOUS
<1>1. /\ req.status = "open" /\ req.target = "none" /\ req.rev = 1 /\ req.epoch = 0
      /\ req.ops = <<>> /\ req.batches = <<>>
      /\ \A i \in Items : req.items[i].status = "pending"
  BY DEF Init, Untouched
<1>2. req \in Request
  <2>1. [i \in Items |-> Untouched] \in [Items -> Item]
    BY DEF Untouched, Item
  <2>2. <<>> \in Seq(Op) /\ <<>> \in Seq(Batch)
    BY EmptySeq
  <2> QED
    BY <2>1, <2>2 DEF Init, Request
<1>3. Len(req.ops) = 0 /\ Len(req.batches) = 0 /\ DOMAIN req.ops = {} /\ DOMAIN req.batches = {}
  BY <1>1, <1>2, Typed, EmptySeq
<1>4. ReqInv(req, applied)
  <2>1. applied = {}
    BY DEF Init
  <2>2. MaxOps \in Nat /\ MaxBatches \in Nat
    BY RequestAssumption
  <2> QED
    BY <1>1, <1>2, <1>3, <2>1, <2>2
    DEF ReqInv, Base, StopOK, CountOK, OpsOK, OneWriter, SatBacked, Concluded, Decided, Terminal
<1>5. ProcessOK
  BY DEF Init, ProcessOK, Absent, Places
<1>6. LeaseOK /\ StepOK /\ ToolOK
  BY DEF Init, LeaseOK, StepOK, StepOf, ToolOK, WorkerOf, Absent, Active, Working
<1>7. JobOK
  BY <1>3 DEF Init, JobOK, JobOf, Living
<1> QED
  BY <1>4, <1>5, <1>6, <1>7 DEF IInv

-----------------------------------------------------------------------------
(* Turns and commands. *)

Worker == [at : Places, op : {0} \cup Ops, step : Nat, ok : BOOLEAN]

LEMMA Facts ==
  ASSUME IInv
  PROVE  /\ req \in Request /\ ReqInv(req, applied)
         /\ \A d \in DOMAIN req.batches : d \in Batches /\ req.batches[d] \in Batch
         /\ \A e \in DOMAIN req.ops : e \in Ops /\ req.ops[e] \in Op
         /\ applied \subseteq DOMAIN req.ops
         /\ bound \subseteq DOMAIN req.ops /\ \A e \in bound : HasJob(req.ops[e])
         /\ \A l \in leases : l.batch \in Nat
         /\ \A d \in Batches : tools[d] \in Worker /\ StepOf(d) /\ WorkerOf(d)
         /\ \A e \in Ops : JobOf(e)
         /\ 0 \notin Ops /\ 0 \notin DOMAIN req.batches /\ 0 \notin Batches
<1>1. /\ req \in Request /\ ReqInv(req, applied) /\ applied \subseteq DOMAIN req.ops
      /\ Len(req.ops) <= MaxOps /\ Len(req.batches) <= MaxBatches
  BY DEF IInv, ReqInv, Base, OpsOK, CountOK
<1>2. /\ DOMAIN req.ops = 1 .. Len(req.ops) /\ Len(req.ops) \in Nat
      /\ DOMAIN req.batches = 1 .. Len(req.batches) /\ Len(req.batches) \in Nat
      /\ MaxOps \in Nat /\ MaxBatches \in Nat
  BY <1>1, Typed, RequestAssumption
<1>3. /\ \A d \in DOMAIN req.batches : d \in Batches
      /\ \A e \in DOMAIN req.ops : e \in Ops
      /\ 0 \notin Ops /\ 0 \notin DOMAIN req.batches /\ 0 \notin Batches
  BY <1>1, <1>2 DEF Ops, Batches
<1>4. /\ \A d \in DOMAIN req.batches : req.batches[d] \in Batch
      /\ \A e \in DOMAIN req.ops : req.ops[e] \in Op
  BY <1>1, TypedBatch, TypedLeaf
<1>5. \A l \in leases : l.batch \in Nat
  <2>1. \A l \in leases : l.batch \in {0} \cup Batches
    BY DEF IInv, ProcessOK
  <2> QED
    BY <2>1 DEF Batches
<1>6. \A d \in Batches : tools[d] \in Worker /\ StepOf(d) /\ WorkerOf(d)
  BY DEF IInv, ProcessOK, Worker, StepOK, ToolOK
<1>7. bound \subseteq DOMAIN req.ops /\ (\A e \in bound : HasJob(req.ops[e])) /\ \A e \in Ops : JobOf(e)
  BY DEF IInv, JobOK
<1> QED
  BY <1>1, <1>3, <1>4, <1>5, <1>6, <1>7

LEMMA SameRequest ==
  ASSUME IInv, req' = req, applied' = applied
  PROVE  ReqInv(req, applied)' /\ Keeps(req, req', {}) /\ Final(req, req')
<1>1. ReqInv(req, applied)
  BY DEF IInv
<1> QED
  BY <1>1, KeepsSame

\* A command, an answer or an attested batch touches only the request.
LEMMA RequestStep ==
  ASSUME IInv, ReqInv(req, applied)', Keeps(req, req', {}), req'.ops = req.ops,
         leases' \in SUBSET leases, UNCHANGED <<tools, interrupted, owner, receipts>>,
         interrupted' \subseteq Batches, UNCHANGED runtime, UNCHANGED applied,
         notice' \in BOOLEAN, faults' \in Nat, crashes' \in Nat
  PROVE  IInv'
<1>1. ProcessOK'
  BY DEF IInv, ProcessOK, runtime
<1>2. LeaseOK'
  BY Facts, LeaseKept DEF IInv
<1>3. StepOK'
  <2> SUFFICES ASSUME NEW d \in Batches PROVE StepOf(d)'
    BY DEF StepOK
  <2>1. StepOf(d)
    BY Facts
  <2> QED
    BY <2>1, StepKept
<1>4. ToolOK'
  <2> SUFFICES ASSUME NEW d \in Batches PROVE WorkerOf(d)'
    BY DEF ToolOK
  <2>1. WorkerOf(d)
    BY Facts
  <2> QED
    BY <2>1, WorkerKept DEF runtime, WorkerOf
<1>5. JobOK'
  <2>1. /\ bound' \subseteq DOMAIN req'.ops /\ \A e \in bound' : HasJob(req'.ops[e])
        /\ \A x \in receipts' : x.batch \in DOMAIN req'.batches
    BY DEF IInv, JobOK, Keeps, runtime
  <2>2. ASSUME NEW e \in Ops PROVE JobOf(e)'
    <3>1. JobOf(e)
      BY Facts
    <3> QED
      BY <3>1, JobKept DEF runtime, JobOf
  <2> QED
    BY <2>1, <2>2 DEF JobOK
<1> QED
  BY <1>1, <1>2, <1>3, <1>4, <1>5 DEF IInv

LEMMA AnswerInv ==
  ASSUME IInv, Answer
  PROVE  IInv' /\ Final(req, req')
<1>1. PICK i \in Answers : req' = Satisfy(req, {i})
  BY DEF Answer, Save
<1>2. ReqInv(req', applied) /\ Keeps(req, req', {}) /\ Final(req, req') /\ req'.ops = req.ops
  BY <1>1, Facts, AnswerFacts
<1>3. /\ UNCHANGED <<worker, runtime, notice, ghosts, faults>>
  BY DEF Answer, Save
<1>4. notice' \in BOOLEAN /\ faults' \in Nat /\ crashes' \in Nat
  BY <1>3 DEF IInv, ProcessOK, ghosts
<1> QED
  BY <1>2, <1>3, <1>4, RequestStep DEF worker, ghosts, IInv, ProcessOK

LEMMA EndTurnInv ==
  ASSUME IInv, EndTurn \/ Handoff
  PROVE  IInv' /\ Final(req, req')
<1>1. /\ leases' = {} /\ UNCHANGED <<req, tools, owner, receipts, runtime, notice, ghosts, faults>>
      /\ interrupted' \subseteq Batches
  <2>1. \A l \in leases : l.batch \in {0} \cup Batches
    BY DEF IInv, ProcessOK
  <2> QED
    BY <2>1 DEF EndTurn, Handoff, IInv, ProcessOK
<1>2. ReqInv(req, applied)' /\ Keeps(req, req', {}) /\ Final(req, req')
  BY <1>1, SameRequest DEF ghosts
<1>3. ProcessOK'
  BY <1>1 DEF IInv, ProcessOK, runtime, ghosts
<1>4. LeaseOK'
  BY <1>1 DEF LeaseOK
<1>5. StepOK'
  BY <1>1 DEF IInv, StepOK, StepOf
<1>6. ToolOK'
  BY <1>1 DEF IInv, ToolOK, WorkerOf, runtime, ghosts
<1>7. JobOK'
  BY <1>1 DEF IInv, JobOK, JobOf, runtime
<1> QED
  BY <1>2, <1>3, <1>4, <1>5, <1>6, <1>7 DEF IInv

\* An item that a turn may work on has not been written in its revision.
LEMMA ReadyUnwritten ==
  ASSUME ReqInv(req, applied), NEW i \in Ready(req), NEW d \in DOMAIN req.batches,
         req.batches[d].item = i, req.batches[d].rev = req.rev
  PROVE  Leaves(req, d) = {}
<1> SUFFICES ASSUME Leaves(req, d) # {} PROVE FALSE
  OBVIOUS
<1>1. /\ req.status = "open" /\ i \in Items /\ i \notin Busy(req)
      /\ req.items[i].status \in {"pending", "waiting"}
  BY DEF Ready, Having
<1>2. req.batches[d].status \notin UnsettledBatches
  BY <1>1 DEF Busy
<1>3. Leaves(req, d) \cap OpenOps(req) = {}
  <2> SUFFICES ASSUME NEW e \in Leaves(req, d), e \in OpenOps(req) PROVE FALSE
    OBVIOUS
  <2>1. req.ops[e].item = i
    BY DEF ReqInv, Base, OpsOK, Leaves
  <2> QED
    BY <1>1, <2>1 DEF Busy
<1> QED
  BY <1>1, <1>2, <1>3 DEF ReqInv, Decided

LEMMA TakeTurnInv ==
  ASSUME IInv, TakeTurn
  PROVE  IInv' /\ Final(req, req')
<1>1. UNCHANGED <<req, tools, interrupted, owner, receipts, runtime, notice, ghosts, faults>>
  BY DEF TakeTurn
<1>2. PICK ready \in SUBSET Ready(req) :
        leases' = {[batch |-> 0, rev |-> req.rev, epoch |-> req.epoch, ready |-> ready]}
  <2>1. PICK work \in SUBSET (Ready(req) \ Answers) :
          leases' = {[batch |-> 0, rev |-> req.rev, epoch |-> req.epoch,
                      ready |-> (Ready(req) \cap Answers) \cup work]}
    BY DEF TakeTurn
  <2>2. (Ready(req) \cap Answers) \cup work \in SUBSET Ready(req)
    OBVIOUS
  <2> QED
    BY <2>1, <2>2
<1>3. ready \subseteq Items
  BY <1>2 DEF Ready, Having
<1>4. ReqInv(req, applied)' /\ Keeps(req, req', {}) /\ Final(req, req')
  BY <1>1, SameRequest DEF ghosts
<1>5. ProcessOK'
  <2>1. req.rev \in Nat /\ req.epoch \in Nat
    BY Facts, Typed
  <2> QED
    BY <1>1, <1>2, <1>3, <2>1 DEF IInv, ProcessOK, runtime, ghosts
<1>6. LeaseOK'
  <2> SUFFICES ASSUME NEW l \in leases' PROVE Leased(l)' /\ \A m \in leases' : l = m
    BY DEF LeaseOK
  <2>1. l.batch = 0 /\ l.rev = req.rev /\ l.ready \in SUBSET Ready(req) /\ \A m \in leases' : l = m
    BY <1>2
  <2>2. \A i \in l.ready \ Answers : \A d \in DOMAIN req.batches :
          req.batches[d].item = i /\ req.batches[d].rev = l.rev => Leaves(req, d) = {}
    BY <2>1, Facts, ReadyUnwritten
  <2> QED
    BY <1>1, <2>1, <2>2 DEF Leased
<1>7. StepOK'
  BY <1>1 DEF IInv, StepOK, StepOf
<1>8. ToolOK'
  BY <1>1 DEF IInv, ToolOK, WorkerOf, runtime, ghosts
<1>9. JobOK'
  BY <1>1 DEF IInv, JobOK, JobOf, runtime
<1> QED
  BY <1>4, <1>5, <1>6, <1>7, <1>8, <1>9 DEF IInv

LEMMA CommandInv ==
  ASSUME IInv, Pause \/ Resume \/ Cancel \/ Amend
  PROVE  IInv' /\ Final(req, req')
<1>1. req.status = "open" /\ notice' = TRUE /\ UNCHANGED <<worker, runtime, ghosts, faults>>
  BY DEF Pause, Resume, Cancel, Amend, Command, Save
<1>2. ReqInv(req, applied)
  BY Facts
<1>3. ReqInv(req', applied) /\ Keeps(req, req', {}) /\ Final(req, req') /\ req'.ops = req.ops
  <2>1. CASE Pause
    BY <1>2, <2>1, PauseFacts DEF Pause, Command, Save
  <2>2. CASE Resume
    BY <1>1, <1>2, <2>2, ResumeFacts DEF Resume, Command, Save
  <2>3. CASE Cancel
    <3>1. PICK target \in Targets :
            req' = Converge(WithdrawBatches([req EXCEPT !.status = "stopping", !.target = target]))
      BY <2>3 DEF Cancel, Command, Save
    <3> QED
      BY <1>1, <1>2, <3>1, CancelFacts
  <2>4. CASE Amend
    BY <1>1, <1>2, <2>4, AmendFacts DEF Amend, Command, Save
  <2> QED
    BY <2>1, <2>2, <2>3, <2>4
<1>4. notice' \in BOOLEAN /\ faults' \in Nat /\ crashes' \in Nat
  BY <1>1 DEF IInv, ProcessOK, ghosts
<1> QED
  BY <1>1, <1>3, <1>4, RequestStep DEF worker, ghosts, IInv, ProcessOK

LEMMA SettleBatchInv ==
  ASSUME IInv, NEW d \in DOMAIN req.batches, NEW outcome \in Ended, SettleBatch(d, outcome)
  PROVE  IInv' /\ Final(req, req')
<1>1. /\ req.batches[d].status = "unknown"
      /\ req' = ReconcileBatches([req EXCEPT !.batches[d].status = outcome])
      /\ notice' = TRUE /\ UNCHANGED <<worker, runtime, ghosts, faults>>
  BY DEF SettleBatch, Save
<1>2. ReqInv(req', applied) /\ Keeps(req, req', {}) /\ Final(req, req') /\ req'.ops = req.ops
  BY <1>1, Facts, SettleBatchFacts
<1>3. notice' \in BOOLEAN /\ faults' \in Nat /\ crashes' \in Nat
  BY <1>1 DEF IInv, ProcessOK, ghosts
<1> QED
  BY <1>1, <1>2, <1>3, RequestStep DEF worker, ghosts, IInv, ProcessOK

-----------------------------------------------------------------------------
(* The worker of an operation. *)

\* The worker of d moves to another place of the same step.
Moves(d, at) ==
  /\ tools' \in [Batches -> Worker] /\ tools'[d].at = at
  /\ tools'[d].op = tools[d].op /\ tools'[d].step = tools[d].step
  /\ \A c \in Batches : c # d => tools'[c] = tools[c]

LEMMA GoToMoves ==
  ASSUME ProcessOK, NEW d \in Batches, NEW at \in Places, GoTo(d, at)
  PROVE  Moves(d, at)
<1>1. tools \in [Batches -> Worker]
  BY DEF ProcessOK, Worker
<1>2. PICK v \in Worker : v = tools[d]
  BY <1>1
<1>3. PICK w : w = [v EXCEPT !.at = at]
  OBVIOUS
<1>4. w \in Worker /\ w.at = at /\ w.op = v.op /\ w.step = v.step
  BY <1>3 DEF Worker
<1>5. tools' = [tools EXCEPT ![d] = w]
  BY <1>1, <1>2, <1>3 DEF GoTo
<1> QED
  BY ONLY <1>1, <1>2, <1>4, <1>5, d \in Batches DEF Moves

LEMMA CloseMoves ==
  ASSUME ProcessOK, NEW d \in Batches, NEW ok \in BOOLEAN, Close(d, ok)
  PROVE  Moves(d, "closing")
<1>1. tools \in [Batches -> Worker]
  BY DEF ProcessOK, Worker
<1>2. PICK v \in Worker : v = tools[d]
  BY <1>1
<1>3. tools' = [tools EXCEPT ![d] = [[v EXCEPT !.at = "closing"] EXCEPT !.ok = ok]]
  BY <1>1, <1>2 DEF Close
<1>4. PICK w : w = [[v EXCEPT !.at = "closing"] EXCEPT !.ok = ok]
  OBVIOUS
<1>5. w \in Worker /\ w.at = "closing" /\ w.op = v.op /\ w.step = v.step
  BY <1>4 DEF Worker, Places
<1>6. tools' = [tools EXCEPT ![d] = w]
  BY <1>3, <1>4
<1> QED
  BY ONLY <1>1, <1>2, <1>5, <1>6, d \in Batches DEF Moves

\* A worker that moves with its own operation disturbs no other worker and no other job.
LEMMA WorkerStep ==
  ASSUME IInv, NEW d \in Batches, tools[d].at \in Working, NEW e, e = tools[d].op,
         ReqInv(req, applied)', Keeps(req, req', {}),
         \A f \in DOMAIN req.ops : f # e => req'.ops[f] = req.ops[f],
         UNCHANGED <<leases, interrupted, receipts, heard, unsaved, notice, crashes>>,
         NEW at \in Active, Moves(d, at),
         owner' \in {owner, IF owner = e THEN 0 ELSE owner},
         jobs' \in [Ops -> {"none", "queued", "running", "cancelling"} \cup Ended],
         \A f \in Ops : f # e => jobs'[f] = jobs[f],
         bound' \in {bound, bound \cup {e}}, e \in bound' => e \in bound \/ HasJob(req.ops[e]), applied \subseteq applied', faults' \in Nat,
         WorkerOf(d)', JobOf(e)'
  PROVE  IInv'
<1>1. e \in Ops /\ e \in DOMAIN req.ops
  BY Facts DEF WorkerOf
<1>2. ProcessOK'
  BY <1>1 DEF IInv, ProcessOK, Moves, Worker
<1>3. LeaseOK'
  BY Facts, LeaseKept DEF IInv
<1>4. StepOK'
  <2> SUFFICES ASSUME NEW c \in Batches PROVE StepOf(c)'
    BY DEF StepOK
  <2>1. StepOf(c)
    BY Facts
  <2>2. CASE c = d
    BY <2>1, <2>2, StepKept DEF Moves, Active, Working
  <2>3. CASE c # d
    BY <2>1, <2>3, StepKept DEF Moves
  <2> QED
    BY <2>2, <2>3
<1>5. ToolOK'
  <2> SUFFICES ASSUME NEW c \in Batches, c # d PROVE WorkerOf(c)'
    BY DEF ToolOK
  <2>1. WorkerOf(c) /\ tools'[c] = tools[c]
    BY Facts DEF Moves
  <2>2. tools[c].at \in Working =>
          /\ tools[c].op # e /\ tools[c].op \in DOMAIN req.ops /\ tools[c].op \in Ops
    BY <2>1, Facts, OneWorker DEF IInv, WorkerOf
  <2>3. ASSUME tools[c].at \in Working
        PROVE  /\ tools[c].op \in DOMAIN req'.ops
               /\ req'.ops[tools[c].op] = req.ops[tools[c].op]
               /\ tools[c].op \in bound' => tools[c].op \in bound
               /\ jobs'[tools[c].op] = jobs[tools[c].op]
    BY <2>2, <2>3 DEF Keeps
  <2>4. tools[c].at \in Working /\ tools[c].at \in {"running", "committed", "refused", "submitted"} =>
          owner' = owner
    BY <2>1, <2>2 DEF WorkerOf
  <2> QED
    BY <2>1, <2>3, <2>4 DEF WorkerOf
<1>6. JobOK'
  <2>1. /\ bound' \subseteq DOMAIN req'.ops /\ \A f \in bound' : HasJob(req'.ops[f])
        /\ \A x \in receipts' : x.batch \in DOMAIN req'.batches
    BY <1>1 DEF IInv, JobOK, Keeps
  <2>2. ASSUME NEW f \in Ops, f # e PROVE JobOf(f)'
    <3>1. JobOf(f) /\ jobs'[f] = jobs[f]
      BY <2>2, Facts
    <3>2. f \in DOMAIN req.ops => f \in DOMAIN req'.ops /\ req'.ops[f] = req.ops[f]
      BY <2>2 DEF Keeps
    <3>3. jobs[f] \in Living => owner' = owner
      BY <2>2, <3>1 DEF JobOf
    <3> QED
      BY <3>1, <3>2, <3>3 DEF JobOf, Living
  <2> QED
    BY <2>1, <2>2 DEF JobOK
<1> QED
  BY <1>2, <1>3, <1>4, <1>5, <1>6 DEF IInv

LEMMA WorkerFacts ==
  ASSUME IInv, NEW d \in Batches, tools[d].at \in Working, NEW e, e = tools[d].op
  PROVE  /\ e \in DOMAIN req.ops /\ e \in Ops /\ req.ops[e] \in Op /\ req.ops[e].batch = d
         /\ d \in DOMAIN req.batches /\ WorkerOf(d) /\ JobOf(e) /\ ReqInv(req, applied)
         /\ req.status = "open" /\ req.batches[d].rev = req.rev => req.batches[d].status = "running"
<1>1. StepOf(d) /\ tools[d].at \in Active /\ tools[d].at # "over"
  BY Facts DEF Active, Working
<1> QED
  BY <1>1, Facts DEF WorkerOf, StepOf

LEMMA CommitInv ==
  ASSUME IInv, NEW d \in Batches, Commit(d)
  PROVE  IInv' /\ Final(req, req')
<1>0. PICK e : e = tools[d].op
  OBVIOUS
<1>1. /\ tools[d].at = "running" /\ tools[d].at \in Working /\ MayWrite(e)
      /\ applied' = applied \cup {e}
      /\ UNCHANGED <<leases, interrupted, owner, receipts, runtime, notice, crashes>>
  BY <1>0 DEF Commit, Working
<1>2. /\ e \in DOMAIN req.ops /\ e \in Ops /\ req.ops[e] \in Op /\ WorkerOf(d) /\ JobOf(e)
      /\ ReqInv(req, applied)
  BY <1>0, <1>1, WorkerFacts
<1>3. /\ req.ops[e].status = "running" /\ owner = e /\ jobs[e] = "none" /\ e \notin bound
      /\ e \in OpenOps(req) /\ ~HasJob(req.ops[e])
  BY <1>0, <1>1, <1>2 DEF WorkerOf, OpenOps, UnsettledOps
<1>4. applied \cup {e} \subseteq DOMAIN req.ops
  BY <1>2, Facts
<1>5. /\ ReqInv(req', applied') /\ Keeps(req, req', {}) /\ Final(req, req')
      /\ req'.ops[e].status = "running" /\ req'.ops[e].batch = req.ops[e].batch /\ ~HasJob(req'.ops[e])
      /\ e \in DOMAIN req'.ops
      /\ \A f \in DOMAIN req.ops : f # e => req'.ops[f] = req.ops[f]
      /\ faults' \in Nat /\ \E at \in {"committed", "refused"} : Moves(d, at)
  <2>1. CASE Save([req EXCEPT !.ops[tools[d].op].receipt = "commit"]) /\ GoTo(d, "committed")
    <3>1. PICK op : op = [req.ops[e] EXCEPT !.receipt = "commit"]
      OBVIOUS
    <3>2. /\ op \in Op /\ op.item = req.ops[e].item /\ op.rev = req.ops[e].rev
          /\ op.batch = req.ops[e].batch /\ op.status = "running" /\ ~HasJob(op)
      BY <1>2, <1>3, <3>1 DEF Op, HasJob
    <3>3. req' = [req EXCEPT !.ops[e] = op] /\ faults' = faults
      BY <1>0, <2>1, <3>1 DEF Save
    <3>4. /\ ReqInv(req', applied \cup {e}) /\ Keeps(req, req', {}) /\ Final(req, req')
          /\ req'.ops[e] = op /\ \A f \in DOMAIN req.ops : f # e => req'.ops[f] = req.ops[f]
      <4>1. PICK more : more = applied \cup {e}
        OBVIOUS
      <4>2. /\ op.status \in UnsettledOps /\ (HasJob(req.ops[e]) => HasJob(op))
            /\ applied \subseteq more /\ more \subseteq DOMAIN req.ops
            /\ (op.receipt = "commit" => e \in more)
        BY <1>3, <1>4, <3>2, <4>1 DEF UnsettledOps
      <4>3. /\ ReqInv(req', more) /\ Keeps(req, req', {}) /\ Final(req, req')
            /\ req'.ops[e] = op /\ \A f \in DOMAIN req.ops : f # e => req'.ops[f] = req.ops[f]
        BY ONLY <1>2, <1>3, <3>2, <3>3, <4>2, OpFacts
      <4> QED
        BY <4>1, <4>3
    <3>5. Moves(d, "committed")
      BY <2>1, GoToMoves DEF IInv, Places, Working
    <3> QED
      BY <1>1, <1>2, <3>2, <3>3, <3>4, <3>5 DEF IInv, ProcessOK, Keeps
  <2>2. CASE SaveFails /\ GoTo(d, "refused")
    <3>1. req' = req /\ faults' = faults + 1
      BY <2>2 DEF SaveFails
    <3>2. Moves(d, "refused")
      BY <2>2, GoToMoves DEF IInv, Places, Working
    <3>3. ReqInv(req, applied \cup {e})
      BY <1>2, <1>4, MoreDone
    <3>4. faults' \in Nat
      BY <3>1 DEF IInv, ProcessOK
    <3> QED
      BY <1>1, <1>2, <1>3, <3>1, <3>2, <3>3, <3>4, KeepsSame
  <2> QED
    BY <2>1, <2>2 DEF Commit
<1>6. PICK at \in {"committed", "refused"} : Moves(d, at)
  BY <1>5
<1>7. WorkerOf(d)'
  BY <1>0, <1>1, <1>2, <1>3, <1>5, <1>6 DEF Moves, WorkerOf, runtime
<1>8. JobOf(e)'
  BY <1>1, <1>2, <1>3, <1>5 DEF JobOf, runtime, Living
<1>9. at \in Active /\ jobs' \in [Ops -> {"none", "queued", "running", "cancelling"} \cup Ended]
  BY <1>1 DEF Active, Working, IInv, ProcessOK, runtime
<1> QED
  BY <1>0, <1>1, <1>5, <1>6, <1>7, <1>8, <1>9, WorkerStep DEF runtime

\* The report of a tool is evidence for its operation.
LEMMA ReportFacts ==
  ASSUME NEW r, NEW done, ReqInv(r, done), NEW e \in DOMAIN r.ops, r.ops[e].status = "running",
         ~HasJob(r.ops[e]), NEW c, c = [r EXCEPT !.ops[e].receipt = "report"]
  PROVE  /\ Base(c, done) /\ Decided(c) /\ Steady(r, c, {}) /\ Final(r, c)
         /\ c.status = r.status /\ c.batches = r.batches /\ DOMAIN c.ops = DOMAIN r.ops
         /\ c.rev = r.rev /\ c.ops[e].batch = r.ops[e].batch /\ c.ops[e].status = "running"
         /\ \A f \in DOMAIN r.ops : f # e => c.ops[f] = r.ops[f]
         /\ Rests(c.ops[e], e, done)
<1>0. Base(r, done) /\ Decided(r) /\ r \in Request
  BY DEF ReqInv, Base
<1> DEFINE op == [r.ops[e] EXCEPT !.receipt = "report"]
<1>1. r.ops[e] \in Op /\ e \in OpenOps(r)
  BY <1>0, TypedLeaf DEF OpenOps, UnsettledOps
<1>2. /\ op \in Op /\ op.item = r.ops[e].item /\ op.rev = r.ops[e].rev /\ op.batch = r.ops[e].batch
      /\ op.status = "running" /\ op.receipt = "report" /\ ~HasJob(op)
  BY <1>1 DEF Op, HasJob
<1>3. c = [r EXCEPT !.ops[e] = op]
  OBVIOUS
<1> HIDE DEF op
<1>4. OpMoves(r, c, e) /\ c.ops[e] = op
  <2>1. HasJob(r.ops[e]) => HasJob(op)
    OBVIOUS
  <2> QED
    BY ONLY <1>0, <1>1, <1>2, <1>3, <2>1, NewOp
<1>5. Base(c, done) /\ Steady(r, c, {}) /\ ~Terminal(r)
  <2>1. done \subseteq DOMAIN r.ops
    BY <1>0 DEF Base, OpsOK
  <2> QED
    BY <1>0, <1>2, <1>4, <2>1, OpMovesBase
<1>6. Decided(c)
  BY <1>0, <1>2, <1>4, OpMovesDecided DEF UnsettledOps
<1>7. Rests(c.ops[e], e, done)
  BY <1>2, <1>4 DEF Rests
<1> QED
  BY <1>2, <1>4, <1>5, <1>6, <1>7 DEF OpMoves, Final

\* The result of a tool is recorded while the step of its operation still runs.
LEMMA RecordInv ==
  ASSUME IInv, NEW d \in Batches, tools[d].at \in {"running", "committed", "refused"},
         NEW e, e = tools[d].op, NEW outcome \in SettledOps \cup {"unknown"},
         NEW r, \/ r = req /\ outcome # "succeeded"
                \/ r = [req EXCEPT !.ops[e].receipt = "report"],
         Save(RecordOutcome(r, e, outcome)) \/ SaveFails,
         NEW ok \in BOOLEAN, Close(d, ok),
         owner' \in {owner, IF owner = e THEN 0 ELSE owner},
         UNCHANGED <<leases, interrupted, receipts, runtime, notice, ghosts>>
  PROVE  IInv' /\ Final(req, req')
<1>1. /\ e \in DOMAIN req.ops /\ e \in Ops /\ req.ops[e] \in Op /\ req.ops[e].batch = d
      /\ WorkerOf(d) /\ JobOf(e) /\ ReqInv(req, applied) /\ tools[d].at \in Working
      /\ req.status = "open" /\ req.batches[d].rev = req.rev => req.batches[d].status = "running"
  BY WorkerFacts DEF Working
<1>2. /\ jobs[e] \notin Living /\ req.ops[e].status = "running" /\ ~HasJob(req.ops[e])
  BY <1>1 DEF WorkerOf, Living, Ended
<1>3. /\ ReqInv(req', applied) /\ Keeps(req, req', {}) /\ Final(req, req') /\ faults' \in Nat
      /\ \A f \in DOMAIN req.ops : f # e => req'.ops[f] = req.ops[f]
  <2>1. /\ Base(r, applied) /\ Decided(r) /\ Steady(req, r, {}) /\ Final(req, r)
        /\ r.status = req.status /\ r.batches = req.batches /\ DOMAIN r.ops = DOMAIN req.ops
        /\ r.rev = req.rev /\ r.ops[e].batch = d
        /\ \A f \in DOMAIN req.ops : f # e => r.ops[f] = req.ops[f]
        /\ outcome = "succeeded" => Rests(r.ops[e], e, applied)
    BY <1>1, <1>2, ReportFacts, SMTT(30) DEF ReqInv, Steady, Final
  <2>2. CASE Save(RecordOutcome(r, e, outcome))
    <3>1. req' = RecordOutcome(r, e, outcome) /\ faults' = faults
      BY <2>2 DEF Save
    <3>2. r.status = "open" /\ r.batches[r.ops[e].batch].rev = r.rev
            => r.batches[r.ops[e].batch].status \in UnsettledBatches
      BY <1>1, <2>1 DEF UnsettledBatches
    <3>3. /\ Base(req', applied) /\ Steady(r, req', {}) /\ Final(r, req') /\ Decided(req')
          /\ \A f \in DOMAIN r.ops : f # e => req'.ops[f] = r.ops[f]
      BY ONLY <1>1, <2>1, <3>1, <3>2, RecordOutcomeFacts, outcome \in SettledOps \cup {"unknown"}
    <3>4. Steady(req, req', {}) /\ Final(req, req')
      BY <2>1, <3>3, SteadyCompose, FinalCompose
    <3> QED
      BY <2>1, <3>1, <3>3, <3>4, SteadyKeeps DEF ReqInv, IInv, ProcessOK
  <2>3. CASE SaveFails
    BY <1>1, <2>3, KeepsSame DEF SaveFails, IInv, ProcessOK
  <2> QED
    BY <2>2, <2>3
<1>4. Moves(d, "closing")
  BY CloseMoves DEF IInv
<1>5. WorkerOf(d)'
  BY <1>4 DEF Moves, WorkerOf, Working
<1>6. JobOf(e)'
  BY <1>1, <1>2, <1>3 DEF JobOf, runtime, Keeps
<1>7. /\ jobs' \in [Ops -> {"none", "queued", "running", "cancelling"} \cup Ended]
      /\ "closing" \in Active /\ applied' = applied
  BY DEF Active, IInv, ProcessOK, runtime, ghosts
<1> QED
  BY <1>1, <1>3, <1>4, <1>5, <1>6, <1>7, WorkerStep DEF runtime, ghosts

LEMMA AfterInv ==
  ASSUME IInv, NEW d \in Batches, After(d)
  PROVE  IInv' /\ Final(req, req')
<1>1. PICK e : e = tools[d].op
  OBVIOUS
<1>2. /\ tools[d].at \in {"running", "committed", "refused"}
      /\ owner' \in {owner, IF owner = e THEN 0 ELSE owner}
      /\ UNCHANGED <<leases, interrupted, receipts, runtime, notice, ghosts>>
  BY <1>1 DEF After, Release
<1>3. PICK r : r = [req EXCEPT !.ops[e].receipt = "report"]
  OBVIOUS
<1>4. PICK outcome \in SettledOps, ok \in BOOLEAN :
        /\ Save(RecordOutcome(r, e, outcome)) \/ SaveFails
        /\ Close(d, ok)
  <2>1. CASE SaveFails /\ Close(d, FALSE)
    BY <2>1 DEF SettledOps
  <2>2. CASE \E ok \in BOOLEAN :
               /\ Save(RecordOutcome(r, e, IF ok THEN "succeeded" ELSE "failed"))
               /\ Close(d, ok)
    BY <2>2 DEF SettledOps
  <2> QED
    BY <1>1, <1>3, <2>1, <2>2 DEF After
<1>5. outcome \in SettledOps \cup {"unknown"}
  OBVIOUS
<1> QED
  BY <1>1, <1>2, <1>3, <1>4, <1>5, RecordInv

LEMMA FailedInv ==
  ASSUME IInv, NEW d \in Batches, Failed(d)
  PROVE  IInv' /\ Final(req, req')
<1>1. PICK e : e = tools[d].op
  OBVIOUS
<1>2. PICK outcome : outcome = "unknown"
  OBVIOUS
<1>3. /\ tools[d].at \in {"running", "committed", "refused"}
      /\ Save(RecordOutcome(req, e, outcome)) \/ SaveFails
      /\ Close(d, FALSE) /\ owner' = owner
      /\ UNCHANGED <<leases, interrupted, receipts, runtime, notice, ghosts>>
  BY <1>1, <1>2 DEF Failed
<1>4. outcome \in SettledOps \cup {"unknown"} /\ outcome # "succeeded"
  BY <1>2
<1> QED
  BY <1>1, <1>3, <1>4, RecordInv

LEMMA SubmitInv ==
  ASSUME IInv, NEW d \in Batches, Submit(d)
  PROVE  IInv' /\ Final(req, req')
<1>0. PICK e : e = tools[d].op
  OBVIOUS
<1>1. /\ tools[d].at = "running" /\ tools[d].at \in Working
      /\ jobs' = [jobs EXCEPT ![e] = "queued"] /\ GoTo(d, "submitted")
      /\ UNCHANGED <<req, leases, interrupted, owner, receipts, heard, bound, unsaved,
                     notice, ghosts, faults>>
  BY <1>0 DEF Submit, Working
<1>2. /\ e \in DOMAIN req.ops /\ e \in Ops /\ WorkerOf(d) /\ JobOf(e)
  BY <1>0, <1>1, WorkerFacts
<1>3. ReqInv(req, applied)' /\ Keeps(req, req', {}) /\ Final(req, req') /\ faults' \in Nat
  BY <1>1, SameRequest DEF ghosts, IInv, ProcessOK
<1>4. Moves(d, "submitted")
  BY <1>1, GoToMoves DEF IInv, Places, Working
<1>5. /\ jobs' \in [Ops -> {"none", "queued", "running", "cancelling"} \cup Ended]
      /\ jobs'[e] = "queued" /\ \A f \in Ops : f # e => jobs'[f] = jobs[f]
  BY <1>1, <1>2 DEF IInv, ProcessOK
<1>6. e \notin bound /\ e \notin unsaved /\ req.ops[e].status = "running" /\ owner = e
  BY <1>0, <1>1, <1>2 DEF WorkerOf, IInv, ProcessOK
<1>7. WorkerOf(d)'
  BY <1>0, <1>1, <1>2, <1>4, <1>5, <1>6 DEF Moves, WorkerOf
<1>8. JobOf(e)'
  BY <1>1, <1>2, <1>5, <1>6 DEF JobOf
<1> QED
  BY <1>0, <1>1, <1>3, <1>4, <1>5, <1>7, <1>8, WorkerStep DEF Active, Working, ghosts

LEMMA BindInv ==
  ASSUME IInv, NEW d \in Batches, Bind(d)
  PROVE  IInv' /\ Final(req, req')
<1>0. PICK e : e = tools[d].op
  OBVIOUS
<1>1. /\ tools[d].at = "associated" /\ tools[d].at \in Working
      /\ bound' = bound \cup {e} /\ GoTo(d, "bound")
      /\ UNCHANGED <<req, leases, interrupted, owner, receipts, jobs, heard, unsaved,
                     notice, ghosts, faults>>
  BY <1>0 DEF Bind, Working
<1>2. /\ e \in DOMAIN req.ops /\ e \in Ops /\ WorkerOf(d) /\ JobOf(e) /\ HasJob(req.ops[e])
  BY <1>0, <1>1, WorkerFacts DEF WorkerOf
<1>3. ReqInv(req, applied)' /\ Keeps(req, req', {}) /\ Final(req, req') /\ faults' \in Nat
  BY <1>1, SameRequest DEF ghosts, IInv, ProcessOK
<1>4. Moves(d, "bound")
  BY <1>1, GoToMoves DEF IInv, Places, Working
<1>5. jobs' \in [Ops -> {"none", "queued", "running", "cancelling"} \cup Ended]
  BY <1>1 DEF IInv, ProcessOK
<1>6. WorkerOf(d)'
  BY <1>0, <1>1, <1>2, <1>4 DEF Moves, WorkerOf
<1>7. JobOf(e)'
  BY <1>1, <1>2 DEF JobOf
<1> QED
  BY <1>0, <1>1, <1>2, <1>3, <1>4, <1>5, <1>6, <1>7, WorkerStep DEF Active, Working, ghosts

LEMMA AssociateInv ==
  ASSUME IInv, NEW d \in Batches, Associate(d)
  PROVE  IInv' /\ Final(req, req')
<1>0. PICK e : e = tools[d].op
  OBVIOUS
<1>1. /\ tools[d].at = "submitted" /\ tools[d].at \in Working
      /\ UNCHANGED <<leases, interrupted, owner, receipts, heard, bound, unsaved, notice, ghosts>>
  BY DEF Associate, Working
<1>2. /\ e \in DOMAIN req.ops /\ e \in Ops /\ req.ops[e] \in Op /\ WorkerOf(d) /\ JobOf(e)
      /\ ReqInv(req, applied)
  BY <1>0, <1>1, WorkerFacts
<1>3. /\ req.ops[e].status = "running" /\ owner = e /\ jobs[e] \in {"queued", "failed"}
      /\ e \notin bound /\ e \notin unsaved /\ e \in OpenOps(req)
  BY <1>0, <1>1, <1>2 DEF WorkerOf, OpenOps, UnsettledOps, IInv, ProcessOK
<1>4. applied \subseteq DOMAIN req.ops /\ (req.ops[e].receipt = "commit" => e \in applied)
  BY <1>2 DEF ReqInv, Base, OpsOK
<1>5. CASE /\ Save([req EXCEPT !.ops[e].job = TRUE, !.ops[e].status = "bound"])
           /\ GoTo(d, "associated") /\ UNCHANGED jobs
  <2>1. PICK v \in Op : v = req.ops[e]
    BY <1>2
  <2>2. PICK op : op = [[v EXCEPT !.job = TRUE] EXCEPT !.status = "bound"]
    OBVIOUS
  <2>3. /\ op \in Op /\ op.item = v.item /\ op.rev = v.rev /\ op.batch = v.batch
        /\ op.status = "bound" /\ op.receipt = v.receipt /\ HasJob(op)
    BY <2>2 DEF Op, UnsettledOps, HasJob
  <2>4. req' = [req EXCEPT !.ops[e] = op] /\ faults' = faults
    <3>1. req \in Request /\ req.ops \in [DOMAIN req.ops -> Op]
      BY Facts, Typed
    <3> QED
      BY <1>2, <1>5, <2>1, <2>2, <3>1 DEF Save, Request
  <2>5. /\ ReqInv(req', applied) /\ Keeps(req, req', {}) /\ Final(req, req')
        /\ req'.ops[e] = op /\ \A f \in DOMAIN req.ops : f # e => req'.ops[f] = req.ops[f]
    BY <1>2, <1>3, <1>4, <2>1, <2>3, <2>4, OpFacts DEF UnsettledOps
  <2>6. Moves(d, "associated")
    BY <1>5, GoToMoves DEF IInv, Places, Working
  <2>7. jobs' \in [Ops -> {"none", "queued", "running", "cancelling"} \cup Ended] /\ faults' \in Nat
    BY <1>5, <2>4 DEF IInv, ProcessOK
  <2>8. e \in DOMAIN req'.ops /\ req'.ops[e].batch = d
    BY <1>0, <1>1, <1>2, <2>1, <2>3, <2>5 DEF Keeps, WorkerOf
  <2>9. WorkerOf(d)'
    BY <1>0, <1>1, <1>3, <1>5, <2>3, <2>5, <2>6, <2>8 DEF Moves, WorkerOf
  <2>10. JobOf(e)'
    BY <1>1, <1>3, <1>5, <2>3, <2>5, <2>8 DEF JobOf
  <2> QED
    BY <1>0, <1>1, <1>5, <2>5, <2>6, <2>7, <2>9, <2>10, WorkerStep DEF Active, Working, ghosts
<1>6. CASE /\ req' = req /\ faults' \in Nat
           /\ jobs' = [jobs EXCEPT ![e] = Stopped(@)]
           /\ GoTo(d, "refused")
  <2>1. ReqInv(req, applied)' /\ Keeps(req, req', {}) /\ Final(req, req')
    BY <1>1, <1>6, SameRequest DEF ghosts
  <2>2. Moves(d, "refused")
    BY <1>6, GoToMoves DEF IInv, Places, Working
  <2>3. /\ jobs' \in [Ops -> {"none", "queued", "running", "cancelling"} \cup Ended]
        /\ jobs'[e] = "failed" /\ \A f \in Ops : f # e => jobs'[f] = jobs[f]
    BY <1>2, <1>3, <1>6 DEF IInv, ProcessOK, Stopped, Ended
  <2>4. WorkerOf(d)'
    BY <1>0, <1>1, <1>2, <1>3, <1>6, <2>2, <2>3 DEF Moves, WorkerOf
  <2>5. JobOf(e)'
    BY <1>1, <1>2, <1>3, <1>6, <2>3 DEF JobOf, Living
  <2> QED
    BY <1>0, <1>1, <1>6, <2>1, <2>2, <2>3, <2>4, <2>5, WorkerStep DEF Active, Working, ghosts
<1> QED
  <2>1. faults + 1 \in Nat /\ faults \in Nat
    BY DEF IInv, ProcessOK
  <2> QED
    BY <1>0, <1>5, <1>6, <2>1 DEF Associate, SaveFails

LEMMA LaunchInv ==
  ASSUME IInv, NEW d \in Batches, Launch(d)
  PROVE  IInv' /\ Final(req, req')
<1>0. PICK e : e = tools[d].op
  OBVIOUS
<1>1. /\ tools[d].at = "bound" /\ tools[d].at \in Working
      /\ UNCHANGED <<leases, interrupted, owner, receipts, heard, bound, unsaved, notice, ghosts>>
      /\ \E ok \in BOOLEAN : Close(d, ok)
  BY DEF Launch, Working
<1>2. /\ e \in DOMAIN req.ops /\ e \in Ops /\ req.ops[e] \in Op /\ WorkerOf(d) /\ JobOf(e)
      /\ ReqInv(req, applied)
  BY <1>0, <1>1, WorkerFacts
<1>3. applied \subseteq DOMAIN req.ops /\ (req.ops[e].receipt = "commit" => e \in applied)
  BY <1>2 DEF ReqInv, Base, OpsOK
<1>4. Moves(d, "closing")
  BY <1>1, CloseMoves DEF IInv
<1>5. WorkerOf(d)' /\ "closing" \in Active
  BY <1>4 DEF Moves, WorkerOf, Working, Active
<1>6. CASE /\ jobs[e] = "queued" /\ MayWrite(e)
           /\ Save([req EXCEPT !.ops[e].status = "running"])
           /\ jobs' = [jobs EXCEPT ![e] = "running"]
  <2>1. PICK v \in Op : v = req.ops[e]
    BY <1>2
  <2>2. PICK op : op = [v EXCEPT !.status = "running"]
    OBVIOUS
  <2>3. /\ op \in Op /\ op.item = v.item /\ op.rev = v.rev /\ op.batch = v.batch
        /\ op.status = "running" /\ op.receipt = v.receipt /\ (HasJob(op) <=> HasJob(v))
    BY <2>2 DEF Op, UnsettledOps, HasJob
  <2>4. req' = [req EXCEPT !.ops[e] = op] /\ faults' = faults
    BY <1>6, <2>1, <2>2 DEF Save
  <2>5. e \in OpenOps(req)
    BY <1>2, <1>6 DEF MayWrite, OpenOps, UnsettledOps
  <2>6. /\ ReqInv(req', applied) /\ Keeps(req, req', {}) /\ Final(req, req')
        /\ req'.ops[e] = op /\ \A f \in DOMAIN req.ops : f # e => req'.ops[f] = req.ops[f]
    BY <1>2, <1>3, <2>1, <2>3, <2>4, <2>5, OpFacts DEF UnsettledOps
  <2>7. /\ jobs' \in [Ops -> {"none", "queued", "running", "cancelling"} \cup Ended]
        /\ jobs'[e] = "running" /\ \A f \in Ops : f # e => jobs'[f] = jobs[f]
        /\ faults' \in Nat
    BY <1>2, <1>6, <2>4 DEF IInv, ProcessOK
  <2>8. owner = e /\ e \notin unsaved
    BY <1>2, <1>6 DEF JobOf, Living, Ended
  <2>9. e \in DOMAIN req'.ops
    BY <1>2, <2>6 DEF Keeps
  <2>10. JobOf(e)'
    BY <1>1, <2>3, <2>6, <2>7, <2>8, <2>9 DEF JobOf
  <2> QED
    BY <1>0, <1>1, <1>4, <1>5, <2>6, <2>7, <2>10, WorkerStep DEF ghosts
<1>7. CASE req' = req /\ faults' \in Nat /\ jobs' = jobs
  <2>1. ReqInv(req, applied)' /\ Keeps(req, req', {}) /\ Final(req, req')
    BY <1>1, <1>7, SameRequest DEF ghosts
  <2>2. jobs' \in [Ops -> {"none", "queued", "running", "cancelling"} \cup Ended]
    BY <1>7 DEF IInv, ProcessOK
  <2>3. JobOf(e)'
    BY <1>1, <1>2, <1>7 DEF JobOf
  <2> QED
    BY <1>0, <1>1, <1>4, <1>5, <1>7, <2>1, <2>2, <2>3, WorkerStep DEF ghosts
<1> QED
  <2>1. faults + 1 \in Nat /\ faults \in Nat
    BY DEF IInv, ProcessOK
  <2> QED
    BY <1>0, <1>6, <1>7, <2>1 DEF Launch, SaveFails

-----------------------------------------------------------------------------
(* Steps of a batch. *)

\* The step of a worker, and the receipts of its batch, touch no operation and no other
\* batch.
LEMMA PlainStep ==
  ASSUME IInv, NEW d \in DOMAIN req.batches, NEW X, ReqInv(req, applied)', Keeps(req, req', X),
         \A c \in Batches : \A s : c # d => <<c, s>> \notin X,
         req'.ops = req.ops,
         UNCHANGED <<leases, owner, runtime, notice, ghosts>>,
         interrupted' \subseteq Batches,
         receipts' \subseteq [batch : Batches, step : Nat, ok : BOOLEAN],
         \A x \in receipts' : x \in receipts \/ x.batch = d,
         tools' \in [Batches -> Worker], \A c \in Batches : c # d => tools'[c] = tools[c],
         tools'[d].at \notin Working \/ tools'[d] = tools[d],
         StepOf(d)', faults' \in Nat
  PROVE  IInv'
<1>0. d \in Batches
  BY Facts
<1>1. ProcessOK'
  BY DEF IInv, ProcessOK, Worker, runtime, ghosts
<1>2. LeaseOK'
  BY Facts, LeaseKept DEF IInv
<1>3. StepOK'
  <2> SUFFICES ASSUME NEW c \in Batches, c # d PROVE StepOf(c)'
    BY DEF StepOK
  <2>1. StepOf(c)
    BY Facts
  <2>2. tools'[c] = tools[c] /\ <<c, tools[c].step>> \notin X
    OBVIOUS
  <2> QED
    BY <2>1, <2>2, StepKept
<1>4. ToolOK'
  <2> SUFFICES ASSUME NEW c \in Batches PROVE WorkerOf(c)'
    BY DEF ToolOK
  <2>1. WorkerOf(c)
    BY Facts
  <2>2. CASE tools'[c] = tools[c]
    BY <2>1, <2>2 DEF WorkerOf, runtime, ghosts
  <2>3. CASE tools'[c] # tools[c]
    BY <2>3 DEF WorkerOf
  <2> QED
    BY <2>2, <2>3
<1>5. JobOK'
  <2>1. /\ bound' \subseteq DOMAIN req'.ops /\ \A e \in bound' : HasJob(req'.ops[e])
        /\ \A x \in receipts' : x.batch \in DOMAIN req'.batches
    BY DEF IInv, JobOK, Keeps, runtime
  <2>2. ASSUME NEW e \in Ops PROVE JobOf(e)'
    <3>1. JobOf(e)
      BY Facts
    <3> QED
      BY <3>1 DEF runtime, JobOf
  <2> QED
    BY <2>1, <2>2 DEF JobOK
<1> QED
  BY <1>1, <1>2, <1>3, <1>4, <1>5 DEF IInv

LEMMA WaitingFacts ==
  ASSUME IInv, NEW d \in DOMAIN req.batches
  PROVE  /\ Waiting(d) \subseteq Nat
         /\ \A s \in Waiting(d) : s \in DOMAIN req.batches[d].steps /\ req.batches[d].steps[s] = "waiting"
<1>1. DOMAIN req.batches[d].steps \subseteq Nat
  BY Facts, TypedSteps
<1> QED
  BY <1>1 DEF Waiting

\* Who holds the lease works for the newest batch of the current request, and no receipt
\* is kept.
LEMMA HoldingFacts ==
  ASSUME IInv, NEW d \in DOMAIN req.batches, Holding(d) # {}
  PROVE  /\ req.status = "open" /\ receipts = {} /\ d = Len(req.batches)
         /\ req.batches[d].rev = req.rev /\ \A l \in leases : l.batch = d
<1>1. PICK l \in leases : l.batch = d /\ Admitted(l)
  BY DEF Holding
<1>2. req.status = "open" /\ receipts = {} /\ req.rev = l.rev
  BY <1>1 DEF Admitted, Current
<1>3. Leased(l) /\ (\A m \in leases : l = m) /\ d # 0
  BY Facts DEF IInv, LeaseOK
<1> QED
  BY <1>1, <1>2, <1>3 DEF Leased

LEMMA StartStepInv ==
  ASSUME IInv, NEW d \in DOMAIN req.batches, StartStep(d)
  PROVE  IInv' /\ Final(req, req')
<1>0. d \in Batches /\ ReqInv(req, applied) /\ tools \in [Batches -> Worker]
  BY Facts DEF IInv, ProcessOK, Worker
<1>1. PICK s : s = Min(Waiting(d))
  OBVIOUS
<1>2. /\ tools[d].at = "idle" /\ Waiting(d) # {} /\ Holding(d) # {}
      /\ req.batches[d].status = "running"
      /\ UNCHANGED <<leases, owner, runtime, notice, ghosts>>
  BY DEF StartStep
<1>3. s \in Nat /\ s \in DOMAIN req.batches[d].steps /\ req.batches[d].steps[s] = "waiting"
  <2>1. s \in Waiting(d)
    BY <1>1, <1>2, WaitingFacts, MinIn
  <2> QED
    BY <2>1, WaitingFacts
<1>4. receipts = {}
  BY <1>2, HoldingFacts
<1>5. CASE /\ Save([req EXCEPT !.batches[d].steps[s] = "started"])
           /\ tools' = [tools EXCEPT ![d] = [Idle EXCEPT !.at = "started", !.step = s]]
           /\ UNCHANGED <<interrupted, receipts>>
  <2>1. req' = [req EXCEPT !.batches[d].steps[s] = "started"] /\ faults' = faults
    BY <1>5 DEF Save
  <2>2. /\ ReqInv(req', applied) /\ Keeps(req, req', {}) /\ Final(req, req') /\ req'.ops = req.ops
        /\ req'.batches[d].status = req.batches[d].status /\ req'.batches[d].steps[s] = "started"
    BY <1>0, <1>3, <2>1, StartFacts
  <2>3. PICK w : w = [Idle EXCEPT !.at = "started", !.step = s]
    OBVIOUS
  <2>4. w \in Worker /\ w.at = "started" /\ w.step = s
    BY <1>3, <2>3 DEF Worker, Idle, Absent, Places
  <2>5. tools' = [tools EXCEPT ![d] = w]
    BY <1>5, <2>3
  <2>6. /\ tools' \in [Batches -> Worker] /\ tools'[d] = w
        /\ \A c \in Batches : c # d => tools'[c] = tools[c]
    BY <1>0, <2>4, <2>5
  <2>7. StepOf(d)'
    BY <1>2, <1>3, <1>4, <1>5, <2>2, <2>4, <2>6 DEF StepOf, Keeps
  <2>8. /\ w.at \notin Working /\ faults' \in Nat /\ interrupted' \subseteq Batches
        /\ receipts' \subseteq [batch : Batches, step : Nat, ok : BOOLEAN] /\ applied' = applied
    BY <1>2, <1>5, <2>1, <2>4 DEF Working, IInv, ProcessOK, ghosts
  <2>9. tools'[d].at \notin Working
    BY <2>6, <2>8
  <2> QED
    BY <1>2, <1>5, <2>2, <2>6, <2>7, <2>8, <2>9, PlainStep
<1>6. CASE /\ SaveFails
           /\ GoTo(d, "over") /\ interrupted' = interrupted \cup {d}
           /\ receipts' = receipts \cup {[batch |-> d, step |-> s, ok |-> FALSE]}
  <2>1. /\ ReqInv(req, applied)' /\ Keeps(req, req', {}) /\ Final(req, req') /\ req' = req
        /\ faults' \in Nat
    BY <1>2, <1>6, SameRequest DEF SaveFails, ghosts, IInv, ProcessOK
  <2>2. Moves(d, "over")
    BY <1>0, <1>6, GoToMoves DEF IInv, Places
  <2>3. StepOf(d)' /\ tools'[d].at \notin Working
    BY <2>2 DEF Moves, StepOf, Active, Working
  <2>4. /\ interrupted' \subseteq Batches
        /\ receipts' \subseteq [batch : Batches, step : Nat, ok : BOOLEAN]
        /\ \A x \in receipts' : x \in receipts \/ x.batch = d
    <3>1. PICK y : y = [batch |-> d, step |-> s, ok |-> FALSE]
      OBVIOUS
    <3>2. y \in [batch : Batches, step : Nat, ok : BOOLEAN] /\ y.batch = d
      BY <1>0, <1>3, <3>1
    <3>3. receipts' = receipts \cup {y} /\ interrupted' = interrupted \cup {d}
      BY <1>6, <3>1
    <3> QED
      BY <1>0, <3>2, <3>3 DEF IInv, ProcessOK
  <2> QED
    BY <1>2, <2>1, <2>2, <2>3, <2>4, PlainStep DEF Moves
<1> QED
  BY <1>1, <1>5, <1>6 DEF StartStep

LEMMA RefuseInv ==
  ASSUME IInv, NEW d \in DOMAIN req.batches, RefuseStart(d) \/ Refuse(d)
  PROVE  IInv' /\ Final(req, req')
<1>0. d \in Batches /\ StepOf(d)
  BY Facts
<1>1. /\ UNCHANGED <<req, leases, owner, receipts, runtime, notice, ghosts, faults>>
      /\ interrupted' \subseteq Batches
  BY <1>0 DEF RefuseStart, Refuse, IInv, ProcessOK
<1>2. ReqInv(req, applied)' /\ Keeps(req, req', {}) /\ Final(req, req')
  BY <1>1, SameRequest DEF ghosts
<1>3. \/ Moves(d, "over")
      \/ Moves(d, "closing") /\ tools[d].at = "started"
  BY <1>0, GoToMoves, CloseMoves DEF RefuseStart, Refuse, IInv, Places
<1>4. StepOf(d)'
  BY <1>0, <1>1, <1>3 DEF Moves, StepOf, Active, Working
<1>5. tools'[d].at \notin Working
  BY <1>3 DEF Moves, Working
<1>6. /\ receipts' \subseteq [batch : Batches, step : Nat, ok : BOOLEAN] /\ faults' \in Nat
      /\ tools' \in [Batches -> Worker] /\ \A c \in Batches : c # d => tools'[c] = tools[c]
  BY <1>1, <1>3 DEF IInv, ProcessOK, Moves
<1> QED
  BY <1>1, <1>2, <1>4, <1>5, <1>6, PlainStep

LEMMA FinishInv ==
  ASSUME IInv, NEW d \in DOMAIN req.batches, Finish(d)
  PROVE  IInv' /\ Final(req, req')
<1>0. d \in Batches /\ tools[d] \in Worker /\ ReqInv(req, applied) /\ tools \in [Batches -> Worker]
  BY Facts DEF IInv, ProcessOK, Worker
<1>turn. PICK ok \in {FALSE, tools[d].ok} :
        LET y == [batch |-> d, step |-> tools[d].step, ok |-> ok] IN
        \/ Save(FinishStep(req, y)) /\ UNCHANGED receipts
        \/ SaveFails /\ receipts' = receipts \cup {y}
  BY DEF Finish
<1>1. PICK x : x = [batch |-> d, step |-> tools[d].step, ok |-> ok]
  OBVIOUS
<1>2. x.batch = d /\ x \in [batch : Batches, step : Nat, ok : BOOLEAN]
  BY <1>0, <1>1 DEF Worker
<1>3. /\ tools' = [tools EXCEPT ![d] = Idle]
      /\ UNCHANGED <<leases, interrupted, owner, runtime, notice, ghosts>>
  BY DEF Finish
<1>4. \/ Save(FinishStep(req, x)) /\ receipts' = receipts
      \/ SaveFails /\ receipts' = receipts \cup {x}
  BY <1>turn, <1>1
<1>5. /\ ReqInv(req', applied) /\ Keeps(req, req', {<<x.batch, x.step>>}) /\ Final(req, req')
      /\ req'.ops = req.ops /\ faults' \in Nat
  <2>1. CASE req' = FinishStep(req, x) /\ faults' = faults
    BY <1>0, <1>2, <2>1, FinishStepFacts, SteadyKeeps DEF IInv, ProcessOK
  <2>2. CASE req' = req /\ faults' = faults + 1
    <3>1. Keeps(req, req', {}) /\ Final(req, req')
      BY <2>2, KeepsSame
    <3> QED
      BY <1>0, <2>2, <3>1 DEF Keeps, IInv, ProcessOK
  <2> QED
    BY <1>4, <2>1, <2>2 DEF Save, SaveFails
<1>6. /\ tools' \in [Batches -> Worker] /\ \A c \in Batches : c # d => tools'[c] = tools[c]
      /\ tools'[d].at = "idle"
  <2>1. Idle \in Worker /\ Idle.at = "idle"
    BY DEF Idle, Absent, Worker, Places
  <2> QED
    BY <1>0, <1>3, <2>1
<1>7. StepOf(d)' /\ tools'[d].at \notin Working
  BY <1>5, <1>6 DEF StepOf, Active, Working, Keeps
<1>8. /\ receipts' \subseteq [batch : Batches, step : Nat, ok : BOOLEAN]
      /\ \A y \in receipts' : y \in receipts \/ y.batch = d
      /\ interrupted' \subseteq Batches /\ applied' = applied
  BY <1>2, <1>3, <1>4 DEF IInv, ProcessOK, ghosts
<1>9. \A c \in Batches : \A s : c # d => <<c, s>> \notin {<<x.batch, x.step>>}
  BY <1>2
<1> QED
  BY <1>3, <1>5, <1>6, <1>7, <1>8, <1>9, PlainStep

LEMMA RetryReceiptInv ==
  ASSUME IInv, NEW x \in receipts, RetryReceipt(x)
  PROVE  IInv' /\ Final(req, req')
<1>0. PICK d \in DOMAIN req.batches : d = x.batch
  BY DEF IInv, JobOK
<1>1. /\ req' = FinishStep(req, x) /\ receipts' = receipts \ {x} /\ faults' = faults
      /\ UNCHANGED <<leases, tools, interrupted, owner, runtime, notice, ghosts>>
  BY DEF RetryReceipt, Save
<1>2. /\ ReqInv(req', applied) /\ Keeps(req, req', {<<x.batch, x.step>>}) /\ Final(req, req')
      /\ req'.ops = req.ops
  BY <1>0, <1>1, Facts, FinishStepFacts, SteadyKeeps
<1>3. d \in Batches /\ StepOf(d)
  BY Facts
<1>4. StepOf(d)'
  <2>1. tools[d].at \in Active => <<d, tools[d].step>> \notin {<<x.batch, x.step>>}
    BY <1>0, <1>3 DEF StepOf
  <2> QED
    BY <1>1, <1>2, <1>3, <2>1, StepKept
<1>5. /\ tools' \in [Batches -> Worker] /\ faults' \in Nat /\ interrupted' \subseteq Batches
      /\ receipts' \subseteq [batch : Batches, step : Nat, ok : BOOLEAN] /\ applied' = applied
  BY <1>1 DEF IInv, ProcessOK, Worker, ghosts
<1>6. \A c \in Batches : \A s : c # d => <<c, s>> \notin {<<x.batch, x.step>>}
  BY <1>0
<1> QED
  BY <1>1, <1>2, <1>4, <1>5, <1>6, PlainStep

LEMMA InterruptInv ==
  ASSUME IInv, NEW d \in DOMAIN req.batches, Interrupt(d)
  PROVE  IInv' /\ Final(req, req')
<1>0. d \in Batches /\ StepOf(d) /\ ReqInv(req, applied)
  BY Facts
<1>1. PICK lost \in SUBSET Waiting(d) :
        /\ faults' = (IF lost = {} THEN faults ELSE faults + 1)
        /\ req' = GiveUp(req, d, Waiting(d) \ lost)
        /\ receipts' = {x \in receipts : x.batch = d => x.step \notin Waiting(d)}
                         \cup {[batch |-> d, step |-> s, ok |-> FALSE] : s \in lost}
  BY DEF Interrupt
<1>2. /\ interrupted' = interrupted \ {d}
      /\ UNCHANGED <<leases, tools, owner, runtime, notice, ghosts>>
  BY DEF Interrupt
<1>3. \A s \in Waiting(d) : /\ s \in Nat /\ s \in DOMAIN req.batches[d].steps
                            /\ req.batches[d].steps[s] = "waiting"
  BY WaitingFacts
<1>4. /\ ReqInv(req', applied) /\ Keeps(req, req', {}) /\ Final(req, req') /\ req'.ops = req.ops
  <2>1. \A s \in Waiting(d) \ lost : /\ s \in DOMAIN req.batches[d].steps
                                     /\ req.batches[d].steps[s] # "started"
    BY <1>3
  <2> QED
    BY <1>0, <1>1, <2>1, GiveUpFacts, SteadyKeeps
<1>5. StepOf(d)'
  <2>1. tools[d].at \in Active => tools[d].step \notin lost
    BY <1>0, <1>3 DEF StepOf
  <2>2. tools[d].at \in Active =>
          \A x \in receipts' : x \in receipts \/ x.batch # d \/ x.step # tools[d].step
    BY <1>1, <2>1
  <2> QED
    BY <1>0, <1>2, <1>4, <2>2, StepKept
<1>6. /\ tools' \in [Batches -> Worker] /\ faults' \in Nat /\ interrupted' \subseteq Batches
      /\ applied' = applied
  BY <1>1, <1>2 DEF IInv, ProcessOK, Worker, ghosts
<1>7. /\ receipts' \subseteq [batch : Batches, step : Nat, ok : BOOLEAN]
      /\ \A x \in receipts' : x \in receipts \/ x.batch = d
  <2> SUFFICES ASSUME NEW x \in receipts'
               PROVE  /\ x \in [batch : Batches, step : Nat, ok : BOOLEAN]
                      /\ x \in receipts \/ x.batch = d
    OBVIOUS
  <2>1. CASE x \in receipts
    BY <2>1 DEF IInv, ProcessOK
  <2>2. CASE x \notin receipts
    <3>1. PICK s \in lost : x = [batch |-> d, step |-> s, ok |-> FALSE]
      BY <1>1, <2>2
    <3>2. s \in Nat
      BY <1>3
    <3> QED
      BY <1>0, <3>1, <3>2
  <2> QED
    BY <2>1, <2>2
<1> QED
  BY <1>2, <1>4, <1>5, <1>6, <1>7, PlainStep

\* A batch begins: its worker is idle and the lease is its own.
LEMMA BeginBatchInv ==
  ASSUME IInv, BeginBatch
  PROVE  IInv' /\ Final(req, req')
<1>0. req \in Request /\ ReqInv(req, applied) /\ tools \in [Batches -> Worker]
  BY Facts DEF IInv, ProcessOK, Worker
<1>turn. PICK l \in leases : \E i \in l.ready \ Answers :
        /\ l.batch = 0 /\ Current(l) /\ Len(req.batches) < MaxBatches
        /\ LET d == Len(req.batches) + 1 IN
           /\ Save([req EXCEPT !.batches = Append(@,
                     [item |-> i, rev |-> l.rev, status |-> "running",
                      steps |-> [s \in 1 .. Calls[d] |-> "waiting"]])])
           /\ leases' = {[l EXCEPT !.batch = d]}
           /\ tools' = [tools EXCEPT ![d] = Idle]
        /\ UNCHANGED <<interrupted, owner, receipts, runtime, notice, ghosts>>
  BY DEF BeginBatch
<1>1. PICK i \in l.ready \ Answers :
        /\ l.batch = 0 /\ Current(l) /\ Len(req.batches) < MaxBatches
        /\ LET d == Len(req.batches) + 1 IN
           /\ Save([req EXCEPT !.batches = Append(@,
                     [item |-> i, rev |-> l.rev, status |-> "running",
                      steps |-> [s \in 1 .. Calls[d] |-> "waiting"]])])
           /\ leases' = {[l EXCEPT !.batch = d]}
           /\ tools' = [tools EXCEPT ![d] = Idle]
        /\ UNCHANGED <<interrupted, owner, receipts, runtime, notice, ghosts>>
  BY <1>turn
<1>2. PICK b : b = [item |-> i, rev |-> l.rev, status |-> "running",
                    steps |-> [s \in 1 .. Calls[Len(req.batches) + 1] |-> "waiting"]]
  OBVIOUS
<1>new. PICK t : t = Append(req.batches, b)
  OBVIOUS
<1>3. req' = [req EXCEPT !.batches = t] /\ faults' = faults /\ Len(req.batches) < MaxBatches
  BY <1>1, <1>2, <1>new DEF Save
<1>4. req.status = "open" /\ req.rev = l.rev /\ receipts = {}
  BY <1>1 DEF Current
<1>5. /\ l \in [batch : {0} \cup Batches, rev : Nat, epoch : Nat, ready : SUBSET Items]
      /\ i \in Items \ Answers
  BY <1>1 DEF IInv, ProcessOK
<1>6. b \in Batch /\ b.item = i /\ b.rev = req.rev /\ b.status = "running"
  <2>1. Len(req.batches) + 1 \in 1 .. MaxBatches
    <3>1. Len(req.batches) \in Nat /\ MaxBatches \in Nat
      BY <1>0, Typed, RequestAssumption
    <3> QED
      BY <1>1, <3>1
  <2>2. PICK n \in Nat : n = Calls[Len(req.batches) + 1]
    BY <2>1, RequestAssumption
  <2>3. [s \in 1 .. n |-> "waiting"] \in [1 .. n -> StepStates]
    BY DEF StepStates
  <2>4. [s \in 1 .. n |-> "waiting"] \in Seq(StepStates)
    BY <2>2, <2>3, SeqDef
  <2>5. PICK steps \in Seq(StepStates) :
          b = [item |-> i, rev |-> l.rev, status |-> "running", steps |-> steps]
    BY <1>2, <2>2, <2>4
  <2> QED
    BY <1>4, <1>5, <2>5 DEF Batch, UnsettledBatches, StepStates
<1>7. \A k \in DOMAIN req.batches :
        req.batches[k].item = b.item /\ req.batches[k].rev = b.rev => Leaves(req, k) = {}
  <2>1. Leased(l)
    BY DEF IInv, LeaseOK
  <2> QED
    BY <1>1, <1>4, <1>6, <2>1 DEF Leased
<1>8. PICK n : n = Len(req'.batches)
  OBVIOUS
<1>9. /\ ReqInv(req', applied) /\ Final(req, req')
      /\ req'.status = req.status /\ req'.rev = req.rev /\ req'.ops = req.ops
      /\ DOMAIN req'.batches = DOMAIN req.batches \cup {n} /\ n \notin DOMAIN req.batches
      /\ \A k \in DOMAIN req.batches : req'.batches[k] = req.batches[k]
      /\ req'.batches[n] = b /\ n \in Batches
      /\ \A k : Leaves(req', k) = Leaves(req, k)
  <2>1. ReqInv(req, applied) /\ Len(req.batches) < MaxBatches /\ req.status = "open"
    BY <1>0, <1>3, <1>4
  <2>2. t \in Seq(Batch)
    <3>1. req.batches \in Seq(Batch)
      BY <1>0 DEF Request
    <3> QED
      BY <1>new, <1>6, <3>1, AppendFacts
  <2>3. /\ req' \in Request /\ req'.batches = t /\ req'.status = req.status /\ req'.target = req.target
        /\ req'.rev = req.rev /\ req'.items = req.items /\ req'.ops = req.ops
    BY <1>0, <1>3, <2>2 DEF Request
  <2> QED
    BY <2>1, <2>3, <1>new, <1>6, <1>7, <1>8, BeginFacts
<1>10. n = Len(req.batches) + 1
  <2>1. req'.batches = Append(req.batches, b) /\ req.batches \in Seq(Batch)
    BY <1>0, <1>new, <1>3 DEF Request
  <2> QED
    BY <1>6, <1>8, <2>1, AppendFacts
<1>11. /\ leases' = {[l EXCEPT !.batch = n]} /\ tools' = [tools EXCEPT ![n] = Idle]
       /\ UNCHANGED <<interrupted, owner, receipts, runtime, notice, ghosts>>
  BY <1>1, <1>10
<1>12. PICK m : /\ leases' = {m} /\ m.batch = n /\ m.rev = l.rev
                /\ m \in [batch : {0} \cup Batches, rev : Nat, epoch : Nat, ready : SUBSET Items]
  <2>1. PICK m : m = [l EXCEPT !.batch = n]
    OBVIOUS
  <2>2. leases' = {m}
    BY <1>11, <2>1
  <2>3. n \in {0} \cup Batches
    BY <1>9
  <2>4. m.batch = n /\ m.rev = l.rev /\ m \in [batch : {0} \cup Batches, rev : Nat, epoch : Nat, ready : SUBSET Items]
    BY ONLY <1>5, <2>1, <2>3
  <2> QED
    BY <2>2, <2>4
<1>13. /\ tools' \in [Batches -> Worker] /\ tools'[n].at = "idle"
       /\ \A c \in Batches : c # n => tools'[c] = tools[c]
  <2>1. Idle \in Worker /\ Idle.at = "idle"
    BY DEF Idle, Absent, Worker, Places
  <2> QED
    BY <1>0, <1>9, <1>11, <2>1
<1>14. ProcessOK'
  BY <1>3, <1>11, <1>12, <1>13 DEF IInv, ProcessOK, Worker, runtime, ghosts
<1>15. LeaseOK'
  <2>1. n # 0 /\ req'.batches[n].rev = m.rev
    BY <1>4, <1>6, <1>9, <1>12, Facts
  <2> QED
    BY <1>8, <1>12, <2>1 DEF LeaseOK, Leased
<1>16. StepOK'
  <2> SUFFICES ASSUME NEW c \in Batches PROVE StepOf(c)'
    BY DEF StepOK
  <2>1. CASE c = n
    BY <1>9, <1>13, <2>1 DEF StepOf, Active, Working
  <2>2. CASE c # n
    <3>1. StepOf(c)
      BY Facts
    <3>2. tools'[c] = tools[c] /\ (c \in DOMAIN req.batches => c \in DOMAIN req'.batches /\ req'.batches[c] = req.batches[c])
      BY <1>9, <1>13, <2>2
    <3>3. receipts' = receipts
      BY <1>11
    <3>4. tools[c].at \in Active => tools[c].at # "over"
      BY DEF Active, Working
    <3> QED
      BY <1>9, <3>1, <3>2, <3>3, <3>4 DEF StepOf
  <2> QED
    BY <2>1, <2>2
<1>17. ToolOK'
  <2> SUFFICES ASSUME NEW c \in Batches PROVE WorkerOf(c)'
    BY DEF ToolOK
  <2>1. CASE c = n
    BY <1>13, <2>1 DEF WorkerOf, Working
  <2>2. CASE c # n
    BY <1>9, <1>11, <1>13, <2>2, Facts DEF WorkerOf, runtime, ghosts
  <2> QED
    BY <2>1, <2>2
<1>18. JobOK'
  BY <1>4, <1>9, <1>11 DEF IInv, JobOK, JobOf, runtime
<1> QED
  BY <1>9, <1>11, <1>14, <1>15, <1>16, <1>17, <1>18 DEF IInv, ghosts

\* An operation is admitted while nobody holds the resource, so nobody works for another.
LEMMA AdmitInv ==
  ASSUME IInv, NEW d \in DOMAIN req.batches, Admit(d)
  PROVE  IInv' /\ Final(req, req')
<1>0. /\ req \in Request /\ ReqInv(req, applied) /\ tools \in [Batches -> Worker] /\ d \in Batches
      /\ StepOf(d) /\ req.batches[d] \in Batch /\ tools[d] \in Worker
  BY Facts DEF IInv, ProcessOK, Worker
<1>1. /\ tools[d].at = "started" /\ Holding(d) # {} /\ owner = 0 /\ Len(req.ops) < MaxOps
      /\ UNCHANGED <<leases, interrupted, receipts, runtime, notice, ghosts>>
  BY DEF Admit, MayAdmit
<1>2. /\ req.status = "open" /\ d = Len(req.batches) /\ req.batches[d].rev = req.rev
      /\ \A l \in leases : l.batch = d
  BY <1>1, HoldingFacts
<1>3. CASE SaveFails /\ Close(d, FALSE) /\ UNCHANGED owner
  <2>1. /\ ReqInv(req, applied)' /\ Keeps(req, req', {}) /\ Final(req, req') /\ req' = req
        /\ faults' \in Nat
    BY <1>1, <1>3, SameRequest DEF SaveFails, ghosts, IInv, ProcessOK
  <2>2. Moves(d, "closing")
    BY <1>0, <1>3, CloseMoves DEF IInv
  <2>3. StepOf(d)' /\ tools'[d].at \notin Working
    BY <1>0, <1>1, <2>1, <2>2 DEF Moves, StepOf, Active, Working
  <2>4. /\ receipts' \subseteq [batch : Batches, step : Nat, ok : BOOLEAN]
        /\ interrupted' \subseteq Batches
    BY <1>1 DEF IInv, ProcessOK
  <2> QED
    BY <1>1, <1>3, <2>1, <2>2, <2>3, <2>4, PlainStep DEF Moves
<1>4. CASE LET e == Len(req.ops) + 1 IN
             /\ Save([req EXCEPT !.ops = Append(@,
                  [item |-> req.batches[d].item, batch |-> d, rev |-> req.rev,
                   epoch |-> req.epoch, status |-> "running",
                   job |-> FALSE, receipt |-> "none"])])
             /\ owner' = e
             /\ tools' = [tools EXCEPT ![d].at = "running", ![d].op = e]
  <2>1. PICK op : op = [item |-> req.batches[d].item, batch |-> d, rev |-> req.rev,
                        epoch |-> req.epoch, status |-> "running",
                        job |-> FALSE, receipt |-> "none"]
    OBVIOUS
  <2>new. PICK t : t = Append(req.ops, op)
    OBVIOUS
  <2>2. req' = [req EXCEPT !.ops = t] /\ faults' = faults
    BY <1>4, <2>1, <2>new DEF Save
  <2>3. /\ op \in Op /\ op.batch = d /\ op.item = req.batches[d].item
        /\ op.rev = req.batches[d].rev /\ op.status = "running" /\ op.receipt = "none"
    <3>1. req.rev \in Nat /\ req.epoch \in Nat /\ req.batches[d].item \in Items \ Answers
      BY <1>0, Typed DEF Batch
    <3> QED
      BY <1>0, <1>2, <2>1, <3>1 DEF Op, UnsettledOps
  <2>jobless. ~HasJob(op)
    BY <2>1 DEF HasJob
  <2>4. req.batches[d].status = "running"
    BY <1>0, <1>1, <1>2 DEF StepOf, Active
  <2>5. PICK e : e = Len(req'.ops)
    OBVIOUS
  <2>6. /\ ReqInv(req', applied) /\ Final(req, req') /\ req'.status = req.status
        /\ req'.rev = req.rev /\ req'.batches = req.batches
        /\ DOMAIN req'.ops = DOMAIN req.ops \cup {e} /\ e \notin DOMAIN req.ops
        /\ e = Len(req.ops) + 1
        /\ \A f \in DOMAIN req.ops : req'.ops[f] = req.ops[f]
        /\ req'.ops[e] = op /\ e \in Ops
    <3>1. ReqInv(req, applied) /\ Len(req.ops) < MaxOps /\ req.status = "open" /\ d = Len(req.batches)
      BY <1>0, <1>1, <1>2
    <3>2. t \in Seq(Op)
      <4>1. req.ops \in Seq(Op)
        BY <1>0 DEF Request
      <4> QED
        BY <2>new, <2>3, <4>1, AppendFacts
    <3>3. /\ req' \in Request /\ req'.ops = t /\ req'.status = req.status /\ req'.target = req.target
          /\ req'.rev = req.rev /\ req'.items = req.items /\ req'.batches = req.batches
      BY <1>0, <2>2, <3>2 DEF Request
    <3> QED
      BY <3>1, <3>3, <2>new, <2>3, <2>4, <2>5, AdmitFacts
  <2>7. owner' = e /\ tools' = [tools EXCEPT ![d].at = "running", ![d].op = e]
    BY <1>4, <2>6
  <2>8. /\ tools' \in [Batches -> Worker] /\ tools'[d].at = "running" /\ tools'[d].op = e
        /\ tools'[d].step = tools[d].step /\ \A c \in Batches : c # d => tools'[c] = tools[c]
    <3>1. PICK v \in Worker : v = tools[d]
      BY <1>0
    <3>2. PICK w : w = [[v EXCEPT !.at = "running"] EXCEPT !.op = e]
      OBVIOUS
    <3>3. w \in Worker /\ w.at = "running" /\ w.op = e /\ w.step = v.step
      BY <2>6, <3>2 DEF Worker, Places, Working
    <3>4. tools' = [tools EXCEPT ![d] = w]
      BY <1>0, <2>7, <3>1, <3>2
    <3> QED
      BY ONLY <1>0, <3>1, <3>3, <3>4
  <2>9. ProcessOK'
    BY <1>1, <2>2, <2>6, <2>7, <2>8 DEF IInv, ProcessOK, Worker, runtime, ghosts
  <2>10. LeaseOK'
    <3>1. \A l \in leases : Leased(l) /\ l.batch = d /\ d # 0
      BY <1>2, Facts DEF IInv, LeaseOK
    <3> QED
      BY <1>1, <2>6, <3>1 DEF IInv, LeaseOK, Leased
  <2>11. StepOK'
    <3> SUFFICES ASSUME NEW c \in Batches PROVE StepOf(c)'
      BY DEF StepOK
    <3>1. StepOf(c) /\ receipts' = receipts
      BY <1>1, Facts
    <3>2. CASE c = d
      BY <1>1, <2>6, <2>8, <3>1, <3>2 DEF StepOf, Active, Working
    <3>3. CASE c # d
      BY <2>6, <2>8, <3>1, <3>3 DEF StepOf
    <3> QED
      BY <3>2, <3>3
  <2>12. jobs[e] = "none" /\ e \notin bound
    BY <2>6, Facts DEF JobOf
  <2>13. ToolOK'
    <3> SUFFICES ASSUME NEW c \in Batches PROVE WorkerOf(c)'
      BY DEF ToolOK
    <3>1. CASE c = d
      BY <1>1, <2>3, <2>jobless, <2>6, <2>7, <2>8, <2>12, <3>1 DEF WorkerOf, runtime, ghosts
    <3>2. CASE c # d
      <4>1. WorkerOf(c) /\ tools'[c] = tools[c]
        BY <2>8, <3>2, Facts
      <4>2. tools[c].at \in Working => tools[c].at \notin {"running", "committed", "refused", "submitted"}
        BY <1>1, <4>1, Facts DEF WorkerOf
      <4> QED
        BY <1>1, <2>6, <4>1, <4>2 DEF WorkerOf, runtime, ghosts
    <3> QED
      BY <3>1, <3>2
  <2>14. JobOK'
    <3>1. ASSUME NEW f \in Ops PROVE JobOf(f)'
      <4>1. JobOf(f) /\ jobs[f] \notin Living
        BY <1>1, Facts DEF JobOf
      <4> QED
        BY <1>1, <2>6, <4>1 DEF JobOf, runtime
    <3> QED
      BY <1>1, <2>6, <3>1 DEF IInv, JobOK, runtime
  <2> QED
    BY <1>1, <2>6, <2>9, <2>10, <2>11, <2>13, <2>14 DEF IInv, ghosts
<1> QED
  BY <1>3, <1>4 DEF Admit

-----------------------------------------------------------------------------
(* Jobs, their results, and the user's answers. *)

JobStates == {"none", "queued", "running", "cancelling"} \cup Ended

\* Jobs change and results are delivered; the workers stay where they are.
LEMMA JobsStep ==
  ASSUME IInv, ReqInv(req, applied)', Keeps(req, req', {}),
         UNCHANGED <<leases, tools, interrupted, receipts>>,
         owner' \in {0} \cup Ops, jobs' \in [Ops -> JobStates],
         heard' \subseteq Ops, bound' \subseteq bound, unsaved' \subseteq bound',
         notice' \in BOOLEAN, faults' \in Nat, crashes' \in Nat,
         \A d \in Batches : WorkerOf(d)', \A f \in Ops : JobOf(f)'
  PROVE  IInv'
<1>1. ProcessOK'
  BY DEF IInv, ProcessOK, JobStates
<1>2. LeaseOK'
  BY Facts, LeaseKept DEF IInv
<1>3. StepOK'
  <2> SUFFICES ASSUME NEW d \in Batches PROVE StepOf(d)'
    BY DEF StepOK
  <2>1. StepOf(d)
    BY Facts
  <2> QED
    BY <2>1, StepKept
<1>4. JobOK'
  <2>1. /\ bound' \subseteq DOMAIN req'.ops /\ \A e \in bound' : HasJob(req'.ops[e])
        /\ \A x \in receipts' : x.batch \in DOMAIN req'.batches
    BY DEF IInv, JobOK, Keeps
  <2> QED
    BY <2>1 DEF JobOK
<1> QED
  BY <1>1, <1>2, <1>3, <1>4 DEF IInv, ToolOK

\* A step of one operation's job disturbs no other operation.
LEMMA JobStep ==
  ASSUME IInv, NEW e \in DOMAIN req.ops, ReqInv(req, applied)', Keeps(req, req', {}),
         \A f \in DOMAIN req.ops : f # e => req'.ops[f] = req.ops[f],
         UNCHANGED <<leases, tools, interrupted, receipts>>,
         owner' \in {owner, IF owner = e THEN 0 ELSE owner},
         jobs' \in [Ops -> JobStates], \A f \in Ops : f # e => jobs'[f] = jobs[f],
         heard' \subseteq Ops, bound' \subseteq bound, unsaved' \subseteq bound',
         \A f \in unsaved' : f \in unsaved \/ f = e,
         applied \subseteq applied', notice' \in BOOLEAN, faults' \in Nat, crashes' \in Nat,
         \A d \in Batches : tools[d].at \in Working /\ tools[d].op = e => WorkerOf(d)',
         JobOf(e)'
  PROVE  IInv'
<1>1. ASSUME NEW d \in Batches PROVE WorkerOf(d)'
  <2>1. WorkerOf(d) /\ tools'[d] = tools[d]
    BY Facts
  <2>2. CASE tools[d].at \notin Working \/ tools[d].op = e
    BY <2>1, <2>2 DEF WorkerOf
  <2>3. CASE tools[d].at \in Working /\ tools[d].op # e
    <3>1. tools[d].op \in DOMAIN req.ops /\ tools[d].op \in Ops /\ req.ops[tools[d].op].batch = d
      BY <2>1, <2>3, Facts DEF WorkerOf
    <3>2. /\ tools[d].op \in DOMAIN req'.ops /\ req'.ops[tools[d].op].batch = d
          /\ req'.ops[tools[d].op] = req.ops[tools[d].op]
          /\ jobs'[tools[d].op] = jobs[tools[d].op]
      BY <2>3, <3>1 DEF Keeps
    <3>3. tools[d].at \in {"running", "committed", "refused", "submitted"} => owner' = owner
      BY <2>1, <2>3 DEF WorkerOf
    <3> QED
      BY <2>1, <2>3, <3>1, <3>2, <3>3 DEF WorkerOf
  <2> QED
    BY <2>2, <2>3
<1>2. ASSUME NEW f \in Ops, f # e PROVE JobOf(f)'
  <2>1. JobOf(f) /\ jobs'[f] = jobs[f]
    BY <1>2, Facts
  <2>2. f \in DOMAIN req.ops => f \in DOMAIN req'.ops /\ req'.ops[f] = req.ops[f]
    BY <1>2 DEF Keeps
  <2>3. jobs[f] \in Living => owner' = owner /\ f \in DOMAIN req.ops
    BY <1>2, <2>1 DEF JobOf, Living
  <2> QED
    BY <1>2, <2>1, <2>2, <2>3 DEF JobOf
<1>3. owner' \in {0} \cup Ops
  BY DEF IInv, ProcessOK
<1> QED
  BY <1>1, <1>2, <1>3, JobsStep

\* No worker waits for an operation whose job has started.
LEMMA StartedAlone ==
  ASSUME IInv, NEW e, jobs[e] \in {"running", "cancelling", "completed"}, NEW d \in Batches,
         tools[d].at \in Working
  PROVE  tools[d].op # e
BY Facts DEF WorkerOf, Working

LEMMA JobCommitInv ==
  ASSUME IInv, NEW e \in DOMAIN req.ops, JobCommit(e)
  PROVE  IInv' /\ Final(req, req')
<1>1. /\ jobs[e] = "running" /\ MayWrite(e) /\ applied' = applied \cup {e}
      /\ UNCHANGED <<worker, runtime, notice, crashes>>
  BY DEF JobCommit
<1>2. /\ e \in Ops /\ req.ops[e] \in Op /\ JobOf(e) /\ ReqInv(req, applied)
      /\ applied \cup {e} \subseteq DOMAIN req.ops
  BY Facts
<1>3. req.ops[e].status \in {"bound", "running"} /\ owner = e /\ e \in OpenOps(req)
  BY <1>1, <1>2 DEF JobOf, Living, OpenOps, UnsettledOps
<1>4. /\ ReqInv(req', applied') /\ Keeps(req, req', {}) /\ Final(req, req') /\ faults' \in Nat
      /\ req'.ops[e].status = req.ops[e].status
      /\ \A f \in DOMAIN req.ops : f # e => req'.ops[f] = req.ops[f]
  <2>1. CASE Save([req EXCEPT !.ops[e].receipt = "commit"])
    <3>1. PICK op : op = [req.ops[e] EXCEPT !.receipt = "commit"]
      OBVIOUS
    <3>2. /\ op \in Op /\ op.item = req.ops[e].item /\ op.rev = req.ops[e].rev
          /\ op.batch = req.ops[e].batch /\ op.status = req.ops[e].status
          /\ (HasJob(op) <=> HasJob(req.ops[e]))
      BY <1>2, <3>1 DEF Op, HasJob
    <3>3. req' = [req EXCEPT !.ops[e] = op] /\ faults' = faults
      BY <2>1, <3>1 DEF Save
    <3>4. op.status \in UnsettledOps
      BY <1>3, <3>2 DEF UnsettledOps
    <3>5. /\ ReqInv(req', applied \cup {e}) /\ Keeps(req, req', {}) /\ Final(req, req')
          /\ req'.ops[e] = op /\ \A f \in DOMAIN req.ops : f # e => req'.ops[f] = req.ops[f]
      BY <1>2, <1>3, <3>2, <3>3, <3>4, OpFacts
    <3> QED
      BY <1>1, <3>2, <3>3, <3>5 DEF IInv, ProcessOK
  <2>2. CASE SaveFails
    <3>1. req' = req /\ faults' = faults + 1
      BY <2>2 DEF SaveFails
    <3>2. ReqInv(req, applied \cup {e})
      BY <1>2, MoreDone
    <3>3. faults' \in Nat
      BY <3>1 DEF IInv, ProcessOK
    <3> QED
      BY <1>1, <3>1, <3>2, <3>3, KeepsSame
  <2> QED
    BY <2>1, <2>2 DEF JobCommit
<1>5. \A d \in Batches : ~(tools[d].at \in Working /\ tools[d].op = e)
  BY <1>1, StartedAlone
<1>6. JobOf(e)'
  BY <1>1, <1>2, <1>4 DEF JobOf, runtime, worker, Keeps
<1>7. /\ jobs' \in [Ops -> JobStates] /\ heard' \subseteq Ops /\ unsaved' \subseteq bound'
      /\ notice' \in BOOLEAN /\ crashes' \in Nat /\ applied \subseteq applied'
  BY <1>1 DEF IInv, ProcessOK, JobStates, runtime
<1> QED
  BY <1>1, <1>4, <1>5, <1>6, <1>7, JobStep DEF runtime, worker

LEMMA JobEndInv ==
  ASSUME IInv, NEW e \in DOMAIN req.ops, JobEnd(e)
  PROVE  IInv' /\ Final(req, req')
<1>1. /\ jobs[e] \in {"running", "cancelling"}
      /\ \E end \in Ended : jobs' = [jobs EXCEPT ![e] = end]
      /\ UNCHANGED <<req, worker, heard, bound, unsaved, notice, ghosts, faults>>
  BY DEF JobEnd, Ended
<1>2. e \in Ops /\ JobOf(e) /\ jobs \in [Ops -> JobStates]
  BY Facts DEF IInv, ProcessOK, JobStates
<1>3. PICK end \in Ended : jobs' = [jobs EXCEPT ![e] = end]
  BY <1>1
<1>4. /\ jobs' \in [Ops -> JobStates] /\ jobs'[e] \in Ended
      /\ \A f \in Ops : f # e => jobs'[f] = jobs[f]
  BY <1>2, <1>3 DEF JobStates
<1>5. ReqInv(req, applied)' /\ Keeps(req, req', {}) /\ Final(req, req')
  BY <1>1, SameRequest DEF ghosts
<1>6. \A d \in Batches : ~(tools[d].at \in Working /\ tools[d].op = e)
  BY <1>1, StartedAlone
<1>7. JobOf(e)'
  BY <1>1, <1>4 DEF JobOf, Living, Ended
<1>8. /\ heard' \subseteq Ops /\ unsaved' \subseteq bound' /\ faults' \in Nat
      /\ notice' \in BOOLEAN /\ crashes' \in Nat
  BY <1>1 DEF IInv, ProcessOK, ghosts
<1> QED
  BY <1>1, <1>4, <1>5, <1>6, <1>7, <1>8, JobStep DEF worker, ghosts

\* The result of an ended job reaches the request, and the batch of its operation is judged.
LEMMA ToldInv ==
  ASSUME IInv, NEW e \in bound, jobs[e] \in Ended, Told(e), heard' \subseteq Ops,
         UNCHANGED <<leases, tools, interrupted, receipts, jobs, ghosts>>
  PROVE  IInv' /\ Final(req, req')
<1>0. e \in DOMAIN req.ops /\ e \in Ops /\ JobOf(e) /\ ReqInv(req, applied) /\ HasJob(req.ops[e])
  BY Facts
<1>1. PICK told : told = RecordOutcome(req, e, Verdict(e))
  OBVIOUS
<1>2. /\ Verdict(e) \in SettledOps \cup {"unknown"}
      /\ Verdict(e) = "succeeded" => Rests(req.ops[e], e, applied)
  <2>1. req.ops[e].receipt = "commit" => e \in applied
    BY <1>0 DEF ReqInv, Base, OpsOK
  <2> QED
    BY <1>0, <2>1 DEF Verdict, Ended, SettledOps, Rests
<1>3. Base(req, applied)
  BY <1>0 DEF ReqInv
<1>4. /\ Base(told, applied) /\ Steady(req, told, {}) /\ Final(req, told)
      /\ \A f \in DOMAIN req.ops : f # e => told.ops[f] = req.ops[f]
  BY <1>0, <1>1, <1>2, <1>3, RecordOutcomeFacts
<1>5. /\ req' = ReconcileBatches(told) /\ faults' = faults
      /\ bound' = bound \ {e} /\ unsaved' = unsaved \ {e} /\ notice' = TRUE
      /\ owner' \in {owner, IF owner = e THEN 0 ELSE owner}
  BY <1>1 DEF Told, Deliver, Save, Release
<1>6. ReqInv(req', applied) /\ Steady(told, req', {}) /\ Final(told, req') /\ req'.ops = told.ops
  BY <1>4, <1>5, ReconcileFacts
<1>7. Keeps(req, req', {}) /\ Final(req, req')
  <2>1. Steady(req, req', {})
    BY <1>4, <1>6, SteadyCompose
  <2>2. Final(req, req')
    BY <1>4, <1>6, FinalCompose
  <2> QED
    BY <2>1, <2>2, SteadyKeeps
<1>8. \A f \in DOMAIN req.ops : f # e => req'.ops[f] = req.ops[f]
  BY <1>4, <1>6
<1>9. ASSUME NEW d \in Batches, tools[d].at \in Working, tools[d].op = e
      PROVE  WorkerOf(d)'
  <2>1. WorkerOf(d) /\ tools'[d] = tools[d] /\ tools[d].at = "bound"
    BY <1>9, Facts DEF WorkerOf
  <2>2. e \in DOMAIN req'.ops /\ req'.ops[e].batch = req.ops[e].batch /\ jobs'[e] = jobs[e]
    BY <1>0, <1>7 DEF Keeps
  <2> QED
    BY <1>9, <2>1, <2>2 DEF WorkerOf
<1>10. JobOf(e)'
  BY <1>0, <1>5, <1>7 DEF JobOf, Keeps, Living, Ended
<1>11. /\ jobs' \in [Ops -> JobStates] /\ bound' \subseteq bound /\ unsaved' \subseteq bound'
       /\ faults' \in Nat /\ crashes' \in Nat /\ notice' \in BOOLEAN /\ applied' = applied
       /\ \A f \in unsaved' : f \in unsaved
  BY <1>5 DEF IInv, ProcessOK, JobStates, ghosts
<1> QED
  BY <1>0, <1>5, <1>6, <1>7, <1>8, <1>9, <1>10, <1>11, JobStep

LEMMA HearInv ==
  ASSUME IInv, NEW e \in DOMAIN req.ops, Hear(e)
  PROVE  IInv' /\ Final(req, req')
<1>0. e \in Ops /\ JobOf(e)
  BY Facts
<1>1. /\ jobs[e] \in Ended /\ heard' \subseteq Ops
      /\ UNCHANGED <<leases, tools, interrupted, receipts, jobs, ghosts>>
  BY <1>0 DEF Hear, IInv, ProcessOK
<1>2. CASE e \in bound /\ Told(e)
  BY <1>1, <1>2, ToldInv
<1>3. CASE /\ UNCHANGED <<req, bound, owner, notice>> /\ faults' \in Nat
           /\ unsaved' \subseteq unsaved \cup ({e} \cap bound)
  <2>1. ReqInv(req, applied)' /\ Keeps(req, req', {}) /\ Final(req, req')
    BY <1>1, <1>3, SameRequest DEF ghosts
  <2>2. \A d \in Batches : WorkerOf(d)'
    BY <1>1, <1>3, Facts DEF WorkerOf, ghosts
  <2>3. JobOf(e)'
    BY <1>0, <1>1, <1>3 DEF JobOf, Living, Ended
  <2>4. /\ jobs' \in [Ops -> JobStates] /\ unsaved' \subseteq bound' /\ crashes' \in Nat
        /\ notice' \in BOOLEAN
    BY <1>1, <1>3 DEF IInv, ProcessOK, JobStates, ghosts
  <2> QED
    BY <1>1, <1>3, <2>1, <2>2, <2>3, <2>4, JobStep DEF ghosts
<1>4. faults \in Nat
  BY DEF IInv, ProcessOK
<1> QED
  BY <1>2, <1>3, <1>4 DEF Hear, SaveFails

LEMMA RetryResultInv ==
  ASSUME IInv, NEW e \in unsaved, RetryResult(e)
  PROVE  IInv' /\ Final(req, req')
<1>1. e \in bound /\ e \in Ops /\ JobOf(e)
  BY Facts DEF IInv, ProcessOK
<1>2. jobs[e] \in Ended
  BY <1>1 DEF JobOf
<1>3. heard' \subseteq Ops
  BY DEF RetryResult, IInv, ProcessOK
<1> QED
  BY <1>1, <1>2, <1>3, ToldInv DEF RetryResult

\* Cancelling never lets a job live that did not, and an ended job stays as it ended.
LEMMA StoppedFacts ==
  ASSUME NEW j \in JobStates
  PROVE  /\ Stopped(j) \in JobStates
         /\ Stopped(j) \in Living => j \in Living
         /\ Stopped(j) # "none" => j # "none"
         /\ j \in Ended => Stopped(j) \in Ended
         /\ j \in {"queued", "failed"} => Stopped(j) = "failed"
BY DEF Stopped, JobStates, Living, Ended

LEMMA NotifyInv ==
  ASSUME IInv, Notify
  PROVE  IInv' /\ Final(req, req')
<1>1. /\ req' = req /\ notice' = FALSE /\ UNCHANGED <<worker, heard, bound, unsaved, ghosts>>
      /\ faults' \in Nat
  BY DEF Notify, SaveFails, IInv, ProcessOK
<1>2. jobs \in [Ops -> JobStates]
  BY DEF IInv, ProcessOK, JobStates
<1>3. /\ jobs' \in [Ops -> JobStates]
      /\ \A f \in Ops : jobs'[f] = jobs[f] \/ (f \in bound /\ jobs'[f] = Stopped(jobs[f]))
  <2>1. jobs' = [f \in Ops |-> IF f \in bound /\ Stale(req, f) THEN Stopped(jobs[f]) ELSE jobs[f]]
    BY DEF Notify
  <2>2. \A f \in Ops : jobs[f] \in JobStates /\ Stopped(jobs[f]) \in JobStates
    BY <1>2, StoppedFacts
  <2> QED
    BY <2>1, <2>2
<1>4. ReqInv(req, applied)' /\ Keeps(req, req', {}) /\ Final(req, req')
  BY <1>1, SameRequest DEF ghosts
<1>5. ASSUME NEW d \in Batches PROVE WorkerOf(d)'
  <2>1. WorkerOf(d) /\ tools'[d] = tools[d]
    BY <1>1, Facts DEF worker
  <2>2. ASSUME tools[d].at \in Working
        PROVE  \/ jobs'[tools[d].op] = jobs[tools[d].op]
               \/ jobs[tools[d].op] = "queued" /\ jobs'[tools[d].op] = "failed"
    <3>1. tools[d].op \in Ops
      BY <2>1, <2>2, Facts DEF WorkerOf
    <3>2. CASE jobs'[tools[d].op] = jobs[tools[d].op]
      BY <3>2
    <3>3. CASE tools[d].op \in bound /\ jobs'[tools[d].op] = Stopped(jobs[tools[d].op])
      <4>1. jobs[tools[d].op] \in {"queued", "failed"}
        BY <2>1, <2>2, <3>3 DEF WorkerOf
      <4> QED
        BY <3>3, <4>1 DEF Stopped
    <3> QED
      BY <1>3, <3>1, <3>2, <3>3
  <2> QED
    BY <1>1, <2>1, <2>2, WorkerKept DEF WorkerOf, worker, ghosts
<1>6. ASSUME NEW f \in Ops PROVE JobOf(f)'
  <2>1. JobOf(f) /\ jobs[f] \in JobStates
    BY <1>2, Facts
  <2>2. /\ jobs'[f] \in Living => jobs[f] \in Living
        /\ jobs'[f] # "none" => jobs[f] # "none"
        /\ jobs[f] \in Ended => jobs'[f] \in Ended
    BY <1>3, <2>1, StoppedFacts
  <2> QED
    BY <1>1, <2>1, <2>2, JobKept DEF worker
<1>7. /\ owner' \in {0} \cup Ops /\ heard' \subseteq Ops /\ unsaved' \subseteq bound'
      /\ notice' \in BOOLEAN /\ crashes' \in Nat
  BY <1>1 DEF IInv, ProcessOK, worker, ghosts
<1> QED
  BY <1>1, <1>3, <1>4, <1>5, <1>6, <1>7, JobsStep DEF worker

LEMMA CancelJobInv ==
  ASSUME IInv, NEW e \in DOMAIN req.ops, CancelJob(e)
  PROVE  IInv' /\ Final(req, req')
<1>1. /\ jobs[e] \in {"queued", "running"} /\ jobs' = [jobs EXCEPT ![e] = Stopped(@)]
      /\ UNCHANGED <<worker, heard, bound, unsaved, ghosts>>
      /\ notice' \in BOOLEAN
  BY DEF CancelJob, IInv, ProcessOK
<1>2. /\ e \in Ops /\ JobOf(e) /\ jobs \in [Ops -> JobStates] /\ ReqInv(req, applied)
      /\ req.ops[e] \in Op
  BY Facts DEF IInv, ProcessOK, JobStates
<1>3. /\ jobs' \in [Ops -> JobStates] /\ jobs'[e] = Stopped(jobs[e])
      /\ \A f \in Ops : f # e => jobs'[f] = jobs[f]
  <2>1. PICK j \in JobStates : j = Stopped(jobs[e])
    BY <1>2, StoppedFacts
  <2>2. jobs' = [jobs EXCEPT ![e] = j]
    BY <1>1, <2>1
  <2> QED
    BY <1>2, <2>1, <2>2
<1>4. /\ ReqInv(req', applied) /\ Keeps(req, req', {}) /\ Final(req, req') /\ req'.ops = req.ops
      /\ faults' \in Nat
  <2>1. CASE Save(SetItems(req, {req.ops[e].item},
                    LAMBDA item : [item EXCEPT !.waits = @ \cup {"control"}]))
    <3>1. PICK i \in Items : i = req.ops[e].item
      BY <1>2 DEF Op
    <3>2. /\ req' = SetItems(req, {i}, LAMBDA item : [item EXCEPT !.waits = @ \cup {"control"}])
          /\ faults' = faults
      BY <2>1, <3>1 DEF Save
    <3>3. ReqInv(req', applied) /\ Keeps(req, req', {}) /\ Final(req, req') /\ req'.ops = req.ops
      BY <1>2, <3>2, BlockFacts
    <3> QED
      BY <3>2, <3>3 DEF IInv, ProcessOK
  <2>2. CASE req' = req /\ faults' \in {faults, faults + 1}
    BY <1>2, <2>2, KeepsSame DEF IInv, ProcessOK
  <2> QED
    BY <2>1, <2>2 DEF CancelJob, SaveFails
<1>5. ASSUME NEW d \in Batches, tools[d].at \in Working, tools[d].op = e
      PROVE  WorkerOf(d)'
  <2>1. WorkerOf(d) /\ tools'[d] = tools[d]
    BY <1>1, Facts DEF worker
  <2>2. jobs[e] = "queued" /\ jobs'[e] = "failed"
    BY <1>1, <1>3, <1>5, StartedAlone DEF Stopped
  <2>3. e \in DOMAIN req'.ops /\ req'.ops[e] = req.ops[e]
    BY <1>4
  <2> QED
    BY <1>1, <1>5, <2>1, <2>2, <2>3 DEF WorkerOf, worker, ghosts
<1>6. JobOf(e)'
  <2>1. jobs[e] \in Living /\ jobs[e] \notin Ended
    BY <1>1 DEF Living, Ended
  <2> QED
    BY <1>1, <1>2, <1>4, <2>1 DEF JobOf, worker
<1>7. /\ heard' \subseteq Ops /\ unsaved' \subseteq bound' /\ crashes' \in Nat /\ applied' = applied
  BY <1>1 DEF IInv, ProcessOK, ghosts
<1> QED
  BY <1>1, <1>3, <1>4, <1>5, <1>6, <1>7, JobStep DEF worker

\* The user's answer frees the resource; nobody works for the operation any more.
LEMMA SettleInv ==
  ASSUME IInv, NEW e \in DOMAIN req.ops, NEW outcome \in SettledOps, Settle(e, outcome)
  PROVE  IInv' /\ Final(req, req')
<1>0. e \in Ops /\ JobOf(e) /\ ReqInv(req, applied)
  BY Facts
<1>1. PICK told : told = RecordOutcome([req EXCEPT !.ops[e].receipt = "attested"], e, outcome)
  OBVIOUS
<1>2. PICK mine : mine = IF Terminal(told) \/ told.rev # told.ops[e].rev THEN {} ELSE {told.ops[e].item}
  OBVIOUS
<1>3. /\ req.ops[e].status = "unknown" /\ jobs[e] \in Ended \cup {"none"}
      /\ req' = Converge(ReconcileBatches(SetItems(told, mine, LAMBDA item :
                  [item EXCEPT !.waits = (@ \ {"unknown"}) \cup {"reconciled"}])))
      /\ faults' = faults /\ owner' = (IF owner = e THEN 0 ELSE owner) /\ notice' = TRUE
      /\ UNCHANGED <<leases, tools, interrupted, receipts, runtime, ghosts>>
  BY <1>1, <1>2 DEF Settle, Save, Release
<1>4. /\ ReqInv(req', applied) /\ Keeps(req, req', {}) /\ Final(req, req')
      /\ \A f \in DOMAIN req.ops : f # e => req'.ops[f] = req.ops[f]
  BY <1>0, <1>1, <1>3, SettleFacts
<1>5. ASSUME NEW d \in Batches, tools[d].at \in Working, tools[d].op = e
      PROVE  WorkerOf(d)'
  <2>1. WorkerOf(d) /\ tools'[d] = tools[d] /\ tools[d].at = "bound"
    BY <1>3, <1>5, Facts DEF WorkerOf, Working
  <2>2. e \in DOMAIN req'.ops /\ req'.ops[e].batch = req.ops[e].batch
    BY <1>4 DEF Keeps
  <2> QED
    BY <1>3, <1>5, <2>1, <2>2 DEF WorkerOf, runtime
<1>6. JobOf(e)'
  BY <1>0, <1>3, <1>4 DEF JobOf, Living, Ended, runtime, Keeps
<1>7. /\ jobs' \in [Ops -> JobStates] /\ heard' \subseteq Ops /\ bound' = bound
      /\ unsaved' \subseteq bound' /\ unsaved' = unsaved /\ jobs' = jobs
      /\ notice' \in BOOLEAN /\ faults' \in Nat /\ crashes' \in Nat /\ applied' = applied
  BY <1>3 DEF IInv, ProcessOK, JobStates, runtime, ghosts
<1> QED
  BY <1>3, <1>4, <1>5, <1>6, <1>7, JobStep

LEMMA CrashInv ==
  ASSUME IInv, Crash
  PROVE  IInv' /\ Final(req, req')
<1>1. /\ req' = Recover(req) /\ faults' = faults /\ crashes' = crashes + 1
      /\ leases' = {} /\ tools' = [d \in Batches |-> Absent] /\ interrupted' = {}
      /\ owner' = 0 /\ receipts' = {} /\ jobs' = [f \in Ops |-> "none"]
      /\ heard' = {} /\ bound' = {} /\ unsaved' = {} /\ notice' = FALSE /\ applied' = applied
  BY DEF Crash, Save
<1>2. ReqInv(req', applied) /\ Final(req, req')
  BY <1>1, Facts, RecoverFacts
<1>3. Absent \in Worker /\ Absent.at = "over"
  BY DEF Absent, Worker, Places
<1>4. tools' \in [Batches -> Worker] /\ \A d \in Batches : tools'[d].at = "over"
  BY <1>1, <1>3
<1>5. ProcessOK'
  <2>1. faults' \in Nat /\ crashes' \in Nat /\ jobs' \in [Ops -> JobStates]
    BY <1>1 DEF IInv, ProcessOK, JobStates
  <2>2. /\ leases' = {} /\ interrupted' = {} /\ owner' = 0 /\ receipts' = {} /\ heard' = {}
        /\ bound' = {} /\ unsaved' = {} /\ notice' = FALSE
    BY <1>1
  <2> QED
    BY <1>4, <2>1, <2>2 DEF ProcessOK, Worker, JobStates
<1>6. LeaseOK'
  BY <1>1 DEF LeaseOK
<1>7. StepOK' /\ ToolOK'
  BY <1>1, <1>4 DEF StepOK, StepOf, ToolOK, WorkerOf, Active, Working
<1>8. JobOK'
  BY <1>1 DEF JobOK, JobOf, Living
<1> QED
  BY <1>1, <1>2, <1>5, <1>6, <1>7, <1>8 DEF IInv

-----------------------------------------------------------------------------
(* The invariant holds, and with it the properties.                        *)

LEMMA ToolInv ==
  ASSUME IInv, NEW d \in DOMAIN req.batches, Tool(d) \/ Interrupt(d)
  PROVE  IInv' /\ Final(req, req')
<1>1. d \in Batches
  BY Facts
<1>2. CASE StartStep(d) \/ RefuseStart(d) \/ Refuse(d) \/ Admit(d)
  BY <1>2, StartStepInv, RefuseInv, AdmitInv
<1>3. CASE Commit(d) \/ After(d) \/ Failed(d)
  BY <1>1, <1>3, CommitInv, AfterInv, FailedInv
<1>4. CASE Submit(d) \/ Associate(d) \/ Bind(d) \/ Launch(d)
  BY <1>1, <1>4, SubmitInv, AssociateInv, BindInv, LaunchInv
<1>5. CASE Finish(d) \/ Interrupt(d)
  BY <1>5, FinishInv, InterruptInv
<1> QED
  BY <1>2, <1>3, <1>4, <1>5 DEF Tool

LEMMA UserInv ==
  ASSUME IInv, User
  PROVE  IInv' /\ Final(req, req')
<1>1. CASE Pause \/ Resume \/ Cancel \/ Amend
  BY <1>1, CommandInv
<1>2. ASSUME NEW e \in DOMAIN req.ops, CancelJob(e) \/ \E outcome \in SettledOps : Settle(e, outcome)
      PROVE  IInv' /\ Final(req, req')
  BY <1>2, CancelJobInv, SettleInv
<1>3. ASSUME NEW d \in DOMAIN req.batches, NEW outcome \in Ended, SettleBatch(d, outcome)
      PROVE  IInv' /\ Final(req, req')
  BY <1>3, SettleBatchInv
<1> QED
  BY <1>1, <1>2, <1>3 DEF User

LEMMA InvStep == IInv /\ [Next]_vars => IInv' /\ Final(req, req')
<1> SUFFICES ASSUME IInv, [Next]_vars PROVE IInv' /\ Final(req, req')
  OBVIOUS
<1>1. CASE TakeTurn \/ Answer \/ EndTurn \/ Handoff \/ BeginBatch
  BY <1>1, TakeTurnInv, AnswerInv, EndTurnInv, BeginBatchInv
<1>2. ASSUME NEW d \in DOMAIN req.batches, Tool(d) \/ Interrupt(d)
      PROVE  IInv' /\ Final(req, req')
  BY <1>2, ToolInv
<1>3. ASSUME NEW e \in DOMAIN req.ops, Job(e)
      PROVE  IInv' /\ Final(req, req')
  BY <1>3, JobCommitInv, JobEndInv, HearInv DEF Job
<1>4. ASSUME NEW e \in unsaved, RetryResult(e)
      PROVE  IInv' /\ Final(req, req')
  BY <1>4, RetryResultInv
<1>5. ASSUME NEW x \in receipts, RetryReceipt(x)
      PROVE  IInv' /\ Final(req, req')
  BY <1>5, RetryReceiptInv
<1>6. CASE Notify \/ User \/ Crash
  BY <1>6, NotifyInv, UserInv, CrashInv
<1>7. CASE UNCHANGED vars
  <2>1. /\ UNCHANGED <<req, leases, tools, interrupted, owner, receipts, jobs, heard, bound,
                       unsaved, notice, applied, faults, crashes>>
    BY <1>7 DEF vars, worker, runtime, ghosts
  <2>2. ReqInv(req, applied)' /\ Keeps(req, req', {}) /\ Final(req, req')
    BY <2>1, SameRequest
  <2>3. ProcessOK' /\ LeaseOK' /\ JobOK'
    BY <2>1 DEF IInv, ProcessOK, LeaseOK, Leased, JobOK, JobOf
  <2>4. StepOK' /\ ToolOK'
    BY <2>1 DEF IInv, StepOK, StepOf, ToolOK, WorkerOf
  <2> QED
    BY <2>2, <2>3, <2>4 DEF IInv
<1> QED
  BY <1>1, <1>2, <1>3, <1>4, <1>5, <1>6, <1>7 DEF Next

LEMMA Invariance == Spec => []IInv
<1>1. IInv /\ [Next]_vars => IInv'
  BY InvStep
<1> QED
  BY <1>1, InitInv, PTL DEF Spec

\* Whatever the user, the jobs and the failures do, the saved request and the state of the
\* process around it keep their types, and there is at most one turn lease
\* (models.py, scheduler.py).
THEOREM TypeCorrect == Spec => []TypeOK
<1>1. IInv => TypeOK
  BY InvTypeOK
<1> QED
  BY <1>1, Invariance, PTL

\* An operation for which a tool or a job may still write is open and holds the resource.
LEMMA AtWorkOpen ==
  ASSUME IInv, NEW e \in Ops, AtWork(e)
  PROVE  e \in OpenOps(req) /\ owner = e
<1>1. CASE \E d \in Batches : /\ tools[d].op = e
                              /\ tools[d].at \in {"running", "committed", "refused"}
  <2>1. PICK d \in Batches : tools[d].op = e /\ tools[d].at \in {"running", "committed", "refused"}
    BY <1>1
  <2>2. e \in DOMAIN req.ops /\ req.ops[e].status = "running" /\ owner = e
    BY <2>1, Facts DEF WorkerOf, Working
  <2> QED
    BY <2>2 DEF OpenOps, UnsettledOps
<1>2. CASE jobs[e] \in Living
  <2>1. JobOf(e) /\ jobs[e] # "none"
    BY <1>2, Facts DEF Living
  <2> QED
    BY <1>2, <2>1 DEF JobOf, OpenOps, UnsettledOps
<1> QED
  BY <1>1, <1>2 DEF AtWork, Living

\* Two operations never write side by side: whatever is paused, amended, stopped, cancelled
\* or handed over, the resource is freed only when the tool has returned or its job has ended,
\* when the user has settled the outcome, or with the process
\* (resource_admission.py, task_events.py, reconciliation.py).
THEOREM WorkAlwaysOwns == Spec => []WorkOwnsResource
<1>1. IInv => WorkOwnsResource
  BY AtWorkOpen DEF WorkOwnsResource
<1> QED
  BY <1>1, Invariance, PTL

\* A request ends only with nothing open or unknown and nobody left who could still change
\* the project (reducer.py, converge).
THEOREM TerminalAlwaysSettled == Spec => []TerminalMeansSettled
<1>1. IInv => TerminalMeansSettled
  <2> SUFFICES ASSUME IInv, Terminal(req)
               PROVE  ~Unsettled(req) /\ \A e \in Ops : ~AtWork(e)
    BY DEF TerminalMeansSettled
  <2>1. ~Unsettled(req)
    BY DEF IInv, ReqInv, Base, Concluded
  <2>2. ASSUME NEW e \in Ops, AtWork(e) PROVE FALSE
    BY <2>1, <2>2, AtWorkOpen DEF Unsettled
  <2> QED
    BY <2>1, <2>2
<1> QED
  BY <1>1, Invariance, PTL

\* Failed saves, lost receipts, restarts and resumes never admit a write of a second batch
\* for an item and revision that a batch has been admitted to write, whether that write asks
\* the gate or not (scheduler.py, step_execution.py).
THEOREM AlwaysWrittenOnce == Spec => []WrittenOnce
<1>1. IInv => WrittenOnce
  <2> SUFFICES ASSUME IInv, NEW e \in DOMAIN req.ops, NEW f \in DOMAIN req.ops,
                      req.ops[e].item = req.ops[f].item, req.ops[e].rev = req.ops[f].rev
               PROVE  req.ops[e].batch = req.ops[f].batch
    BY DEF WrittenOnce
  <2>1. /\ req \in Request /\ OneWriter(req) /\ OpsOK(req, applied)
    BY DEF IInv, ReqInv, Base
  <2>2. PICK c \in DOMAIN req.batches :
          /\ c = req.ops[e].batch /\ e \in Leaves(req, c)
          /\ req.batches[c].item = req.ops[e].item /\ req.batches[c].rev = req.ops[e].rev
    BY <2>1 DEF OpsOK, Leaves
  <2>3. PICK d \in DOMAIN req.batches :
          /\ d = req.ops[f].batch /\ f \in Leaves(req, d)
          /\ req.batches[d].item = req.ops[f].item /\ req.batches[d].rev = req.ops[f].rev
    BY <2>1 DEF OpsOK, Leaves
  <2>4. c = d
    BY <2>1, <2>2, <2>3, OnlyWriter
  <2> QED
    BY <2>2, <2>3, <2>4
<1> QED
  BY <1>1, Invariance, PTL

\* An item counts as done only on the evidence of one batch of the current revision whose
\* operations are over and all succeeded: a job by a commit that changed the project, never by
\* its mere end, a tool by its own report, which is all the code asks of it, either by the word
\* of the user (request_execution.py, after; task_events.py; dispatch.py, reconcile_dispatches).
THEOREM SatisfiedAlwaysBacked == Spec => []SatisfiedIsBacked
<1>1. IInv => SatisfiedIsBacked
  <2> SUFFICES ASSUME IInv, NEW i \in Items \ Answers, req.items[i].status = "satisfied"
               PROVE  \E d \in DOMAIN req.batches :
                        /\ req.batches[d].item = i /\ req.batches[d].rev = req.rev
                        /\ Leaves(req, d) # {}
                        /\ \A e \in Leaves(req, d) :
                             req.ops[e].status = "succeeded" /\ Grounded(e) /\ ~AtWork(e)
    BY DEF SatisfiedIsBacked
  <2>1. PICK d \in DOMAIN req.batches :
          /\ req.batches[d].item = i /\ req.batches[d].rev = req.rev /\ Leaves(req, d) # {}
          /\ \A e \in Leaves(req, d) : req.ops[e].status = "succeeded" /\ Rests(req.ops[e], e, applied)
    BY DEF IInv, ReqInv, Base, SatBacked, Backed
  <2>2. \A e \in Leaves(req, d) : Grounded(e)
    BY <2>1 DEF Rests, HasJob, Grounded
  <2>3. ASSUME NEW e \in Leaves(req, d) PROVE ~AtWork(e)
    <3>1. e \in Ops
      BY Facts DEF Leaves
    <3>2. e \notin OpenOps(req)
      BY <2>1 DEF OpenOps, UnsettledOps
    <3> QED
      BY <3>1, <3>2, AtWorkOpen
  <2> QED
    BY <2>1, <2>2, <2>3
<1> QED
  BY <1>1, Invariance, PTL

\* No late result, receipt, attestation or restart changes the verdict on a request that has
\* ended, or on one of its items (reducer.py, admission.py, dispatch.py).
THEOREM TerminalStaysFinal == Spec => TerminalIsFinal
<1>1. IInv /\ [Next]_vars => [Final(req, req')]_vars
  BY InvStep
<1>2. Spec => [][Final(req, req')]_vars
  BY <1>1, Invariance, PTL DEF Spec
<1> QED
  BY <1>2, PTL DEF TerminalIsFinal, Final
=============================================================================
