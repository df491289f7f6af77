--------------------- MODULE AssistantRefinementProofs ---------------------
(***************************************************************************)
(* AssistantRequest implements RequestLifecycle for any items, calls and   *)
(* bounds.  The argument follows AssistantRequestProofs: of every change   *)
(* the code makes to the request as a value it is shown that it proceeds   *)
(* as the promise allows (Proceeds) and keeps a failure in mind (Marked);  *)
(* then every action is mapped to a step of the promise or to a stutter.   *)
(* Besides Marked that needs what a tool or the user has said to be        *)
(* settled (Attested), and what a turn is still free to answer (Covered).  *)
(***************************************************************************)
EXTENDS AssistantRequestRefinement, AssistantRequestProofs

\* A batch that can no longer be good.
Spoilt(r, d) ==
  \/ r.batches[d].status = "failed"
  \/ \E e \in Leaves(r, d) : r.ops[e].status = "failed"

\* A failure of an item stays among its reasons; while the request is open, a batch that
\* has settled has no open operation, and an item that failed after a batch has written
\* for it failed with that batch.
Marked(r) ==
  /\ \A i \in Items :
       /\ r.items[i].status = "failed" => "failed" \in r.items[i].waits
       /\ r.items[i].status = "satisfied" => "failed" \notin r.items[i].waits
       /\ ~Terminal(r) => r.items[i].status # "cancelled"
  /\ r.status = "open" => \A d \in DOMAIN r.batches : r.batches[d].rev = r.rev =>
       /\ r.batches[d].status \notin UnsettledBatches => Leaves(r, d) \cap OpenOps(r) = {}
       /\ Leaves(r, d) # {} /\ "failed" \in r.items[r.batches[d].item].waits => Spoilt(r, d)

\* Verdicts are given to undecided items only.
Given(r, c, to) ==
  \A i \in Items : Shown(c.items[i]) # Shown(r.items[i]) =>
    Shown(r.items[i]) = "none" /\ Shown(c.items[i]) \in to

AllShown(c) == \A i \in Items : Shown(c.items[i]) # "none"

\* What the promise allows between two saves, the writes and what backs them left out.
\* An answer fails only with something it needs.
Proceeds(r, c) ==
  /\ c.rev = r.rev /\ c.target = r.target
  /\ Terminal(r) => c.status = r.status /\ Given(r, c, {})
  /\ r.status = "open" =>
       /\ Given(r, c, {"satisfied", "failed"})
       /\ \A i \in Items \cap Answers : Shown(c.items[i]) = "failed" =>
            Shown(r.items[i]) = "failed" \/ \E k \in Needs[i] : Shown(r.items[k]) # "satisfied"
       /\ \/ c.status = "open"
          \/ c.status = "completed" /\ \A i \in Items : Shown(c.items[i]) = "satisfied"
          \/ c.status = "failed" /\ AllShown(c) /\ \E i \in Items : Shown(c.items[i]) = "failed"
  /\ r.status = "stopping" =>
       \/ c.status = "stopping" /\ Given(r, c, {"failed"})
       \/ c.status = r.target /\ Given(r, c, {"failed", "cancelled"}) /\ AllShown(c)

LEMMA ShownItem ==
  ASSUME NEW item \in Item
  PROVE  /\ Shown(item) \in {"none", "satisfied", "failed", "cancelled"}
         /\ Shown(item) = "satisfied" => item.status = "satisfied" /\ "failed" \notin item.waits
         /\ Shown(item) = "cancelled" => item.status = "cancelled" /\ "failed" \notin item.waits
         /\ Shown(item) = "none" => item.status \in {"pending", "waiting"} /\ "failed" \notin item.waits
         /\ Shown(item) = "failed" => item.status = "failed" \/ "failed" \in item.waits
BY DEF Shown, Item

LEMMA ProceedsSame ==
  ASSUME NEW r, NEW c, c.rev = r.rev, c.target = r.target, c.status = r.status,
         \A i \in Items : Shown(c.items[i]) = Shown(r.items[i]),
         r.status \in {"open", "stopping"} \/ Terminal(r)
  PROVE  Proceeds(r, c)
BY DEF Proceeds, Given, Terminal

\* Two changes in a row.
LEMMA ProceedsCompose ==
  ASSUME NEW r \in Request, StopOK(r), NEW g \in Request, NEW c, Proceeds(r, g), Proceeds(g, c)
  PROVE  Proceeds(r, c)
<1>1. /\ c.rev = r.rev /\ c.target = r.target /\ g.target = r.target
  BY DEF Proceeds
<1>2. Terminal(r) => c.status = r.status /\ Given(r, c, {})
  BY DEF Proceeds, Given, Terminal
<1>3. ASSUME Terminal(g)
      PROVE  c.status = g.status /\ \A i \in Items : Shown(c.items[i]) = Shown(g.items[i])
  BY <1>3 DEF Proceeds, Given
<1>4. Terminal(g) <=> g.status \notin {"open", "stopping"}
  BY DEF Terminal
<1>5. ASSUME r.status = "open"
      PROVE  /\ Given(r, c, {"satisfied", "failed"})
             /\ \A i \in Items \cap Answers : Shown(c.items[i]) = "failed" =>
                  Shown(r.items[i]) = "failed" \/ \E k \in Needs[i] : Shown(r.items[k]) # "satisfied"
             /\ \/ c.status = "open"
                \/ c.status = "completed" /\ \A i \in Items : Shown(c.items[i]) = "satisfied"
                \/ c.status = "failed" /\ AllShown(c) /\ \E i \in Items : Shown(c.items[i]) = "failed"
  <2>1. CASE g.status = "open"
    <3>1. Given(r, g, {"satisfied", "failed"}) /\ Given(g, c, {"satisfied", "failed"})
      BY <1>5, <2>1 DEF Proceeds
    <3>2. Given(r, c, {"satisfied", "failed"})
      BY <3>1 DEF Given
    <3>3. ASSUME NEW i \in Items \cap Answers, Shown(c.items[i]) = "failed", Shown(r.items[i]) # "failed",
                 \A k \in Needs[i] : Shown(r.items[k]) = "satisfied"
          PROVE  FALSE
      <4>1. \A k \in Needs[i] : k \in Items
        BY RequestAssumption
      <4>2. \A k \in Needs[i] : Shown(g.items[k]) = "satisfied"
        BY <3>1, <3>3, <4>1 DEF Given
      <4>3. Shown(g.items[i]) = "failed"
        BY <2>1, <3>3, <4>2 DEF Proceeds
      <4> QED
        BY <1>5, <3>3, <4>3 DEF Proceeds
    <3> QED
      BY <2>1, <3>2, <3>3 DEF Proceeds
  <2>2. CASE g.status # "open"
    <3>1. Terminal(g)
      BY <1>5, <2>2 DEF Proceeds, Terminal
    <3>2. /\ Given(r, g, {"satisfied", "failed"})
          /\ \A i \in Items \cap Answers : Shown(g.items[i]) = "failed" =>
               Shown(r.items[i]) = "failed" \/ \E k \in Needs[i] : Shown(r.items[k]) # "satisfied"
          /\ \/ g.status = "completed" /\ \A i \in Items : Shown(g.items[i]) = "satisfied"
             \/ g.status = "failed" /\ AllShown(g) /\ \E i \in Items : Shown(g.items[i]) = "failed"
      BY <1>5, <2>2 DEF Proceeds
    <3> QED
      BY <1>3, <3>1, <3>2 DEF Given, AllShown
  <2> QED
    BY <2>1, <2>2
<1>6. ASSUME r.status = "stopping"
      PROVE  \/ c.status = "stopping" /\ Given(r, c, {"failed"})
             \/ c.status = r.target /\ Given(r, c, {"failed", "cancelled"}) /\ AllShown(c)
  <2>1. CASE g.status = "stopping" /\ Given(r, g, {"failed"})
    <3>1. \/ c.status = "stopping" /\ Given(g, c, {"failed"})
          \/ c.status = r.target /\ Given(g, c, {"failed", "cancelled"}) /\ AllShown(c)
      BY <1>1, <2>1 DEF Proceeds
    <3> QED
      BY <2>1, <3>1 DEF Given
  <2>2. CASE g.status = r.target /\ Given(r, g, {"failed", "cancelled"}) /\ AllShown(g)
    <3>1. Terminal(g)
      BY <1>6, <2>2, TerminalStatus DEF StopOK, Terminal
    <3> QED
      BY <1>3, <2>2, <3>1 DEF Given, AllShown
  <2> QED
    BY <1>6, <2>1, <2>2 DEF Proceeds
<1> QED
  BY <1>1, <1>2, <1>5, <1>6 DEF Proceeds

-----------------------------------------------------------------------------
(* Items. *)

LEMMA FailItems ==
  ASSUME NEW r \in Request, NEW I, NEW c, c = Fail(r, I)
  PROVE  /\ c \in Request /\ SameWork(r, c) /\ c.status = r.status
         /\ \A i \in Items : c.items[i] = IF i \in I THEN [status |-> "failed", waits |-> {"failed"}]
                                          ELSE r.items[i]
<1> DEFINE lost == [status |-> "failed", waits |-> {"failed"}]
           f == [i \in Items |-> IF i \in I THEN lost ELSE r.items[i]]
<1>1. c = [r EXCEPT !.items = f]
  BY DEF Fail, SetItems, Request
<1>2. f \in [Items -> Item]
  <2>1. \A i \in Items : r.items[i] \in Item
    BY DEF Request
  <2>2. lost \in Item
    BY DEF Item, Reasons
  <2> HIDE DEF lost
  <2> QED
    BY <2>1, <2>2
<1>3. \A i \in Items : f[i] = IF i \in I THEN lost ELSE r.items[i]
  OBVIOUS
<1> HIDE DEF f
<1>4. c \in Request /\ c.items = f /\ SameWork(r, c) /\ c.status = r.status
  BY <1>1, <1>2, NewItems
<1> QED
  BY <1>3, <1>4

LEMMA SatisfyItems ==
  ASSUME NEW r \in Request, NEW I, NEW c,
         c = [r EXCEPT !.items = [i \in Items |-> IF i \in I THEN [status |-> "satisfied", waits |-> {}]
                                                  ELSE @[i]]]
  PROVE  /\ c \in Request /\ SameWork(r, c) /\ c.status = r.status
         /\ \A i \in Items : c.items[i] = IF i \in I THEN [status |-> "satisfied", waits |-> {}]
                                          ELSE r.items[i]
<1> DEFINE good == [status |-> "satisfied", waits |-> {}]
           f == [i \in Items |-> IF i \in I THEN good ELSE r.items[i]]
<1>1. c = [r EXCEPT !.items = f]
  BY DEF Request
<1>2. f \in [Items -> Item]
  <2>1. \A i \in Items : r.items[i] \in Item
    BY DEF Request
  <2>2. good \in Item
    BY DEF Item, Reasons
  <2> HIDE DEF good
  <2> QED
    BY <2>1, <2>2
<1>3. \A i \in Items : f[i] = IF i \in I THEN good ELSE r.items[i]
  OBVIOUS
<1>0. r \in Request
  OBVIOUS
<1> HIDE DEF f, good
<1>4. c \in Request /\ c.items = f /\ SameWork(r, c) /\ c.status = r.status
  BY ONLY <1>0, <1>1, <1>2, NewItems
<1> USE DEF good
<1> QED
  BY <1>3, <1>4

LEMMA HoldItems ==
  ASSUME NEW r \in Request, NEW I, NEW status \in {"waiting", "failed"}, NEW reason \in Reasons,
         NEW c, c = Hold(r, I, status, reason)
  PROVE  /\ c \in Request /\ SameWork(r, c) /\ c.status = r.status
         /\ \A i \in Items :
              /\ c.items[i].status = IF i \in I THEN status ELSE r.items[i].status
              /\ i \notin I => c.items[i].waits = r.items[i].waits
              /\ "failed" \in c.items[i].waits <=>
                   "failed" \in r.items[i].waits \/ (i \in I /\ reason = "failed")
<1> DEFINE f == [i \in Items |-> IF i \in I THEN [status |-> status,
                                                  waits |-> r.items[i].waits \cup {reason}]
                                 ELSE r.items[i]]
<1>1. c = [r EXCEPT !.items = f]
  BY DEF Hold, SetItems, Request
<1>2. f \in [Items -> Item]
  <2>1. \A i \in Items : r.items[i] \in Item
    BY DEF Request
  <2>2. ASSUME NEW item \in Item
        PROVE  [status |-> status, waits |-> item.waits \cup {reason}] \in Item
    BY DEF Item, Reasons
  <2> QED
    BY <2>1, <2>2
<1>3. \A i \in Items :
        /\ f[i].status = IF i \in I THEN status ELSE r.items[i].status
        /\ i \notin I => f[i].waits = r.items[i].waits
        /\ "failed" \in f[i].waits <=> "failed" \in r.items[i].waits \/ (i \in I /\ reason = "failed")
  <2> SUFFICES ASSUME NEW i \in Items
               PROVE  /\ f[i].status = IF i \in I THEN status ELSE r.items[i].status
                      /\ i \notin I => f[i].waits = r.items[i].waits
                      /\ "failed" \in f[i].waits <=>
                           "failed" \in r.items[i].waits \/ (i \in I /\ reason = "failed")
    OBVIOUS
  <2>1. CASE i \in I
    <3>1. f[i].status = status /\ f[i].waits = r.items[i].waits \cup {reason}
      BY <2>1
    <3> HIDE DEF f
    <3> QED
      BY <2>1, <3>1
  <2>2. CASE i \notin I
    <3>1. f[i] = r.items[i]
      BY <2>2
    <3> HIDE DEF f
    <3> QED
      BY <2>2, <3>1
  <2> QED
    BY <2>1, <2>2
<1> HIDE DEF f
<1>4. c \in Request /\ c.items = f /\ SameWork(r, c) /\ c.status = r.status
  BY <1>1, <1>2, NewItems
<1> QED
  BY <1>3, <1>4

LEMMA StopItems ==
  ASSUME NEW r \in Request, r.target \in Targets, NEW c, c = Stop(r)
  PROVE  /\ c \in Request /\ SameWork(r, c) /\ c.status = r.target
         /\ \A i \in Items :
              /\ c.items[i].status = IF r.items[i].status \in {"satisfied", "failed"}
                                     THEN r.items[i].status ELSE "cancelled"
              /\ c.items[i].waits = r.items[i].waits
<1> DEFINE I == Items \ (Having(r, "satisfied") \cup Having(r, "failed"))
           g == SetItems(r, I, LAMBDA item : [item EXCEPT !.status = "cancelled"])
           f == [i \in Items |-> IF i \in I THEN [r.items[i] EXCEPT !.status = "cancelled"]
                                            ELSE r.items[i]]
<1>0. \A i \in Items : r.items[i] \in Item
  BY DEF Request
<1>1. g = [r EXCEPT !.items = f]
  BY DEF SetItems, Request
<1>2. c = [g EXCEPT !.status = r.target]
  BY DEF Stop
<1>3. /\ f \in [Items -> Item]
      /\ \A i \in Items : /\ f[i].status = IF i \in I THEN "cancelled" ELSE r.items[i].status
                          /\ f[i].waits = r.items[i].waits
  <2> HIDE DEF I
  <2> QED
    BY <1>0 DEF Item
<1>4. \A i \in Items : i \in I <=> r.items[i].status \notin {"satisfied", "failed"}
  BY DEF Having
<1> HIDE DEF f, I, g
<1>5. g \in Request /\ g.items = f /\ SameWork(r, g) /\ g.status = r.status
  BY <1>1, <1>3, NewItems
<1>6. c \in Request /\ SameWork(r, c) /\ c.status = r.target /\ c.items = f
  BY <1>2, <1>5 DEF Request, SameWork
<1> QED
  BY <1>3, <1>4, <1>6

-----------------------------------------------------------------------------
(* Verdicts. *)

\* The same request with other items, none of them failed, satisfied or cancelled anew.
LEMMA SameMarks ==
  ASSUME NEW r \in Request, NEW c \in Request, Marked(r), c.status = r.status, c.rev = r.rev,
         c.target = r.target, c.ops = r.ops, c.batches = r.batches,
         \A i \in Items :
           /\ "failed" \in c.items[i].waits <=> "failed" \in r.items[i].waits
           /\ \/ c.items[i].status = r.items[i].status
              \/ {c.items[i].status, r.items[i].status} \subseteq {"pending", "waiting"}
  PROVE  Marked(c) /\ Proceeds(r, c)
<1>1. \A i \in Items : Shown(c.items[i]) = Shown(r.items[i])
  BY DEF Shown
<1>2. Proceeds(r, c)
  BY <1>1, ProceedsSame, TerminalStatus
<1>3. OpenOps(c) = OpenOps(r) /\ \A d : Leaves(c, d) = Leaves(r, d)
  BY DEF OpenOps, Leaves
<1>4. Terminal(c) <=> Terminal(r)
  BY DEF Terminal
<1>5. \A i \in Items :
        /\ c.items[i].status = "failed" => "failed" \in c.items[i].waits
        /\ c.items[i].status = "satisfied" => "failed" \notin c.items[i].waits
        /\ ~Terminal(c) => c.items[i].status # "cancelled"
  BY <1>4 DEF Marked
<1>6. ASSUME c.status = "open", NEW d \in DOMAIN c.batches, c.batches[d].rev = c.rev
      PROVE  /\ c.batches[d].status \notin UnsettledBatches => Leaves(c, d) \cap OpenOps(c) = {}
             /\ Leaves(c, d) # {} /\ "failed" \in c.items[c.batches[d].item].waits => Spoilt(c, d)
  <2>1. c.batches[d].item \in Items
    BY TypedBatch DEF Batch
  <2>2. Spoilt(c, d) <=> Spoilt(r, d)
    BY <1>3 DEF Spoilt
  <2> QED
    BY <1>3, <1>6, <2>1, <2>2 DEF Marked
<1> QED
  BY <1>2, <1>5, <1>6 DEF Marked

\* Items that depend on a failed one fail; none of them has a batch with writes.
LEMMA DependantsFacts ==
  ASSUME NEW r \in Request, NEW i \in Items, i \in Dependants(r)
  PROVE  /\ r.items[i].status \in {"pending", "waiting"}
         /\ \E k \in Needs[i] : k \in Items /\ r.items[k].status # "satisfied"
<1> DEFINE lost == Having(r, "failed") \cup Having(r, "cancelled")
           idle == Having(r, "pending") \cup Having(r, "waiting")
           waitFor(S) == {k \in idle : Needs[k] \cap S # {}}
           all == waitFor(lost \cup idle)
<1>1. i \in idle /\ \A S \in SUBSET idle : waitFor(lost \cup S) \subseteq S => i \in S
  BY DEF Dependants
<1>2. all \in SUBSET idle
  OBVIOUS
<1>3. waitFor(lost \cup all) \subseteq all
  BY <1>2
<1>4. i \in all
  BY <1>1, <1>2, <1>3
<1>5. PICK k \in Needs[i] : k \in lost \cup idle
  BY <1>4
<1> QED
  BY <1>1, <1>5 DEF Having

LEMMA ConvergePromise ==
  ASSUME NEW r, NEW done, Base(r, done), Marked(r), Decided(r) \/ Unsettled(r) \/ Terminal(r),
         NEW c, c = Converge(r)
  PROVE  /\ Marked(c) /\ Proceeds(r, c)
         /\ r.status = "stopping" =>
              \/ c = r
              \/ c.status = r.target /\ \A i \in Items : Shown(c.items[i]) =
                   IF Shown(r.items[i]) = "none" THEN "cancelled" ELSE Shown(r.items[i])
<1>0. r \in Request /\ StopOK(r)
  BY DEF Base
<1>1. CASE Terminal(r) \/ Unsettled(r)
  <2>1. c = r
    BY <1>1 DEF Converge
  <2> QED
    BY <1>0, <2>1, ProceedsSame, TerminalStatus
<1>2. CASE ~Terminal(r) /\ ~Unsettled(r) /\ r.status = "stopping"
  <2>1. c = Stop(r) /\ r.target \in Targets
    BY <1>0, <1>2 DEF Converge, StopOK
  <2>2. /\ c \in Request /\ SameWork(r, c) /\ c.status = r.target
        /\ \A i \in Items :
             /\ c.items[i].status = IF r.items[i].status \in {"satisfied", "failed"}
                                    THEN r.items[i].status ELSE "cancelled"
             /\ c.items[i].waits = r.items[i].waits
    BY <1>0, <2>1, StopItems
  <2>3. Terminal(c) /\ c.status \notin {"open", "stopping"}
    BY <2>1, <2>2, TerminalStatus, <1>0 DEF Terminal
  <2>4. \A i \in Items : r.items[i] \in Item
    BY <1>0, Typed
  <2>5. \A i \in Items : Shown(c.items[i]) =
          IF Shown(r.items[i]) = "none" THEN "cancelled" ELSE Shown(r.items[i])
    BY <2>2, <2>4 DEF Shown, Item
  <2>6. Marked(c)
    BY <2>2, <2>3 DEF Marked
  <2>7. Given(r, c, {"failed", "cancelled"}) /\ AllShown(c)
    BY <2>5 DEF Given, AllShown
  <2>8. Proceeds(r, c)
    BY <1>2, <2>2, <2>7 DEF Proceeds, SameWork, Terminal
  <2> QED
    BY <2>2, <2>5, <2>6, <2>8
<1>3. CASE ~Terminal(r) /\ ~Unsettled(r) /\ r.status # "stopping"
  <2>1. r.status = "open" /\ Decided(r)
    BY <1>3 DEF Terminal
  <2> DEFINE g == Fail(r, Dependants(r))
  <2>2. c = Conclude(g)
    BY <1>3 DEF Converge
  <2>3. /\ g \in Request /\ SameWork(r, g) /\ g.status = "open"
        /\ \A i \in Items : g.items[i] = IF i \in Dependants(r)
                                         THEN [status |-> "failed", waits |-> {"failed"}]
                                         ELSE r.items[i]
    <3> DEFINE I == Dependants(r)
    <3>1. g = Fail(r, I)
      OBVIOUS
    <3> HIDE DEF I, g
    <3>2. /\ g \in Request /\ SameWork(r, g) /\ g.status = r.status
          /\ \A i \in Items : g.items[i] = IF i \in I THEN [status |-> "failed", waits |-> {"failed"}]
                                           ELSE r.items[i]
      BY <1>0, <3>1, FailItems
    <3> QED
      BY <2>1, <3>2 DEF I
  <2> HIDE DEF g
  <2>4. /\ c.items = g.items /\ SameWork(g, c)
        /\ \/ c.status = "open"
           \/ c.status = "completed" /\ Having(g, "satisfied") = Items
           \/ /\ c.status = "failed" /\ Having(g, "failed") # {}
              /\ Having(g, "satisfied") \cup Having(g, "failed") \cup Having(g, "cancelled") = Items
    BY <2>2, <2>3 DEF Conclude, SameWork, Request
  <2>5. \A i \in Items : i \in Dependants(r) =>
          /\ r.items[i].status \in {"pending", "waiting"}
          /\ \E k \in Needs[i] : k \in Items /\ r.items[k].status # "satisfied"
    BY <1>0, DependantsFacts
  <2>6. \A i \in Items : r.items[i] \in Item
    BY <1>0, Typed
  <2>7. \A i \in Items :
          \/ g.items[i] = r.items[i] /\ i \notin Dependants(r)
          \/ /\ i \in Dependants(r) /\ Shown(g.items[i]) = "failed"
             /\ Shown(r.items[i]) \in {"none", "failed"}
    BY <2>3, <2>5, <2>6 DEF Shown
  <2>8. \A i \in Items :
          /\ g.items[i].status = "failed" => "failed" \in g.items[i].waits
          /\ g.items[i].status = "satisfied" => "failed" \notin g.items[i].waits
          /\ g.items[i].status # "cancelled"
    BY <1>3, <2>3 DEF Marked
  <2>9. Given(r, c, {"satisfied", "failed"})
    BY <2>4, <2>7 DEF Given
  <2>10. ASSUME NEW i \in Items \cap Answers, Shown(c.items[i]) = "failed", Shown(r.items[i]) # "failed"
         PROVE  \E k \in Needs[i] : Shown(r.items[k]) # "satisfied"
    <3>1. i \in Dependants(r)
      BY <2>4, <2>7, <2>10
    <3>2. PICK k \in Needs[i] : k \in Items /\ r.items[k].status # "satisfied"
      BY <2>5, <3>1
    <3> QED
      BY <2>6, <3>2, ShownItem
  <2>11. ASSUME c.status = "completed", NEW i \in Items PROVE Shown(c.items[i]) = "satisfied"
    <3>1. g.items[i].status = "satisfied"
      BY <2>4, <2>11 DEF Having
    <3> QED
      BY <2>4, <2>8, <3>1 DEF Shown
  <2>12. ASSUME c.status = "failed"
         PROVE  AllShown(c) /\ \E i \in Items : Shown(c.items[i]) = "failed"
    <3>1. /\ Having(g, "failed") # {}
          /\ Having(g, "satisfied") \cup Having(g, "failed") \cup Having(g, "cancelled") = Items
      BY <2>4, <2>12
    <3>2. \A i \in Items : g.items[i].status \in {"satisfied", "failed", "cancelled"}
      BY <3>1 DEF Having
    <3>3. AllShown(c)
      BY <2>4, <3>2 DEF AllShown, Shown
    <3>4. PICK i \in Items : g.items[i].status = "failed"
      BY <3>1 DEF Having
    <3>5. Shown(c.items[i]) = "failed"
      BY <2>4, <3>4 DEF Shown
    <3> QED
      BY <3>3, <3>5
  <2>13. c.rev = r.rev /\ c.target = r.target
    BY <2>3, <2>4 DEF SameWork
  <2>14. Proceeds(r, c)
    BY <2>1, <2>4, <2>9, <2>10, <2>11, <2>12, <2>13, <1>3 DEF Proceeds
  <2>15. ASSUME NEW d \in DOMAIN c.batches, c.batches[d].rev = c.rev
         PROVE  /\ c.batches[d].status \notin UnsettledBatches => Leaves(c, d) \cap OpenOps(c) = {}
                /\ Leaves(c, d) # {} /\ "failed" \in c.items[c.batches[d].item].waits => Spoilt(c, d)
    <3>1. /\ c.ops = r.ops /\ c.batches = r.batches /\ c.rev = r.rev
      BY <2>3, <2>4 DEF SameWork
    <3>2. /\ OpenOps(c) = OpenOps(r) /\ Leaves(c, d) = Leaves(r, d)
          /\ Spoilt(c, d) <=> Spoilt(r, d)
      BY <3>1 DEF OpenOps, Leaves, Spoilt
    <3>3. d \in DOMAIN r.batches /\ r.batches[d].item \in Items
      BY <1>0, <3>1, <2>15, TypedBatch DEF Batch
    <3>4. c.batches[d].status \notin UnsettledBatches => Leaves(c, d) \cap OpenOps(c) = {}
      BY <2>1, <2>15, <3>1, <3>2, <3>3 DEF Marked
    <3>5. ASSUME Leaves(c, d) # {}, "failed" \in c.items[c.batches[d].item].waits
          PROVE  Spoilt(c, d)
      <4>1. r.items[r.batches[d].item].status \in {"satisfied", "failed"}
        BY <1>3, <2>1, <2>15, <3>1, <3>2, <3>3, <3>5 DEF Decided, Unsettled
      <4>2. r.batches[d].item \notin Dependants(r)
        BY <2>5, <3>3, <4>1
      <4>3. "failed" \in r.items[r.batches[d].item].waits
        BY <2>3, <2>4, <3>1, <3>3, <3>5, <4>2
      <4> QED
        BY <2>1, <2>15, <3>1, <3>2, <3>3, <3>5, <4>3 DEF Marked
    <3> QED
      BY <3>4, <3>5
  <2>16. Marked(c)
    BY <2>4, <2>8, <2>15 DEF Marked
  <2> QED
    BY <1>3, <2>14, <2>16
<1> QED
  BY <1>1, <1>2, <1>3

\* The batch behind a satisfied item is the only one that has written for it.
LEMMA BackedBatch ==
  ASSUME NEW r, NEW done, Base(r, done), NEW d \in DOMAIN r.batches, NEW i, i = r.batches[d].item,
         r.batches[d].rev = r.rev, Leaves(r, d) # {}, r.items[i].status = "satisfied"
  PROVE  /\ r.batches[d].status = "completed"
         /\ \A e \in Leaves(r, d) : r.ops[e].status = "succeeded"
<1>1. r \in Request /\ OneWriter(r) /\ SatBacked(r, done)
  BY DEF Base
<1>2. i \in Items \ Answers
  BY <1>1, TypedBatch DEF Batch
<1>3. PICK k \in DOMAIN r.batches :
        /\ r.batches[k].item = i /\ r.batches[k].rev = r.rev
        /\ r.batches[k].status = "completed" /\ Leaves(r, k) # {}
        /\ \A e \in Leaves(r, k) : r.ops[e].status = "succeeded"
  BY <1>1, <1>2 DEF SatBacked, Backed
<1>4. k = d
  BY <1>1, <1>3, OnlyWriter
<1> QED
  BY <1>3, <1>4

LEMMA JudgePromise ==
  ASSUME NEW r, NEW done, Base(r, done), Marked(r), NEW c, c = Judge(r)
  PROVE  Marked(c) /\ Proceeds(r, c)
<1>0. r \in Request /\ StopOK(r) /\ OneWriter(r)
  BY DEF Base
<1>1. CASE Terminal(r)
  <2>1. c = r
    BY <1>1 DEF Judge
  <2> QED
    BY <1>1, <2>1, ProceedsSame
<1>2. CASE ~Terminal(r)
  <2> DEFINE decided == {d \in DOMAIN r.batches :
                    /\ r.batches[d].status \notin UnsettledBatches
                    /\ r.batches[d].rev = r.rev
                    /\ Leaves(r, d) # {} /\ Leaves(r, d) \cap OpenOps(r) = {}}
             good == {d \in decided : r.batches[d].status = "completed" /\ AllGood(r, d)}
             itemsOf(D) == {r.batches[d].item : d \in D}
             lost == itemsOf(decided \ good)
             won == itemsOf(good)
             f == Fail(r, lost)
             g == IF f.status = "open"
                  THEN SetItems(f, won, LAMBDA item : [status |-> "satisfied", waits |-> {}]) ELSE f
  <2>1. c = Converge(g)
    BY <1>2 DEF Judge, Satisfy
  <2>2. \A d \in DOMAIN r.batches : r.batches[d] \in Batch
    BY <1>0, TypedBatch
  <2>3. \A i \in Items : r.items[i] \in Item
    BY <1>0, Typed
  <2>4. ASSUME NEW d \in decided
        PROVE  /\ d \in DOMAIN r.batches /\ r.batches[d].rev = r.rev /\ Leaves(r, d) # {}
               /\ r.batches[d].item \in Items \ Answers /\ r.batches[d].status \in Ended
               /\ \A e \in Leaves(r, d) : r.ops[e].status \in SettledOps
    <3>1. \A e \in Leaves(r, d) : e \in DOMAIN r.ops /\ e \notin OpenOps(r)
      BY DEF Leaves
    <3>2. \A e \in Leaves(r, d) : r.ops[e] \in Op /\ r.ops[e].status \notin UnsettledOps
      BY <1>0, <3>1, TypedLeaf DEF OpenOps
    <3>3. \A e \in Leaves(r, d) : r.ops[e].status \in SettledOps
      BY <3>2 DEF Op
    <3> QED
      BY <2>2, <3>3 DEF Batch
  <2>5. ASSUME NEW d \in good
        PROVE  /\ d \in decided /\ r.batches[d].status = "completed"
               /\ \A e \in Leaves(r, d) : r.ops[e].status = "succeeded"
    BY DEF AllGood
  <2>6. ASSUME NEW d \in decided \ good PROVE Spoilt(r, d)
    <3>1. r.batches[d].status = "failed" \/ \E e \in Leaves(r, d) : r.ops[e].status # "succeeded"
      BY <2>4 DEF AllGood, Ended
    <3> QED
      BY <2>4, <3>1 DEF Spoilt, SettledOps
  <2>7. ASSUME NEW d \in decided, NEW k \in decided, r.batches[d].item = r.batches[k].item
        PROVE  d = k
    BY <1>0, <2>4, <2>7, OnlyWriter
  <2>8. \A i : i \in won => \E d \in good : i = r.batches[d].item
    OBVIOUS
  <2>9. \A i : i \in lost => \E d \in decided \ good : i = r.batches[d].item
    OBVIOUS
  <2>10. \A d \in decided : d \in good \/ r.batches[d].item \in lost
    OBVIOUS
  <2>11. \A d \in good : r.batches[d].item \in won
    OBVIOUS
  <2>12. f = Fail(r, lost)
    OBVIOUS
  <2>27. /\ f.status = "open" => g = [f EXCEPT !.items = [i \in Items |->
                                      IF i \in won THEN [status |-> "satisfied", waits |-> {}] ELSE @[i]]]
         /\ f.status # "open" => g = f
    BY DEF SetItems
  <2>13. \A d \in DOMAIN r.batches :
           /\ r.batches[d].status \notin UnsettledBatches /\ r.batches[d].rev = r.rev
           /\ Leaves(r, d) # {} /\ Leaves(r, d) \cap OpenOps(r) = {}
           => d \in decided
    OBVIOUS
  <2> HIDE DEF decided, good, won, lost, f, g, itemsOf
  <2>14. /\ f \in Request /\ SameWork(r, f) /\ f.status = r.status
         /\ \A i \in Items : f.items[i] = IF i \in lost THEN [status |-> "failed", waits |-> {"failed"}]
                                          ELSE r.items[i]
    BY <1>0, <2>12, FailItems
  <2>15. /\ g \in Request /\ SameWork(r, g) /\ g.status = r.status
         /\ \A i \in Items : g.items[i] = IF r.status = "open" /\ i \in won
                                          THEN [status |-> "satisfied", waits |-> {}]
                                          ELSE f.items[i]
    <3>1. CASE r.status = "open"
      <4>1. g = [f EXCEPT !.items = [i \in Items |->
                   IF i \in won THEN [status |-> "satisfied", waits |-> {}] ELSE @[i]]]
        BY <2>14, <2>27, <3>1
      <4>2. /\ g \in Request /\ SameWork(f, g) /\ g.status = f.status
            /\ \A i \in Items : g.items[i] = IF i \in won THEN [status |-> "satisfied", waits |-> {}]
                                             ELSE f.items[i]
        BY <2>14, <4>1, SatisfyItems
      <4> QED
        BY <2>14, <3>1, <4>2 DEF SameWork
    <3>2. CASE r.status # "open"
      BY <2>14, <2>27, <3>2
    <3> QED
      BY <3>1, <3>2
  <2>16. ASSUME NEW i \in Items, i \in lost
         PROVE  /\ i \notin Answers /\ i \notin won
                /\ Shown(r.items[i]) \in {"none", "failed"}
                /\ \A d \in DOMAIN r.batches : r.batches[d].item = i /\ r.batches[d].rev = r.rev
                     /\ Leaves(r, d) # {} => Spoilt(r, d)
    <3>1. PICK d \in decided \ good : i = r.batches[d].item
      BY <2>9, <2>16
    <3>2. i \notin Answers /\ i \notin won
      BY <2>4, <2>5, <2>7, <2>8, <3>1
    <3>3. r.items[i].status # "satisfied"
      <4> SUFFICES ASSUME r.items[i].status = "satisfied" PROVE FALSE
        OBVIOUS
      <4>1. r.batches[d].status = "completed" /\ \A e \in Leaves(r, d) : r.ops[e].status = "succeeded"
        BY <2>4, <3>1, BackedBatch
      <4> QED
        BY <2>6, <3>1, <4>1 DEF Spoilt
    <3>4. Shown(r.items[i]) \in {"none", "failed"}
      BY <1>2, <2>3, <3>3, ShownItem DEF Marked
    <3>5. ASSUME NEW k \in DOMAIN r.batches, r.batches[k].item = i, r.batches[k].rev = r.rev,
                 Leaves(r, k) # {}
          PROVE  Spoilt(r, k)
      <4>1. k = d
        BY <1>0, <2>4, <3>1, <3>5, OnlyWriter
      <4> QED
        BY <2>6, <3>1, <4>1
    <3> QED
      BY <3>2, <3>4, <3>5
  <2>17. ASSUME NEW i \in Items, i \in won, r.status = "open"
         PROVE  /\ i \notin Answers /\ Shown(r.items[i]) \in {"none", "satisfied"}
                /\ Backed(r, done, i)
    <3>1. PICK d \in good : i = r.batches[d].item
      BY <2>8, <2>17
    <3>2. /\ d \in decided /\ r.batches[d].status = "completed"
          /\ \A e \in Leaves(r, d) : r.ops[e].status = "succeeded"
      BY <2>5
    <3>3. ~Spoilt(r, d)
      BY <3>2 DEF Spoilt
    <3>4. "failed" \notin r.items[i].waits
      BY <2>4, <2>17, <3>1, <3>2, <3>3 DEF Marked
    <3>5. Shown(r.items[i]) \in {"none", "satisfied"}
      BY <1>2, <2>3, <3>4, ShownItem DEF Marked
    <3>6. \A e \in Leaves(r, d) : Rests(r.ops[e], e, done)
      BY <3>2 DEF Base, OpsOK, Leaves
    <3>7. Backed(r, done, i)
      BY <2>4, <3>1, <3>2, <3>6 DEF Backed
    <3> QED
      BY <2>4, <3>1, <3>2, <3>5, <3>7
  <2>18. \A i \in Items :
           \/ g.items[i] = r.items[i] /\ i \notin lost
           \/ /\ i \in lost /\ g.items[i] = [status |-> "failed", waits |-> {"failed"}]
              /\ Shown(r.items[i]) \in {"none", "failed"} /\ i \notin Answers
           \/ /\ i \in won /\ g.items[i] = [status |-> "satisfied", waits |-> {}]
              /\ r.status = "open" /\ i \notin Answers
              /\ Shown(r.items[i]) \in {"none", "satisfied"} /\ Backed(r, done, i)
    BY <2>14, <2>15, <2>16, <2>17
  <2>19. \A i \in Items : g.items[i].status = "satisfied" =>
           r.items[i].status = "satisfied" \/ Backed(r, done, i)
    BY <2>18
  <2>20. Verdicts(r, g)
    <3>1. \A i \in Items : r.items[i].status \in {"satisfied", "failed"} =>
            g.items[i].status \in {"satisfied", "failed"}
      BY <2>18
    <3> QED
      BY <1>2, <2>15, <3>1 DEF Verdicts, Terminal
  <2>21. Base(g, done)
    BY <2>19, <2>20, VerdictsBase
  <2>22. Proceeds(r, g)
    <3>1. \A i \in Items : \/ Shown(g.items[i]) = Shown(r.items[i])
                           \/ /\ Shown(r.items[i]) = "none" /\ i \notin Answers
                              /\ \/ Shown(g.items[i]) = "failed"
                                 \/ Shown(g.items[i]) = "satisfied" /\ r.status = "open"
      BY <2>18 DEF Shown
    <3>2. r.status \in {"open", "stopping"} /\ g.rev = r.rev /\ g.target = r.target
      BY <1>2, <2>15 DEF Terminal, SameWork
    <3> QED
      BY <1>2, <2>15, <3>1, <3>2 DEF Proceeds, Given
  <2>23. /\ OpenOps(g) = OpenOps(r) /\ (Unsettled(g) <=> Unsettled(r))
         /\ \A d : Leaves(g, d) = Leaves(r, d)
    BY <2>15, SameUnsettled
  <2>24. Marked(g)
    <3>1. \A i \in Items :
            /\ g.items[i].status = "failed" => "failed" \in g.items[i].waits
            /\ g.items[i].status = "satisfied" => "failed" \notin g.items[i].waits
            /\ g.items[i].status # "cancelled"
      BY <1>2, <2>18 DEF Marked
    <3>2. ASSUME g.status = "open", NEW d \in DOMAIN g.batches, g.batches[d].rev = g.rev
          PROVE  /\ g.batches[d].status \notin UnsettledBatches => Leaves(g, d) \cap OpenOps(g) = {}
                 /\ Leaves(g, d) # {} /\ "failed" \in g.items[g.batches[d].item].waits => Spoilt(g, d)
      <4>1. /\ r.status = "open" /\ d \in DOMAIN r.batches /\ r.batches[d].rev = r.rev
            /\ g.batches = r.batches /\ g.ops = r.ops
        BY <2>15, <3>2 DEF SameWork
      <4>2. r.batches[d].item \in Items
        BY <2>2, <4>1 DEF Batch
      <4>3. Spoilt(g, d) <=> Spoilt(r, d)
        BY <2>23, <4>1 DEF Spoilt
      <4>4. g.batches[d].status \notin UnsettledBatches => Leaves(g, d) \cap OpenOps(g) = {}
        BY <2>23, <4>1 DEF Marked
      <4>5. ASSUME Leaves(r, d) # {}, "failed" \in g.items[r.batches[d].item].waits
            PROVE  Spoilt(r, d)
        <5>1. CASE r.batches[d].item \in lost
          BY <2>16, <4>1, <4>2, <4>5, <5>1
        <5>2. CASE r.batches[d].item \notin lost
          <6>1. g.items[r.batches[d].item] = r.items[r.batches[d].item]
            BY <2>18, <4>2, <4>5, <5>2
          <6> QED
            BY <4>1, <4>5, <6>1 DEF Marked
        <5> QED
          BY <5>1, <5>2
      <4> QED
        BY <2>23, <4>1, <4>3, <4>4, <4>5
    <3> QED
      BY <3>1, <3>2 DEF Marked
  <2>25. Decided(g) \/ Unsettled(g)
    <3> SUFFICES ASSUME g.status = "open", ~Unsettled(g), NEW d \in DOMAIN g.batches,
                        g.batches[d].rev = g.rev, Leaves(g, d) # {}
                 PROVE  g.items[g.batches[d].item].status \in {"satisfied", "failed"}
      BY DEF Decided
    <3>1. /\ r.status = "open" /\ d \in DOMAIN r.batches /\ r.batches[d].rev = r.rev
          /\ g.batches = r.batches /\ Leaves(r, d) # {}
      BY <2>15, <2>23 DEF SameWork
    <3>2. r.batches[d].status \notin UnsettledBatches /\ Leaves(r, d) \cap OpenOps(r) = {}
      BY <2>23, <3>1 DEF Unsettled
    <3>3. d \in decided /\ r.batches[d].item \in Items
      BY <2>4, <2>13, <3>1, <3>2
    <3>4. r.batches[d].item \in won \/ r.batches[d].item \in lost
      BY <2>10, <2>11, <3>3
    <3>5. g.items[r.batches[d].item].status \in {"satisfied", "failed"}
      BY <2>14, <2>15, <3>1, <3>3, <3>4
    <3> QED
      BY <3>1, <3>5
  <2>26. Marked(c) /\ Proceeds(g, c)
    BY <2>1, <2>21, <2>24, <2>25, ConvergePromise
  <2> QED
    BY <1>0, <2>15, <2>22, <2>26, ProceedsCompose
<1> QED
  BY <1>1, <1>2

\* Batches move on; none settles while one of its operations is open.
LEMMA MovesPromise ==
  ASSUME NEW r, NEW done, Base(r, done), Marked(r), NEW c, BatchMoves(r, c),
         r.status = "open" => \A d \in DOMAIN r.batches : r.batches[d].rev = r.rev =>
           \/ c.batches[d].status \in {r.batches[d].status, "unknown"}
           \/ Leaves(r, d) \cap OpenOps(r) = {}
  PROVE  Marked(c) /\ Proceeds(r, c)
<1>0. r \in Request
  BY DEF Base
<1>1. OpenOps(c) = OpenOps(r) /\ \A d : Leaves(c, d) = Leaves(r, d)
  BY BatchMovesBase
<1>2. /\ c.status = r.status /\ c.target = r.target /\ c.rev = r.rev /\ c.items = r.items
      /\ c.ops = r.ops /\ DOMAIN c.batches = DOMAIN r.batches
  BY DEF BatchMoves
<1>3. Proceeds(r, c)
  BY <1>0, <1>2, ProceedsSame, TerminalStatus
<1>4. ASSUME c.status = "open", NEW d \in DOMAIN c.batches, c.batches[d].rev = c.rev
      PROVE  /\ c.batches[d].status \notin UnsettledBatches => Leaves(c, d) \cap OpenOps(c) = {}
             /\ Leaves(c, d) # {} /\ "failed" \in c.items[c.batches[d].item].waits => Spoilt(c, d)
  <2>1. /\ d \in DOMAIN r.batches /\ r.batches[d].rev = r.rev /\ r.status = "open"
        /\ c.batches[d].item = r.batches[d].item
        /\ \/ c.batches[d].status = r.batches[d].status
           \/ r.batches[d].status \in UnsettledBatches
    BY <1>2, <1>4 DEF BatchMoves
  <2>2. Spoilt(r, d) => Spoilt(c, d)
    BY <1>1, <1>2, <2>1 DEF Spoilt, UnsettledBatches
  <2>3. r.batches[d].status \notin UnsettledBatches => Leaves(r, d) \cap OpenOps(r) = {}
    BY <2>1 DEF Marked
  <2>4. Leaves(r, d) # {} /\ "failed" \in r.items[r.batches[d].item].waits => Spoilt(r, d)
    BY <2>1 DEF Marked
  <2> QED
    BY <1>1, <1>2, <2>1, <2>2, <2>3, <2>4 DEF UnsettledBatches
<1>5. Marked(c)
  BY <1>2, <1>4 DEF Marked, Terminal
<1> QED
  BY <1>3, <1>5

LEMMA ReconcilePromise ==
  ASSUME NEW r, NEW done, Base(r, done), Marked(r), NEW c, c = ReconcileBatches(r)
  PROVE  Marked(c) /\ Proceeds(r, c)
<1>0. r \in Request /\ StopOK(r)
  BY DEF Base
<1> DEFINE f == [d \in DOMAIN r.batches |-> Refresh(r, d)]
           g == [r EXCEPT !.batches = f]
<1>1. c = Judge(g)
  BY DEF ReconcileBatches
<1>2. \A d \in DOMAIN r.batches :
        /\ f[d] \in Batch
        /\ f[d].item = r.batches[d].item /\ f[d].rev = r.batches[d].rev
        /\ f[d].steps = r.batches[d].steps
        /\ f[d].status = r.batches[d].status \/ (r.batches[d].status = "running" /\ f[d].status \in Ended)
  BY <1>0, RefreshFacts
<1>3. \A d \in DOMAIN r.batches : f[d].status = r.batches[d].status \/ Leaves(r, d) \cap OpenOps(r) = {}
  BY DEF Refresh
<1>4. f \in [DOMAIN r.batches -> Batch]
  BY <1>2
<1> HIDE DEF f
<1>5. /\ g \in Request /\ g.batches = f
      /\ Len(g.batches) = Len(r.batches) /\ DOMAIN g.batches = DOMAIN r.batches
      /\ g.status = r.status /\ g.target = r.target /\ g.rev = r.rev /\ g.items = r.items
      /\ g.ops = r.ops
  BY <1>0, <1>4, NewBatches
<1> HIDE DEF g
<1>6. BatchMoves(r, g)
  BY <1>2, <1>5 DEF BatchMoves, UnsettledBatches
<1>7. Base(g, done) /\ Marked(g) /\ Proceeds(r, g)
  BY <1>3, <1>5, <1>6, BatchMovesBase, MovesPromise
<1>8. Marked(c) /\ Proceeds(g, c)
  BY <1>1, <1>7, JudgePromise
<1> QED
  BY <1>0, <1>5, <1>7, <1>8, ProceedsCompose

-----------------------------------------------------------------------------
(* Outcomes of operations, and restarts. *)

\* The item of an open operation of the current revision is undecided or has failed.
LEMMA OpenItem ==
  ASSUME NEW r, NEW done, Base(r, done), Marked(r), ~Terminal(r),
         NEW e \in OpenOps(r), r.ops[e].rev = r.rev
  PROVE  /\ r.ops[e].item \in Items \ Answers
         /\ r.items[r.ops[e].item].status \notin {"satisfied", "cancelled"}
         /\ r.ops[e].batch \in DOMAIN r.batches /\ r.batches[r.ops[e].batch].rev = r.rev
         /\ r.batches[r.ops[e].batch].item = r.ops[e].item /\ e \in Leaves(r, r.ops[e].batch)
<1> DEFINE d == r.ops[e].batch
<1>1. e \in DOMAIN r.ops /\ r.ops[e].status \in UnsettledOps /\ r \in Request
  BY DEF OpenOps, Base
<1>2. r.ops[e].item \in Items \ Answers
  BY <1>1, TypedLeaf DEF Op
<1>3. /\ d \in DOMAIN r.batches /\ r.batches[d].item = r.ops[e].item /\ r.batches[d].rev = r.rev
      /\ e \in Leaves(r, d)
  BY <1>1 DEF Base, OpsOK, Leaves
<1>4. r.items[r.ops[e].item].status # "satisfied"
  <2> SUFFICES ASSUME r.items[r.ops[e].item].status = "satisfied" PROVE FALSE
    OBVIOUS
  <2>1. \A f \in Leaves(r, d) : r.ops[f].status = "succeeded"
    BY <1>3, BackedBatch
  <2> QED
    BY <1>1, <1>3, <2>1 DEF UnsettledOps
<1> QED
  BY <1>2, <1>3, <1>4 DEF Marked

\* An operation that is open moves on.
LEMMA OpMarks ==
  ASSUME NEW r \in Request, Marked(r), NEW c, NEW e, OpMoves(r, c, e)
  PROVE  Marked(c) /\ Proceeds(r, c)
<1>1. /\ c.status = r.status /\ c.target = r.target /\ c.rev = r.rev /\ c.items = r.items
      /\ c.batches = r.batches
  BY DEF OpMoves
<1>2. Proceeds(r, c)
  BY <1>1, ProceedsSame, TerminalStatus
<1>3. /\ \A d : Leaves(c, d) = Leaves(r, d)
      /\ OpenOps(c) \subseteq OpenOps(r)
  BY OpMovesLeaves
<1>4. \A d \in DOMAIN r.batches : Spoilt(r, d) => Spoilt(c, d)
  <2> SUFFICES ASSUME NEW d \in DOMAIN r.batches, NEW f \in Leaves(r, d), r.ops[f].status = "failed"
               PROVE  c.ops[f].status = "failed"
    BY <1>1, <1>3 DEF Spoilt
  <2>1. f \in DOMAIN r.ops /\ f # e
    BY DEF Leaves, OpMoves, OpenOps, UnsettledOps
  <2> QED
    BY <2>1 DEF OpMoves
<1>5. ASSUME c.status = "open", NEW d \in DOMAIN c.batches, c.batches[d].rev = c.rev
      PROVE  /\ c.batches[d].status \notin UnsettledBatches => Leaves(c, d) \cap OpenOps(c) = {}
             /\ Leaves(c, d) # {} /\ "failed" \in c.items[c.batches[d].item].waits => Spoilt(c, d)
  <2>1. /\ r.batches[d].status \notin UnsettledBatches => Leaves(r, d) \cap OpenOps(r) = {}
        /\ Leaves(r, d) # {} /\ "failed" \in r.items[r.batches[d].item].waits => Spoilt(r, d)
    BY <1>1, <1>5 DEF Marked
  <2> QED
    BY <1>1, <1>3, <1>4, <1>5, <2>1
<1> QED
  BY <1>1, <1>2, <1>5 DEF Marked, Terminal

\* Items that wait for an unknown outcome show what they have shown before.
LEMMA WaitPromise ==
  ASSUME NEW r \in Request, Marked(r), NEW I,
         \A i \in Items : i \in I => r.items[i].status \notin {"satisfied", "cancelled"},
         NEW c, c = Hold(r, I, "waiting", "unknown")
  PROVE  Marked(c) /\ Proceeds(r, c)
<1>1. /\ c \in Request /\ SameWork(r, c) /\ c.status = r.status
      /\ \A i \in Items : /\ c.items[i].status = IF i \in I THEN "waiting" ELSE r.items[i].status
                          /\ "failed" \in c.items[i].waits <=> "failed" \in r.items[i].waits
  <2>1. c \in Request /\ SameWork(r, c) /\ c.status = r.status
    BY HoldItems DEF Reasons
  <2>2. \A i \in Items : c.items[i].status = IF i \in I THEN "waiting" ELSE r.items[i].status
    BY HoldItems DEF Reasons
  <2>3. \A i \in Items : "failed" \in c.items[i].waits <=> "failed" \in r.items[i].waits
    BY HoldItems DEF Reasons
  <2> QED
    BY <2>1, <2>2, <2>3
<1>2. \A i \in Items : r.items[i] \in Item
  BY Typed
<1>3. \A i \in Items : "failed" \in c.items[i].waits <=> "failed" \in r.items[i].waits
  BY <1>1
<1>4. \A i \in Items : Shown(c.items[i]) = Shown(r.items[i])
  <2> SUFFICES ASSUME NEW i \in Items PROVE Shown(c.items[i]) = Shown(r.items[i])
    OBVIOUS
  <2>1. CASE i \notin I
    BY <1>1, <2>1 DEF Shown
  <2>2. CASE i \in I
    <3>1. /\ r.items[i].status \in {"pending", "waiting", "failed"}
          /\ r.items[i].status = "failed" => "failed" \in r.items[i].waits
      BY <1>2, <2>2 DEF Item, Marked
    <3> QED
      BY <1>1, <1>3, <2>2, <3>1 DEF Shown
  <2> QED
    BY <2>1, <2>2
<1>5. Proceeds(r, c)
  BY <1>1, <1>4, ProceedsSame, TerminalStatus DEF SameWork
<1>6. \A i \in Items :
        /\ c.items[i].status = "failed" => "failed" \in c.items[i].waits
        /\ c.items[i].status = "satisfied" => "failed" \notin c.items[i].waits
        /\ ~Terminal(r) => c.items[i].status # "cancelled"
  BY <1>1, <1>3 DEF Marked
<1>7. ASSUME c.status = "open", NEW d \in DOMAIN c.batches, c.batches[d].rev = c.rev
      PROVE  /\ c.batches[d].status \notin UnsettledBatches => Leaves(c, d) \cap OpenOps(c) = {}
             /\ Leaves(c, d) # {} /\ "failed" \in c.items[c.batches[d].item].waits => Spoilt(c, d)
  <2>1. c.ops = r.ops /\ c.batches = r.batches /\ c.rev = r.rev /\ r.status = "open"
    BY <1>1, <1>7 DEF SameWork
  <2>2. /\ OpenOps(c) = OpenOps(r) /\ Leaves(c, d) = Leaves(r, d)
        /\ Spoilt(c, d) <=> Spoilt(r, d)
    BY <2>1 DEF OpenOps, Leaves, Spoilt
  <2>3. c.batches[d].item \in Items
    BY <1>1, <1>7, TypedBatch DEF Batch
  <2> QED
    BY <1>3, <1>7, <2>1, <2>2, <2>3 DEF Marked
<1> QED
  BY <1>1, <1>5, <1>6, <1>7 DEF Marked, Terminal

\* What a request needs for an outcome to converge it: Decided, but for the outcome.
LEMMA OutcomeDecides ==
  ASSUME NEW r, NEW done, ReqInv(r, done), Marked(r), NEW e, NEW g, OpMoves(r, g, e)
  PROVE  Decided(g) \/ Unsettled(g)
<1> SUFFICES ASSUME g.status = "open", ~Unsettled(g), NEW d \in DOMAIN g.batches,
                    g.batches[d].rev = g.rev, Leaves(g, d) # {}
             PROVE  g.items[g.batches[d].item].status \in {"satisfied", "failed"}
  BY DEF Decided
<1>1. /\ r.status = "open" /\ d \in DOMAIN r.batches /\ r.batches[d].rev = r.rev
      /\ g.batches = r.batches /\ g.items = r.items
  BY DEF OpMoves
<1>2. Leaves(r, d) # {}
  BY OpMovesLeaves
<1>3. r.batches[d].status \notin UnsettledBatches
  BY <1>1 DEF Unsettled
<1>4. Leaves(r, d) \cap OpenOps(r) = {}
  BY <1>1, <1>3 DEF Marked
<1> QED
  BY <1>1, <1>2, <1>3, <1>4 DEF ReqInv, Decided

LEMMA OutcomePromise ==
  ASSUME NEW r, NEW done, ReqInv(r, done), Marked(r), NEW e \in DOMAIN r.ops,
         NEW outcome \in SettledOps \cup {"unknown"},
         outcome = "succeeded" => Rests(r.ops[e], e, done),
         NEW c, c = RecordOutcome(r, e, outcome)
  PROVE  Marked(c) /\ Proceeds(r, c)
<1>0. r \in Request /\ StopOK(r) /\ Concluded(r) /\ OneWriter(r) /\ Base(r, done)
  BY DEF ReqInv, Base
<1>1. CASE r.ops[e].status \in SettledOps
  <2>1. c = r
    BY <1>1 DEF RecordOutcome
  <2> QED
    BY <1>0, <2>1, ProceedsSame, TerminalStatus
<1>2. CASE r.ops[e].status \notin SettledOps
  <2> DEFINE op == [r.ops[e] EXCEPT !.status = outcome]
             told == [r EXCEPT !.ops[e] = op]
             item == r.ops[e].item
             d == r.ops[e].batch
  <2>1. r.ops[e] \in Op
    BY <1>0, TypedLeaf
  <2>2. r.ops[e].status \in UnsettledOps /\ e \in OpenOps(r)
    BY <1>2, <2>1 DEF Op, OpenOps
  <2>3. /\ op \in Op /\ op.item = item /\ op.rev = r.ops[e].rev /\ op.batch = d
        /\ op.status = outcome /\ op.receipt = r.ops[e].receipt
        /\ (HasJob(r.ops[e]) => HasJob(op)) /\ (Rests(r.ops[e], e, done) => Rests(op, e, done))
    BY <2>1 DEF Op, UnsettledOps, HasJob, Rests
  <2>4. ~Terminal(r)
    BY <1>0, <2>2 DEF Concluded, Unsettled
  <2>5. \/ c = Converge(told)
        \/ /\ c = Converge(Hold(told, {item}, "waiting", "unknown")) /\ outcome = "unknown"
           /\ r.ops[e].rev = r.rev
        \/ /\ c = Converge(Hold(told, {item}, "failed", "failed")) /\ outcome = "failed"
           /\ r.ops[e].rev = r.rev
    BY <1>2 DEF RecordOutcome, Request, SettledOps
  <2> HIDE DEF op
  <2>6. OpMoves(r, told, e) /\ told.ops[e] = op
    BY <1>0, <2>2, <2>3, NewOp
  <2> HIDE DEF told
  <2>7. Base(told, done)
    <3>1. done \subseteq DOMAIN r.ops /\ (op.receipt = "commit" => e \in done)
      BY <2>3 DEF ReqInv, Base, OpsOK
    <3>2. told.ops[e].status = "succeeded" => Rests(told.ops[e], e, done)
      BY <2>3, <2>6
    <3> QED
      BY <1>0, <2>6, <3>1, <3>2, OpMovesBase
  <2>8. Marked(told) /\ Proceeds(r, told)
    BY <1>0, <2>6, OpMarks
  <2>9. Decided(told) \/ Unsettled(told)
    BY <2>6, OutcomeDecides
  <2>10. told \in Request /\ told.items = r.items /\ told.batches = r.batches /\ told.rev = r.rev
         /\ told.status = r.status /\ DOMAIN told.ops = DOMAIN r.ops
         /\ \A k : Leaves(told, k) = Leaves(r, k)
    <3>1. \A k : Leaves(told, k) = Leaves(r, k)
      BY <2>6, OpMovesLeaves
    <3> QED
      BY <2>6, <3>1 DEF OpMoves
  <2>11. ASSUME r.ops[e].rev = r.rev
         PROVE  /\ item \in Items \ Answers /\ r.items[item].status \notin {"satisfied", "cancelled"}
                /\ d \in DOMAIN r.batches /\ r.batches[d].rev = r.rev /\ r.batches[d].item = item
                /\ e \in Leaves(r, d)
    BY <1>0, <2>2, <2>4, <2>11, OpenItem
  <2> DEFINE Good(g) == /\ Base(g, done) /\ Marked(g) /\ Proceeds(told, g)
                        /\ Decided(g) \/ Unsettled(g)
  <2>12. ASSUME NEW g, c = Converge(g), Good(g)
         PROVE  Marked(c) /\ Proceeds(r, c)
    <3>1. Marked(c) /\ Proceeds(g, c)
      BY <2>12, ConvergePromise
    <3>2. g \in Request /\ StopOK(told)
      BY <2>7, <2>12 DEF Base
    <3>3. Proceeds(told, c)
      BY <2>10, <2>12, <3>1, <3>2, ProceedsCompose
    <3> QED
      BY <1>0, <2>8, <2>10, <3>1, <3>3, ProceedsCompose
  <2>13. CASE c = Converge(told)
    <3>1. Good(told)
      BY <2>7, <2>8, <2>9, <2>10, ProceedsSame, TerminalStatus
    <3> QED
      BY <2>12, <2>13, <3>1
  <2>14. CASE /\ c = Converge(Hold(told, {item}, "waiting", "unknown")) /\ outcome = "unknown"
              /\ r.ops[e].rev = r.rev
    <3> DEFINE g == Hold(told, {item}, "waiting", "unknown")
    <3>1. Marked(g) /\ Proceeds(told, g)
      <4>1. \A i \in Items : i \in {item} => told.items[i].status \notin {"satisfied", "cancelled"}
        BY <2>10, <2>11, <2>14
      <4> HIDE DEF item
      <4> QED
        BY <2>8, <2>10, <4>1, WaitPromise
    <3>2. /\ g \in Request /\ SameWork(told, g) /\ g.status = told.status
          /\ \A i \in Items : g.items[i].status = IF i \in {item} THEN "waiting" ELSE told.items[i].status
      <4> HIDE DEF item
      <4>1. g \in Request /\ SameWork(told, g) /\ g.status = told.status
        BY <2>10, HoldItems DEF Reasons
      <4>2. \A i \in Items : g.items[i].status = IF i \in {item} THEN "waiting" ELSE told.items[i].status
        BY <2>10, HoldItems DEF Reasons
      <4> QED
        BY <4>1, <4>2
    <3> HIDE DEF g
    <3>3. ItemMoves(told, g)
      BY <3>2 DEF ItemMoves, NoNewSatisfied, SameWork
    <3>4. Base(g, done)
      BY <2>7, <3>3, ItemMovesBase
    <3>5. e \in OpenOps(g)
      BY <2>2, <2>3, <2>6, <2>10, <2>14, <3>2 DEF OpenOps, SameWork, UnsettledOps
    <3>6. Good(g)
      BY <3>1, <3>4, <3>5 DEF Unsettled
    <3> QED
      BY <2>12, <2>14, <3>6 DEF g
  <2>15. CASE /\ c = Converge(Hold(told, {item}, "failed", "failed")) /\ outcome = "failed"
              /\ r.ops[e].rev = r.rev
    <3> DEFINE g == Hold(told, {item}, "failed", "failed")
    <3>1. /\ g \in Request /\ SameWork(told, g) /\ g.status = told.status
          /\ \A i \in Items :
               /\ g.items[i].status = IF i \in {item} THEN "failed" ELSE told.items[i].status
               /\ i \notin {item} => g.items[i].waits = told.items[i].waits
               /\ "failed" \in g.items[i].waits <=> "failed" \in told.items[i].waits \/ i \in {item}
      <4> HIDE DEF item
      <4>1. g \in Request /\ SameWork(told, g) /\ g.status = told.status
        BY <2>10, HoldItems DEF Reasons
      <4>2. \A i \in Items : g.items[i].status = IF i \in {item} THEN "failed" ELSE told.items[i].status
        BY <2>10, HoldItems DEF Reasons
      <4>3. \A i \in Items :
              /\ i \notin {item} => g.items[i].waits = told.items[i].waits
              /\ "failed" \in g.items[i].waits <=> "failed" \in told.items[i].waits \/ i \in {item}
        BY <2>10, HoldItems DEF Reasons
      <4> QED
        BY <4>1, <4>2, <4>3
    <3> HIDE DEF g
    <3>2. ItemMoves(told, g)
      BY <3>1 DEF ItemMoves, NoNewSatisfied, SameWork
    <3>3. Base(g, done) /\ OpenOps(g) = OpenOps(told) /\ \A k : Leaves(g, k) = Leaves(r, k)
      BY <2>7, <2>10, <3>2, ItemMovesBase
    <3>4. g.rev = r.rev /\ g.batches = r.batches /\ g.ops = told.ops /\ g.status = r.status
          /\ g.target = told.target
      BY <2>10, <3>1 DEF SameWork
    <3>5. \A i \in Items :
            \/ i # item /\ Shown(g.items[i]) = Shown(told.items[i]) /\ g.items[i].waits = r.items[i].waits
               /\ g.items[i].status = r.items[i].status
            \/ i = item /\ Shown(g.items[i]) = "failed" /\ g.items[i].status = "failed"
               /\ "failed" \in g.items[i].waits
      BY <2>10, <3>1 DEF Shown
    <3>6. Shown(told.items[item]) \in {"none", "failed"}
      <4>1. r.items[item] \in Item
        BY <1>0, <2>11, <2>15, Typed
      <4> QED
        BY <2>10, <2>11, <2>15, <4>1, ShownItem
    <3>7. Proceeds(told, g)
      <4>1. \A i \in Items : Shown(g.items[i]) # Shown(told.items[i]) =>
              i = item /\ Shown(told.items[i]) = "none" /\ Shown(g.items[i]) = "failed"
        BY <3>5, <3>6
      <4>2. \A i \in Items \cap Answers : Shown(g.items[i]) = Shown(told.items[i])
        BY <2>11, <2>15, <4>1
      <4>3. told.status = g.status /\ told.rev = g.rev /\ told.status \in {"open", "stopping"}
        BY <2>4, <2>10, <3>4 DEF Terminal
      <4> QED
        BY <3>4, <4>1, <4>2, <4>3 DEF Proceeds, Given, Terminal
    <3>8. Spoilt(g, d)
      <4>1. e \in Leaves(g, d) /\ g.ops[e].status = "failed"
        BY <2>3, <2>6, <2>11, <2>15, <3>3, <3>4
      <4> QED
        BY <4>1 DEF Spoilt
    <3>9. ASSUME g.status = "open", NEW k \in DOMAIN g.batches, g.batches[k].rev = g.rev
          PROVE  /\ g.batches[k].status \notin UnsettledBatches => Leaves(g, k) \cap OpenOps(g) = {}
                 /\ Leaves(g, k) # {} /\ "failed" \in g.items[g.batches[k].item].waits => Spoilt(g, k)
      <4>1. /\ told.batches[k].status \notin UnsettledBatches => Leaves(told, k) \cap OpenOps(told) = {}
            /\ Leaves(told, k) # {} /\ "failed" \in told.items[told.batches[k].item].waits => Spoilt(told, k)
        BY <2>8, <2>10, <3>4, <3>9 DEF Marked
      <4>2. g.batches[k].status \notin UnsettledBatches => Leaves(g, k) \cap OpenOps(g) = {}
        BY <2>10, <3>3, <3>4, <4>1
      <4>3. ASSUME Leaves(g, k) # {}, "failed" \in g.items[g.batches[k].item].waits
            PROVE  Spoilt(g, k)
        <5>1. r.batches[k].item \in Items /\ k \in DOMAIN r.batches
          BY <1>0, <3>4, <3>9, TypedBatch DEF Batch
        <5>2. CASE r.batches[k].item = item
          <6>1. k = d
            BY <1>0, <2>11, <2>15, <3>3, <3>4, <3>9, <4>3, <5>1, <5>2, OnlyWriter
          <6> QED
            BY <3>8, <6>1
        <5>3. CASE r.batches[k].item # item
          <6>1. "failed" \in told.items[told.batches[k].item].waits
            BY <2>10, <3>4, <3>5, <4>3, <5>1, <5>3
          <6>2. Spoilt(told, k)
            BY <2>10, <3>3, <4>1, <4>3, <6>1
          <6> QED
            BY <2>10, <3>3, <3>4, <6>2 DEF Spoilt
        <5> QED
          BY <5>2, <5>3
      <4> QED
        BY <4>2, <4>3
    <3>10. Marked(g)
      <4>1. \A i \in Items :
              /\ g.items[i].status = "failed" => "failed" \in g.items[i].waits
              /\ g.items[i].status = "satisfied" => "failed" \notin g.items[i].waits
              /\ g.items[i].status # "cancelled"
        BY <2>4, <3>5 DEF Marked
      <4> QED
        BY <3>9, <4>1 DEF Marked
    <3>11. Decided(g) \/ Unsettled(g)
      <4>1. Unsettled(told) => Unsettled(g)
        BY <2>10, <3>3, <3>4 DEF Unsettled
      <4>2. Decided(told) => Decided(g)
        <5> SUFFICES ASSUME Decided(told), g.status = "open", NEW k \in DOMAIN g.batches,
                            g.batches[k].rev = g.rev, Leaves(g, k) # {},
                            g.batches[k].status \notin UnsettledBatches,
                            Leaves(g, k) \cap OpenOps(g) = {}
                     PROVE  g.items[g.batches[k].item].status \in {"satisfied", "failed"}
          BY DEF Decided
        <5>1. told.items[told.batches[k].item].status \in {"satisfied", "failed"}
          BY <2>10, <3>3, <3>4 DEF Decided
        <5>2. r.batches[k].item \in Items
          BY <1>0, <3>4, TypedBatch DEF Batch
        <5> QED
          BY <2>10, <3>4, <3>5, <5>1, <5>2
      <4> QED
        BY <2>9, <4>1, <4>2
    <3>12. Good(g)
      BY <3>3, <3>7, <3>10, <3>11
    <3> QED
      BY <2>12, <2>15, <3>12 DEF g
  <2> QED
    BY <2>5, <2>13, <2>14, <2>15
<1> QED
  BY <1>1, <1>2

\* A restart gives no verdict and records nothing.
LEMMA RecoverPromise ==
  ASSUME NEW r, NEW done, ReqInv(r, done), Marked(r), NEW c, c = Recover(r)
  PROVE  /\ Marked(c) /\ Proceeds(r, c) /\ DOMAIN c.ops = DOMAIN r.ops
         /\ \A e \in DOMAIN r.ops :
              /\ c.ops[e].item = r.ops[e].item /\ c.ops[e].rev = r.ops[e].rev
              /\ c.ops[e].batch = r.ops[e].batch /\ c.ops[e].receipt = r.ops[e].receipt
              /\ \/ c.ops[e].status = r.ops[e].status
                 \/ c.ops[e].status \in UnsettledOps /\ r.ops[e].status \in UnsettledOps
<1>0. Base(r, done) /\ r \in Request /\ StopOK(r)
  BY DEF ReqInv, Base
<1> DEFINE open == OpenOps(r)
           held == IF Terminal(r) THEN {}
                   ELSE {r.ops[e].item : e \in {f \in open : r.ops[f].rev = r.rev}}
           h == Hold(r, held, "waiting", "unknown")
           f == [e \in DOMAIN r.ops |-> IF e \in open THEN [r.ops[e] EXCEPT !.status = "unknown"]
                                                      ELSE r.ops[e]]
           known == [h EXCEPT !.ops = f, !.epoch = @ + 1]
           lose(d) == LET b == Refresh(known, d)
                      IN  IF b.status = "running" THEN [b EXCEPT !.status = "unknown"] ELSE b
           all == [d \in DOMAIN known.batches |-> lose(d)]
           m == [known EXCEPT !.batches = all]
<1>1. \A i \in Items : i \in held => r.items[i].status \notin {"satisfied", "cancelled"}
  <2> SUFFICES ASSUME ~Terminal(r), NEW e \in open, r.ops[e].rev = r.rev
               PROVE  r.items[r.ops[e].item].status \notin {"satisfied", "cancelled"}
    OBVIOUS
  <2> QED
    BY <1>0, OpenItem
<1>2. /\ h \in Request /\ SameWork(r, h) /\ h.status = r.status
      /\ \A i \in Items : h.items[i].status = IF i \in held THEN "waiting" ELSE r.items[i].status
  <2> HIDE DEF held
  <2> QED
    BY <1>0, HoldFacts DEF Reasons
<1>3. Marked(h) /\ Proceeds(r, h)
  <2> HIDE DEF held
  <2> QED
    BY <1>0, <1>1, WaitPromise
<1>4. Base(h, done) /\ OpenOps(h) = open
  <2>1. ItemMoves(r, h)
    <3> HIDE DEF h, held
    <3> QED
      BY <1>2 DEF ItemMoves, NoNewSatisfied, SameWork
  <2> HIDE DEF h
  <2> QED
    BY <1>0, <2>1, ItemMovesBase
<1>5. c = ReconcileBatches(m)
  <2>1. h.ops = r.ops
    BY <1>2 DEF SameWork
  <2>2. known = [Hold(r, held, "waiting", "unknown")
                  EXCEPT !.ops = [e \in DOMAIN @ |->
                                    IF e \in open THEN [@[e] EXCEPT !.status = "unknown"] ELSE @[e]],
                         !.epoch = @ + 1]
    BY <2>1
  <2> HIDE DEF known
  <2> QED
    BY <2>2 DEF Recover
<1>6. h.ops = r.ops /\ h.batches = r.batches
  BY <1>2 DEF SameWork
<1>7. /\ f \in [DOMAIN h.ops -> Op]
      /\ \A e \in DOMAIN h.ops :
           \/ f[e] = h.ops[e] /\ e \notin OpenOps(h)
           \/ /\ e \in OpenOps(h) /\ f[e].status = "unknown"
              /\ f[e].item = h.ops[e].item /\ f[e].rev = h.ops[e].rev /\ f[e].batch = h.ops[e].batch
              /\ f[e].receipt = h.ops[e].receipt
  <2>1. \A e \in DOMAIN r.ops : r.ops[e] \in Op
    BY <1>0, TypedLeaf
  <2> HIDE DEF open, h
  <2>2. \A e \in DOMAIN r.ops :
          LET op == [r.ops[e] EXCEPT !.status = "unknown"]
          IN  /\ op \in Op /\ op.status = "unknown"
              /\ op.item = r.ops[e].item /\ op.rev = r.ops[e].rev /\ op.batch = r.ops[e].batch
              /\ op.receipt = r.ops[e].receipt
    BY <2>1 DEF Op, UnsettledOps
  <2> QED
    BY <1>4, <1>6, <2>1, <2>2
<1> HIDE DEF h, f, held
<1>8. /\ known \in Request /\ known.ops = f
      /\ known.items = h.items /\ known.batches = h.batches /\ known.rev = h.rev
      /\ known.status = h.status /\ known.target = h.target
  <2>1. h.ops \in Seq(Op) /\ h.epoch + 1 \in Nat
    BY <1>2, Typed DEF Request
  <2>2. f \in Seq(Op)
    BY <1>7, <2>1, SeqLike
  <2> QED
    BY <1>2, <2>1, <2>2 DEF Request
<1> HIDE DEF known
<1>9. Base(known, done)
  BY <1>4, <1>7, <1>8, ForgetBase
<1>10. DOMAIN f = DOMAIN h.ops
  BY <1>7
<1>11. /\ OpenOps(known) = OpenOps(h) /\ \A d : Leaves(known, d) = Leaves(h, d)
       /\ \A d : Spoilt(known, d) <=> Spoilt(h, d)
  <2>1. OpenOps(known) = OpenOps(h)
    BY <1>7, <1>8, <1>10 DEF OpenOps, UnsettledOps
  <2>2. \A d : Leaves(known, d) = Leaves(h, d)
    BY <1>7, <1>8, <1>10 DEF Leaves
  <2>3. \A d : \A e \in Leaves(h, d) : f[e].status = "failed" <=> h.ops[e].status = "failed"
    BY <1>7 DEF Leaves, OpenOps, UnsettledOps
  <2>4. \A d : Spoilt(known, d) <=> Spoilt(h, d)
    BY <1>8, <2>2, <2>3 DEF Spoilt
  <2> QED
    BY <2>1, <2>2, <2>4
<1>12. Marked(known) /\ Proceeds(h, known)
  <2>1. Proceeds(h, known)
    BY <1>2, <1>8, ProceedsSame, TerminalStatus
  <2> QED
    BY <1>3, <1>8, <1>11, <2>1 DEF Marked, Terminal
<1>13. \A d \in DOMAIN known.batches :
         /\ all[d] \in Batch
         /\ all[d].item = known.batches[d].item /\ all[d].rev = known.batches[d].rev
         /\ all[d].steps = known.batches[d].steps
         /\ \/ all[d].status = known.batches[d].status
            \/ /\ known.batches[d].status \in UnsettledBatches
               /\ \/ all[d].status = "unknown"
                  \/ all[d].status \in Ended /\ Leaves(known, d) \cap OpenOps(known) = {}
  <2> SUFFICES ASSUME NEW d \in DOMAIN known.batches
               PROVE  /\ lose(d) \in Batch
                      /\ lose(d).item = known.batches[d].item /\ lose(d).rev = known.batches[d].rev
                      /\ lose(d).steps = known.batches[d].steps
                      /\ \/ lose(d).status = known.batches[d].status
                         \/ /\ known.batches[d].status \in UnsettledBatches
                            /\ \/ lose(d).status = "unknown"
                               \/ /\ lose(d).status \in Ended
                                  /\ Leaves(known, d) \cap OpenOps(known) = {}
    OBVIOUS
  <2> DEFINE b == Refresh(known, d)
  <2>1. /\ b \in Batch
        /\ b.item = known.batches[d].item /\ b.rev = known.batches[d].rev
        /\ b.steps = known.batches[d].steps
        /\ \/ b.status = known.batches[d].status
           \/ known.batches[d].status = "running" /\ b.status \in Ended
    BY <1>8, RefreshFacts
  <2>2. b.status = known.batches[d].status \/ Leaves(known, d) \cap OpenOps(known) = {}
    BY DEF Refresh
  <2> HIDE DEF b
  <2>3. CASE b.status = "running"
    <3>1. lose(d) = [b EXCEPT !.status = "unknown"]
      BY <2>3 DEF b
    <3> QED
      BY <2>1, <2>3, <3>1 DEF Batch, UnsettledBatches, Ended
  <2>4. CASE b.status # "running"
    <3>1. lose(d) = b
      BY <2>4 DEF b
    <3> QED
      BY <2>1, <2>2, <3>1 DEF UnsettledBatches
  <2> QED
    BY <2>3, <2>4
<1>14. all \in [DOMAIN known.batches -> Batch]
  BY <1>13
<1> HIDE DEF all
<1>15. /\ m \in Request /\ m.batches = all
       /\ Len(m.batches) = Len(known.batches) /\ DOMAIN m.batches = DOMAIN known.batches
       /\ m.status = known.status /\ m.target = known.target /\ m.rev = known.rev
       /\ m.items = known.items /\ m.ops = known.ops
  BY <1>8, <1>14, NewBatches
<1> HIDE DEF m
<1>16. BatchMoves(known, m)
  BY <1>13, <1>15 DEF BatchMoves
<1>17. Base(m, done) /\ Marked(m) /\ Proceeds(known, m)
  BY <1>9, <1>12, <1>13, <1>15, <1>16, BatchMovesBase, MovesPromise
<1>18. Marked(c) /\ Proceeds(m, c) /\ c.ops = f
  BY <1>5, <1>8, <1>15, <1>17, ReconcilePromise, ReconcileFacts
<1>19. Proceeds(r, c)
  <2>1. StopOK(h) /\ StopOK(known)
    BY <1>4, <1>9 DEF Base
  <2>2. Proceeds(known, c)
    BY <1>8, <1>15, <1>17, <1>18, <2>1, ProceedsCompose
  <2>3. Proceeds(h, c)
    BY <1>2, <1>8, <1>12, <2>1, <2>2, ProceedsCompose
  <2> QED
    BY <1>0, <1>2, <1>3, <2>3, ProceedsCompose
<1>20. \A e \in DOMAIN r.ops :
         /\ c.ops[e].item = r.ops[e].item /\ c.ops[e].rev = r.ops[e].rev
         /\ c.ops[e].batch = r.ops[e].batch /\ c.ops[e].receipt = r.ops[e].receipt
         /\ \/ c.ops[e].status = r.ops[e].status
            \/ c.ops[e].status \in UnsettledOps /\ r.ops[e].status \in UnsettledOps
  BY <1>4, <1>6, <1>7, <1>18 DEF OpenOps, UnsettledOps
<1> QED
  BY <1>6, <1>10, <1>18, <1>19, <1>20

-----------------------------------------------------------------------------
(* Answers, receipts, commands and the user's statements. *)

LEMMA AnswerPromise ==
  ASSUME NEW r, NEW done, ReqInv(r, done), Marked(r), r.status = "open",
         NEW i \in Items \cap Answers, Shown(r.items[i]) # "failed", NEW c, c = Satisfy(r, {i})
  PROVE  Marked(c) /\ Proceeds(r, c)
<1>0. Base(r, done) /\ Decided(r) /\ r \in Request /\ StopOK(r)
  BY DEF ReqInv, Base
<1> DEFINE g == SetItems(r, {i}, LAMBDA item : [status |-> "satisfied", waits |-> {}])
<1>1. c = Converge(g)
  BY DEF Satisfy
<1>2. g = [r EXCEPT !.items = [k \in Items |-> IF k \in {i} THEN [status |-> "satisfied", waits |-> {}]
                                                ELSE @[k]]]
  BY DEF SetItems
<1> HIDE DEF g
<1>3. /\ g \in Request /\ SameWork(r, g) /\ g.status = r.status
      /\ \A k \in Items : g.items[k] = IF k \in {i} THEN [status |-> "satisfied", waits |-> {}]
                                       ELSE r.items[k]
  BY <1>0, <1>2, SatisfyItems
<1>4. Verdicts(r, g)
  <2>1. \A k \in Items : r.items[k].status \in {"satisfied", "failed"} =>
          g.items[k].status \in {"satisfied", "failed"}
    BY <1>3
  <2> QED
    BY <1>3, <2>1 DEF Verdicts, Terminal
<1>5. Base(g, done)
  <2>1. \A k \in Items \ Answers : g.items[k].status = "satisfied" => r.items[k].status = "satisfied"
    BY <1>3
  <2> QED
    BY <1>0, <1>4, <2>1, VerdictsBase
<1>6. Decided(g)
  BY <1>0, <1>4, VerdictsDecided
<1>7. Shown(r.items[i]) \in {"none", "satisfied"} /\ Shown(g.items[i]) = "satisfied"
  <2>1. r.items[i] \in Item /\ ~Terminal(r)
    BY <1>0, Typed DEF Terminal
  <2>2. Shown(r.items[i]) # "cancelled"
    BY <2>1, ShownItem DEF Marked
  <2>3. g.items[i] = [status |-> "satisfied", waits |-> {}]
    BY <1>3
  <2> QED
    BY <2>1, <2>2, <2>3, ShownItem DEF Shown
<1>8. Proceeds(r, g)
  <2>1. \A k \in Items : k # i => g.items[k] = r.items[k]
    BY <1>3
  <2> QED
    BY <1>3, <1>7, <2>1 DEF Proceeds, Given, SameWork, Terminal
<1>9. Marked(g)
  <2>1. \A k \in Items :
          /\ g.items[k].status = "failed" => "failed" \in g.items[k].waits
          /\ g.items[k].status = "satisfied" => "failed" \notin g.items[k].waits
          /\ ~Terminal(g) => g.items[k].status # "cancelled"
    BY <1>3 DEF Marked, Terminal
  <2>2. g.ops = r.ops /\ g.batches = r.batches /\ g.rev = r.rev
    BY <1>3 DEF SameWork
  <2>3. OpenOps(g) = OpenOps(r) /\ (\A d : Leaves(g, d) = Leaves(r, d))
        /\ \A d : Spoilt(g, d) <=> Spoilt(r, d)
    BY <2>2 DEF OpenOps, Leaves, Spoilt
  <2>4. \A d \in DOMAIN r.batches : r.batches[d].item \in Items \ Answers
    BY <1>0, TypedBatch DEF Batch
  <2>5. \A d \in DOMAIN r.batches : g.items[r.batches[d].item] = r.items[r.batches[d].item]
    BY <1>3, <2>4
  <2> QED
    BY <2>1, <2>2, <2>3, <2>5 DEF Marked
<1>10. Marked(c) /\ Proceeds(g, c)
  BY <1>1, <1>5, <1>6, <1>9, ConvergePromise
<1> QED
  BY <1>0, <1>3, <1>8, <1>10, ProceedsCompose

\* Steps of a batch change.
LEMMA StepsPromise ==
  ASSUME NEW r, NEW done, Base(r, done), Marked(r), NEW d \in DOMAIN r.batches,
         NEW f \in [DOMAIN r.batches[d].steps -> StepStates], NEW g,
         g = [r EXCEPT !.batches[d].steps = f]
  PROVE  /\ Marked(g) /\ Proceeds(r, g)
         /\ LET c == ReconcileBatches(g) IN Marked(c) /\ Proceeds(r, c)
<1>0. r \in Request /\ StopOK(r)
  BY DEF Base
<1>1. BatchMoves(r, g) /\ \A k \in DOMAIN r.batches : g.batches[k].status = r.batches[k].status
  BY <1>0, NewSteps
<1>2. Base(g, done) /\ g \in Request
  BY <1>1, BatchMovesBase DEF Base
<1>3. Marked(g) /\ Proceeds(r, g)
  BY <1>1, MovesPromise
<1>4. PICK c : c = ReconcileBatches(g)
  OBVIOUS
<1>5. Marked(c) /\ Proceeds(g, c)
  BY <1>2, <1>3, <1>4, ReconcilePromise
<1>6. Proceeds(r, c)
  BY <1>0, <1>2, <1>3, <1>5, ProceedsCompose
<1> QED
  BY <1>3, <1>4, <1>5, <1>6

LEMMA StartPromise ==
  ASSUME NEW r, NEW done, Base(r, done), Marked(r), NEW d \in DOMAIN r.batches,
         NEW s, NEW c, c = [r EXCEPT !.batches[d].steps[s] = "started"]
  PROVE  Marked(c) /\ Proceeds(r, c)
<1> DEFINE old == r.batches[d].steps
           f == [old EXCEPT ![s] = "started"]
<1>1. c = [r EXCEPT !.batches[d].steps = f]
  OBVIOUS
<1>2. old \in [DOMAIN old -> StepStates]
  BY TypedBatch, TypedSteps DEF Base
<1>3. f \in [DOMAIN old -> StepStates]
  <2> HIDE DEF old
  <2> QED
    BY <1>2 DEF StepStates
<1> HIDE DEF f
<1> QED
  BY <1>1, <1>3, StepsPromise

LEMMA FinishPromise ==
  ASSUME NEW r, NEW done, Base(r, done), Marked(r), NEW x, x.batch \in DOMAIN r.batches,
         NEW c, c = FinishStep(r, x)
  PROVE  Marked(c) /\ Proceeds(r, c)
<1>1. CASE c = r
  BY <1>1, ProceedsSame, TerminalStatus DEF Base
<1>2. CASE c # r
  <2>0. PICK d \in DOMAIN r.batches : d = x.batch
    OBVIOUS
  <2> DEFINE v == IF x.ok THEN "completed" ELSE "failed"
             old == r.batches[d].steps
             f == [old EXCEPT ![x.step] = v]
             g == [r EXCEPT !.batches[d].steps = f]
  <2>1. c = ReconcileBatches(g)
    BY <1>2, <2>0 DEF FinishStep
  <2>2. old \in [DOMAIN old -> StepStates]
    BY TypedBatch, TypedSteps DEF Base
  <2>3. f \in [DOMAIN old -> StepStates]
    <3> HIDE DEF old
    <3> QED
      BY <2>2 DEF StepStates
  <2> HIDE DEF f
  <2> QED
    BY <2>1, <2>3, StepsPromise
<1> QED
  BY <1>1, <1>2

LEMMA GiveUpPromise ==
  ASSUME NEW r, NEW done, Base(r, done), Marked(r), NEW d \in DOMAIN r.batches,
         NEW S, NEW c, c = GiveUp(r, d, S)
  PROVE  Marked(c) /\ Proceeds(r, c)
<1>0. r \in Request
  BY DEF Base
<1>1. CASE S = {}
  <2>1. c = r
    BY <1>1 DEF GiveUp
  <2> QED
    BY <1>0, <2>1, ProceedsSame, TerminalStatus
<1>2. CASE S # {}
  <2> DEFINE old == r.batches[d].steps
             f == [s \in DOMAIN old |-> IF s \in S THEN "failed" ELSE old[s]]
             g == [r EXCEPT !.batches[d].steps = f]
  <2>1. c = ReconcileBatches(g)
    BY <1>0, <1>2 DEF GiveUp, Request
  <2>2. old \in [DOMAIN old -> StepStates]
    BY <1>0, TypedBatch, TypedSteps
  <2>3. f \in [DOMAIN old -> StepStates]
    <3> HIDE DEF old
    <3> QED
      BY <2>2 DEF StepStates
  <2> HIDE DEF f
  <2> QED
    BY <2>1, <2>3, StepsPromise
<1> QED
  BY <1>1, <1>2

LEMMA SettleBatchPromise ==
  ASSUME NEW r, NEW done, Base(r, done), Marked(r), NEW d \in DOMAIN r.batches,
         r.batches[d].status = "unknown", Leaves(r, d) \cap OpenOps(r) = {}, NEW outcome \in Ended,
         NEW c, c = ReconcileBatches([r EXCEPT !.batches[d].status = outcome])
  PROVE  Marked(c) /\ Proceeds(r, c)
<1> DEFINE b == [r.batches[d] EXCEPT !.status = outcome]
           all == [r.batches EXCEPT ![d] = b]
           g == [r EXCEPT !.batches = all]
<1>0. r \in Request /\ StopOK(r)
  BY DEF Base
<1>1. r.batches[d] \in Batch /\ r.batches \in [DOMAIN r.batches -> Batch]
  BY <1>0, Typed
<1>2. /\ b \in Batch /\ b.item = r.batches[d].item /\ b.rev = r.batches[d].rev
      /\ b.steps = r.batches[d].steps /\ b.status = outcome
  BY <1>1 DEF Batch
<1>3. c = ReconcileBatches(g)
  OBVIOUS
<1> HIDE DEF b
<1>4. /\ all \in [DOMAIN r.batches -> Batch] /\ all[d] = b
      /\ \A k \in DOMAIN r.batches : k # d => all[k] = r.batches[k]
  BY <1>1, <1>2
<1> HIDE DEF all
<1>5. /\ g \in Request /\ g.batches = all
      /\ Len(g.batches) = Len(r.batches) /\ DOMAIN g.batches = DOMAIN r.batches
      /\ g.status = r.status /\ g.target = r.target /\ g.rev = r.rev /\ g.items = r.items
      /\ g.ops = r.ops
  BY <1>0, <1>4, NewBatches
<1> HIDE DEF g
<1>6. BatchMoves(r, g)
  BY <1>2, <1>4, <1>5 DEF BatchMoves, UnsettledBatches
<1>7. \A k \in DOMAIN r.batches : g.batches[k].status = r.batches[k].status \/ Leaves(r, k) \cap OpenOps(r) = {}
  BY <1>4, <1>5
<1>8. Base(g, done) /\ Marked(g) /\ Proceeds(r, g)
  BY <1>6, <1>7, BatchMovesBase, MovesPromise
<1>9. Marked(c) /\ Proceeds(g, c)
  BY <1>3, <1>8, ReconcilePromise
<1> QED
  BY <1>0, <1>5, <1>8, <1>9, ProceedsCompose

LEMMA PausePromise ==
  ASSUME NEW r \in Request, Marked(r), NEW c, c = [r EXCEPT !.paused = TRUE]
  PROVE  Marked(c) /\ Proceeds(r, c)
<1>1. /\ c \in Request /\ c.status = r.status /\ c.rev = r.rev /\ c.target = r.target
      /\ c.ops = r.ops /\ c.batches = r.batches /\ c.items = r.items
  BY DEF Request
<1> QED
  BY <1>1, SameMarks

LEMMA ResumePromise ==
  ASSUME NEW r, NEW done, ReqInv(r, done), Marked(r), r.status = "open", NEW c,
         c = Converge(SetItems([r EXCEPT !.paused = FALSE], Items,
               LAMBDA item : [status |-> IF item = [status |-> "waiting", waits |-> {"reconciled"}]
                                         THEN "pending" ELSE item.status,
                              waits  |-> item.waits \ {"reconciled"}]))
  PROVE  Marked(c) /\ Proceeds(r, c)
<1> DEFINE f == [i \in Items |->
                   [status |-> IF r.items[i] = [status |-> "waiting", waits |-> {"reconciled"}]
                               THEN "pending" ELSE r.items[i].status,
                    waits  |-> r.items[i].waits \ {"reconciled"}]]
           g == [r EXCEPT !.paused = FALSE, !.items = f]
<1>1. r \in Request /\ StopOK(r)
  BY DEF ReqInv, Base
<1>2. c = Converge(g)
  BY <1>1 DEF SetItems, Request
<1>3. /\ f \in [Items -> Item]
      /\ \A i \in Items :
           /\ \/ f[i].status = r.items[i].status
              \/ f[i].status = "pending" /\ r.items[i].status = "waiting"
           /\ f[i].waits = r.items[i].waits \ {"reconciled"}
  <2> SUFFICES ASSUME NEW i \in Items
               PROVE  /\ f[i] \in Item
                      /\ \/ f[i].status = r.items[i].status
                         \/ f[i].status = "pending" /\ r.items[i].status = "waiting"
                      /\ f[i].waits = r.items[i].waits \ {"reconciled"}
    <3> HIDE DEF f
    <3>1. f = [i \in Items |-> f[i]]
      BY DEF f
    <3> QED
      BY <3>1
  <2>1. r.items[i] \in Item
    BY <1>1 DEF Request
  <2>2. f[i].waits = r.items[i].waits \ {"reconciled"}
    OBVIOUS
  <2> QED
    BY <2>1, <2>2, ResumedItem
<1> HIDE DEF f
<1>4. /\ g \in Request /\ g.items = f /\ g.status = r.status /\ g.target = r.target
      /\ g.rev = r.rev /\ g.ops = r.ops /\ g.batches = r.batches
  BY <1>1, <1>3 DEF Request
<1> HIDE DEF g
<1>5. ItemMoves(r, g)
  BY <1>3, <1>4 DEF ItemMoves, NoNewSatisfied
<1>6. ReqInv(g, done)
  BY <1>3, <1>4, <1>5, QuietFacts DEF Terminal
<1>7. Marked(g) /\ Proceeds(r, g)
  <2>1. \A i \in Items :
          /\ "failed" \in g.items[i].waits <=> "failed" \in r.items[i].waits
          /\ \/ g.items[i].status = r.items[i].status
             \/ {g.items[i].status, r.items[i].status} \subseteq {"pending", "waiting"}
    BY <1>3, <1>4
  <2> QED
    BY <1>1, <1>4, <2>1, SameMarks
<1>8. Marked(c) /\ Proceeds(g, c)
  BY <1>2, <1>6, <1>7, ConvergePromise DEF ReqInv
<1> QED
  BY <1>1, <1>4, <1>7, <1>8, ProceedsCompose

\* An item is blocked, or a statement about it is remembered.
LEMMA RemindPromise ==
  ASSUME NEW r \in Request, Marked(r), NEW f \in [Items -> Item],
         \A i \in Items : f[i].status = r.items[i].status
                          /\ ("failed" \in f[i].waits <=> "failed" \in r.items[i].waits),
         NEW c, c = [r EXCEPT !.items = f]
  PROVE  Marked(c) /\ Proceeds(r, c)
<1>1. c \in Request /\ c.items = f /\ SameWork(r, c) /\ c.status = r.status
  BY NewItems
<1>2. /\ c.rev = r.rev /\ c.target = r.target /\ c.ops = r.ops /\ c.batches = r.batches
  BY <1>1 DEF SameWork
<1> QED
  BY <1>1, <1>2, SameMarks

LEMMA BlockPromise ==
  ASSUME NEW r \in Request, Marked(r), NEW i, NEW c,
         c = SetItems(r, {i}, LAMBDA item : [item EXCEPT !.waits = @ \cup {"control"}])
  PROVE  Marked(c) /\ Proceeds(r, c)
<1> DEFINE f == [k \in Items |-> IF k \in {i} THEN [r.items[k] EXCEPT !.waits = @ \cup {"control"}]
                                              ELSE r.items[k]]
<1>1. r.items \in [Items -> Item]
  BY DEF Request
<1>2. c = [r EXCEPT !.items = f]
  BY <1>1 DEF SetItems
<1>3. /\ f \in [Items -> Item]
      /\ \A k \in Items : f[k].status = r.items[k].status
                          /\ ("failed" \in f[k].waits <=> "failed" \in r.items[k].waits)
  <2> SUFFICES ASSUME NEW k \in Items
               PROVE  /\ f[k] \in Item /\ f[k].status = r.items[k].status
                      /\ ("failed" \in f[k].waits <=> "failed" \in r.items[k].waits)
    <3> HIDE DEF f
    <3>1. f = [k \in Items |-> f[k]]
      BY DEF f
    <3> QED
      BY <3>1
  <2>1. PICK item \in Item : item = r.items[k]
    BY <1>1
  <2>2. f[k] = item \/ f[k] = [item EXCEPT !.waits = item.waits \cup {"control"}]
    BY <2>1
  <2> HIDE DEF f
  <2> QED
    BY <2>1, <2>2 DEF Item, Reasons
<1> HIDE DEF f
<1> QED
  BY <1>2, <1>3, RemindPromise

\* A request is stopped: nothing is decided, or it has come to its end.
StoppedAs(r, c, target) ==
  /\ Marked(c) /\ c.rev = r.rev /\ c.target = target
  /\ \/ c.status = "stopping" /\ \A i \in Items : Shown(c.items[i]) = Shown(r.items[i])
     \/ c.status = target /\ \A i \in Items : Shown(c.items[i]) =
          IF Shown(r.items[i]) = "none" THEN "cancelled" ELSE Shown(r.items[i])

LEMMA CancelPromise ==
  ASSUME NEW r, NEW done, ReqInv(r, done), Marked(r), r.status = "open", NEW target \in Targets,
         NEW c, c = Converge(WithdrawBatches([r EXCEPT !.status = "stopping", !.target = target]))
  PROVE  StoppedAs(r, c, target)
<1> DEFINE s == [r EXCEPT !.status = "stopping", !.target = target]
           w == WithdrawBatches(s)
<1>0. Base(r, done) /\ r \in Request
  BY DEF ReqInv, Base
<1>1. /\ s \in Request /\ s.status = "stopping" /\ s.target = target
      /\ s.ops = r.ops /\ s.batches = r.batches /\ s.items = r.items /\ s.rev = r.rev
  BY <1>0 DEF Request
<1>2. c = Converge(w)
  OBVIOUS
<1> HIDE DEF s
<1>3. /\ OpenOps(s) = OpenOps(r) /\ \A d : Leaves(s, d) = Leaves(r, d)
      /\ \A i : Backed(r, done, i) => Backed(s, done, i)
  BY <1>1 DEF OpenOps, Leaves, Backed
<1>4. Base(s, done)
  BY <1>0, <1>1, <1>3 DEF Base, StopOK, CountOK, OpsOK, OneWriter, SatBacked, Concluded, Terminal
<1>5. BatchMoves(s, w)
  BY <1>1, WithdrawFacts
<1> HIDE DEF w
<1>6. Base(w, done)
  BY <1>4, <1>5, BatchMovesBase
<1>7. Marked(s)
  BY <1>1 DEF Marked, Terminal
<1>8. Marked(w)
  BY <1>1, <1>4, <1>5, <1>7, MovesPromise
<1>9. w.status = "stopping" /\ w.rev = r.rev /\ w.items = r.items /\ w.target = target
  BY <1>1, <1>5 DEF BatchMoves
<1>10. Decided(w)
  BY <1>9 DEF Decided
<1>11. /\ Marked(c) /\ Proceeds(w, c)
       /\ \/ c = w
          \/ c.status = w.target /\ \A i \in Items : Shown(c.items[i]) =
               IF Shown(w.items[i]) = "none" THEN "cancelled" ELSE Shown(w.items[i])
  BY <1>2, <1>6, <1>8, <1>9, <1>10, ConvergePromise
<1>12. c.rev = r.rev /\ c.target = target
  BY <1>9, <1>11 DEF Proceeds
<1> QED
  BY <1>9, <1>11, <1>12 DEF StoppedAs

\* An amendment withdraws every verdict.
LEMMA AmendPromise ==
  ASSUME NEW r, NEW done, ReqInv(r, done), Marked(r), r.status = "open",
         NEW c, c = WithdrawBatches([r EXCEPT !.rev = @ + 1, !.items = [i \in Items |-> Untouched]])
  PROVE  /\ Marked(c) /\ c.status = "open" /\ c.target = r.target /\ c.rev = r.rev + 1
         /\ \A i \in Items : Shown(c.items[i]) = "none"
<1> DEFINE s == [r EXCEPT !.rev = @ + 1, !.items = [i \in Items |-> Untouched]]
<1>0. Base(r, done) /\ r \in Request /\ r.rev \in Nat /\ r.rev + 1 \in Nat
  BY Typed DEF ReqInv, Base
<1>1. /\ s \in Request /\ s.status = "open" /\ s.target = r.target
      /\ s.batches = r.batches /\ s.rev = r.rev + 1
      /\ \A i \in Items : s.items[i] = Untouched
  <2>1. [i \in Items |-> Untouched] \in [Items -> Item]
    BY DEF Untouched, Item
  <2>2. s = [r EXCEPT !.rev = r.rev + 1, !.items = [i \in Items |-> Untouched]]
    OBVIOUS
  <2> HIDE DEF s
  <2>3. /\ s \in Request /\ s.status = r.status /\ s.target = r.target
        /\ s.batches = r.batches /\ s.rev = r.rev + 1
        /\ s.items = [i \in Items |-> Untouched]
    BY <1>0, <2>1, <2>2 DEF Request
  <2> QED
    BY <2>3
<1>2. c = WithdrawBatches(s)
  OBVIOUS
<1> HIDE DEF s
<1>3. \A d \in DOMAIN r.batches : r.batches[d].rev # r.rev + 1
  <2> SUFFICES ASSUME NEW d \in DOMAIN r.batches PROVE r.batches[d].rev # r.rev + 1
    OBVIOUS
  <2>1. r.batches[d].rev <= r.rev
    BY <1>0 DEF Base, CountOK
  <2>2. r.batches[d].rev \in Nat
    BY <1>0, TypedBatch DEF Batch
  <2> QED
    BY <1>0, <2>1, <2>2
<1>4. BatchMoves(s, c)
  BY <1>1, <1>2, WithdrawFacts
<1>5. /\ c.status = "open" /\ c.target = r.target /\ c.rev = r.rev + 1 /\ c.items = s.items
      /\ DOMAIN c.batches = DOMAIN r.batches
      /\ \A d \in DOMAIN r.batches : c.batches[d].rev = r.batches[d].rev
  BY <1>1, <1>4 DEF BatchMoves
<1>6. \A i \in Items : c.items[i].status = "pending" /\ c.items[i].waits = {}
  BY <1>1, <1>5 DEF Untouched
<1>7. Marked(c)
  <2>1. \A d \in DOMAIN c.batches : c.batches[d].rev # c.rev
    BY <1>3, <1>5
  <2> QED
    BY <1>6, <2>1 DEF Marked
<1>8. \A i \in Items : Shown(c.items[i]) = "none"
  BY <1>6 DEF Shown
<1> QED
  BY <1>5, <1>7, <1>8

\* Who speaks about an open operation: the tool that has no job, or the user.
LEMMA SaidPromise ==
  ASSUME NEW r, NEW done, ReqInv(r, done), Marked(r), NEW e \in OpenOps(r),
         NEW outcome \in SettledOps, NEW how \in {"attested", "report"},
         how = "report" => ~HasJob(r.ops[e]),
         NEW s, s = [r EXCEPT !.ops[e].receipt = how], NEW c, c = RecordOutcome(s, e, outcome)
  PROVE  /\ Base(c, done) /\ Marked(c) /\ Proceeds(r, c) /\ ~Terminal(r)
         /\ DOMAIN c.ops = DOMAIN r.ops
         /\ \A f \in DOMAIN r.ops : f # e => c.ops[f] = r.ops[f]
         /\ c.ops[e].item = r.ops[e].item /\ c.ops[e].rev = r.ops[e].rev
         /\ c.ops[e].batch = r.ops[e].batch
         /\ c.ops[e].status = outcome /\ c.ops[e].receipt = how
<1>0. Base(r, done) /\ r \in Request /\ StopOK(r) /\ e \in DOMAIN r.ops
  BY DEF ReqInv, Base, OpenOps
<1> DEFINE op == [r.ops[e] EXCEPT !.receipt = how]
<1>1. r.ops[e] \in Op /\ r.ops[e].status \in UnsettledOps
  BY <1>0, TypedLeaf DEF OpenOps
<1>2. /\ op \in Op /\ op.item = r.ops[e].item /\ op.rev = r.ops[e].rev /\ op.batch = r.ops[e].batch
      /\ op.status \in UnsettledOps /\ op.receipt = how /\ op.job = r.ops[e].job
  BY <1>1 DEF Op
<1>3. s = [r EXCEPT !.ops[e] = op]
  OBVIOUS
<1> HIDE DEF op
<1>4. (HasJob(r.ops[e]) => HasJob(op)) /\ Rests(op, e, done)
  BY <1>2 DEF HasJob, Rests
<1>5. OpMoves(r, s, e) /\ s.ops[e] = op
  BY ONLY <1>0, <1>2, <1>3, <1>4, e \in OpenOps(r), NewOp
<1>6. ReqInv(s, done)
  <2>1. done \subseteq DOMAIN r.ops /\ done \subseteq done
    BY <1>0 DEF Base, OpsOK
  <2>2. op.receipt = "commit" => e \in done
    BY <1>2
  <2> QED
    BY ONLY <1>2, <1>3, <1>4, <2>1, <2>2, ReqInv(r, done), e \in OpenOps(r), OpFacts
<1>7. Base(s, done) /\ s \in Request /\ Marked(s) /\ Proceeds(r, s)
  BY <1>0, <1>5, <1>6, OpMarks DEF ReqInv, Base
<1>8. ~Terminal(r)
  BY <1>0 DEF Base, Concluded, Unsettled
<1>9. /\ e \in DOMAIN s.ops /\ s.ops[e].status \notin SettledOps /\ s.ops[e].receipt = how
      /\ Rests(s.ops[e], e, done) /\ outcome \in SettledOps \cup {"unknown"}
  BY <1>0, <1>2, <1>4, <1>5 DEF OpMoves, SettledOps, UnsettledOps
<1>10. Marked(c) /\ Proceeds(s, c)
  BY <1>6, <1>7, <1>9, OutcomePromise
<1>11. /\ Base(c, done) /\ Steady(s, c, {})
       /\ \A f \in DOMAIN s.ops : f # e => c.ops[f] = s.ops[f]
       /\ c.ops[e].status = outcome /\ c.ops[e].receipt = how
  BY ONLY <1>7, <1>9, c = RecordOutcome(s, e, outcome), RecordOutcomeFacts
<1>12. Proceeds(r, c)
  BY <1>0, <1>7, <1>10, ProceedsCompose
<1>13. /\ DOMAIN c.ops = DOMAIN r.ops
       /\ \A f \in DOMAIN r.ops : f # e => c.ops[f] = r.ops[f]
  <2>1. DOMAIN c.ops = DOMAIN s.ops
    BY <1>11 DEF Steady
  <2>2. DOMAIN s.ops = DOMAIN r.ops /\ \A f \in DOMAIN r.ops : f # e => s.ops[f] = r.ops[f]
    BY <1>5 DEF OpMoves
  <2> QED
    BY ONLY <1>11, <2>1, <2>2
<1>14. /\ c.ops[e].item = r.ops[e].item /\ c.ops[e].rev = r.ops[e].rev
       /\ c.ops[e].batch = r.ops[e].batch
  BY <1>5, <1>9, <1>11 DEF OpMoves, Steady
<1> QED
  BY <1>8, <1>10, <1>11, <1>12, <1>13, <1>14

\* The user's statement about an operation counts as its outcome.
LEMMA SettlePromise ==
  ASSUME NEW r, NEW done, ReqInv(r, done), Marked(r), NEW e \in DOMAIN r.ops,
         r.ops[e].status = "unknown", NEW outcome \in SettledOps, NEW told, NEW mine, NEW c,
         told = RecordOutcome([r EXCEPT !.ops[e].receipt = "attested"], e, outcome),
         c = Converge(ReconcileBatches(SetItems(told, mine, LAMBDA item :
               [item EXCEPT !.waits = (@ \ {"unknown"}) \cup {"reconciled"}])))
  PROVE  /\ Marked(c) /\ Proceeds(r, c) /\ ~Terminal(r) /\ DOMAIN c.ops = DOMAIN r.ops
         /\ \A f \in DOMAIN r.ops : f # e => c.ops[f] = r.ops[f]
         /\ c.ops[e].item = r.ops[e].item /\ c.ops[e].rev = r.ops[e].rev
         /\ c.ops[e].batch = r.ops[e].batch
         /\ c.ops[e].status = outcome /\ c.ops[e].receipt = "attested"
<1>0. Base(r, done) /\ r \in Request /\ StopOK(r) /\ e \in OpenOps(r)
  BY DEF ReqInv, Base, OpenOps, UnsettledOps
<1>10. /\ Base(told, done) /\ Marked(told) /\ Proceeds(r, told) /\ ~Terminal(r)
       /\ DOMAIN told.ops = DOMAIN r.ops
       /\ \A f \in DOMAIN r.ops : f # e => told.ops[f] = r.ops[f]
       /\ told.ops[e].item = r.ops[e].item /\ told.ops[e].rev = r.ops[e].rev
       /\ told.ops[e].batch = r.ops[e].batch
       /\ told.ops[e].status = outcome /\ told.ops[e].receipt = "attested"
  <2>1. PICK how \in {"attested", "report"} : how = "attested"
    OBVIOUS
  <2>2. PICK s : s = [r EXCEPT !.ops[e].receipt = how]
    OBVIOUS
  <2>3. told = RecordOutcome(s, e, outcome) /\ (how = "report" => ~HasJob(r.ops[e]))
    BY <2>1, <2>2
  <2> QED
    BY ONLY ReqInv(r, done), Marked(r), outcome \in SettledOps, <1>0, <2>1, <2>2, <2>3, SaidPromise
<1> DEFINE f == [i \in Items |-> IF i \in mine
                   THEN [told.items[i] EXCEPT !.waits = (@ \ {"unknown"}) \cup {"reconciled"}]
                   ELSE told.items[i]]
           g == [told EXCEPT !.items = f]
           h == ReconcileBatches(g)
<1>12. told \in Request /\ told.items \in [Items -> Item] /\ StopOK(told)
  BY <1>10 DEF Base, Request
<1>13. c = Converge(h)
  BY <1>12 DEF SetItems
<1>14. /\ f \in [Items -> Item]
       /\ \A i \in Items : f[i].status = told.items[i].status
                           /\ ("failed" \in f[i].waits <=> "failed" \in told.items[i].waits)
  <2> SUFFICES ASSUME NEW i \in Items
               PROVE  /\ f[i] \in Item /\ f[i].status = told.items[i].status
                      /\ ("failed" \in f[i].waits <=> "failed" \in told.items[i].waits)
    <3> HIDE DEF f
    <3>1. f = [k \in Items |-> f[k]]
      BY DEF f
    <3> QED
      BY <3>1
  <2>1. PICK item \in Item : item = told.items[i]
    BY <1>12
  <2>2. f[i] = item \/ f[i] = [item EXCEPT !.waits = (item.waits \ {"unknown"}) \cup {"reconciled"}]
    BY <2>1
  <2>3. LET new == [item EXCEPT !.waits = (item.waits \ {"unknown"}) \cup {"reconciled"}]
        IN  /\ new \in Item /\ new.status = item.status
            /\ ("failed" \in new.waits <=> "failed" \in item.waits)
    BY ONLY <2>1 DEF Item, Reasons
  <2> HIDE DEF f
  <2> QED
    BY <2>1, <2>2, <2>3
<1> HIDE DEF f, h
<1>15. g \in Request /\ g.items = f /\ SameWork(told, g) /\ g.status = told.status
  BY <1>12, <1>14, NewItems
<1>16. Marked(g) /\ Proceeds(told, g)
  BY <1>10, <1>12, <1>14, RemindPromise
<1> HIDE DEF g
<1>17. Base(g, done) /\ g.ops = told.ops
  <2>1. ItemMoves(told, g)
    BY <1>14, <1>15 DEF ItemMoves, NoNewSatisfied, SameWork
  <2> QED
    BY <1>10, <1>15, <2>1, ItemMovesBase DEF SameWork
<1>18. Marked(h) /\ Proceeds(g, h) /\ ReqInv(h, done) /\ h.ops = g.ops
  BY <1>16, <1>17, ReconcilePromise, ReconcileFacts DEF h
<1>19. Marked(c) /\ Proceeds(h, c) /\ c.ops = h.ops
  BY <1>13, <1>18, ConvergePromise, ConvergeKeeps DEF ReqInv, SameWork
<1>20. Proceeds(r, c)
  <2>1. h \in Request /\ StopOK(g) /\ StopOK(h)
    BY <1>17, <1>18 DEF ReqInv, Base
  <2>2. Proceeds(g, c)
    BY <1>15, <1>18, <1>19, <2>1, ProceedsCompose
  <2>3. Proceeds(told, c)
    BY <1>12, <1>15, <1>16, <2>2, ProceedsCompose
  <2> QED
    BY <1>0, <1>10, <1>12, <2>3, ProceedsCompose
<1>21. c.ops = told.ops
  BY <1>17, <1>18, <1>19
<1> QED
  BY ONLY <1>10, <1>19, <1>20, <1>21

\* A batch begins, for an item nobody has written for.
LEMMA BeginPromise ==
  ASSUME NEW r \in Request, Marked(r), NEW c \in Request, NEW n,
         c.status = r.status, c.target = r.target, c.rev = r.rev, c.items = r.items, c.ops = r.ops,
         DOMAIN c.batches = DOMAIN r.batches \cup {n}, n \notin DOMAIN r.batches,
         \A k \in DOMAIN r.batches : c.batches[k] = r.batches[k],
         c.batches[n].status = "running", Leaves(r, n) = {}
  PROVE  Marked(c) /\ Proceeds(r, c)
<1>1. Proceeds(r, c)
  BY ProceedsSame, TerminalStatus
<1>2. OpenOps(c) = OpenOps(r) /\ \A k : Leaves(c, k) = Leaves(r, k)
  BY DEF OpenOps, Leaves
<1>3. \A k \in DOMAIN r.batches : Spoilt(c, k) <=> Spoilt(r, k)
  BY <1>2 DEF Spoilt
<1>4. c.batches[n].status \in UnsettledBatches /\ Leaves(c, n) = {}
  BY <1>2 DEF UnsettledBatches
<1> QED
  BY <1>1, <1>2, <1>3, <1>4 DEF Marked, Terminal

\* An operation of a running batch is admitted, for an item that has not failed.
LEMMA AdmitPromise ==
  ASSUME NEW r \in Request, Marked(r), NEW c \in Request, NEW e, NEW d \in DOMAIN r.batches,
         c.status = r.status, c.target = r.target, c.rev = r.rev, c.items = r.items,
         c.batches = r.batches,
         DOMAIN c.ops = DOMAIN r.ops \cup {e}, e \notin DOMAIN r.ops,
         \A f \in DOMAIN r.ops : c.ops[f] = r.ops[f],
         c.ops[e].batch = d, r.batches[d].status = "running",
         "failed" \notin r.items[r.batches[d].item].waits
  PROVE  Marked(c) /\ Proceeds(r, c)
<1>1. Proceeds(r, c)
  BY ProceedsSame, TerminalStatus
<1>2. \A k : k # d => Leaves(c, k) = Leaves(r, k)
  BY DEF Leaves
<1>3. \A k : k # d => Leaves(c, k) \cap OpenOps(c) = Leaves(r, k) \cap OpenOps(r)
  BY DEF Leaves, OpenOps
<1>4. \A k : k # d => (Spoilt(c, k) <=> Spoilt(r, k))
  <2>1. \A k : \A f \in Leaves(r, k) : c.ops[f] = r.ops[f]
    BY DEF Leaves
  <2> QED
    BY <1>2, <2>1 DEF Spoilt
<1>5. r.batches[d].status \in UnsettledBatches
  BY DEF UnsettledBatches
<1> QED
  BY <1>1, <1>2, <1>3, <1>4, <1>5 DEF Marked, Terminal

-----------------------------------------------------------------------------
(* Steps. *)

\* The outcome of an operation is taken from its tool or the user.
Said(op) == op.receipt \in {"attested", "report"}

\* What has been said of an operation is settled.
Attested(r) == \A e \in DOMAIN r.ops : Said(r.ops[e]) => r.ops[e].status \in SettledOps

\* Operations stay with their work, and nothing is said or taken back.
SameOps(r, c) ==
  /\ DOMAIN r.ops \subseteq DOMAIN c.ops
  /\ \A e \in DOMAIN r.ops :
       /\ c.ops[e].item = r.ops[e].item /\ c.ops[e].rev = r.ops[e].rev /\ c.ops[e].batch = r.ops[e].batch
       /\ Said(c.ops[e]) <=> Said(r.ops[e])
       /\ Said(r.ops[e]) => c.ops[e].status = r.ops[e].status
  /\ \A e \in DOMAIN c.ops \ DOMAIN r.ops : ~Said(c.ops[e])

\* An answer that a turn may give has not failed, and everything it needs is there.
Covers(l) ==
  /\ l.rev <= req.rev
  /\ req.status = "open" /\ l.rev = req.rev => \A i \in l.ready \cap Answers :
       /\ Shown(req.items[i]) # "failed"
       /\ \A k \in Needs[i] : Shown(req.items[k]) = "satisfied"
Covered == \A l \in leases : Covers(l)

PromiseInv == Marked(req) /\ Attested(req) /\ Covered
Promised   == PromiseInv' /\ [Lifecycle!Next]_(Lifecycle!vars)

LEMMA SameOpsTrivial ==
  ASSUME NEW r, NEW c, c.ops = r.ops
  PROVE  SameOps(r, c)
BY DEF SameOps

LEMMA SameOpsCompose ==
  ASSUME NEW r, NEW g, NEW c, SameOps(r, g), SameOps(g, c), DOMAIN g.ops = DOMAIN r.ops
  PROVE  SameOps(r, c)
BY DEF SameOps

LEMMA OutcomeOps ==
  ASSUME NEW r, NEW done, Base(r, done), Attested(r), NEW e \in DOMAIN r.ops,
         NEW outcome \in SettledOps \cup {"unknown"},
         outcome = "succeeded" => Rests(r.ops[e], e, done),
         NEW c, c = RecordOutcome(r, e, outcome)
  PROVE  SameOps(r, c)
<1>1. /\ Steady(r, c, {})
      /\ \A f \in DOMAIN r.ops : f # e => c.ops[f] = r.ops[f]
      /\ c.ops[e].receipt = r.ops[e].receipt
      /\ c.ops[e].status = IF r.ops[e].status \in SettledOps THEN r.ops[e].status ELSE outcome
  BY RecordOutcomeFacts
<1>2. Said(r.ops[e]) => c.ops[e].status = r.ops[e].status
  BY <1>1 DEF Attested
<1>3. Said(c.ops[e]) <=> Said(r.ops[e])
  BY <1>1 DEF Said
<1> QED
  BY <1>1, <1>2, <1>3 DEF SameOps, Steady

\* An open operation changes; nothing is said of it.
LEMMA OpenOpSame ==
  ASSUME NEW r \in Request, Attested(r), NEW e \in OpenOps(r), NEW op \in Op,
         op.item = r.ops[e].item, op.rev = r.ops[e].rev, op.batch = r.ops[e].batch,
         ~Said(op), HasJob(r.ops[e]) => HasJob(op), Marked(r), NEW c, c = [r EXCEPT !.ops[e] = op]
  PROVE  Marked(c) /\ Proceeds(r, c) /\ SameOps(r, c) /\ c.items = r.items /\ c.status = r.status
         /\ c.rev = r.rev /\ c.target = r.target
<1>1. OpMoves(r, c, e) /\ c.ops[e] = op
  BY NewOp
<1>2. ~Said(r.ops[e])
  BY DEF Attested, OpenOps, UnsettledOps, SettledOps
<1>3. SameOps(r, c)
  BY <1>1, <1>2 DEF OpMoves, SameOps
<1> QED
  BY <1>1, <1>3, OpMarks DEF OpMoves

LEMMA AttestedKept ==
  ASSUME NEW r, NEW c, Attested(r), SameOps(r, c)
  PROVE  Attested(c)
BY DEF Attested, SameOps

LEMMA SameVouched ==
  ASSUME SameOps(req, req')
  PROVE  vouchedBar' = vouchedBar
<1> DEFINE told  == {f \in DOMAIN req.ops : Said(req.ops[f]) /\ req.ops[f].status = "succeeded"}
           told2 == {f \in DOMAIN req'.ops : Said(req'.ops[f]) /\ req'.ops[f].status = "succeeded"}
<1>1. told2 = told
  BY DEF SameOps
<1>2. \A e \in told : req'.ops[e].item = req.ops[e].item /\ req'.ops[e].rev = req.ops[e].rev
  BY DEF SameOps
<1>3. /\ vouchedBar = {[item |-> req.ops[e].item, rev |-> req.ops[e].rev] : e \in told}
      /\ vouchedBar' = {[item |-> req'.ops[e].item, rev |-> req'.ops[e].rev] : e \in told2}
  BY DEF vouchedBar, Said
<1> HIDE DEF told, told2
<1> QED
  BY <1>1, <1>2, <1>3

LEMMA SameWritten ==
  ASSUME SameOps(req, req'), applied \subseteq DOMAIN req.ops, applied' = applied
  PROVE  writtenBar' = writtenBar
<1>1. \A e \in applied : /\ req'.ops[e].item = req.ops[e].item /\ req'.ops[e].rev = req.ops[e].rev
                         /\ req'.ops[e].batch = req.ops[e].batch
  BY DEF SameOps
<1> QED
  BY <1>1 DEF writtenBar

LEMMA VerdictType ==
  ASSUME NEW r \in Request
  PROVE  [i \in Items |-> Shown(r.items[i])] \in [Items -> Lifecycle!Verdicts]
<1>1. \A i \in Items : Shown(r.items[i]) \in {"none", "satisfied", "failed", "cancelled"}
  BY Typed, ShownItem
<1> QED
  BY <1>1 DEF Lifecycle!Verdicts

\* A good verdict on an execution item has evidence.
LEMMA Evidence ==
  ASSUME NEW r, NEW done, ReqInv(r, done), NEW i \in Items \ Answers, Shown(r.items[i]) = "satisfied"
  PROVE  \E e \in DOMAIN r.ops :
           /\ r.ops[e].item = i /\ r.ops[e].rev = r.rev
           /\ \/ e \in done
              \/ Said(r.ops[e]) /\ r.ops[e].status = "succeeded"
<1>1. r.items[i] \in Item /\ SatBacked(r, done) /\ OpsOK(r, done)
  BY Typed DEF ReqInv, Base
<1>2. Backed(r, done, i)
  BY <1>1, ShownItem DEF SatBacked
<1>3. PICK d \in DOMAIN r.batches :
        /\ r.batches[d].item = i /\ r.batches[d].rev = r.rev /\ Leaves(r, d) # {}
        /\ \A e \in Leaves(r, d) :
             r.ops[e].status = "succeeded" /\ Rests(r.ops[e], e, done)
  BY <1>2 DEF Backed
<1>4. PICK e \in Leaves(r, d) : TRUE
  BY <1>3
<1>5. e \in done \/ Said(r.ops[e])
  BY <1>3 DEF Rests, Said
<1> QED
  BY <1>1, <1>3, <1>4, <1>5 DEF Leaves, OpsOK

\* Turns keep what they may answer, whatever the request proceeds to.
LEMMA CoveredKept ==
  ASSUME Covered, req \in Request, StopOK(req), Proceeds(req, req'),
         \A m \in leases' : \E l \in leases : m.rev = l.rev /\ m.ready = l.ready
  PROVE  Covered'
<1> SUFFICES ASSUME NEW m \in leases' PROVE Covers(m)'
  BY DEF Covered
<1>1. PICK l \in leases : m.rev = l.rev /\ m.ready = l.ready
  OBVIOUS
<1>2. Covers(l) /\ req'.rev = req.rev
  BY DEF Covered, Proceeds
<1> SUFFICES ASSUME req'.status = "open", m.rev = req'.rev, NEW i \in m.ready \cap Answers
             PROVE  /\ Shown(req'.items[i]) # "failed"
                    /\ \A k \in Needs[i] : Shown(req'.items[k]) = "satisfied"
  BY <1>1, <1>2 DEF Covers
<1>3. req.status = "open"
  <2>1. CASE Terminal(req)
    BY <2>1 DEF Proceeds, Terminal
  <2>2. CASE req.status = "stopping"
    <3>1. req.target \notin {"open", "stopping"}
      BY <2>2, TerminalStatus DEF StopOK
    <3> QED
      BY <2>2, <3>1 DEF Proceeds
  <2> QED
    BY <2>1, <2>2 DEF Terminal
<1>4. /\ Shown(req.items[i]) # "failed"
      /\ \A k \in Needs[i] : Shown(req.items[k]) = "satisfied"
  BY <1>1, <1>2, <1>3 DEF Covers
<1>5. i \in Items \cap Answers /\ \A k \in Needs[i] : k \in Items
  BY RequestAssumption
<1>6. Shown(req'.items[i]) # "failed"
  BY <1>3, <1>4, <1>5 DEF Proceeds
<1>7. \A k \in Needs[i] : Shown(req'.items[k]) = "satisfied"
  BY <1>3, <1>4, <1>5 DEF Proceeds, Given
<1> QED
  BY <1>6, <1>7

\* What proceeds as a value is a step of the promise.
LEMMA ProceedsStep ==
  ASSUME IInv, IInv', Proceeds(req, req'), writtenBar' = writtenBar,
         \/ vouchedBar' = vouchedBar
         \/ /\ ~Terminal(req)
            /\ \E i \in Items \ Answers, n \in 0 .. req.rev :
                 vouchedBar' = vouchedBar \cup {[item |-> i, rev |-> n]}
  PROVE  [Lifecycle!Next]_(Lifecycle!vars)
<1>0. /\ req \in Request /\ req' \in Request /\ StopOK(req)
      /\ ReqInv(req, applied) /\ ReqInv(req, applied)'
  BY DEF IInv, ReqInv, Base
<1>1. req'.rev = req.rev /\ req'.target = req.target
  BY DEF Proceeds
<1>2. verdictBar' \in [Items -> Lifecycle!Verdicts] /\ verdictBar \in [Items -> Lifecycle!Verdicts]
  BY <1>0, VerdictType DEF verdictBar
<1>3. \A i \in Items : verdictBar[i] = Shown(req.items[i]) /\ verdictBar'[i] = Shown(req'.items[i])
  BY DEF verdictBar
<1>4. Lifecycle!Vouch
  BY DEF Lifecycle!Vouch
<1>5. ASSUME NEW to, Given(req, req', to)
      PROVE  Lifecycle!Decide(to)
  <2>1. \A i \in Items : verdictBar'[i] # verdictBar[i] => verdictBar[i] = "none" /\ verdictBar'[i] \in to
    BY <1>3, <1>5 DEF Given
  <2> QED
    BY <1>2, <2>1 DEF Lifecycle!Decide
<1>6. AllShown(req') => Lifecycle!Decided'
  BY <1>3 DEF AllShown, Lifecycle!Decided
<1>7. CASE Terminal(req)
  <2>1. req'.status = req.status /\ Given(req, req', {})
    BY <1>7 DEF Proceeds
  <2>2. \A i \in Items : verdictBar'[i] = verdictBar[i]
    BY <1>3, <2>1 DEF Given
  <2>3. verdictBar' = verdictBar
    BY <1>2, <2>2
  <2> QED
    BY <1>1, <1>7, <2>1, <2>3 DEF Lifecycle!vars
<1>8. CASE req.status = "open"
  <2>1. Lifecycle!Decide({"satisfied", "failed"})
    BY <1>5, <1>8 DEF Proceeds
  <2>2. ASSUME NEW i \in Items, verdictBar'[i] = "satisfied"
        PROVE  Lifecycle!Evident(i)'
    <3>1. Shown(req'.items[i]) = "satisfied" /\ ReqInv(req', applied')
      BY <1>0, <1>3, <2>2
    <3>2. CASE i \in Answers
      BY <3>2 DEF Lifecycle!Evident
    <3>3. CASE i \notin Answers
      <4>1. PICK e \in DOMAIN req'.ops :
              /\ req'.ops[e].item = i /\ req'.ops[e].rev = req'.rev
              /\ \/ e \in applied'
                 \/ Said(req'.ops[e]) /\ req'.ops[e].status = "succeeded"
        BY <3>1, <3>3, Evidence
      <4>2. CASE e \in applied'
        <5>1. [item |-> i, rev |-> req'.rev, worker |-> req'.ops[e].batch] \in writtenBar'
          BY <4>1, <4>2 DEF writtenBar
        <5> QED
          BY <5>1 DEF Lifecycle!Evident
      <4>3. CASE Said(req'.ops[e]) /\ req'.ops[e].status = "succeeded"
        <5>1. [item |-> i, rev |-> req'.rev] \in vouchedBar'
          BY <4>1, <4>3 DEF vouchedBar, Said
        <5> QED
          BY <5>1 DEF Lifecycle!Evident
      <4> QED
        BY <4>1, <4>2, <4>3
    <3> QED
      BY <3>2, <3>3
  <2>3. \/ req'.status = "open"
        \/ req'.status = "completed" /\ \A i \in Items : verdictBar'[i] = "satisfied"
        \/ req'.status = "failed" /\ Lifecycle!Decided' /\ \E i \in Items : verdictBar'[i] = "failed"
    BY <1>3, <1>6, <1>8 DEF Proceeds
  <2>4. Lifecycle!Judge
    BY <1>1, <1>4, <1>8, <2>1, <2>2, <2>3 DEF Lifecycle!Judge
  <2> QED
    BY <2>4 DEF Lifecycle!Next
<1>9. CASE req.status = "stopping"
  <2>1. \/ req'.status = "stopping" /\ Lifecycle!Decide({"failed"})
        \/ req'.status = req.target /\ Lifecycle!Decide({"failed", "cancelled"}) /\ Lifecycle!Decided'
    BY <1>5, <1>6, <1>9 DEF Proceeds
  <2>2. Lifecycle!WindDown
    BY <1>1, <1>4, <1>9, <2>1 DEF Lifecycle!WindDown
  <2> QED
    BY <2>2 DEF Lifecycle!Next
<1> QED
  BY <1>7, <1>8, <1>9 DEF Terminal

\* The steps that record nothing a tool or the user says.
LEMMA QuietStep ==
  ASSUME IInv, IInv', PromiseInv, Marked(req'), Proceeds(req, req'), SameOps(req, req'),
         applied' = applied,
         \A m \in leases' : \E l \in leases : m.rev = l.rev /\ m.ready = l.ready
  PROVE  Promised
<1>1. /\ req \in Request /\ StopOK(req) /\ applied \subseteq DOMAIN req.ops
  BY Facts DEF ReqInv, Base
<1>2. vouchedBar' = vouchedBar /\ writtenBar' = writtenBar
  BY <1>1, SameVouched, SameWritten
<1>3. [Lifecycle!Next]_(Lifecycle!vars)
  BY <1>2, ProceedsStep
<1>4. Covered'
  BY <1>1, CoveredKept DEF PromiseInv
<1>5. Attested(req')
  BY AttestedKept DEF PromiseInv
<1> QED
  BY <1>3, <1>4, <1>5 DEF Promised, PromiseInv

\* The steps of the process that leave the request alone.
LEMMA StillStep ==
  ASSUME IInv, IInv', PromiseInv, req' = req, applied' = applied, leases' \subseteq leases
  PROVE  Promised
<1>1. Marked(req') /\ Proceeds(req, req') /\ SameOps(req, req')
  BY ProceedsSame, TerminalStatus, SameOpsTrivial, Facts DEF PromiseInv
<1> QED
  BY <1>1, QuietStep

\* What a tool or the user says is a topic of the promise.
LEMMA VouchStep ==
  ASSUME IInv, IInv', PromiseInv, NEW e \in DOMAIN req.ops, req.ops[e].status \notin SettledOps,
         Marked(req'), Proceeds(req, req'), ~Terminal(req), DOMAIN req'.ops = DOMAIN req.ops,
         \A f \in DOMAIN req.ops : f # e => req'.ops[f] = req.ops[f],
         req'.ops[e].item = req.ops[e].item, req'.ops[e].rev = req.ops[e].rev,
         req'.ops[e].batch = req.ops[e].batch, req'.ops[e].status \in SettledOps,
         Said(req'.ops[e]), leases' = leases, applied' = applied
  PROVE  Promised
<1>0. /\ Attested(req) /\ req \in Request /\ StopOK(req) /\ req.ops[e] \in Op
      /\ applied \subseteq DOMAIN req.ops /\ req.rev \in Nat /\ OpsOK(req, applied) /\ CountOK(req)
  BY Facts, Typed DEF PromiseInv, ReqInv, Base
<1>1. Attested(req') /\ ~Said(req.ops[e])
  BY <1>0 DEF Attested
<1>2. \A f \in DOMAIN req.ops : /\ req'.ops[f].item = req.ops[f].item /\ req'.ops[f].rev = req.ops[f].rev
                                /\ req'.ops[f].batch = req.ops[f].batch
  OBVIOUS
<1>3. writtenBar' = writtenBar
  BY <1>0, <1>2 DEF writtenBar
<1> DEFINE said  == {f \in DOMAIN req.ops : Said(req.ops[f]) /\ req.ops[f].status = "succeeded"}
           said2 == {f \in DOMAIN req'.ops : Said(req'.ops[f]) /\ req'.ops[f].status = "succeeded"}
<1>4. said2 = IF req'.ops[e].status = "succeeded" THEN said \cup {e} ELSE said
  <2>1. e \notin said
    BY <1>1
  <2>2. \A f \in DOMAIN req.ops : f # e => (f \in said2 <=> f \in said)
    OBVIOUS
  <2>3. e \in said2 <=> req'.ops[e].status = "succeeded"
    OBVIOUS
  <2>4. said \subseteq DOMAIN req.ops /\ said2 \subseteq DOMAIN req.ops
    OBVIOUS
  <2> HIDE DEF said, said2
  <2> QED
    BY <2>1, <2>2, <2>3, <2>4
<1>5. /\ vouchedBar = {[item |-> req.ops[f].item, rev |-> req.ops[f].rev] : f \in said}
      /\ vouchedBar' = {[item |-> req.ops[f].item, rev |-> req.ops[f].rev] : f \in said2}
  <2>1. vouchedBar' = {[item |-> req'.ops[f].item, rev |-> req'.ops[f].rev] : f \in said2}
    BY DEF vouchedBar, Said
  <2>2. said2 \subseteq DOMAIN req.ops
    OBVIOUS
  <2>3. vouchedBar = {[item |-> req.ops[f].item, rev |-> req.ops[f].rev] : f \in said}
    BY DEF vouchedBar, Said
  <2> HIDE DEF said, said2
  <2> QED
    BY <1>2, <2>1, <2>2, <2>3
<1> HIDE DEF said, said2
<1>6. \/ vouchedBar' = vouchedBar
      \/ vouchedBar' = vouchedBar \cup {[item |-> req.ops[e].item, rev |-> req.ops[e].rev]}
  BY <1>4, <1>5
<1>7. req.ops[e].item \in Items \ Answers /\ req.ops[e].rev \in 0 .. req.rev
  <2>1. req.ops[e].item \in Items \ Answers /\ req.ops[e].rev \in Nat
    BY <1>0 DEF Op
  <2>2. req.ops[e].rev <= req.rev
    BY <1>0 DEF OpsOK, CountOK
  <2> QED
    BY <1>0, <2>1, <2>2
<1>8. [Lifecycle!Next]_(Lifecycle!vars)
  BY <1>3, <1>6, <1>7, ProceedsStep
<1>9. Covered'
  BY <1>0, CoveredKept DEF PromiseInv
<1> QED
  BY <1>1, <1>8, <1>9 DEF Promised, PromiseInv

-----------------------------------------------------------------------------
(* Turns and workers. *)

LEMMA IdlePromise ==
  ASSUME IInv, IInv', PromiseInv,
         \/ EndTurn \/ Handoff \/ Notify
         \/ \E d \in DOMAIN req.batches : RefuseStart(d) \/ Refuse(d) \/ Submit(d) \/ Bind(d)
         \/ \E e \in DOMAIN req.ops : JobEnd(e)
  PROVE  Promised
<1>1. req' = req /\ applied' = applied /\ leases' \subseteq leases
  <2>1. CASE EndTurn \/ Handoff
    BY <2>1 DEF EndTurn, Handoff, ghosts
  <2>2. CASE Notify
    BY <2>2 DEF Notify, SaveFails, ghosts, worker
  <2>3. CASE \E d \in DOMAIN req.batches : RefuseStart(d) \/ Refuse(d) \/ Submit(d) \/ Bind(d)
    BY <2>3 DEF RefuseStart, Refuse, Submit, Bind, ghosts
  <2>4. CASE \E e \in DOMAIN req.ops : JobEnd(e)
    BY <2>4 DEF JobEnd, ghosts, worker
  <2> QED
    BY <2>1, <2>2, <2>3, <2>4
<1> QED
  BY <1>1, StillStep

\* A turn may answer what is ready.
LEMMA TurnPromise ==
  ASSUME IInv, IInv', PromiseInv, TakeTurn
  PROVE  Promised
<1>1. req' = req /\ applied' = applied
  BY DEF TakeTurn, ghosts
<1>2. PICK work \in SUBSET (Ready(req) \ Answers) :
        leases' = {[batch |-> 0, rev |-> req.rev, epoch |-> req.epoch,
                    ready |-> (Ready(req) \cap Answers) \cup work]}
  BY DEF TakeTurn
<1>3. PICK m : m = [batch |-> 0, rev |-> req.rev, epoch |-> req.epoch,
                    ready |-> (Ready(req) \cap Answers) \cup work]
  OBVIOUS
<1>4. leases' = {m} /\ m.rev = req.rev /\ m.ready \cap Answers \subseteq Ready(req)
  BY <1>2, <1>3
<1>5. req \in Request /\ applied \subseteq DOMAIN req.ops /\ req.rev \in Nat
  BY Facts, Typed
<1>6. ASSUME NEW i \in Ready(req)
      PROVE  /\ Shown(req.items[i]) # "failed"
             /\ \A k \in Needs[i] : Shown(req.items[k]) = "satisfied"
  <2>1. /\ i \in Items /\ req.items[i].status \in {"pending", "waiting"} /\ req.items[i].waits = {}
        /\ \A k \in Needs[i] : k \in Items /\ req.items[k].status = "satisfied"
    BY DEF Ready, Having
  <2>2. \A k \in Needs[i] : "failed" \notin req.items[k].waits
    BY <2>1 DEF PromiseInv, Marked
  <2> QED
    BY <2>1, <2>2 DEF Shown
<1>7. Covered'
  <2>1. m.rev <= req.rev
    BY <1>4, <1>5
  <2>2. Covers(m)'
    BY <1>1, <1>4, <1>6, <2>1 DEF Covers
  <2> QED
    BY <1>4, <2>2 DEF Covered
<1>8. Proceeds(req, req') /\ SameOps(req, req')
  BY <1>1, <1>5, ProceedsSame, TerminalStatus, SameOpsTrivial
<1>9. vouchedBar' = vouchedBar /\ writtenBar' = writtenBar
  BY <1>1, <1>5, <1>8, SameVouched, SameWritten
<1>10. [Lifecycle!Next]_(Lifecycle!vars)
  BY <1>8, <1>9, ProceedsStep
<1> QED
  BY <1>1, <1>7, <1>10 DEF Promised, PromiseInv

LEMMA AnswersPromise ==
  ASSUME IInv, IInv', PromiseInv, Answer
  PROVE  Promised
<1>turn. PICK l \in leases : \E i \in l.ready \cap Answers :
           req.status = "open" /\ req.rev = l.rev /\ req' = Satisfy(req, {i})
  BY DEF Answer, Save
<1>1. PICK i \in l.ready \cap Answers :
        req.status = "open" /\ req.rev = l.rev /\ req' = Satisfy(req, {i})
  BY <1>turn
<1>2. ReqInv(req, applied) /\ leases' = leases /\ applied' = applied
  BY Facts DEF Answer, worker, ghosts
<1>3. i \in Items \cap Answers /\ Shown(req.items[i]) # "failed"
  BY <1>1, RequestAssumption DEF PromiseInv, Covered, Covers
<1>4. Marked(req') /\ Proceeds(req, req')
  BY <1>1, <1>2, <1>3, AnswerPromise DEF PromiseInv
<1>5. SameOps(req, req')
  BY <1>1, <1>2, AnswerFacts, SameOpsTrivial
<1> QED
  BY <1>2, <1>4, <1>5, QuietStep

LEMMA BeginsPromise ==
  ASSUME IInv, IInv', PromiseInv, BeginBatch
  PROVE  Promised
<1>0. req \in Request /\ req' \in Request /\ ReqInv(req, applied) /\ IsFiniteSet(Items)
  BY RequestAssumption DEF IInv, ReqInv, Base
<1>turn. PICK l \in leases : \E i \in l.ready \ Answers :
        /\ LET d == Len(req.batches) + 1 IN
           /\ Save([req EXCEPT !.batches = Append(@,
                     [item |-> i, rev |-> l.rev, status |-> "running",
                      steps |-> [s \in 1 .. Calls[d] |-> "waiting"]])])
           /\ leases' = {[l EXCEPT !.batch = d]}
        /\ UNCHANGED <<interrupted, owner, receipts, runtime, notice, ghosts>>
  BY DEF BeginBatch
<1>1. PICK i \in l.ready \ Answers :
        /\ LET d == Len(req.batches) + 1 IN
           /\ Save([req EXCEPT !.batches = Append(@,
                     [item |-> i, rev |-> l.rev, status |-> "running",
                      steps |-> [s \in 1 .. Calls[d] |-> "waiting"]])])
           /\ leases' = {[l EXCEPT !.batch = d]}
        /\ UNCHANGED <<interrupted, owner, receipts, runtime, notice, ghosts>>
  BY <1>turn
<1>2. PICK b : b = [item |-> i, rev |-> l.rev, status |-> "running",
                    steps |-> [s \in 1 .. Calls[Len(req.batches) + 1] |-> "waiting"]]
  OBVIOUS
<1>3. PICK t : t = Append(req.batches, b)
  OBVIOUS
<1>4. req' = [req EXCEPT !.batches = t] /\ b.status = "running"
  BY <1>1, <1>2, <1>3 DEF Save
<1>5. /\ req'.batches = t /\ req'.status = req.status /\ req'.target = req.target
      /\ req'.rev = req.rev /\ req'.items = req.items /\ req'.ops = req.ops
  BY <1>0, <1>4 DEF Request
<1>6. PICK n : n = Len(req.batches) + 1
  OBVIOUS
<1>7. /\ DOMAIN t = DOMAIN req.batches \cup {n} /\ n \notin DOMAIN req.batches
      /\ t[n] = b /\ \A k \in DOMAIN req.batches : t[k] = req.batches[k]
  <2>1. req.batches \in Seq(Batch) /\ Len(req.batches) \in Nat
    BY <1>0, Typed DEF Request
  <2>2. DOMAIN req.batches = 1 .. Len(req.batches)
    BY <1>0, Typed
  <2> QED
    BY <1>3, <1>6, <2>1, <2>2
<1>8. Leaves(req, n) = {}
  BY <1>0, <1>7 DEF Leaves, ReqInv, Base, OpsOK
<1>9. Marked(req') /\ Proceeds(req, req')
  BY <1>0, <1>4, <1>5, <1>7, <1>8, BeginPromise DEF PromiseInv
<1>10. SameOps(req, req')
  BY <1>5, SameOpsTrivial
<1>11. \A m \in leases' : m.rev = l.rev /\ m.ready = l.ready
  <2>1. l \in [batch : {0} \cup Batches, rev : Nat, epoch : Nat, ready : SUBSET Items]
    BY DEF IInv, ProcessOK
  <2>2. leases' = {[l EXCEPT !.batch = n]}
    BY <1>1, <1>6
  <2> QED
    BY <2>1, <2>2
<1>12. applied' = applied
  BY <1>1 DEF ghosts
<1> QED
  BY <1>9, <1>10, <1>11, <1>12, QuietStep

\* A step begins, ends or is given up; a kept receipt is saved.
LEMMA StepsOfBatch ==
  ASSUME IInv, IInv', PromiseInv,
         \/ \E d \in DOMAIN req.batches : StartStep(d) \/ Finish(d) \/ Interrupt(d)
         \/ \E x \in receipts : RetryReceipt(x)
  PROVE  Promised
<1>0. ReqInv(req, applied) /\ Base(req, applied) /\ Marked(req) /\ req \in Request
  BY Facts DEF PromiseInv, ReqInv
<1>1. leases' = leases /\ applied' = applied
  BY DEF StartStep, Finish, Interrupt, RetryReceipt, ghosts
<1>2. \/ req' = req
      \/ \E d \in DOMAIN req.batches : \E s \in DOMAIN req.batches[d].steps :
           /\ req.batches[d].steps[s] = "waiting"
           /\ req' = [req EXCEPT !.batches[d].steps[s] = "started"]
      \/ \E x : x.batch \in DOMAIN req.batches /\ req' = FinishStep(req, x)
      \/ \E d \in DOMAIN req.batches : \E S :
           /\ \A s \in S : s \in DOMAIN req.batches[d].steps /\ req.batches[d].steps[s] # "started"
           /\ req' = GiveUp(req, d, S)
  <2>1. ASSUME NEW d \in DOMAIN req.batches, StartStep(d)
        PROVE  \/ req' = req
               \/ \E s \in DOMAIN req.batches[d].steps :
                    /\ req.batches[d].steps[s] = "waiting"
                    /\ req' = [req EXCEPT !.batches[d].steps[s] = "started"]
    <3>1. PICK s : s = Min(Waiting(d))
      OBVIOUS
    <3>2. Waiting(d) \subseteq Nat /\ Waiting(d) # {}
      BY <2>1, WaitingFacts DEF StartStep
    <3>3. s \in Waiting(d)
      BY <3>1, <3>2, MinIn
    <3>4. s \in DOMAIN req.batches[d].steps /\ req.batches[d].steps[s] = "waiting"
      BY <3>3, WaitingFacts
    <3>5. req' = req \/ req' = [req EXCEPT !.batches[d].steps[s] = "started"]
      BY <2>1, <3>1 DEF StartStep, Save, SaveFails
    <3> QED
      BY <3>4, <3>5
  <2>2. ASSUME NEW d \in DOMAIN req.batches, Finish(d)
        PROVE  req' = req \/ \E x : x.batch \in DOMAIN req.batches /\ req' = FinishStep(req, x)
    <3>1. PICK ok \in {FALSE, tools[d].ok} :
            LET x == [batch |-> d, step |-> tools[d].step, ok |-> ok]
            IN  req' = req \/ req' = FinishStep(req, x)
      BY <2>2 DEF Finish, Save, SaveFails
    <3> QED
      BY <3>1
  <2>3. ASSUME NEW d \in DOMAIN req.batches, Interrupt(d)
        PROVE  \E S : /\ \A s \in S : s \in DOMAIN req.batches[d].steps
                                      /\ req.batches[d].steps[s] # "started"
                      /\ req' = GiveUp(req, d, S)
    <3>1. PICK lost \in SUBSET Waiting(d) : req' = GiveUp(req, d, Waiting(d) \ lost)
      BY <2>3 DEF Interrupt
    <3>2. \A s \in Waiting(d) \ lost : s \in DOMAIN req.batches[d].steps
                                       /\ req.batches[d].steps[s] # "started"
      BY WaitingFacts
    <3> QED
      BY <3>1, <3>2
  <2>4. ASSUME NEW x \in receipts, RetryReceipt(x)
        PROVE  x.batch \in DOMAIN req.batches /\ req' = FinishStep(req, x)
    BY <2>4 DEF RetryReceipt, Save, IInv, JobOK
  <2> QED
    BY <2>1, <2>2, <2>3, <2>4
<1>3. CASE req' = req
  BY <1>1, <1>3, StillStep
<1>4. CASE \E d \in DOMAIN req.batches : \E s \in DOMAIN req.batches[d].steps :
             /\ req.batches[d].steps[s] = "waiting"
             /\ req' = [req EXCEPT !.batches[d].steps[s] = "started"]
  <2>0. PICK d \in DOMAIN req.batches : \E s \in DOMAIN req.batches[d].steps :
          /\ req.batches[d].steps[s] = "waiting"
          /\ req' = [req EXCEPT !.batches[d].steps[s] = "started"]
    BY <1>4
  <2>1. PICK s \in DOMAIN req.batches[d].steps :
          /\ req.batches[d].steps[s] = "waiting"
          /\ req' = [req EXCEPT !.batches[d].steps[s] = "started"]
    BY <2>0
  <2>2. Marked(req') /\ Proceeds(req, req')
    BY <1>0, <2>1, StartPromise
  <2>3. SameOps(req, req')
    BY <1>0, <2>1, StartFacts, SameOpsTrivial
  <2> QED
    BY <1>1, <2>2, <2>3, QuietStep
<1>5. CASE \E x : x.batch \in DOMAIN req.batches /\ req' = FinishStep(req, x)
  <2>1. PICK x : x.batch \in DOMAIN req.batches /\ req' = FinishStep(req, x)
    BY <1>5
  <2>2. Marked(req') /\ Proceeds(req, req')
    BY <1>0, <2>1, FinishPromise
  <2>3. SameOps(req, req')
    BY <1>0, <2>1, FinishStepFacts, SameOpsTrivial
  <2> QED
    BY <1>1, <2>2, <2>3, QuietStep
<1>6. CASE \E d \in DOMAIN req.batches : \E S :
             /\ \A s \in S : s \in DOMAIN req.batches[d].steps /\ req.batches[d].steps[s] # "started"
             /\ req' = GiveUp(req, d, S)
  <2>0. PICK d \in DOMAIN req.batches : \E S :
          /\ \A s \in S : s \in DOMAIN req.batches[d].steps /\ req.batches[d].steps[s] # "started"
          /\ req' = GiveUp(req, d, S)
    BY <1>6
  <2>1. PICK S :
          /\ \A s \in S : s \in DOMAIN req.batches[d].steps /\ req.batches[d].steps[s] # "started"
          /\ req' = GiveUp(req, d, S)
    BY <2>0
  <2>2. Marked(req') /\ Proceeds(req, req')
    BY <1>0, <2>1, GiveUpPromise
  <2>3. SameOps(req, req')
    BY <1>0, <2>1, GiveUpFacts, SameOpsTrivial
  <2> QED
    BY <1>1, <2>2, <2>3, QuietStep
<1> QED
  BY <1>2, <1>3, <1>4, <1>5, <1>6

LEMMA AdmitsPromise ==
  ASSUME IInv, IInv', PromiseInv, NEW d \in DOMAIN req.batches, Admit(d)
  PROVE  Promised
<1>0. /\ req \in Request /\ req' \in Request /\ d \in Batches /\ StepOf(d) /\ Marked(req)
  BY Facts DEF IInv, ReqInv, Base, PromiseInv
<1>1. /\ tools[d].at = "started" /\ Holding(d) # {} /\ "failed" \notin req.items[req.batches[d].item].waits
      /\ leases' = leases /\ applied' = applied
  BY DEF Admit, MayAdmit, ghosts
<1>2. /\ req.status = "open" /\ req.batches[d].rev = req.rev
  BY <1>1, HoldingFacts
<1>3. req.batches[d].status = "running"
  BY <1>0, <1>1, <1>2 DEF StepOf, Active
<1>4. CASE req' = req
  BY <1>1, <1>4, StillStep
<1>5. CASE req' = [req EXCEPT !.ops = Append(@,
                  [item |-> req.batches[d].item, batch |-> d, rev |-> req.rev,
                   epoch |-> req.epoch, status |-> "running",
                   job |-> FALSE, receipt |-> "none"])]
  <2>1. PICK op : op = [item |-> req.batches[d].item, batch |-> d, rev |-> req.rev,
                        epoch |-> req.epoch, status |-> "running",
                        job |-> FALSE, receipt |-> "none"]
    OBVIOUS
  <2>2. PICK t : t = Append(req.ops, op)
    OBVIOUS
  <2>3. PICK e : e = Len(req.ops) + 1
    OBVIOUS
  <2>4. req' = [req EXCEPT !.ops = t] /\ op.batch = d /\ op.receipt = "none"
    BY <1>5, <2>1, <2>2
  <2>5. /\ req'.ops = t /\ req'.status = req.status /\ req'.target = req.target
        /\ req'.rev = req.rev /\ req'.items = req.items /\ req'.batches = req.batches
    BY <1>0, <2>4 DEF Request
  <2>6. /\ DOMAIN t = DOMAIN req.ops \cup {e} /\ e \notin DOMAIN req.ops
        /\ t[e] = op /\ \A f \in DOMAIN req.ops : t[f] = req.ops[f]
    <3>1. req.ops \in Seq(Op) /\ Len(req.ops) \in Nat /\ DOMAIN req.ops = 1 .. Len(req.ops)
      BY <1>0, Typed DEF Request
    <3> QED
      BY <2>2, <2>3, <3>1
  <2>7. Marked(req') /\ Proceeds(req, req')
    BY <1>0, <1>1, <1>3, <2>4, <2>5, <2>6, AdmitPromise
  <2>8. SameOps(req, req')
    BY <2>4, <2>5, <2>6 DEF SameOps, Said
  <2> QED
    BY <1>1, <2>7, <2>8, QuietStep
<1> QED
  BY <1>4, <1>5 DEF Admit, Save, SaveFails

\* The project changes: the item has no verdict yet, and only its batch has written.
LEMMA WritePromise ==
  ASSUME IInv, IInv', PromiseInv, NEW e \in DOMAIN req.ops, MayWrite(e),
         applied' = applied \cup {e}, leases' = leases,
         req' = req \/ req' = [req EXCEPT !.ops[e].receipt = "commit"]
  PROVE  Promised
<1>0. /\ req \in Request /\ Base(req, applied) /\ OpsOK(req, applied) /\ OneWriter(req)
      /\ applied \subseteq DOMAIN req.ops /\ StopOK(req) /\ Marked(req) /\ Attested(req)
  BY Facts DEF ReqInv, Base, PromiseInv
<1>1. /\ req.status = "open" /\ req.ops[e].rev = req.rev
      /\ req.items[req.ops[e].item].waits = {} /\ e \in OpenOps(req)
  BY DEF MayWrite, OpenOps, UnsettledOps
<1> DEFINE i == req.ops[e].item
           w == req.ops[e].batch
           op == [req.ops[e] EXCEPT !.receipt = "commit"]
<1>2. /\ i \in Items \ Answers /\ req.items[i].status \notin {"satisfied", "cancelled"}
      /\ w \in DOMAIN req.batches /\ w \in Batches
  BY <1>0, <1>1, OpenItem, Facts DEF Terminal
<1>3. Shown(req.items[i]) = "none"
  <2>1. req.items[i] \in Item /\ req.items[i].status # "failed"
    BY <1>0, <1>1, <1>2, Typed DEF Marked
  <2> QED
    BY <1>1, <1>2, <2>1 DEF Shown, Item
<1>4. /\ Marked(req') /\ Proceeds(req, req') /\ SameOps(req, req') /\ req'.items = req.items
      /\ req'.status = req.status /\ req'.rev = req.rev /\ req'.target = req.target
  <2>1. CASE req' = req
    BY <1>0, <2>1, ProceedsSame, TerminalStatus, SameOpsTrivial
  <2>2. CASE req' = [req EXCEPT !.ops[e] = op]
    <3>1. req.ops[e] \in Op
      BY <1>0, TypedLeaf
    <3>2. /\ op \in Op /\ op.item = req.ops[e].item /\ op.rev = req.ops[e].rev
          /\ op.batch = req.ops[e].batch /\ ~Said(op) /\ (HasJob(req.ops[e]) => HasJob(op))
      BY <3>1 DEF Op, Said, HasJob
    <3> HIDE DEF op
    <3> QED
      BY <1>0, <1>1, <2>2, <3>2, OpenOpSame
  <2> QED
    BY <2>1, <2>2
<1>5. writtenBar' = writtenBar \cup {[item |-> i, rev |-> req.rev, worker |-> w]}
  <2>1. \A f \in DOMAIN req.ops : /\ req'.ops[f].item = req.ops[f].item /\ req'.ops[f].rev = req.ops[f].rev
                                  /\ req'.ops[f].batch = req.ops[f].batch
    BY <1>4 DEF SameOps
  <2>2. writtenBar' = {[item |-> req.ops[f].item, rev |-> req.ops[f].rev, worker |-> req.ops[f].batch]
                         : f \in applied \cup {e}}
    BY <1>0, <2>1 DEF writtenBar
  <2> QED
    BY <1>1, <2>2 DEF writtenBar
<1>6. ASSUME NEW x \in writtenBar
      PROVE  x.worker = w <=> x.item = i /\ x.rev = req.rev
  <2>1. PICK f \in applied : x = [item |-> req.ops[f].item, rev |-> req.ops[f].rev,
                                  worker |-> req.ops[f].batch]
    BY <1>6 DEF writtenBar
  <2>2. x.item = req.ops[f].item /\ x.rev = req.ops[f].rev /\ x.worker = req.ops[f].batch
    BY <2>1
  <2>3. /\ f \in DOMAIN req.ops /\ req.ops[f].batch \in DOMAIN req.batches
        /\ req.ops[f].item = req.batches[req.ops[f].batch].item
        /\ req.ops[f].rev = req.batches[req.ops[f].batch].rev
        /\ f \in Leaves(req, req.ops[f].batch)
    BY <1>0, <2>1 DEF OpsOK, Leaves
  <2>4. i = req.batches[w].item /\ req.rev = req.batches[w].rev /\ e \in Leaves(req, w)
    BY <1>0, <1>1 DEF OpsOK, Leaves
  <2>5. x.worker = w => x.item = i /\ x.rev = req.rev
    BY <2>2, <2>3, <2>4
  <2>6. ASSUME x.item = i, x.rev = req.rev PROVE x.worker = w
    <3>1. /\ req.batches[req.ops[f].batch].item = req.batches[w].item
          /\ req.batches[req.ops[f].batch].rev = req.batches[w].rev
          /\ Leaves(req, req.ops[f].batch) # {} /\ Leaves(req, w) # {}
      BY <2>2, <2>3, <2>4, <2>6
    <3>2. req.ops[f].batch = w
      <4> HIDE DEF w
      <4> QED
        BY <1>0, <1>2, <2>3, <3>1, OnlyWriter
    <3> QED
      BY <2>2, <3>2
  <2> QED
    BY <2>5, <2>6
<1>7. vouchedBar' = vouchedBar /\ verdictBar' = verdictBar /\ verdictBar[i] = "none"
  BY <1>2, <1>3, <1>4, SameVouched DEF verdictBar
<1>8. Lifecycle!Write
  <2> HIDE DEF i, w
  <2> QED
    BY <1>1, <1>2, <1>4, <1>5, <1>6, <1>7 DEF Lifecycle!Write
<1>9. [Lifecycle!Next]_(Lifecycle!vars)
  BY <1>8 DEF Lifecycle!Next
<1>10. Covered'
  BY <1>0, <1>4, CoveredKept DEF PromiseInv
<1>11. Attested(req')
  BY <1>0, <1>4, AttestedKept
<1> QED
  BY <1>4, <1>9, <1>10, <1>11 DEF Promised, PromiseInv

LEMMA CommitsPromise ==
  ASSUME IInv, IInv', PromiseInv,
         \/ \E d \in DOMAIN req.batches : Commit(d)
         \/ \E e \in DOMAIN req.ops : JobCommit(e)
  PROVE  Promised
<1>1. CASE \E d \in DOMAIN req.batches : Commit(d)
  <2>1. PICK d \in DOMAIN req.batches : Commit(d)
    BY <1>1
  <2>2. PICK e : e = tools[d].op
    OBVIOUS
  <2>3. d \in Batches /\ tools[d].at \in Working
    BY <2>1, Facts DEF Commit, Working
  <2>4. e \in DOMAIN req.ops
    BY <2>2, <2>3, Facts DEF WorkerOf
  <2>5. /\ MayWrite(e) /\ applied' = applied \cup {e} /\ leases' = leases
        /\ req' = req \/ req' = [req EXCEPT !.ops[e].receipt = "commit"]
    BY <2>1, <2>2 DEF Commit, Save, SaveFails
  <2> QED
    BY <2>4, <2>5, WritePromise
<1>2. CASE \E e \in DOMAIN req.ops : JobCommit(e)
  <2>1. PICK e \in DOMAIN req.ops : JobCommit(e)
    BY <1>2
  <2>2. /\ MayWrite(e) /\ applied' = applied \cup {e} /\ leases' = leases
        /\ req' = req \/ req' = [req EXCEPT !.ops[e].receipt = "commit"]
    BY <2>1 DEF JobCommit, Save, SaveFails, worker
  <2> QED
    BY <2>2, WritePromise
<1> QED
  BY <1>1, <1>2

\* A tool returns or raises.
LEMMA ReturnsPromise ==
  ASSUME IInv, IInv', PromiseInv, NEW d \in DOMAIN req.batches, After(d) \/ Failed(d)
  PROVE  Promised
<1>1. PICK e : e = tools[d].op
  OBVIOUS
<1>2. tools[d].at \in {"running", "committed", "refused"} /\ leases' = leases /\ applied' = applied
  BY DEF After, Failed, ghosts
<1>3. /\ d \in Batches /\ WorkerOf(d) /\ ReqInv(req, applied) /\ Base(req, applied)
      /\ Marked(req) /\ Attested(req)
  BY Facts DEF PromiseInv, ReqInv
<1>4. e \in DOMAIN req.ops /\ req.ops[e].status = "running" /\ ~HasJob(req.ops[e])
  BY <1>1, <1>2, <1>3 DEF WorkerOf, Working
<1>5. \/ req' = req \/ req' = RecordOutcome(req, e, "unknown")
      \/ \E outcome \in SettledOps :
           req' = RecordOutcome([req EXCEPT !.ops[e].receipt = "report"], e, outcome)
  <2>1. CASE After(d)
    <3>1. CASE SaveFails
      BY <3>1 DEF SaveFails
    <3>2. CASE ~SaveFails
      <4>1. PICK ok \in BOOLEAN :
              req' = RecordOutcome([req EXCEPT !.ops[e].receipt = "report"], e,
                                   IF ok THEN "succeeded" ELSE "failed")
        BY <1>1, <2>1, <3>2 DEF After, Save
      <4> QED
        BY <4>1 DEF SettledOps
    <3> QED
      BY <3>1, <3>2
  <2>2. CASE Failed(d)
    BY <1>1, <2>2 DEF Failed, Save, SaveFails
  <2> QED
    BY <2>1, <2>2
<1>6. CASE req' = req
  BY <1>2, <1>6, StillStep
<1>7. CASE req' = RecordOutcome(req, e, "unknown")
  <2>1. Marked(req') /\ Proceeds(req, req')
    BY <1>3, <1>4, <1>7, OutcomePromise
  <2>2. SameOps(req, req')
    BY <1>3, <1>4, <1>7, OutcomeOps
  <2> QED
    BY <1>2, <2>1, <2>2, QuietStep
<1>8. CASE \E outcome \in SettledOps :
             req' = RecordOutcome([req EXCEPT !.ops[e].receipt = "report"], e, outcome)
  <2>1. PICK outcome \in SettledOps :
          req' = RecordOutcome([req EXCEPT !.ops[e].receipt = "report"], e, outcome)
    BY <1>8
  <2>2. e \in OpenOps(req) /\ req.ops[e].status \notin SettledOps
    BY <1>4 DEF OpenOps, UnsettledOps, SettledOps
  <2>3. PICK how \in {"attested", "report"} : how = "report"
    OBVIOUS
  <2>4. PICK s : s = [req EXCEPT !.ops[e].receipt = how]
    OBVIOUS
  <2>5. req' = RecordOutcome(s, e, outcome)
    BY <2>1, <2>3, <2>4
  <2>6. /\ Marked(req') /\ Proceeds(req, req') /\ ~Terminal(req) /\ DOMAIN req'.ops = DOMAIN req.ops
        /\ \A f \in DOMAIN req.ops : f # e => req'.ops[f] = req.ops[f]
        /\ req'.ops[e].item = req.ops[e].item /\ req'.ops[e].rev = req.ops[e].rev
        /\ req'.ops[e].batch = req.ops[e].batch
        /\ req'.ops[e].status = outcome /\ req'.ops[e].receipt = how
    BY ONLY <1>3, <1>4, <2>1, <2>2, <2>3, <2>4, <2>5, SaidPromise
  <2>7. req'.ops[e].status \in SettledOps /\ Said(req'.ops[e])
    BY <2>6 DEF Said
  <2> QED
    BY ONLY IInv, IInv', PromiseInv, <1>2, <1>4, <2>2, <2>6, <2>7, VouchStep
<1> QED
  BY <1>5, <1>6, <1>7, <1>8

-----------------------------------------------------------------------------
(* Jobs, the user, restarts. *)

LEMMA JobsPromise ==
  ASSUME IInv, IInv', PromiseInv, NEW d \in DOMAIN req.batches, Associate(d) \/ Launch(d)
  PROVE  Promised
<1>1. PICK e : e = tools[d].op
  OBVIOUS
<1>2. /\ tools[d].at \in {"submitted", "bound"} /\ leases' = leases /\ applied' = applied
      /\ \/ req' = req
         \/ MayWrite(e) /\ req' = [req EXCEPT !.ops[e].job = TRUE, !.ops[e].status = "bound"]
         \/ MayWrite(e) /\ req' = [req EXCEPT !.ops[e].status = "running"]
  BY <1>1 DEF Associate, Launch, Save, SaveFails, ghosts
<1>3. /\ d \in Batches /\ WorkerOf(d) /\ req \in Request /\ Marked(req) /\ Attested(req)
  BY Facts DEF PromiseInv
<1>4. e \in DOMAIN req.ops /\ req.ops[e] \in Op
  BY <1>1, <1>2, <1>3, Facts DEF WorkerOf, Working
<1>5. CASE req' = req
  BY <1>2, <1>5, StillStep
<1>6. CASE MayWrite(e) /\ req' # req
  <2>1. e \in OpenOps(req)
    BY <1>4, <1>6 DEF MayWrite, OpenOps, UnsettledOps
  <2>2. ~Said(req.ops[e])
    BY <1>3, <2>1 DEF Attested, OpenOps, UnsettledOps, SettledOps
  <2>3. PICK op \in Op :
          /\ req' = [req EXCEPT !.ops[e] = op]
          /\ op.item = req.ops[e].item /\ op.rev = req.ops[e].rev /\ op.batch = req.ops[e].batch
          /\ op.receipt = req.ops[e].receipt /\ (HasJob(req.ops[e]) => HasJob(op))
    <3>1. PICK old \in Op : old = req.ops[e]
      BY <1>4
    <3>2. \E op \in Op : /\ op.item = old.item /\ op.rev = old.rev /\ op.batch = old.batch
                         /\ op.receipt = old.receipt /\ (HasJob(old) => HasJob(op))
                         /\ op = [old EXCEPT !.job = TRUE, !.status = "bound"]
      BY DEF Op, UnsettledOps, HasJob
    <3>3. \E op \in Op : /\ op.item = old.item /\ op.rev = old.rev /\ op.batch = old.batch
                         /\ op.receipt = old.receipt /\ (HasJob(old) => HasJob(op))
                         /\ op = [old EXCEPT !.status = "running"]
      BY DEF Op, UnsettledOps, HasJob
    <3>4. req' \in {[req EXCEPT !.ops[e] = [old EXCEPT !.job = TRUE, !.status = "bound"]],
                    [req EXCEPT !.ops[e] = [old EXCEPT !.status = "running"]]}
      <4>1. CASE req' = [req EXCEPT !.ops[e].status = "running"]
        BY <3>1, <4>1
      <4>2. CASE req' = [req EXCEPT !.ops[e].job = TRUE, !.ops[e].status = "bound"]
        <5>1. req.ops \in [DOMAIN req.ops -> Op]
          BY <1>3, Typed
        <5>2. [[req.ops EXCEPT ![e] = [old EXCEPT !.job = TRUE]] EXCEPT ![e].status = "bound"]
                = [req.ops EXCEPT ![e] = [old EXCEPT !.job = TRUE, !.status = "bound"]]
          BY <1>4, <3>1, <5>1
        <5>3. req' = [req EXCEPT !.ops = [[req.ops EXCEPT ![e] = [old EXCEPT !.job = TRUE]]
                                            EXCEPT ![e].status = "bound"]]
          BY <1>3, <3>1, <4>2 DEF Request
        <5> QED
          BY <5>2, <5>3
      <4> QED
        BY <1>2, <1>6, <4>1, <4>2
    <3> QED
      BY <3>1, <3>2, <3>3, <3>4
  <2>4. Marked(req') /\ Proceeds(req, req') /\ SameOps(req, req')
    BY <1>3, <2>1, <2>2, <2>3, OpenOpSame DEF Said
  <2> QED
    BY <1>2, <2>4, QuietStep
<1> QED
  BY <1>2, <1>5, <1>6

\* The result of a job is recorded.
LEMMA ToldPromise ==
  ASSUME IInv, IInv', PromiseInv, NEW e \in bound, jobs[e] \in Ended, Told(e),
         UNCHANGED <<leases, ghosts>>
  PROVE  Promised
<1>0. /\ e \in DOMAIN req.ops /\ ReqInv(req, applied) /\ Base(req, applied) /\ req \in Request
      /\ StopOK(req) /\ Marked(req) /\ Attested(req) /\ applied' = applied
  BY Facts DEF PromiseInv, ReqInv, Base, ghosts
<1>1. PICK told : told = RecordOutcome(req, e, Verdict(e))
  OBVIOUS
<1>2. /\ Verdict(e) \in SettledOps \cup {"unknown"}
      /\ Verdict(e) = "succeeded" => Rests(req.ops[e], e, applied)
  <2>1. (req.ops[e].receipt = "commit" => e \in applied) /\ HasJob(req.ops[e])
    BY <1>0, Facts DEF Base, OpsOK
  <2> QED
    BY <2>1 DEF Verdict, Ended, SettledOps, Rests
<1>3. Base(told, applied) /\ Steady(req, told, {})
  BY <1>0, <1>1, <1>2, RecordOutcomeFacts
<1>4. Marked(told) /\ Proceeds(req, told) /\ SameOps(req, told)
  BY <1>0, <1>1, <1>2, OutcomePromise, OutcomeOps
<1>5. req' = ReconcileBatches(told)
  BY <1>1 DEF Told, Deliver, Save
<1>6. Marked(req') /\ Proceeds(told, req') /\ req'.ops = told.ops
  BY <1>3, <1>4, <1>5, ReconcilePromise, ReconcileFacts
<1>7. Proceeds(req, req')
  <2>1. told \in Request
    BY <1>3 DEF Base
  <2> QED
    BY <1>0, <1>4, <1>6, <2>1, ProceedsCompose
<1>8. SameOps(req, req')
  BY <1>3, <1>4, <1>6, SameOpsTrivial, SameOpsCompose DEF Steady
<1> QED
  BY <1>0, <1>6, <1>7, <1>8, QuietStep

LEMMA ResultsPromise ==
  ASSUME IInv, IInv', PromiseInv,
         \/ \E e \in DOMAIN req.ops : Hear(e)
         \/ \E e \in unsaved : RetryResult(e)
  PROVE  Promised
<1>1. CASE \E e \in DOMAIN req.ops : Hear(e)
  <2>1. PICK e \in DOMAIN req.ops : Hear(e)
    BY <1>1
  <2>2. UNCHANGED <<leases, ghosts>> /\ jobs[e] \in Ended
    BY <2>1 DEF Hear
  <2>3. CASE e \in bound /\ Told(e)
    BY <2>2, <2>3, ToldPromise
  <2>4. CASE req' = req
    BY <2>2, <2>4, StillStep DEF ghosts
  <2> QED
    BY <2>1, <2>3, <2>4 DEF Hear, SaveFails
<1>2. CASE \E e \in unsaved : RetryResult(e)
  <2>1. PICK e \in unsaved : RetryResult(e)
    BY <1>2
  <2>2. e \in bound /\ e \in Ops /\ JobOf(e)
    BY Facts DEF IInv, ProcessOK
  <2>3. jobs[e] \in Ended /\ Told(e) /\ UNCHANGED <<leases, ghosts>>
    BY <2>1, <2>2 DEF JobOf, RetryResult
  <2> QED
    BY <2>2, <2>3, ToldPromise
<1> QED
  BY <1>1, <1>2

LEMMA PauseResumePromise ==
  ASSUME IInv, IInv', PromiseInv, Pause \/ Resume
  PROVE  Promised
<1>1. req.status = "open" /\ leases' = leases /\ applied' = applied
  BY DEF Pause, Resume, Command, worker, ghosts
<1>2. ReqInv(req, applied) /\ req \in Request /\ Marked(req)
  BY Facts DEF PromiseInv
<1>3. CASE Pause
  <2>1. req' = [req EXCEPT !.paused = TRUE]
    BY <1>3 DEF Pause, Command, Save
  <2>2. Marked(req') /\ Proceeds(req, req') /\ SameOps(req, req')
    BY <1>2, <2>1, PausePromise, PauseFacts, SameOpsTrivial
  <2> QED
    BY <1>1, <2>2, QuietStep
<1>4. CASE Resume
  <2>1. Marked(req') /\ Proceeds(req, req')
    BY <1>1, <1>2, <1>4, ResumePromise DEF Resume, Command, Save
  <2>2. req'.ops = req.ops
    BY <1>1, <1>2, <1>4, ResumeFacts DEF Resume, Command, Save
  <2> QED
    BY <1>1, <2>1, <2>2, SameOpsTrivial, QuietStep
<1> QED
  BY <1>3, <1>4

LEMMA StopPromise ==
  ASSUME IInv, IInv', PromiseInv, Cancel
  PROVE  Promised
<1>0. ReqInv(req, applied) /\ Marked(req) /\ Attested(req) /\ req \in Request /\ req' \in Request
      /\ applied \subseteq DOMAIN req.ops
  BY Facts DEF PromiseInv, IInv, ReqInv, Base
<1>1. PICK target \in Targets :
        Command(Converge(WithdrawBatches([req EXCEPT !.status = "stopping", !.target = target])))
  BY DEF Cancel
<1>2. /\ req.status = "open" /\ applied' = applied /\ target \in Targets
      /\ req' = Converge(WithdrawBatches([req EXCEPT !.status = "stopping", !.target = target]))
  BY <1>1 DEF Command, Save, ghosts
<1>3. /\ Marked(req') /\ req'.rev = req.rev /\ req'.target = target
      /\ \/ req'.status = "stopping" /\ \A i \in Items : Shown(req'.items[i]) = Shown(req.items[i])
         \/ req'.status = target /\ \A i \in Items : Shown(req'.items[i]) =
              IF Shown(req.items[i]) = "none" THEN "cancelled" ELSE Shown(req.items[i])
  <2>1. ReqInv(req, applied) /\ Marked(req) /\ req.status = "open" /\ target \in Targets
    BY <1>0, <1>2
  <2>2. req' = Converge(WithdrawBatches([req EXCEPT !.status = "stopping", !.target = target]))
    BY <1>2
  <2>3. StoppedAs(req, req', target)
    BY ONLY <2>1, <2>2, CancelPromise
  <2> QED
    BY <2>3 DEF StoppedAs
<1>4. SameOps(req, req')
  <2>1. req'.ops = req.ops
    BY <1>0, <1>2, CancelFacts
  <2> QED
    BY <2>1, SameOpsTrivial
<1>5. vouchedBar' = vouchedBar /\ writtenBar' = writtenBar
  BY <1>0, <1>2, <1>4, SameVouched, SameWritten
<1>6. verdictBar' \in [Items -> Lifecycle!Verdicts]
  BY <1>0, VerdictType DEF verdictBar
<1>7. \A i \in Items : verdictBar[i] = Shown(req.items[i]) /\ verdictBar'[i] = Shown(req'.items[i])
  BY DEF verdictBar
<1>8. ASSUME req'.status = "stopping", \A i \in Items : Shown(req'.items[i]) = Shown(req.items[i])
      PROVE  Lifecycle!Stop
  <2>1. verdictBar' = verdictBar
    BY <1>8 DEF verdictBar
  <2> QED
    BY <1>2, <1>3, <1>5, <1>8, <2>1 DEF Lifecycle!Stop
<1>9. ASSUME req'.status = target,
             \A i \in Items : Shown(req'.items[i]) =
               IF Shown(req.items[i]) = "none" THEN "cancelled" ELSE Shown(req.items[i])
      PROVE  Lifecycle!Stop
  <2>1. Lifecycle!Decide({"cancelled"})
    BY <1>6, <1>7, <1>9 DEF Lifecycle!Decide
  <2>2. Lifecycle!Decided'
    BY <1>7, <1>9 DEF Lifecycle!Decided
  <2> QED
    BY <1>2, <1>3, <1>5, <1>9, <2>1, <2>2 DEF Lifecycle!Stop
<1>10. [Lifecycle!Next]_(Lifecycle!vars)
  BY <1>3, <1>8, <1>9 DEF Lifecycle!Next
<1>11. Covered'
  <2>1. req'.status # "open" /\ leases' = leases
    <3>1. target \notin {"open", "stopping"}
      BY <1>0, TerminalStatus
    <3> QED
      BY <1>1, <1>3, <3>1 DEF Command, worker
  <2> QED
    BY <1>3, <2>1 DEF Covered, Covers, PromiseInv
<1>12. Attested(req')
  BY <1>0, <1>4, AttestedKept
<1> QED
  BY <1>3, <1>10, <1>11, <1>12 DEF Promised, PromiseInv

LEMMA AmendsPromise ==
  ASSUME IInv, IInv', PromiseInv, Amend
  PROVE  Promised
<1>0. ReqInv(req, applied) /\ Marked(req) /\ Attested(req) /\ applied \subseteq DOMAIN req.ops
      /\ req.rev \in Nat
  BY Facts, Typed DEF PromiseInv
<1>1. /\ req.status = "open" /\ applied' = applied /\ leases' = leases
      /\ req' = WithdrawBatches([req EXCEPT !.rev = @ + 1, !.items = [i \in Items |-> Untouched]])
  BY DEF Amend, Command, Save, ghosts, worker
<1>2. /\ Marked(req') /\ req'.status = "open" /\ req'.target = req.target /\ req'.rev = req.rev + 1
      /\ \A i \in Items : Shown(req'.items[i]) = "none"
  BY <1>0, <1>1, AmendPromise
<1>3. SameOps(req, req')
  <2>1. req'.ops = req.ops
    BY <1>0, <1>1, AmendFacts
  <2> QED
    BY <2>1, SameOpsTrivial
<1>4. vouchedBar' = vouchedBar /\ writtenBar' = writtenBar
  BY <1>0, <1>1, <1>3, SameVouched, SameWritten
<1>5. verdictBar' = [i \in Items |-> "none"]
  BY <1>2 DEF verdictBar
<1>6. Lifecycle!Amend
  BY <1>1, <1>2, <1>4, <1>5 DEF Lifecycle!Amend
<1>7. [Lifecycle!Next]_(Lifecycle!vars)
  BY <1>6 DEF Lifecycle!Next
<1>8. Covered'
  <2>1. \A l \in leases : l.rev \in Nat /\ l.rev <= req.rev
    BY DEF PromiseInv, Covered, Covers, IInv, ProcessOK
  <2>2. \A l \in leases : l.rev <= req.rev + 1 /\ l.rev # req.rev + 1
    BY <1>0, <2>1
  <2> QED
    BY <1>1, <1>2, <2>2 DEF Covered, Covers
<1>9. Attested(req')
  BY <1>0, <1>3, AttestedKept
<1> QED
  BY <1>2, <1>7, <1>8, <1>9 DEF Promised, PromiseInv

LEMMA BlocksPromise ==
  ASSUME IInv, IInv', PromiseInv, NEW e \in DOMAIN req.ops, CancelJob(e)
  PROVE  Promised
<1>0. ReqInv(req, applied) /\ Marked(req) /\ req \in Request /\ req.ops[e] \in Op
  BY Facts DEF PromiseInv
<1>1. leases' = leases /\ applied' = applied
  BY DEF CancelJob, worker, ghosts
<1>2. PICK i \in Items : i = req.ops[e].item
  BY <1>0 DEF Op
<1>3. CASE req' = req
  BY <1>1, <1>3, StillStep
<1>4. CASE req' = SetItems(req, {i}, LAMBDA item : [item EXCEPT !.waits = @ \cup {"control"}])
  <2>1. Marked(req') /\ Proceeds(req, req')
    BY <1>0, <1>4, BlockPromise
  <2>2. SameOps(req, req')
    BY <1>0, <1>4, BlockFacts, SameOpsTrivial
  <2> QED
    BY <1>1, <2>1, <2>2, QuietStep
<1> QED
  BY <1>2, <1>3, <1>4 DEF CancelJob, Save, SaveFails

\* What the user states is a topic of the promise.
LEMMA SettlesPromise ==
  ASSUME IInv, IInv', PromiseInv, NEW e \in DOMAIN req.ops, NEW outcome \in SettledOps,
         Settle(e, outcome)
  PROVE  Promised
<1>0. /\ ReqInv(req, applied) /\ Marked(req) /\ Attested(req) /\ req \in Request /\ StopOK(req)
      /\ req.ops[e] \in Op /\ applied \subseteq DOMAIN req.ops /\ req.rev \in Nat
      /\ OpsOK(req, applied) /\ CountOK(req)
  BY Facts, Typed DEF PromiseInv, ReqInv, Base
<1>1. /\ req.ops[e].status = "unknown" /\ leases' = leases /\ applied' = applied
  BY DEF Settle, ghosts
<1>2. PICK told : told = RecordOutcome([req EXCEPT !.ops[e].receipt = "attested"], e, outcome)
  OBVIOUS
<1>3. PICK mine : mine = IF Terminal(told) \/ told.rev # told.ops[e].rev THEN {} ELSE {told.ops[e].item}
  OBVIOUS
<1>4. req' = Converge(ReconcileBatches(SetItems(told, mine, LAMBDA item :
           [item EXCEPT !.waits = (@ \ {"unknown"}) \cup {"reconciled"}])))
  BY <1>2, <1>3 DEF Settle, Save
<1>5. /\ Marked(req') /\ Proceeds(req, req') /\ ~Terminal(req) /\ DOMAIN req'.ops = DOMAIN req.ops
      /\ \A f \in DOMAIN req.ops : f # e => req'.ops[f] = req.ops[f]
      /\ req'.ops[e].item = req.ops[e].item /\ req'.ops[e].rev = req.ops[e].rev
      /\ req'.ops[e].batch = req.ops[e].batch
      /\ req'.ops[e].status = outcome /\ req'.ops[e].receipt = "attested"
  BY <1>0, <1>1, <1>2, <1>4, SettlePromise
<1>6. /\ req'.ops[e].status \in SettledOps /\ Said(req'.ops[e]) /\ req.ops[e].status \notin SettledOps
  BY <1>1, <1>5 DEF Said, SettledOps
<1> QED
  BY ONLY IInv, IInv', PromiseInv, e \in DOMAIN req.ops, <1>1, <1>5, <1>6, VouchStep

LEMMA SettleBatchesPromise ==
  ASSUME IInv, IInv', PromiseInv, NEW d \in DOMAIN req.batches, NEW outcome \in Ended,
         SettleBatch(d, outcome)
  PROVE  Promised
<1>0. ReqInv(req, applied) /\ Base(req, applied) /\ Marked(req)
  BY Facts DEF PromiseInv, ReqInv
<1>1. /\ req.batches[d].status = "unknown" /\ Leaves(req, d) \cap OpenOps(req) = {}
      /\ req' = ReconcileBatches([req EXCEPT !.batches[d].status = outcome])
      /\ leases' = leases /\ applied' = applied
  BY DEF SettleBatch, Save, worker, ghosts
<1>2. Marked(req') /\ Proceeds(req, req')
  BY <1>0, <1>1, SettleBatchPromise
<1>3. req'.ops = req.ops
  BY <1>0, <1>1, SettleBatchFacts
<1> QED
  BY <1>1, <1>2, <1>3, SameOpsTrivial, QuietStep

LEMMA CrashPromise ==
  ASSUME IInv, IInv', PromiseInv, Crash
  PROVE  Promised
<1>0. ReqInv(req, applied) /\ Marked(req) /\ Attested(req)
  BY Facts DEF PromiseInv
<1>1. req' = Recover(req) /\ leases' = {} /\ applied' = applied
  BY DEF Crash, Save
<1>2. /\ Marked(req') /\ Proceeds(req, req') /\ DOMAIN req'.ops = DOMAIN req.ops
      /\ \A e \in DOMAIN req.ops :
           /\ req'.ops[e].item = req.ops[e].item /\ req'.ops[e].rev = req.ops[e].rev
           /\ req'.ops[e].batch = req.ops[e].batch /\ req'.ops[e].receipt = req.ops[e].receipt
           /\ \/ req'.ops[e].status = req.ops[e].status
              \/ req'.ops[e].status \in UnsettledOps /\ req.ops[e].status \in UnsettledOps
  BY <1>0, <1>1, RecoverPromise
<1>3. SameOps(req, req')
  <2>1. UnsettledOps \cap SettledOps = {}
    BY DEF UnsettledOps, SettledOps
  <2>2. \A e \in DOMAIN req.ops : Said(req.ops[e]) => req'.ops[e].status = req.ops[e].status
    BY <1>0, <1>2, <2>1 DEF Attested
  <2>3. \A e \in DOMAIN req.ops : Said(req'.ops[e]) <=> Said(req.ops[e])
    BY <1>2 DEF Said
  <2> QED
    BY <1>2, <2>2, <2>3 DEF SameOps
<1> QED
  BY <1>1, <1>2, <1>3, QuietStep

-----------------------------------------------------------------------------
(* The refinement. *)

LEMMA PromiseInit == Init => PromiseInv /\ Lifecycle!Init
<1> SUFFICES ASSUME Init PROVE PromiseInv /\ Lifecycle!Init
  OBVIOUS
<1>1. /\ req.status = "open" /\ req.target = "none" /\ req.rev = 1
      /\ req.items = [i \in Items |-> Untouched] /\ req.ops = <<>> /\ req.batches = <<>>
      /\ leases = {} /\ applied = {}
  BY DEF Init
<1>2. DOMAIN req.ops = {} /\ DOMAIN req.batches = {}
  BY <1>1
<1>3. \A i \in Items : req.items[i].status = "pending" /\ req.items[i].waits = {}
  BY <1>1 DEF Untouched
<1>4. PromiseInv
  BY <1>1, <1>2, <1>3 DEF PromiseInv, Marked, Attested, Covered
<1>5. verdictBar = [i \in Items |-> "none"]
  BY <1>3 DEF verdictBar, Shown
<1>6. writtenBar = {} /\ vouchedBar = {}
  BY <1>1, <1>2 DEF writtenBar, vouchedBar
<1> QED
  BY <1>1, <1>4, <1>5, <1>6 DEF Lifecycle!Init

LEMMA PromiseStep ==
  ASSUME IInv, IInv', PromiseInv, [Next]_vars
  PROVE  Promised
<1>1. CASE UNCHANGED vars
  <2>1. req' = req /\ applied' = applied /\ leases' = leases
    BY <1>1 DEF vars, worker, ghosts
  <2> QED
    BY <2>1, StillStep
<1>2. CASE TakeTurn \/ Answer \/ EndTurn \/ Handoff \/ BeginBatch
  BY <1>2, TurnPromise, AnswersPromise, IdlePromise, BeginsPromise
<1>3. CASE \E d \in DOMAIN req.batches : Tool(d) \/ Interrupt(d)
  <2>1. PICK d \in DOMAIN req.batches : Tool(d) \/ Interrupt(d)
    BY <1>3
  <2>2. CASE StartStep(d) \/ Finish(d) \/ Interrupt(d)
    BY <2>2, StepsOfBatch
  <2>3. CASE RefuseStart(d) \/ Refuse(d) \/ Submit(d) \/ Bind(d)
    BY <2>3, IdlePromise
  <2>4. CASE Admit(d) \/ Commit(d) \/ After(d) \/ Failed(d) \/ Associate(d) \/ Launch(d)
    BY <2>4, AdmitsPromise, CommitsPromise, ReturnsPromise, JobsPromise
  <2> QED
    BY <2>1, <2>2, <2>3, <2>4 DEF Tool
<1>4. CASE \E e \in DOMAIN req.ops : Job(e)
  BY <1>4, CommitsPromise, IdlePromise, ResultsPromise DEF Job
<1>5. CASE \/ \E e \in unsaved : RetryResult(e)
           \/ \E x \in receipts : RetryReceipt(x)
           \/ Notify \/ Crash
  BY <1>5, ResultsPromise, StepsOfBatch, IdlePromise, CrashPromise
<1>6. CASE User
  <2>1. CASE Pause \/ Resume \/ Cancel \/ Amend
    BY <2>1, PauseResumePromise, StopPromise, AmendsPromise
  <2>2. CASE \E e \in DOMAIN req.ops :
               CancelJob(e) \/ \E outcome \in SettledOps : Settle(e, outcome)
    BY <2>2, BlocksPromise, SettlesPromise
  <2>3. CASE \E d \in DOMAIN req.batches, outcome \in Ended : SettleBatch(d, outcome)
    BY <2>3, SettleBatchesPromise
  <2> QED
    BY <1>6, <2>1, <2>2, <2>3 DEF User
<1> QED
  BY <1>1, <1>2, <1>3, <1>4, <1>5, <1>6 DEF Next

\* A request keeps its promise, for any items, calls and bounds: every step of the turns,
\* the tools, the jobs, the user and a restart is one step of the promise or none.
THEOREM RequestImplementsLifecycle == Spec => RequestSpec
<1>1. Init => PromiseInv /\ Lifecycle!Init
  BY PromiseInit
<1>2. IInv /\ IInv' /\ PromiseInv /\ [Next]_vars => PromiseInv' /\ [Lifecycle!Next]_(Lifecycle!vars)
  BY PromiseStep DEF Promised
<1>3. Spec => []IInv
  BY Invariance
<1> QED
  BY <1>1, <1>2, <1>3, PTL DEF Spec, RequestSpec, Lifecycle!Spec
=============================================================================
