-------------------------- MODULE RequestLifecycle --------------------------
(***************************************************************************)
(* What the assistant promises the user about a request, without turns,    *)
(* tools, jobs or saves.  Whoever asks before he writes is the only writer *)
(* of the item and writes before its verdict, which is given once and      *)
(* needs evidence if it is good.  Only an amendment starts again, and the  *)
(* only way out of a stop is the end the user asked for.  AssistantRequest *)
(* implements it (AssistantRequestRefinement).                             *)
(***************************************************************************)
EXTENDS Naturals

CONSTANTS
  Items, Answers,   \* what was asked; the items that are answered in words
  Workers,          \* whoever works on an item
  Ways              \* how a request may be stopped

VARIABLES
  phase,      \* open, stopping, or how the request ended
  way,        \* how the user wants the request to end, if it is to be stopped
  revision,   \* what the user wants, counted by the amendments
  verdict,    \* [Items -> Verdicts]
  written,    \* who has asked and changed the project, for which item and revision
  vouched     \* what a tool or the user has said to be done, by item and revision

vars == <<phase, way, revision, verdict, written, vouched>>

Verdicts == {"none", "satisfied", "failed", "cancelled"}
Ends     == {"completed", "failed"} \cup Ways
Work     == [item : Items, rev : Nat, worker : Workers]
Topic    == [item : Items, rev : Nat]

TypeOK ==
  /\ phase \in {"open", "stopping"} \cup Ends
  /\ way \in {"none"} \cup Ways
  /\ revision \in Nat
  /\ verdict \in [Items -> Verdicts]
  /\ written \subseteq Work
  /\ vouched \subseteq Topic

Init ==
  /\ phase = "open" /\ way = "none" /\ revision = 1
  /\ verdict = [i \in Items |-> "none"]
  /\ written = {} /\ vouched = {}

\* The project changes for an undecided item of an open request, and a worker stays
\* with the item and the revision it has written, as they stay with it.
Write ==
  /\ phase = "open"
  /\ \E i \in Items \ Answers, w \in Workers :
       /\ verdict[i] = "none"
       /\ \A x \in written : x.worker = w <=> x.item = i /\ x.rev = revision
       /\ written' = written \cup {[item |-> i, rev |-> revision, worker |-> w]}
  /\ UNCHANGED <<phase, way, revision, verdict, vouched>>

Vouch ==
  \/ UNCHANGED vouched
  \/ \E i \in Items \ Answers, n \in 0 .. revision :
       vouched' = vouched \cup {[item |-> i, rev |-> n]}

\* Evidence for an item: somebody has said that it is done, or has asked and written it.
Evident(i) ==
  \/ i \in Answers
  \/ [item |-> i, rev |-> revision] \in vouched
  \/ \E x \in written : x.item = i /\ x.rev = revision

\* Verdicts are given to undecided items and never taken back.
Decide(to) ==
  /\ verdict' \in [Items -> Verdicts]
  /\ \A i \in Items : verdict'[i] # verdict[i] => verdict[i] = "none" /\ verdict'[i] \in to

Decided == \A i \in Items : verdict[i] # "none"

Judge ==
  /\ phase = "open"
  /\ Decide({"satisfied", "failed"}) /\ Vouch
  /\ \A i \in Items : verdict'[i] = "satisfied" => verdict[i] = "satisfied" \/ Evident(i)'
  /\ \/ phase' = "open"
     \/ phase' = "completed" /\ \A i \in Items : verdict'[i] = "satisfied"
     \/ phase' = "failed" /\ Decided' /\ \E i \in Items : verdict'[i] = "failed"
  /\ UNCHANGED <<way, revision, written>>

Stop ==
  /\ phase = "open" /\ way' \in Ways
  /\ \/ phase' = "stopping" /\ UNCHANGED verdict
     \/ phase' = way' /\ Decide({"cancelled"}) /\ Decided'
  /\ UNCHANGED <<revision, written, vouched>>

\* Nothing is written and nothing becomes good any more.
WindDown ==
  /\ phase = "stopping" /\ Vouch
  /\ \/ phase' = "stopping" /\ Decide({"failed"})
     \/ phase' = way /\ Decide({"failed", "cancelled"}) /\ Decided'
  /\ UNCHANGED <<way, revision, written>>

Amend ==
  /\ phase = "open"
  /\ revision' = revision + 1 /\ verdict' = [i \in Items |-> "none"]
  /\ UNCHANGED <<phase, way, written, vouched>>

Next == Write \/ Judge \/ Stop \/ WindDown \/ Amend

Spec == Init /\ [][Next]_vars
=============================================================================
