----------------------------- MODULE ScriptRules -----------------------------
(***************************************************************************)
(* What the text of a Set-*State.ps1 script has to look like for its runs  *)
(* to keep their promises.  Each rule is read off the steps alone, in the  *)
(* order of the text and for every mode; that a script which obeys it      *)
(* keeps the promise, in every order of runs and with any number of        *)
(* faults, is proved in StateResource_proofs.                              *)
(***************************************************************************)
EXTENDS StateResource

\* A step every run of the mode takes when it gets there.
Always(s, m) == m \in s.modes /\ s.given = {} /\ s.unless = {}

Looks(r, m, j) == r.steps[j].kind = "look" /\ Always(r.steps[j], m)

Looked(r, m, i) == \E j \in 1..(i - 1) : Looks(r, m, j)

\* No inspection, conditional or not, between the two steps.
SameLook(r, k, i) == \A l \in (k + 1)..(i - 1) : r.steps[l].kind # "look"

\* Whenever step i is taken on what was seen, step k was taken on it too, when
\* the facts of `also' were seen.
Follows(r, m, k, i, also) ==
  LET s == r.steps[k]  t == r.steps[i] IN
  /\ m \in s.modes
  /\ s.given \subseteq t.given \cup also
  /\ s.unless = {} \/ (s.unless \subseteq t.unless /\ (t.again => s.again))
  /\ SameLook(r, k, i)

\* What facts rest on; a fact whose grounds stand on their own.
Dependent(r)  == {p[1] : p \in r.rests}
Grounds(r, F) == {p[2] : p \in {q \in r.rests : q[1] \in F}}
Base(r, F)    == F \cup Grounds(r, F)
Firm(r, g)    == Grounds(r, {g}) \cap (Dependent(r) \cup CopiesOf(r)) = {}

\* The step, when it ends well, leaves a fact that holds. With trust, ending
\* well includes that its program did its work.
Spares(r, s, g, trust) ==
  s.kind = "change" =>
    /\ Firm(r, g)
    /\ Base(r, {g}) \cap s.breaks \subseteq IF trust \/ ~s.tool THEN s.facts ELSE {}

SparedFrom(r, m, j, i, g, trust) ==
  \A k \in (j + 1)..(i - 1) : m \in r.steps[k].modes => Spares(r, r.steps[k], g, trust)

\* What the run saw of the fact is so still.
StillSeen(r, m, i, g, trust) ==
  \E j \in 1..(i - 1) : Looks(r, m, j) /\ SparedFrom(r, m, j, i, g, trust)

\* Nobody gets past the step without the fact: it is checked, it is made, or
\* the step is left out because the fact was seen.
Settles(r, m, i, g, trust) ==
  LET s == r.steps[i] IN
  /\ m \in s.modes /\ s.given = {} /\ g \in s.facts
  /\ \/ s.kind = "need" /\ s.unless = {}
     \/ s.kind = "verify" /\ s.unless = {} /\ StillSeen(r, m, i, g, trust)
     \/ /\ s.kind = "change" /\ (trust \/ ~s.tool)
        /\ Grounds(r, {g}) \subseteq s.facts
        /\ \A F \in s.unless : g \in F
        /\ s.unless # {} => StillSeen(r, m, i, g, trust)

Settled(r, m, i, g, trust) ==
  \E k \in 1..(i - 1) : Settles(r, m, k, g, trust) /\ SparedFrom(r, m, k, i, g, trust)

(***************************************************************************)
(* Success is the truth: every way out with exit code 0 is behind an       *)
(* inspection of the goal, or behind the steps that make it.               *)
(***************************************************************************)
HonestText(r, trust, reports) ==
  /\ \A i \in 1..Len(r.steps) :
       LET s == r.steps[i]
           seenAt == \A m \in s.modes, g \in r.goal : StillSeen(r, m, i, g, trust) IN
       /\ s.kind = "report" => r.goal \subseteq s.facts /\ seenAt
       /\ s.kind = "rest" => r.goal \subseteq s.given /\ seenAt
  /\ reports => \E i \in 1..Len(r.steps) :
       r.steps[i].kind \in {"report", "show"} /\ Always(r.steps[i], "Test")
  /\ \A m \in Changing, g \in r.goal : Settled(r, m, Len(r.steps) + 1, g, trust)

(***************************************************************************)
(* A compliant machine is left compliant: Ensure leaves before a step that *)
(* takes something apart, or does not take it when the goal was seen.      *)
(***************************************************************************)
LeavesBefore(r, i) ==
  \E k \in 1..(i - 1) :
    /\ r.steps[k].kind = "rest" /\ "Ensure" \in r.steps[k].modes
    /\ r.steps[k].given \subseteq r.goal /\ r.steps[k].unless = {}
    /\ Looked(r, "Ensure", k)

GentleText(r, rewriting) ==
  /\ \A p \in r.rests :
       p[1] \in r.goal => p[2] \in r.goal \/ p[2] \notin Dependent(r)
  /\ Base(r, r.goal) \cap CopiesOf(r) = {}
  /\ \A i \in 1..Len(r.steps) :
       LET s == r.steps[i]
           broken == s.breaks \cap Base(r, r.goal) IN
       s.kind = "change" /\ "Ensure" \in s.modes =>
         \/ broken = {}
         \/ rewriting /\ broken \subseteq s.facts
         \/ (\E F \in s.unless : F \subseteq r.goal) /\ Looked(r, "Ensure", i)
         \/ LeavesBefore(r, i)

(***************************************************************************)
(* The user's items are kept: a step that takes one away comes after the   *)
(* copy of it, is the move that makes the copy, or is never reached by a   *)
(* machine that has the item.                                              *)
(***************************************************************************)
\* The copy c of f is made, or found, whenever step i is taken.
CopiedAt(r, m, k, i, f, c) ==
  LET s == r.steps[k] IN
  /\ c \in s.facts
  /\ s.kind = "need" \/ (s.kind = "change" /\ ~s.tool)
  /\ Follows(r, m, k, i, {f})
  /\ f \in s.given => Looked(r, m, k)

NeverMade(r, f) ==
  \A i \in 1..Len(r.steps) : r.steps[i].kind = "change" => f \notin r.steps[i].facts

BarredBy(r, m, k, f) ==
  /\ r.steps[k].kind = "need" /\ Always(r.steps[k], m)
  /\ \E x \in r.steps[k].facts : {f, x} \in r.apart /\ NeverMade(r, x)

KeepingText(r) ==
  \A p \in r.kept :
    /\ Firm(r, p[1]) /\ p[1] \notin CopiesOf(r) /\ p[2] \notin Dependent(r)
    /\ \A i \in 1..Len(r.steps), m \in Modes :
         LET s == r.steps[i] IN
         s.kind = "change" /\ m \in s.modes =>
           /\ p[2] \notin s.breaks
           /\ \/ Base(r, {p[1]}) \cap s.breaks = {}
              \/ s.whole /\ ~s.tool /\ p[2] \in s.facts
              \/ \E k \in 1..(i - 1) : CopiedAt(r, m, k, i, p[1], p[2])
              \/ NeverMade(r, p[1]) /\ \E k \in 1..(i - 1) : BarredBy(r, m, k, p[1])
(***************************************************************************)
(* Repair is complete: a run without a fault that has what the script      *)
(* needs passes every check.  What it finds decides its whole way, so it   *)
(* is followed through the text from each state a machine may be in.       *)
(***************************************************************************)
\* A fact and its ground that stand and fall together, whatever runs and faults
\* there are: the ground rests on nothing, or on what no step takes away, and no
\* step makes both.
Joined(r) ==
  {p \in r.rests :
     /\ p[2] \notin CopiesOf(r)
     /\ \/ p[2] \notin Dependent(r)
        \/ /\ Firm(r, p[2])
           /\ \A i \in 1..Len(r.steps) :
                LET s == r.steps[i] IN
                s.kind = "change" =>
                  Grounds(r, {p[2]}) \cap s.breaks = {} /\ ~({p[1], p[2]} \subseteq s.facts)}

Standing(r, F) == \A p \in Joined(r) : p[1] \in F => p[2] \in F

\* The run takes the step, having seen F.
Taken(s, m, F) ==
  /\ m \in s.modes
  /\ s.given \subseteq F
  /\ (\A U \in s.unless : ~(U \subseteq F)) \/ (s.again /\ m = "Reinitialize")

\* The run takes the step, the needs are there, and the check passes.
Passes(r, s, m, p) ==
  p.on /\ Taken(s, m, p.seen) /\ r.needs \subseteq p.have =>
    /\ s.kind = "need" => s.facts \subseteq p.have
    /\ s.kind \in {"verify", "report"} => s.facts \subseteq p.seen

\* Step i as a run without a fault takes it; on: the run has not ended.
Onward(r, m, i, p) ==
  LET s == r.steps[i]
      with(F, S, on) == [have |-> F, seen |-> S, on |-> on] IN
  IF ~p.on \/ ~Taken(s, m, p.seen) THEN p
  ELSE IF s.kind = "look" THEN with(p.have, p.have, TRUE)
  ELSE IF s.kind = "change"
  THEN with(Settle(r, (p.have \ s.breaks) \cup s.facts), p.seen, TRUE)
  ELSE with(p.have, p.seen, \/ s.kind = "need" /\ s.facts \subseteq p.have
                            \/ s.kind = "verify" /\ s.facts \subseteq p.seen)

Path(r, m, F) ==
  LET path[i \in 1..(Len(r.steps) + 1)] ==
        IF i = 1 THEN [have |-> F, seen |-> {}, on |-> TRUE]
        ELSE Onward(r, m, i - 1, path[i - 1])
  IN path

RepairText(r) ==
  \A F \in SUBSET (FactsOf(r) \ CopiesOf(r)), m \in Changing : Standing(r, F) =>
    \A path \in {Path(r, m, F)} :
      \A i \in 1..Len(r.steps) : Passes(r, r.steps[i], m, path[i])
-----------------------------------------------------------------------------
\* The rules, for every script of the catalog.
HonestTexts ==
  \A s \in DOMAIN Catalog : HonestText(Catalog[s], s \in Trusting, s \notin Unreporting)
GentleTexts  == \A s \in DOMAIN Catalog : GentleText(Catalog[s], s \in Rewriting)
KeepingTexts == \A s \in DOMAIN Catalog : KeepingText(Catalog[s])
RepairTexts  == \A s \in DOMAIN Catalog : RepairText(Catalog[s])
=============================================================================
