----------------------------- MODULE StateSteps -----------------------------
(***************************************************************************)
(* The vocabulary in which a Set-*State.ps1 script is written down: a      *)
(* script is the facts its Test mode inspects and the steps it takes, in   *)
(* the order of its text.  Facts are names for things that are or are not  *)
(* so on the machine (a package is installed, a registry value is set).    *)
(*                                                                         *)
(* A step is taken in the modes in `modes', when every fact of `given' was *)
(* seen and each set of `unless' had a fact that was not seen; with        *)
(* `again', Reinitialize takes it whatever was seen.                       *)
(***************************************************************************)
EXTENDS Naturals, Sequences, FiniteSets

Modes    == {"Test", "Ensure", "Reinitialize"}
Changing == Modes \ {"Test"}

LOCAL Step(kind, facts) ==
  [kind |-> kind, facts |-> facts, breaks |-> {}, tool |-> FALSE,
   whole |-> FALSE, modes |-> Modes, given |-> {},
   unless |-> {}, again |-> FALSE]

\* Inspect the machine: every later condition reads what was seen here.
Look == Step("look", {})

\* Cmdlets that make facts true, and throw when they do not.
Write(F) == Step("change", F)

\* A program that makes facts true; it may exit 0 and have done less.
Tool(F) == [Write(F) EXCEPT !.tool = TRUE]

\* Throw unless the facts hold now (a prerequisite).
Need(F) == Step("need", F)

\* Throw, in the changing modes, unless the facts were seen.
Verify(F) == [Step("verify", F) EXCEPT !.modes = Changing]

\* Test ends here: exit 0 when the facts were seen, exit 1 otherwise.
Report(F) == [Step("report", F) EXCEPT !.modes = {"Test"}]

\* Status, in scripts with Enable and Disable in place of Ensure: shows, exits 0.
Show == [Step("show", {}) EXCEPT !.modes = {"Test"}]

\* Exit 0 when the facts were seen: Ensure alone, or both changing modes.
Rest(F) == [Step("rest", {}) EXCEPT !.modes = {"Ensure"}, !.given = F]
Done(F) == [Step("rest", {}) EXCEPT !.modes = Changing, !.given = F]

\* Conditions and effects added to a step.
In(M, s)       == [s EXCEPT !.modes = M]
Given(F, s)    == [s EXCEPT !.given = @ \cup F]
Missing(F, s)  == [s EXCEPT !.unless = @ \cup {F}]
Repair(F, s)   == [Missing(F, s) EXCEPT !.again = TRUE]
Breaking(F, s) == [s EXCEPT !.breaks = @ \cup F]
Rewrite(F)     == Breaking(F, Write(F))   \* a file written over in place

\* One rename: what was at f is at g, and no cut leaves it between.
Move(f, g) == [Breaking({f}, Write({g})) EXCEPT !.whole = TRUE]

\* Steps many scripts take: the check for administrator rights; a download to
\* a file of its own, and the check of its hash before it is used.
Admin == Need({"Administrator"})
Fetch == Breaking({"Download"}, Tool({"Download"}))
Sound == Need({"Download"})

(***************************************************************************)
(* goal: what Test inspects.  needs: what the script asks for and does not *)
(* make.  rests: pairs <<f, g>>, f cannot hold without g.  apart: facts    *)
(* that exclude each other.  kept: pairs <<f, g>>, f is the user's and g   *)
(* is the copy the script makes of it.                                     *)
(***************************************************************************)
Script(goal, needs, steps) ==
  [goal |-> goal, needs |-> needs, steps |-> steps,
   rests |-> {}, apart |-> {}, kept |-> {}]

Resting(R, r) == [r EXCEPT !.rests = R]
Apart(A, r)   == [r EXCEPT !.apart = A]
Keeping(K, r) == [r EXCEPT !.kept = K]

\* What a script is made of.
StepType ==
  [kind : {"look", "change", "need", "verify", "report", "show", "rest"},
   facts : SUBSET STRING, breaks : SUBSET STRING, tool : BOOLEAN,
   whole : BOOLEAN, modes : SUBSET Modes, given : SUBSET STRING,
   unless : SUBSET SUBSET STRING, again : BOOLEAN]

ScriptType ==
  [goal : SUBSET STRING, needs : SUBSET STRING, steps : Seq(StepType),
   rests : SUBSET (STRING \X STRING), apart : SUBSET SUBSET STRING,
   kept : SUBSET (STRING \X STRING)]

FactsOf(r) ==
  r.goal \cup r.needs
    \cup UNION {r.steps[i].facts \cup r.steps[i].breaks : i \in 1..Len(r.steps)}

CopiesOf(r) == {p[2] : p \in r.kept}

\* What is left of a set of facts once those that lost their ground are gone.
Settle(r, F) == {f \in F : \A p \in r.rests : p[1] = f => p[2] \in F}

\* The states a script may find a machine in.
Machines(r) ==
  {F \in SUBSET (FactsOf(r) \ CopiesOf(r)) :
     Settle(r, F) = F /\ \A A \in r.apart : ~(A \subseteq F)}
=============================================================================
