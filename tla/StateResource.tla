--------------------------- MODULE StateResource ----------------------------
(***************************************************************************)
(* Runs of the Set-*State.ps1 scripts on a machine: Test, Ensure and       *)
(* Reinitialize in any order, from any state of the machine, with programs *)
(* that fail, programs that exit 0 without doing their work, and runs that *)
(* are killed between or inside steps.                                     *)
(***************************************************************************)
EXTENDS StateSteps

CONSTANTS
  Catalog,   \* script name -> script
  Trusting,  \* scripts that take a program's exit code for its effect
  Rewriting, \* scripts that write over files in place on a compliant machine
  Unreporting, \* scripts whose Test exits 0 whatever it finds
  MaxFaults  \* bound on failures, shortfalls and kills in a behaviour

ASSUME CatalogAssumption == \A s \in DOMAIN Catalog : Catalog[s] \in ScriptType
ASSUME FaultsAssumption == MaxFaults \in Nat

VARIABLES
  script,   \* the script of this behaviour
  have,     \* the facts that hold on the machine
  seen,     \* what the run saw when it last looked
  mode,     \* -Mode of the run
  at,       \* the step the run is at
  outcome,  \* "idle", "running", "succeeded" (exit 0), "shown", "failed"
  start,    \* what the run found: goal met, and the user's items
  hurt,     \* a step of the run failed, fell short or was cut off
  faults    \* number of faults so far

vars == <<script, have, seen, mode, at, outcome, start, hurt, faults>>

Chosen == Catalog[script]
Facts  == [s \in DOMAIN Catalog |-> FactsOf(Catalog[s])]
Steps  == Chosen.steps
Now    == Steps[at]
UserItems(F) == {p \in Chosen.kept : p[1] \in F}

Init ==
  /\ script \in DOMAIN Catalog
  /\ have \in Machines(Chosen)
  /\ seen = {}
  /\ mode = "Test"
  /\ at = 1
  /\ outcome = "idle"
  /\ start = [met |-> FALSE, items |-> {}]
  /\ hurt = FALSE
  /\ faults = 0

\* Apply-Workstation.ps1, or the user, starts the script. Copies are named by
\* the time of the run that makes them.
Call(m) ==
  /\ outcome # "running"
  /\ outcome' = "running"
  /\ mode' = m
  /\ at' = 1
  /\ seen' = {}
  /\ have' = have \ CopiesOf(Chosen)
  /\ start' = [met |-> Chosen.goal \subseteq have, items |-> UserItems(have)]
  /\ hurt' = FALSE
  /\ UNCHANGED <<script, faults>>

Reached == outcome = "running" /\ at <= Len(Steps)

\* Mutant: -Force for every mode in place of -Force:($Mode -eq 'Reinitialize').
AppliesForced(s) ==
  /\ mode \in s.modes
  /\ s.given \subseteq seen
  /\ (\A F \in s.unless : ~(F \subseteq seen)) \/ s.again

Applies(s) ==
  /\ mode \in s.modes
  /\ s.given \subseteq seen
  /\ \/ \A F \in s.unless : ~(F \subseteq seen)
     \/ s.again /\ mode = "Reinitialize"

Taking(kind) == Reached /\ Now.kind = kind /\ Applies(Now)
Proceed      == at' = at + 1 /\ outcome' = outcome

\* Mutant: a run that ends still moves on to the next step.
EndPast(how) == at' = at + 1 /\ outcome' = how

End(how)     == at' = at /\ outcome' = how
RunKept      == UNCHANGED <<script, mode, start>>

\* A condition of the text is not met.
Skip ==
  /\ Reached /\ ~Applies(Now)
  /\ Proceed
  /\ RunKept /\ UNCHANGED <<have, seen, hurt, faults>>

\* Mutant: a run looks once, and trusts what it saw then.
InspectOnce ==
  /\ Taking("look")
  /\ Proceed
  /\ seen' = IF \E l \in 1..(at - 1) : Steps[l].kind = "look" THEN seen ELSE have
  /\ RunKept /\ UNCHANGED <<have, hurt, faults>>

Inspect ==
  /\ Taking("look")
  /\ Proceed
  /\ seen' = have
  /\ RunKept /\ UNCHANGED <<have, hurt, faults>>

After(made, broken) == Settle(Chosen, (have \ broken) \cup made)

Change ==
  /\ Taking("change")
  /\ Proceed
  /\ have' = After(Now.facts, Now.breaks)
  /\ RunKept /\ UNCHANGED <<seen, hurt, faults>>

\* Exit code 0, and less than the whole effect.
FallShort ==
  /\ Taking("change") /\ Now.tool /\ faults < MaxFaults
  /\ \E made \in (SUBSET Now.facts) \ {Now.facts} :
       have' = After(made, Now.breaks)
  /\ Proceed
  /\ hurt' = TRUE /\ faults' = faults + 1
  /\ RunKept /\ UNCHANGED seen

\* Mutant: a rename is a copy and a removal, which a kill may separate.
FailTorn ==
  /\ Taking("change") /\ faults < MaxFaults
  /\ \E broken \in SUBSET Now.breaks :
       \E made \in IF broken = Now.breaks THEN SUBSET Now.facts ELSE {{}} :
         have' = After(made, broken)
  /\ End("failed")
  /\ hurt' = TRUE /\ faults' = faults + 1
  /\ RunKept /\ UNCHANGED seen

\* A nonzero exit code, an exception or a kill, anywhere inside the step.
Fail ==
  /\ Taking("change") /\ faults < MaxFaults
  /\ IF Now.whole
       THEN have' \in {have, After(Now.facts, Now.breaks)}
       ELSE \E broken \in SUBSET Now.breaks :
              \E made \in IF broken = Now.breaks THEN SUBSET Now.facts ELSE {{}} :
                have' = After(made, broken)
  /\ End("failed")
  /\ hurt' = TRUE /\ faults' = faults + 1
  /\ RunKept /\ UNCHANGED seen

Ground(s) == IF s.kind = "need" THEN have ELSE seen

\* Mutant: a check that fails warns and goes on.
CheckWarns ==
  /\ Taking("need") \/ Taking("verify")
  /\ Proceed
  /\ RunKept /\ UNCHANGED <<have, seen, hurt, faults>>

Check ==
  /\ Taking("need") \/ Taking("verify")
  /\ IF Now.facts \subseteq Ground(Now) THEN Proceed ELSE End("failed")
  /\ RunKept /\ UNCHANGED <<have, seen, hurt, faults>>

\* Test reports and exits, Status shows and exits, a compliant run exits.
Leave ==
  /\ \/ /\ Taking("report")
        /\ End(IF Now.facts \subseteq seen THEN "succeeded" ELSE "failed")
     \/ Taking("show") /\ End("shown")
     \/ Taking("rest") /\ End("succeeded")
  /\ RunKept /\ UNCHANGED <<have, seen, hurt, faults>>

\* The end of the text.
Finish ==
  /\ outcome = "running" /\ at > Len(Steps)
  /\ End("succeeded")
  /\ RunKept /\ UNCHANGED <<have, seen, hurt, faults>>

Next ==
  \/ \E m \in Modes : Call(m)
  \/ Skip \/ Inspect \/ Change \/ FallShort \/ Fail
  \/ Check \/ Leave \/ Finish

Spec == Init /\ [][Next]_vars
-----------------------------------------------------------------------------
\* Every variable keeps its type.
TypeOK ==
  /\ script \in DOMAIN Catalog
  /\ have \subseteq Facts[script] /\ seen \subseteq Facts[script]
  /\ mode \in Modes
  /\ at \in 1..(Len(Steps) + 1)
  /\ outcome \in {"idle", "running", "succeeded", "shown", "failed"}
  /\ start \in [met : BOOLEAN, items : SUBSET Chosen.kept]
  /\ hurt \in BOOLEAN
  /\ faults \in 0..MaxFaults

\* Exit 0 is the truth: after Test, Ensure or Reinitialize reported success,
\* everything Test inspects holds, even if a program exited 0 and did less than
\* its work. It needs the second inspection after the changes; the scripts in
\* Trusting have none, or leave a fact out of it.
HonestSuccess ==
  outcome = "succeeded" /\ ~(script \in Trusting /\ hurt)
    => Chosen.goal \subseteq have \/ (script \in Unreporting /\ mode = "Test")

\* Test exits 0 only on a machine without drift, for every script.
TestReportsDrift ==
  outcome = "succeeded" /\ mode = "Test" => Chosen.goal \subseteq have

\* Ensure repairs every drift Test can report: a changing run in which nothing
\* went wrong fails only on a machine without one of the prerequisites the
\* script does not make, whatever drift or interrupted run it started from.
RepairIsComplete ==
  outcome = "failed" /\ mode \in Changing /\ ~hurt
    => ~(Chosen.needs \subseteq have)

\* Ensure on a compliant machine leaves it compliant at every step, also when
\* a step fails or the run is killed there; only Reinitialize takes apart
\* something that was in order. A script in Rewriting, cut off, may leave a
\* truncated file.
CompliantStaysSo ==
  outcome # "idle" /\ mode = "Ensure" /\ start.met
    => Chosen.goal \subseteq have \/ (script \in Rewriting /\ hurt)

\* A file of the user that the script replaces is where it was, or the run
\* has a copy of it, at every step.
UserItemsAreKept ==
  outcome # "idle" => \A p \in start.items : {p[1], p[2]} \cap have # {}

=============================================================================
