-------------------------- MODULE StagedExecution --------------------------
(***************************************************************************)
(* What the orchestrator promises, without saying how: modules arranged in *)
(* stages are each decided once; a module is applied only on top of        *)
(* everything it stands on, and is passed over only because something at   *)
(* or below its stage failed.  ApplyWorkstation implements this.           *)
(***************************************************************************)
EXTENDS Integers

CONSTANTS Name, Stage

VARIABLES
  selected,   \* the modules of the run, {} until it is accepted
  stage,      \* [Name -> Stage]
  deps,       \* [Name -> SUBSET Name]
  outcome     \* [Name -> Outcome]

vars == <<selected, stage, deps, outcome>>

Outcome == {"Pending", "Succeeded", "Failed", "Skipped"}

Init ==
  /\ selected = {}
  /\ stage \in [Name -> Stage]
  /\ deps \in [Name -> SUBSET Name]
  /\ outcome = [m \in Name |-> "Pending"]

Accept ==
  /\ selected = {}
  /\ selected' \in SUBSET Name
  /\ \A m \in selected' : deps[m] \subseteq selected'
  /\ UNCHANGED <<stage, deps, outcome>>

\* Everything in an earlier stage, and every dependency, has succeeded.
Founded(m) ==
  \A n \in selected :
    stage[n] < stage[m] \/ n \in deps[m] => outcome[n] = "Succeeded"

Apply(m) ==
  /\ m \in selected
  /\ outcome[m] = "Pending"
  /\ Founded(m)
  /\ \E r \in {"Succeeded", "Failed"} : outcome' = [outcome EXCEPT ![m] = r]
  /\ UNCHANGED <<selected, stage, deps>>

PassOver(m) ==
  /\ m \in selected
  /\ outcome[m] = "Pending"
  /\ \E n \in selected : outcome[n] = "Failed" /\ stage[n] <= stage[m]
  /\ outcome' = [outcome EXCEPT ![m] = "Skipped"]
  /\ UNCHANGED <<selected, stage, deps>>

Next == Accept \/ \E m \in Name : Apply(m) \/ PassOver(m)

Spec == Init /\ [][Next]_vars
=============================================================================
