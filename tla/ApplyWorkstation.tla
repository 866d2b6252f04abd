-------------------------- MODULE ApplyWorkstation -------------------------
(***************************************************************************)
(* The whole of Apply-Workstation.ps1: the planner of ModulePlanner and,   *)
(* when the plan is accepted, the loop that invokes the modules.           *)
(*                                                                         *)
(* A module is a few child processes run one after the other               *)
(* (Invoke-CheckedProcess).  A child answers with exit code 0, with        *)
(* another one, or the call itself throws: pwsh.exe, winget or sudo.exe is *)
(* not there, and $ErrorActionPreference = 'Stop' ends the script.  What   *)
(* the children do to the workstation is outside this model.               *)
(***************************************************************************)
EXTENDS ModulePlanner

CONSTANTS
  Steps,      \* [Name -> 1..3]: Invoke-CheckedProcess calls of a module
  Chained     \* modules that return after a failed call, unless in Test mode

ASSUME StepsAssumption ==
  Steps \in [Name -> Nat \ {0}] /\ Chained \subseteq Name

VARIABLES
  status,        \* $moduleStatus; "Pending" where it has no key
  failedStages,  \* the HashSet $failedStages
  failures,      \* $failures.Count
  before,        \* $failureCount, taken before a module is invoked
  cursor,        \* position of the foreach over $selectedModules
  step,          \* 0, or the call the module at cursor is in
  invoked        \* history: modules whose first call was started

runVars == <<status, failedStages, failures, before, cursor, step, invoked>>
vars == <<planVars, runVars>>

Outcome == {"Pending", "Succeeded", "Failed", "Skipped"}
RunEnd == {"succeeded", "failed", "aborted"}
Accepted == {"run"} \cup RunEnd

---------------------------------------------------------------------------
Init ==
  /\ PlanInit
  /\ status = [m \in Name |-> "Pending"]
  /\ failedStages = {}
  /\ failures = 0
  /\ before = 0
  /\ cursor = 1
  /\ step = 0
  /\ invoked = {}

Plan == PlanNext /\ UNCHANGED runVars

Current == order[cursor]

\* $blockedStages: an earlier stage has a failed module.
BlockedByStage(m) == \E s \in failedStages : s < catalog.stage[m]

\* $blockedDependencies: only a dependency this run has recorded can block.
BlockedByDependency(m) ==
  \E d \in catalog.deps[m] : status[d] \notin {"Pending", "Succeeded"}

\* Mutants: a skipped module is recorded under an unknown word, or not at all.
SkipAs(word) ==
  /\ phase = "run" /\ step = 0 /\ cursor <= Len(order)
  /\ BlockedByStage(Current) \/ BlockedByDependency(Current)
  /\ status' = [status EXCEPT ![Current] = word]
  /\ failures' = failures + 1
  /\ cursor' = cursor + 1
  /\ UNCHANGED <<planVars, failedStages, before, step, invoked>>
SkipAsBlocked == SkipAs("Blocked")
SkipUnrecorded == SkipAs("Pending")

Skip ==
  /\ phase = "run" /\ step = 0 /\ cursor <= Len(order)
  /\ BlockedByStage(Current) \/ BlockedByDependency(Current)
  /\ status' = [status EXCEPT ![Current] = "Skipped"]
  /\ failures' = failures + 1
  /\ cursor' = cursor + 1
  /\ UNCHANGED <<planVars, failedStages, before, step, invoked>>

\* Not blocked: remember the failure count and make the first call.
Start ==
  /\ phase = "run" /\ step = 0 /\ cursor <= Len(order)
  /\ ~BlockedByStage(Current) /\ ~BlockedByDependency(Current)
  /\ before' = failures
  /\ step' = 1
  /\ invoked' = invoked \cup {Current}
  /\ UNCHANGED <<planVars, status, failedStages, failures, cursor>>

\* Mutant: a failed call does not end a chained module.
CallContinues(failed) ==
  /\ phase = "run" /\ step > 0 /\ step < Steps[Current]
  /\ failures' = IF failed THEN failures + 1 ELSE failures
  /\ step' = step + 1
  /\ UNCHANGED <<planVars, cursor, status, failedStages, before, invoked>>
\* A module is finished after its last call, or after a failed call of a
\* chained module; it succeeded if no failure was added meanwhile.
CallReturns(failed) ==
  /\ phase = "run" /\ step > 0
  /\ failures' = IF failed THEN failures + 1 ELSE failures
  /\ IF \/ step = Steps[Current]
        \/ failed /\ Current \in Chained /\ request.mode # "Test"
       THEN /\ step' = 0
            /\ cursor' = cursor + 1
            /\ status' = [status EXCEPT ![Current] =
                            IF failures' = before THEN "Succeeded" ELSE "Failed"]
            /\ failedStages' = IF failures' = before THEN failedStages
                               ELSE failedStages \cup {catalog.stage[Current]}
       ELSE /\ step' = step + 1
            /\ UNCHANGED <<cursor, status, failedStages>>
  /\ UNCHANGED <<planVars, before, invoked>>

CallSucceeds == CallReturns(FALSE)
CallFails == CallReturns(TRUE)

\* The call cannot be made: the exception leaves the script, and the failures
\* collected so far are never reported.
CallThrows ==
  /\ phase = "run" /\ step > 0
  /\ phase' = "aborted"
  /\ UNCHANGED <<catalog, request, included, order, runVars>>

\* Mutant: only the last invoked module decides the verdict.
FinishOnLast ==
  /\ phase = "run" /\ step = 0 /\ cursor > Len(order)
  /\ phase' = IF failures > before THEN "failed" ELSE "succeeded"
  /\ UNCHANGED <<catalog, request, included, order, runVars>>

Finish ==
  /\ phase = "run" /\ step = 0 /\ cursor > Len(order)
  /\ phase' = IF failures > 0 THEN "failed" ELSE "succeeded"
  /\ UNCHANGED <<catalog, request, included, order, runVars>>

Next ==
  Plan \/ Skip \/ Start \/ CallSucceeds \/ CallFails \/ CallThrows \/ Finish

\* Every step is taken unless a child process never returns, which nothing in
\* the script prevents: no fairness is assumed of the calls themselves.
Spec == Init /\ [][Next]_vars /\ WF_vars(Plan) /\ WF_vars(Skip \/ Start \/ Finish)

---------------------------------------------------------------------------
TypeOK ==
  /\ catalog \in Catalog
  /\ request \in Request
  /\ phase \in Phase \cup RunEnd
  /\ included \in SUBSET Name
  /\ order \in Seq(Name)
  /\ status \in [Name -> Outcome]
  /\ failedStages \in SUBSET Stage
  /\ failures \in Nat
  /\ before \in Nat
  /\ cursor \in Nat \ {0}
  /\ step \in Nat
  /\ invoked \in SUBSET Name

\* No module is invoked before each of its dependencies has been applied with
\* success in this run.
DependenciesApplied ==
  \A m \in invoked : \A d \in catalog.deps[m] : status[d] = "Succeeded"

\* No module is invoked unless every selected module of every earlier stage
\* has succeeded, the gate of its stage among them: a skip in an earlier stage
\* blocks like a failure does, although only failures are remembered.
StageBarrier ==
  \A m \in invoked : \A n \in included :
    catalog.stage[n] < catalog.stage[m] => status[n] = "Succeeded"

\* A module is passed over only for a failure at or below its stage, never
\* only for other modules that were passed over.
SkipsHaveACause ==
  \A m \in Name : status[m] = "Skipped" =>
    \E n \in included :
      status[n] = "Failed" /\ catalog.stage[n] <= catalog.stage[m]

\* The verdict of a finished run: success means every selected module was
\* applied with success, failure that one failed, and all were considered.
VerdictIsHonest ==
  /\ phase = "succeeded" => \A m \in included : status[m] = "Succeeded"
  /\ phase = "failed" => \E m \in included : status[m] = "Failed"
  /\ phase \in {"succeeded", "failed"} =>
       \A m \in included : status[m] # "Pending"

\* In Ensure mode no removing module runs without one of the two consents,
\* and Debloat never without its own.
RemovalHasConsent ==
  \A m \in invoked \cap catalog.destructive : request.mode = "Ensure" =>
    /\ request.confirmRemoval \/ request.confirmDestructive
    /\ m = Debloat => request.confirmRemoval

\* docs/desired-state.md:234 and the message of Apply-Workstation.ps1:636: the
\* Ensure of a destructive module other than Debloat takes -ConfirmDestructive.
DestructiveHasItsOwnConsent ==
  \A m \in (invoked \cap catalog.destructive) \ {Debloat} :
    request.mode = "Ensure" => request.confirmDestructive

\* A later call of a chained module builds on the earlier ones: outside Test
\* mode it is never made once one of them failed.
ChainStopsAtFirstFailure ==
  step > 1 /\ Current \in Chained /\ request.mode # "Test" => failures = before

---------------------------------------------------------------------------
\* The orchestrator implements staged execution.
Staged == INSTANCE StagedExecution WITH
  selected <- IF phase \in Accepted THEN included ELSE {},
  stage <- catalog.stage,
  deps <- catalog.deps,
  outcome <- status

StagedSpec == Staged!Spec
=============================================================================
