------------------------------ MODULE EarlyOom ------------------------------
(***************************************************************************)
(* The early out-of-memory guard of the memory-limit service               *)
(* (scripts/memory-limits/EarlyOom.cs): sampling, the sustain and cooldown *)
(* clocks, the rate-limited cleanup helper with its persisted stamp, the   *)
(* search for the largest eligible application and its termination.  The   *)
(* guard is one thread; pressure, processes, faults, crashes and time move *)
(* between any two of its steps.                                           *)
(*                                                                         *)
(* A timestamp is represented by its age, saturated at the one duration it *)
(* is compared with: an age at that bound reads "that long ago, or never". *)
(***************************************************************************)
EXTENDS Integers, FiniteSets

CONSTANTS
    Proc,             \* application processes
    MaxWeight,        \* bound on a process's private bytes, as a rank
    Sustain,          \* SustainSeconds
    Cooldown,         \* CooldownSeconds
    ReclaimCooldown,  \* MemoryOptimizeCooldownMinutes
    ToolMax,          \* MemoryOptimizeTimeoutSeconds
    NoProc            \* "no candidate"

ASSUME TimingAssumption ==
    /\ Sustain \in Nat \ {0} /\ Cooldown \in Nat \ {0}
    /\ ReclaimCooldown \in Nat \ {0} /\ ToolMax \in Nat \ {0}
    /\ ToolMax <= ReclaimCooldown
ASSUME ProcessAssumption == NoProc \notin Proc /\ MaxWeight \in Nat \ {0}

VARIABLES
    mode, optimizing,   \* policy.Mode, policy.MemoryOptimizeEnabled
    up,                 \* the service process is running
    pc,                 \* where Tick stands
    pressureAge,        \* since pressureSince; -1 when that is unset
    actionAge,          \* since lastAction
    attemptAge,         \* since lastAttempt, in memory
    invalidStamp,       \* the cooldown record is unusable in this run
    stamp,              \* age of the cooldown record on disk
    stepAge,            \* since the utcNow handed to BeforeTermination, then
                        \* since the helper was started
    todo, best,         \* FindCandidate: entries left, candidate held
    bestWeight,         \* private bytes read when best was chosen
    pressed,            \* environment: memory is under pressure now
    healthy,            \* environment: no system call or file write fails
    weight,             \* environment: private bytes; 0 if not running,
                        \* unqueryable or exempt by any ExclusionReason
    calmAge,            \* history: since the sustain clock last had to restart
    launchAge,          \* history: since the attempt of the last helper launch
    recorded,           \* history: last durable audit record of this decision
    steady              \* history: no fault and no change since the search began

policyVars == <<mode, optimizing>>
clockVars  == <<pressureAge, actionAge>>
stampVars  == <<attemptAge, invalidStamp, stamp>>
searchVars == <<todo, best, bestWeight>>
findVars   == <<searchVars, steady>>
worldVars  == <<pressed, healthy, weight>>
vars == <<mode, optimizing, up, pc, pressureAge, actionAge, attemptAge,
          invalidStamp, stamp, stepAge, todo, best, bestWeight, pressed,
          healthy, weight, calmAge, launchAge, recorded, steady>>

Location == {"idle", "recheck", "persist", "launch", "helper", "measure",
             "find", "confirm", "kill"}
Record == {"none", "reclaim-requested", "reclaim-skipped", "reclaim-outcome",
           "terminate-requested"}

Older(age, bound) == IF age < bound THEN age + 1 ELSE bound

-----------------------------------------------------------------------------
(* PressureDecision.ResetPressure and the end of Tick. *)
ResetPressure == pressureAge' = -1 /\ calmAge' = 0

\* Mutant: the weight of the candidate outlives the tick.
LeaveStale ==
    /\ pc' = "idle"
    /\ todo' = {} /\ best' = NoProc /\ steady' = FALSE /\ UNCHANGED bestWeight
    /\ stepAge' = 0
    /\ recorded' = "none"

\* Tick is over: the handle of the candidate is closed.
Leave ==
    /\ pc' = "idle"
    /\ todo' = {} /\ best' = NoProc /\ bestWeight' = 0 /\ steady' = FALSE
    /\ stepAge' = 0
    /\ recorded' = "none"

\* Mutant: RecordFailure forgets to restart the sustain clock.
ThrowKeepsClock == Leave /\ calmAge' = 0 /\ UNCHANGED clockVars

\* An exception leaves Tick and the service loop calls RecordFailure.
Throw == Leave /\ ResetPressure /\ UNCHANGED actionAge

\* FindCandidate starts from a snapshot of every process.
BeginSearch ==
    /\ pc' = "find"
    /\ todo' = Proc /\ best' = NoProc /\ bestWeight' = 0 /\ steady' = healthy
    /\ stepAge' = 0

\* LastAttempt is younger than its cooldown, or the record is unusable.
Suppressed == invalidStamp \/ attemptAge < ReclaimCooldown

-----------------------------------------------------------------------------
(* PressureDecision.Evaluate on the sample that starts a Tick. *)
SampleCalm ==
    /\ ~pressed
    /\ ResetPressure
    /\ UNCHANGED <<pc, actionAge, stepAge, findVars, recorded>>

SampleFaults ==
    /\ ~healthy
    /\ Throw

PressureSince == IF pressureAge < 0 THEN 0 ELSE pressureAge

SampleNotReady ==
    /\ pressed
    /\ actionAge < Cooldown \/ PressureSince < Sustain
    /\ pressureAge' = PressureSince
    /\ UNCHANGED <<pc, actionAge, stepAge, findVars, calmAge, recorded>>

Decide ==
    /\ pressed
    /\ actionAge >= Cooldown /\ PressureSince >= Sustain
    /\ actionAge' = 0
    /\ ResetPressure
    /\ recorded' = "none"
    /\ IF mode = "Enforce"
       THEN pc' = "recheck" /\ UNCHANGED <<stepAge, findVars>>
       ELSE BeginSearch

Sample ==
    /\ up /\ pc = "idle" /\ mode # "Disabled"
    /\ SampleCalm \/ SampleFaults \/ SampleNotReady \/ Decide
    /\ UNCHANGED <<policyVars, up, stampVars, worldVars, launchAge>>

(* Fresh telemetry, then the head of BeforeTermination. *)
ReclaimDue ==
    /\ pressed /\ optimizing /\ ~Suppressed
    /\ pc' = "persist"
    /\ stepAge' = 0
    /\ recorded' = "reclaim-requested"
    /\ UNCHANGED <<clockVars, findVars, calmAge>>

\* Mutant: no cleanup due ends the tick.
ReclaimSkippedEnds ==
    /\ pressed /\ (optimizing => Suppressed)
    /\ Leave
    /\ UNCHANGED <<clockVars, calmAge>>

ReclaimSkipped ==
    /\ pressed /\ (optimizing => Suppressed)
    /\ BeginSearch
    /\ recorded' = IF optimizing THEN "reclaim-skipped" ELSE recorded
    /\ UNCHANGED <<clockVars, calmAge>>

Recheck ==
    /\ up /\ pc = "recheck"
    /\ \/ ReclaimDue
       \/ ReclaimSkipped
       \/ ~pressed /\ Leave /\ UNCHANGED <<clockVars, calmAge>>
       \/ ~healthy /\ Throw
    /\ UNCHANGED <<policyVars, up, stampVars, worldVars, launchAge>>

\* Mutant: the attempt is remembered in memory only.
PersistInMemory ==
    /\ attemptAge' = stepAge
    /\ pc' = "launch"
    /\ UNCHANGED <<stamp, invalidStamp, clockVars, stepAge, findVars, calmAge,
                   recorded>>

(* The stamp is replaced before the helper may start. *)
PersistSucceeds ==
    /\ attemptAge' = stepAge /\ stamp' = stepAge
    /\ pc' = "launch"
    /\ UNCHANGED <<invalidStamp, clockVars, stepAge, findVars, calmAge, recorded>>

PersistFails ==
    /\ ~healthy
    /\ invalidStamp' = TRUE
    /\ UNCHANGED <<attemptAge, stamp>>
    /\ \/ BeginSearch /\ recorded' = "reclaim-skipped"
          /\ UNCHANGED <<clockVars, calmAge>>
       \/ Throw

Persist ==
    /\ up /\ pc = "persist"
    /\ PersistSucceeds \/ PersistFails
    /\ UNCHANGED <<policyVars, up, worldVars, launchAge>>

(* RunTool: the helper runs for at most ToolMax, or never starts. *)
Launch ==
    /\ up /\ pc = "launch"
    /\ \/ pc' = "helper" /\ launchAge' = stepAge /\ stepAge' = 0
       \/ ~healthy /\ pc' = "measure" /\ UNCHANGED <<launchAge, stepAge>>
    /\ UNCHANGED <<policyVars, up, clockVars, stampVars, findVars, worldVars,
                   calmAge, recorded>>

HelperEnds ==
    /\ up /\ pc = "helper"
    /\ pc' = "measure"
    /\ UNCHANGED <<policyVars, up, clockVars, stampVars, stepAge, findVars,
                   worldVars, calmAge, launchAge, recorded>>

(* Exit success is not a pressure decision: the sample after it is. *)
Measure ==
    /\ up /\ pc = "measure"
    /\ \/ pressed /\ BeginSearch /\ recorded' = "reclaim-outcome"
          /\ UNCHANGED <<clockVars, calmAge>>
       \/ ~pressed /\ Leave /\ ResetPressure /\ UNCHANGED actionAge
       \/ ~healthy /\ Throw
    /\ UNCHANGED <<policyVars, up, stampVars, worldVars, launchAge>>

\* Mutant: the last eligible process is held.
ExamineLast(p) ==
    /\ up /\ pc = "find" /\ p \in todo
    /\ todo' = todo \ {p}
    /\ IF weight[p] > 0 THEN best' = p /\ bestWeight' = weight[p]
       ELSE UNCHANGED <<best, bestWeight>>
    /\ UNCHANGED <<policyVars, up, pc, clockVars, stampVars, stepAge,
                   worldVars, calmAge, launchAge, recorded, steady>>

(* FindCandidate: one snapshot entry at a time, in no particular order. *)
Examine(p) ==
    /\ up /\ pc = "find" /\ p \in todo
    /\ todo' = todo \ {p}
    /\ \/ /\ weight[p] > bestWeight
          /\ best' = p /\ bestWeight' = weight[p]
       \/ /\ weight[p] <= bestWeight \/ ~healthy
          /\ UNCHANGED <<best, bestWeight>>
    /\ UNCHANGED <<policyVars, up, pc, clockVars, stampVars, stepAge,
                   worldVars, calmAge, launchAge, recorded, steady>>

SearchFaults ==
    /\ up /\ pc = "find" /\ ~healthy
    /\ Throw
    /\ UNCHANGED <<policyVars, up, stampVars, worldVars, launchAge>>

SearchEnds ==
    /\ up /\ pc = "find" /\ todo = {}
    /\ IF best # NoProc /\ mode = "Enforce"
       THEN pc' = "confirm" /\ UNCHANGED <<stepAge, findVars, recorded>>
       ELSE Leave
    /\ UNCHANGED <<policyVars, up, clockVars, stampVars, worldVars, calmAge,
                   launchAge>>

\* Mutant: the result of the audit write is not looked at.
ConfirmUnrecorded ==
    /\ up /\ pc = "confirm" /\ pressed /\ weight[best] > 0
    /\ pc' = "kill"
    /\ \/ recorded' = "terminate-requested"
       \/ ~healthy /\ UNCHANGED recorded
    /\ UNCHANGED <<clockVars, stepAge, findVars, calmAge, policyVars, up,
                   stampVars, worldVars, launchAge>>

(* Pressure and the held process are read again, then the request logged. *)
Confirm ==
    /\ up /\ pc = "confirm"
    /\ \/ /\ pressed /\ weight[best] > 0
          /\ pc' = "kill" /\ recorded' = "terminate-requested"
          /\ UNCHANGED <<clockVars, stepAge, findVars, calmAge>>
       \/ /\ ~pressed \/ weight[best] = 0 \/ ~healthy
          /\ Leave
          /\ UNCHANGED <<clockVars, calmAge>>
       \/ ~healthy /\ Throw
    /\ UNCHANGED <<policyVars, up, stampVars, worldVars, launchAge>>

(* TerminateProcess on the held handle, the wait and the closing record. *)
Kill ==
    /\ up /\ pc = "kill"
    /\ \/ weight' = [weight EXCEPT ![best] = 0]
       \/ ~healthy /\ UNCHANGED weight
    /\ \/ Leave /\ UNCHANGED <<clockVars, calmAge>>
       \/ ~healthy /\ Throw
    /\ UNCHANGED <<policyVars, up, stampVars, pressed, healthy, launchAge>>

Guard ==
    \/ Sample \/ Recheck \/ Persist \/ Launch \/ HelperEnds \/ Measure
    \/ \E p \in Proc : Examine(p)
    \/ SearchFaults \/ SearchEnds \/ Confirm \/ Kill

-----------------------------------------------------------------------------
(* The service process dies at any step and all it had in memory is lost;  *)
(* the service manager starts a new one, which reads the stamp.            *)
Crash ==
    /\ up /\ up' = FALSE
    /\ Leave /\ ResetPressure
    /\ actionAge' = Cooldown
    /\ attemptAge' = ReclaimCooldown /\ invalidStamp' = FALSE
    /\ UNCHANGED <<policyVars, stamp, worldVars, launchAge>>

Restart ==
    /\ ~up /\ up' = TRUE
    /\ ResetPressure
    /\ \/ attemptAge' = stamp /\ UNCHANGED invalidStamp
       \/ ~healthy /\ invalidStamp' = TRUE /\ UNCHANGED attemptAge
    /\ UNCHANGED <<policyVars, pc, actionAge, stamp, stepAge, findVars,
                   worldVars, launchAge, recorded>>

(* One unit of time; the guard does not wait longer than ToolMax. *)
Elapse ==
    /\ pc = "helper" => stepAge < ToolMax
    /\ pressureAge' = IF pressureAge < 0 THEN -1 ELSE Older(pressureAge, Sustain)
    /\ actionAge' = Older(actionAge, Cooldown)
    /\ attemptAge' = Older(attemptAge, ReclaimCooldown)
    /\ stamp' = Older(stamp, ReclaimCooldown)
    /\ stepAge' = IF pc \in {"persist", "launch", "helper"}
                  THEN Older(stepAge, ReclaimCooldown) ELSE stepAge
    /\ calmAge' = Older(calmAge, Sustain)
    /\ launchAge' = Older(launchAge, ReclaimCooldown)
    /\ UNCHANGED <<policyVars, up, pc, invalidStamp, findVars, worldVars,
                   recorded>>

World ==
    /\ \/ pressed' = ~pressed /\ UNCHANGED <<healthy, weight>>
       \/ healthy' = ~healthy /\ UNCHANGED <<pressed, weight>>
       \/ /\ \E p \in Proc, w \in 0..MaxWeight : weight' = [weight EXCEPT ![p] = w]
          /\ UNCHANGED <<pressed, healthy>>
    /\ steady' = (steady /\ healthy' /\ weight' = weight)
    /\ UNCHANGED <<policyVars, up, pc, clockVars, stampVars, stepAge,
                   searchVars, calmAge, launchAge, recorded>>

Init ==
    /\ mode \in {"Disabled", "Observe", "Enforce"}
    /\ optimizing \in BOOLEAN
    /\ up = FALSE /\ pc = "idle"
    /\ pressureAge = -1 /\ actionAge = Cooldown
    /\ attemptAge = ReclaimCooldown /\ invalidStamp = FALSE
    /\ stamp = ReclaimCooldown /\ stepAge = 0
    /\ todo = {} /\ best = NoProc /\ bestWeight = 0
    /\ pressed = FALSE /\ healthy = TRUE
    /\ weight \in [Proc -> 0..MaxWeight]
    /\ calmAge = 0 /\ launchAge = ReclaimCooldown /\ recorded = "none"
    /\ steady = FALSE

Next == Guard \/ Crash \/ Restart \/ Elapse \/ World

Spec ==
    /\ Init /\ [][Next]_vars
    /\ WF_vars(Guard) /\ WF_vars(Elapse) /\ WF_vars(Restart)

-----------------------------------------------------------------------------
(* Type invariant: every age within its saturation bound, and the held     *)
(* candidate is a process exactly when its weight was positive.            *)
TypeOK ==
    /\ mode \in {"Disabled", "Observe", "Enforce"} /\ optimizing \in BOOLEAN
    /\ up \in BOOLEAN /\ pc \in Location
    /\ pressureAge \in -1..Sustain /\ actionAge \in 0..Cooldown
    /\ attemptAge \in 0..ReclaimCooldown /\ invalidStamp \in BOOLEAN
    /\ stamp \in 0..ReclaimCooldown /\ stepAge \in 0..ReclaimCooldown
    /\ todo \subseteq Proc /\ best \in Proc \cup {NoProc}
    /\ bestWeight \in 0..MaxWeight /\ (best = NoProc <=> bestWeight = 0)
    /\ pressed \in BOOLEAN /\ healthy \in BOOLEAN
    /\ weight \in [Proc -> 0..MaxWeight]
    /\ calmAge \in 0..Sustain /\ launchAge \in 0..ReclaimCooldown
    /\ recorded \in Record /\ steady \in BOOLEAN

Launches == pc = "launch" /\ pc' = "helper"
Kills    == pc = "kill" /\ \E p \in Proc : weight[p] > 0 /\ weight'[p] = 0

\* The guard never takes a decision unless every sample of the last Sustain
\* seconds was under pressure: a calm sample, an earlier decision, a fault and a
\* restart of the service each start the wait again (Evaluate, ActionTaken,
\* ResetPressure, RecordFailure).
DecisionsAreSustained ==
    [][pc = "idle" /\ pc' # "idle" => calmAge >= Sustain]_vars

\* A cleanup attempt is only made when the attempt behind the last start of the
\* helper is at least ReclaimCooldown old, across service crashes and restarts
\* at any step, failed writes and an unreadable record (BeforeTermination,
\* the MemoryReclaimer constructor).
ReclaimSpacing ==
    [][pc = "recheck" /\ pc' = "persist" => launchAge >= ReclaimCooldown]_vars

\* Observe and Disabled run no cleanup and never stand before a termination
\* (the mode tests of Tick and BeforeTermination).
OnlyEnforceActs == pc \in Location \ {"idle", "find"} => mode = "Enforce"

\* The helper starts and a process is terminated only after the record that
\* announces it was durably written in the same decision, whatever writes fail
\* (the Write results tested in Tick and in the audit delegate).
ActionsAreRecorded ==
    [][/\ Launches => recorded = "reclaim-requested"
       /\ pc = "kill" => recorded = "terminate-requested"]_vars

\* When nothing fails and no process changes during a search, what is held at
\* its end is a largest eligible process, and nothing is held only if there is
\* none, in whatever order the snapshot lists the processes (FindCandidate).
LargestIsChosen ==
    pc \in {"find", "confirm"} /\ todo = {} /\ steady =>
        /\ \A p \in Proc : weight[p] <= bestWeight
        /\ best \in Proc => weight[best] = bestWeight

\* Pressure that lasts is relieved: if from some time on the service runs in
\* Enforce mode, nothing fails, memory stays under pressure and some application
\* is eligible, then processes keep being terminated (or changing by themselves),
\* whether the cleanup helps, fails, is suppressed by a cooldown or hangs.
Stuck == /\ mode = "Enforce" /\ up /\ healthy /\ pressed
         /\ \E p \in Proc : weight[p] > 0
PressureIsRelieved == <>[]Stuck => []<><<weight' # weight>>_vars
=============================================================================
