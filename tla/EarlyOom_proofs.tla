--------------------------- MODULE EarlyOom_proofs ---------------------------
(***************************************************************************)
(* Proofs about the early out-of-memory guard.                             *)
(*                                                                         *)
(* The guard never looks at the history the properties speak of: it reads  *)
(* its own clocks and the stamp it finds on disk.  The invariant therefore *)
(* relates each of them to the history variable it stands for, through     *)
(* every failed write, crash and restart.                                  *)
(***************************************************************************)
EXTENDS EarlyOom, TLAPS

\* pressureSince never lies before the last event that restarts the wait.
SustainClock == pressureAge <= calmAge

\* Neither the stamp nor the time in memory is older than the attempt behind
\* the last start of the helper, and a new stamp is on disk before that start.
StampClock ==
    /\ stamp <= launchAge
    /\ up /\ ~invalidStamp => attemptAge <= launchAge
    /\ pc \in {"persist", "launch"} =>
          launchAge = ReclaimCooldown /\ ~invalidStamp
    /\ pc = "launch" => stamp <= stepAge /\ attemptAge <= stepAge

Places ==
    /\ pc # "idle" => up
    /\ pc \notin {"idle", "find"} => mode = "Enforce"
    /\ pc \in {"confirm", "kill"} => best \in Proc
    /\ pc = "confirm" => todo = {}

Announced ==
    /\ pc \in {"persist", "launch"} => recorded = "reclaim-requested"
    /\ pc = "kill" => recorded = "terminate-requested"

\* Of the entries visited in an undisturbed search, the held one is a largest.
SearchSoFar ==
    /\ steady => healthy
    /\ pc \in {"find", "confirm"} /\ steady =>
          /\ \A p \in Proc \ todo : weight[p] <= bestWeight
          /\ best \in Proc => weight[best] = bestWeight

Inv == TypeOK /\ SustainClock /\ StampClock /\ Places /\ Announced /\ SearchSoFar

USE TimingAssumption, ProcessAssumption

-----------------------------------------------------------------------------
\* Outside an undisturbed search there is nothing to remember of it.
LEMMA NoSearch ==
  /\ steady = FALSE => SearchSoFar
  /\ steady' = FALSE => SearchSoFar'
  BY Zenon DEF SearchSoFar

LEMMA InitInv == Init => Inv
<1> SUFFICES ASSUME Init PROVE Inv
  OBVIOUS
<1>1. up \in BOOLEAN /\ invalidStamp \in BOOLEAN /\ steady \in BOOLEAN /\ ~up
  BY Zenon DEF Init
<1>2. pressed \in BOOLEAN /\ healthy \in BOOLEAN
  BY Zenon DEF Init
<1>3. TypeOK
  BY <1>1, <1>2 DEF Init, TypeOK, Location, Record
<1>4. SustainClock /\ StampClock /\ Places /\ Announced
  BY <1>1 DEF Init, SustainClock, StampClock, Places, Announced
<1> QED BY <1>3, <1>4, NoSearch DEF Init, Inv

\* Whatever ends a Tick, or the process, keeps the invariant if the clocks and
\* the stamp it leaves behind do.
LEMMA LeaveInv ==
  ASSUME Inv, Leave, UNCHANGED <<mode, optimizing, stamp, launchAge>>,
         up' \in BOOLEAN, pressed' \in BOOLEAN, healthy' \in BOOLEAN,
         weight' \in [Proc -> 0..MaxWeight], invalidStamp' \in BOOLEAN,
         pressureAge' \in -1..Sustain, calmAge' \in 0..Sustain,
         actionAge' \in 0..Cooldown, attemptAge' \in 0..ReclaimCooldown,
         pressureAge' <= calmAge',
         up' /\ ~invalidStamp' => attemptAge' <= launchAge
  PROVE  Inv'
<1>1. steady' \in BOOLEAN
  BY Zenon DEF Leave
<1>2. TypeOK'
  BY <1>1 DEF Inv, TypeOK, Leave, Location, Record
<1>3. SustainClock' /\ StampClock' /\ Places' /\ Announced'
  BY DEF Inv, Leave, SustainClock, StampClock, Places, Announced
<1>4. SearchSoFar'
  BY NoSearch DEF Leave
<1> QED BY <1>2, <1>3, <1>4 DEF Inv

LEMMA SampleInv == ASSUME Inv, Sample PROVE Inv'
<1> USE DEF Inv, Sample, policyVars, stampVars, worldVars
<1>1. CASE SampleCalm
  BY <1>1 DEF SampleCalm, ResetPressure, findVars, searchVars, TypeOK, Location,
     Record, SustainClock, StampClock, Places, Announced, SearchSoFar
<1>2. CASE SampleFaults
  BY <1>2, LeaveInv DEF SampleFaults, Throw, ResetPressure, TypeOK, StampClock
<1>3. CASE SampleNotReady
  BY <1>3 DEF SampleNotReady, PressureSince, findVars, searchVars, TypeOK,
     Location, Record, SustainClock, StampClock, Places, Announced, SearchSoFar
<1>4. CASE Decide /\ mode = "Enforce"
  BY <1>4 DEF Decide, ResetPressure, findVars, searchVars, TypeOK, Location,
     Record, SustainClock, StampClock, Places, Announced, SearchSoFar
<1>5. CASE Decide /\ mode # "Enforce"
  BY <1>5 DEF Decide, BeginSearch, ResetPressure, TypeOK, Location,
     Record, SustainClock, StampClock, Places, Announced, SearchSoFar
<1> QED BY <1>1, <1>2, <1>3, <1>4, <1>5

LEMMA RecheckInv == ASSUME Inv, Recheck PROVE Inv'
<1> USE DEF Inv, Recheck, policyVars, stampVars, worldVars, clockVars
<1>1. CASE ReclaimDue
  BY <1>1 DEF ReclaimDue, Suppressed, findVars, searchVars, TypeOK, Location,
     Record, SustainClock, StampClock, Places, Announced, SearchSoFar
<1>2. CASE ReclaimSkipped
  BY <1>2 DEF ReclaimSkipped, BeginSearch, TypeOK, Location,
     Record, SustainClock, StampClock, Places, Announced, SearchSoFar
<1>3. CASE ~pressed /\ Leave /\ UNCHANGED <<clockVars, calmAge>>
  BY <1>3, LeaveInv DEF TypeOK, SustainClock, StampClock
<1>4. CASE ~healthy /\ Throw
  BY <1>4, LeaveInv DEF Throw, ResetPressure, TypeOK, StampClock
<1> QED BY <1>1, <1>2, <1>3, <1>4

LEMMA PersistInv == ASSUME Inv, Persist PROVE Inv'
<1> USE DEF Inv, Persist, policyVars, worldVars, clockVars
<1>1. CASE PersistSucceeds
  BY <1>1 DEF PersistSucceeds, findVars, searchVars, TypeOK, Location,
     Record, SustainClock, StampClock, Places, Announced, SearchSoFar
<1>2. CASE PersistFails /\ BeginSearch /\ recorded' = "reclaim-skipped"
           /\ UNCHANGED <<clockVars, calmAge>>
  BY <1>2 DEF PersistFails, BeginSearch, TypeOK, Location,
     Record, SustainClock, StampClock, Places, Announced, SearchSoFar
<1>3. CASE PersistFails /\ Throw
  BY <1>3, LeaveInv DEF PersistFails, Throw, ResetPressure, TypeOK, StampClock
<1> QED BY <1>1, <1>2, <1>3 DEF PersistFails

LEMMA HelperInv == ASSUME Inv, Launch \/ HelperEnds PROVE Inv'
<1> USE DEF Inv, policyVars, worldVars, clockVars, stampVars, findVars, searchVars
<1>1. CASE Launch
  BY <1>1 DEF Launch, TypeOK, Location,
     Record, SustainClock, StampClock, Places, Announced, SearchSoFar
<1>2. CASE HelperEnds
  BY <1>2 DEF HelperEnds, TypeOK, Location,
     Record, SustainClock, StampClock, Places, Announced, SearchSoFar
<1> QED BY <1>1, <1>2

LEMMA MeasureInv == ASSUME Inv, Measure PROVE Inv'
<1> USE DEF Inv, Measure, policyVars, worldVars, clockVars, stampVars
<1>1. CASE pressed /\ BeginSearch /\ recorded' = "reclaim-outcome"
           /\ UNCHANGED <<clockVars, calmAge>>
  BY <1>1 DEF BeginSearch, TypeOK, Location,
     Record, SustainClock, StampClock, Places, Announced, SearchSoFar
<1>2. CASE ~pressed /\ Leave /\ ResetPressure /\ UNCHANGED actionAge
  BY <1>2, LeaveInv DEF ResetPressure, TypeOK, StampClock
<1>3. CASE ~healthy /\ Throw
  BY <1>3, LeaveInv DEF Throw, ResetPressure, TypeOK, StampClock
<1> QED BY <1>1, <1>2, <1>3

LEMMA SearchInv ==
  ASSUME Inv, SearchFaults \/ SearchEnds \/ \E p \in Proc : Examine(p)
  PROVE  Inv'
<1> USE DEF Inv, policyVars, worldVars, clockVars, stampVars, findVars, searchVars
<1>1. ASSUME NEW p \in Proc, Examine(p) PROVE Inv'
  <2>1. /\ up' = up /\ pc' = pc /\ steady' = steady /\ todo' = todo \ {p}
        /\ weight' = weight /\ healthy' = healthy /\ pc = "find"
    BY <1>1 DEF Examine
  <2>2. TypeOK'
    BY <1>1 DEF Examine, TypeOK, Location, Record
  <2>3. SustainClock' /\ StampClock' /\ Places' /\ Announced'
    BY <1>1 DEF Examine, SustainClock, StampClock, Places, Announced
  <2>4. SearchSoFar'
    <3>1. CASE weight[p] > bestWeight /\ best' = p /\ bestWeight' = weight[p]
      BY <1>1, <2>1, <3>1 DEF SearchSoFar, TypeOK
    <3>2. CASE (weight[p] <= bestWeight \/ ~healthy)
               /\ UNCHANGED <<best, bestWeight>>
      BY <1>1, <2>1, <3>2 DEF SearchSoFar, TypeOK
    <3> QED BY <1>1, <3>1, <3>2 DEF Examine
  <2> QED BY <2>2, <2>3, <2>4
<1>2. CASE SearchFaults
  BY <1>2, LeaveInv DEF SearchFaults, Throw, ResetPressure, TypeOK, StampClock
<1>3. CASE SearchEnds /\ best # NoProc /\ mode = "Enforce"
  BY <1>3 DEF SearchEnds, TypeOK, Location,
     Record, SustainClock, StampClock, Places, Announced, SearchSoFar
<1>4. CASE SearchEnds /\ ~(best # NoProc /\ mode = "Enforce")
  BY <1>4, LeaveInv DEF SearchEnds, TypeOK, SustainClock, StampClock
<1> QED BY <1>1, <1>2, <1>3, <1>4

LEMMA ConfirmInv == ASSUME Inv, Confirm PROVE Inv'
<1> USE DEF Inv, Confirm, policyVars, worldVars, clockVars, stampVars
<1>1. CASE pc' = "kill"
  BY <1>1 DEF Leave, Throw, findVars, searchVars, TypeOK, Location,
     Record, SustainClock, StampClock, Places, Announced, SearchSoFar
<1>2. CASE Leave /\ UNCHANGED <<clockVars, calmAge>>
  BY <1>2, LeaveInv DEF TypeOK, SustainClock, StampClock
<1>3. CASE Throw
  BY <1>3, LeaveInv DEF Throw, ResetPressure, TypeOK, StampClock
<1> QED BY <1>1, <1>2, <1>3

LEMMA KillInv == ASSUME Inv, Kill PROVE Inv'
<1> USE DEF Inv, Kill, policyVars, clockVars, stampVars
<1>1. weight' \in [Proc -> 0..MaxWeight]
  BY DEF TypeOK, Places
<1>2. CASE Leave /\ UNCHANGED <<clockVars, calmAge>>
  BY <1>1, <1>2, LeaveInv DEF TypeOK, SustainClock, StampClock
<1>3. CASE Throw
  BY <1>1, <1>3, LeaveInv DEF Throw, ResetPressure, TypeOK, StampClock
<1> QED BY <1>2, <1>3

LEMMA ServiceInv == ASSUME Inv, Crash \/ Restart PROVE Inv'
<1> USE DEF Inv, policyVars, worldVars
<1>1. CASE Crash
  <2>1. up' \in BOOLEAN /\ invalidStamp' \in BOOLEAN /\ ~up'
    BY <1>1, Zenon DEF Crash
  <2> QED BY <1>1, <2>1, LeaveInv DEF Crash, ResetPressure, TypeOK
<1>2. CASE Restart
  <2>1. pc = "idle"
    BY <1>2 DEF Restart, Places
  <2>2. up' \in BOOLEAN /\ up' /\ invalidStamp' \in BOOLEAN
    BY <1>2, Zenon DEF Restart, TypeOK
  <2>3. TypeOK'
    BY <1>2, <2>1, <2>2 DEF Restart, ResetPressure, findVars, searchVars,
       TypeOK, Location, Record
  <2>4. SustainClock' /\ Places' /\ Announced'
    BY <1>2, <2>1, <2>2 DEF Restart, ResetPressure, findVars, searchVars,
       SustainClock, Places, Announced
  <2>5. StampClock'
    BY <1>2, <2>1, <2>2 DEF Restart, StampClock, TypeOK
  <2>6. SearchSoFar'
    BY <1>2, <2>1 DEF Restart, findVars, searchVars, SearchSoFar
  <2> QED BY <2>3, <2>4, <2>5, <2>6
<1> QED BY <1>1, <1>2

LEMMA ElapseInv == ASSUME Inv, Elapse PROVE Inv'
<1> USE DEF Inv, Elapse, policyVars, worldVars, findVars, searchVars, Older
<1>1. TypeOK'
  BY DEF TypeOK, Location, Record
<1>2. SustainClock'
  BY DEF TypeOK, SustainClock
<1>3. StampClock'
  BY DEF TypeOK, StampClock
<1>4. Places' /\ Announced' /\ SearchSoFar'
  BY DEF Places, Announced, SearchSoFar
<1> QED BY <1>1, <1>2, <1>3, <1>4

LEMMA WorldInv == ASSUME Inv, World PROVE Inv'
<1> USE DEF Inv, World, policyVars, clockVars, stampVars, searchVars
<1>1. pressed' \in BOOLEAN /\ healthy' \in BOOLEAN
      /\ weight' \in [Proc -> 0..MaxWeight] /\ steady' \in BOOLEAN
  BY DEF TypeOK
<1>2. TypeOK'
  BY <1>1 DEF TypeOK, Location, Record
<1>3. SustainClock' /\ StampClock' /\ Places' /\ Announced'
  BY DEF SustainClock, StampClock, Places, Announced
<1>4. SearchSoFar'
  BY DEF SearchSoFar
<1> QED BY <1>2, <1>3, <1>4

LEMMA NextInv == Inv /\ [Next]_vars => Inv'
<1> SUFFICES ASSUME Inv, [Next]_vars PROVE Inv'
  OBVIOUS
<1>1. CASE Guard
  BY <1>1, SampleInv, RecheckInv, PersistInv, HelperInv, MeasureInv, SearchInv,
     ConfirmInv, KillInv DEF Guard
<1>2. CASE Crash \/ Restart
  BY <1>2, ServiceInv
<1>3. CASE Elapse
  BY <1>3, ElapseInv
<1>4. CASE World
  BY <1>4, WorldInv
<1>5. CASE UNCHANGED vars
  BY <1>5 DEF vars, Inv, TypeOK, SustainClock, StampClock, Places, Announced,
     SearchSoFar
<1> QED BY <1>1, <1>2, <1>3, <1>4, <1>5 DEF Next

\* The invariant holds in every behaviour, for every policy and every number
\* of processes.
THEOREM Invariance == Spec => []Inv
  BY InitInv, NextInv, PTL DEF Spec

-----------------------------------------------------------------------------
\* Every variable keeps its type, and ages never pass the bound they are
\* compared with.
THEOREM TypeCorrect == Spec => []TypeOK
  BY Invariance, PTL DEF Inv

\* Cleanup and termination belong to Enforce mode alone.
THEOREM OnlyEnforceActsAlways == Spec => []OnlyEnforceActs
<1>1. Inv => OnlyEnforceActs
  BY DEF Inv, Places, OnlyEnforceActs, Location
<1> QED BY <1>1, Invariance, PTL

\* An undisturbed search ends with a largest eligible process.
THEOREM LargestIsChosenAlways == Spec => []LargestIsChosen
<1>1. Inv => LargestIsChosen
  BY DEF Inv, SearchSoFar, LargestIsChosen
<1> QED BY <1>1, Invariance, PTL

\* Only Decide takes the guard out of "idle".
LEMMA DecisionStep ==
  ASSUME Inv, [Next]_vars, pc = "idle", pc' # "idle"
  PROVE  calmAge >= Sustain
<1>1. Decide
  BY DEF Inv, TypeOK, Next, Guard, Sample, SampleCalm, SampleFaults, Throw,
     SampleNotReady, Recheck, Persist, Launch, HelperEnds, Measure, Examine,
     SearchFaults, SearchEnds, Confirm, Kill, Crash, Restart, Elapse, World,
     Leave, vars
<1> QED BY <1>1 DEF Decide, PressureSince, Inv, TypeOK, SustainClock

\* No decision without a full Sustain of pressured samples before it.
THEOREM DecisionsAreSustainedAlways == Spec => DecisionsAreSustained
<1>1. Inv /\ [Next]_vars => [pc = "idle" /\ pc' # "idle" => calmAge >= Sustain]_vars
  BY DecisionStep
<1> QED BY <1>1, Invariance, PTL DEF Spec, DecisionsAreSustained

LEMMA ReclaimStep ==
  ASSUME Inv, [Next]_vars, pc = "recheck", pc' = "persist"
  PROVE  launchAge >= ReclaimCooldown
<1>1. ReclaimDue
  BY DEF Inv, TypeOK, Next, Guard, Sample, Recheck, ReclaimSkipped, BeginSearch,
     Throw, Persist, Launch, HelperEnds, Measure, Examine,
     SearchFaults, SearchEnds, Confirm, Kill, Crash, Restart, Elapse, World,
     Leave, vars
<1> QED BY <1>1 DEF ReclaimDue, Suppressed, Inv, TypeOK, StampClock, Places

\* Cleanups keep their distance through every crash, restart and failed write.
THEOREM ReclaimSpacingAlways == Spec => ReclaimSpacing
<1>1. Inv /\ [Next]_vars =>
      [pc = "recheck" /\ pc' = "persist" => launchAge >= ReclaimCooldown]_vars
  BY ReclaimStep
<1> QED BY <1>1, Invariance, PTL DEF Spec, ReclaimSpacing

\* Nothing destructive starts without its own durable announcement.
THEOREM ActionsAreRecordedAlways == Spec => ActionsAreRecorded
<1>1. Inv => [/\ Launches => recorded = "reclaim-requested"
              /\ pc = "kill" => recorded = "terminate-requested"]_vars
  BY DEF Inv, Announced, Launches
<1> QED BY <1>1, Invariance, PTL DEF Spec, ActionsAreRecorded
=============================================================================
