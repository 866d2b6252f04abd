------------------------ MODULE StateResource_proofs ------------------------
(***************************************************************************)
(* Proofs about the runs of the Set-*State.ps1 scripts.  Whatever the      *)
(* catalog, a run knows some things at every step: what it saw is so still *)
(* unless a step since took it away, and what a step on its way settled    *)
(* holds.  A script whose text obeys the rules of ScriptRules then keeps   *)
(* its promises, for any number of runs and faults.                        *)
(***************************************************************************)
EXTENDS ScriptRules, TLAPS, FiniteSetTheorems

(***************************************************************************)
(* The operators on scripts.                                               *)
(***************************************************************************)
LEMMA SettleFacts ==
  ASSUME NEW r, NEW F, NEW g
  PROVE  /\ Settle(r, F) \subseteq F
         /\ g \in F /\ Grounds(r, {g}) \subseteq F => g \in Settle(r, F)
         /\ g \in F /\ g \notin Dependent(r) => g \in Settle(r, F)
         /\ g \in Settle(r, F) => Grounds(r, {g}) \subseteq F
  BY DEF Settle, Grounds, Dependent

LEMMA BaseFacts ==
  ASSUME NEW r, NEW g
  PROVE  Base(r, {g}) = {g} \cup Grounds(r, {g})
  BY DEF Base

\* A fact seen so far is seen after the next step, when that step spares it.
LEMMA StillSeenStep ==
  ASSUME NEW r, NEW m, NEW i \in Nat \ {0}, NEW g, NEW t, StillSeen(r, m, i + 1, g, t)
  PROVE  \/ Looks(r, m, i)
         \/ /\ StillSeen(r, m, i, g, t)
            /\ m \in r.steps[i].modes => Spares(r, r.steps[i], g, t)
<1>1. PICK j \in 1..((i + 1) - 1) : Looks(r, m, j) /\ SparedFrom(r, m, j, i + 1, g, t)
  BY DEF StillSeen
<1>2. CASE j = i
  BY <1>1, <1>2
<1>3. CASE j # i
  <2>1. j \in 1..(i - 1) /\ i \in (j + 1)..((i + 1) - 1)
    BY <1>3
  <2>2. SparedFrom(r, m, j, i, g, t)
    BY <1>1 DEF SparedFrom
  <2>3. m \in r.steps[i].modes => Spares(r, r.steps[i], g, t)
    BY <1>1, <2>1 DEF SparedFrom
  <2> QED
    BY <1>1, <2>1, <2>2, <2>3 DEF StillSeen
<1> QED
  BY <1>2, <1>3

\* So with a fact that a step settled.
LEMMA SettledStep ==
  ASSUME NEW r, NEW m, NEW i \in Nat \ {0}, NEW g, NEW t, Settled(r, m, i + 1, g, t)
  PROVE  \/ Settles(r, m, i, g, t)
         \/ /\ Settled(r, m, i, g, t)
            /\ m \in r.steps[i].modes => Spares(r, r.steps[i], g, t)
<1>1. PICK j \in 1..((i + 1) - 1) : Settles(r, m, j, g, t) /\ SparedFrom(r, m, j, i + 1, g, t)
  BY DEF Settled
<1>2. CASE j = i
  BY <1>1, <1>2
<1>3. CASE j # i
  <2>1. j \in 1..(i - 1) /\ i \in (j + 1)..((i + 1) - 1)
    BY <1>3
  <2>2. SparedFrom(r, m, j, i, g, t)
    BY <1>1 DEF SparedFrom
  <2>3. m \in r.steps[i].modes => Spares(r, r.steps[i], g, t)
    BY <1>1, <2>1 DEF SparedFrom
  <2> QED
    BY <1>1, <2>1, <2>2, <2>3 DEF Settled
<1> QED
  BY <1>2, <1>3

LEMMA LookedStep ==
  ASSUME NEW r, NEW m, NEW i \in Nat \ {0}, Looked(r, m, i + 1)
  PROVE  Looks(r, m, i) \/ Looked(r, m, i)
  BY DEF Looked

(***************************************************************************)
(* The types.                                                              *)
(***************************************************************************)
LEMMA ScriptTypes ==
  ASSUME TypeOK
  PROVE  /\ Chosen \in ScriptType
         /\ Len(Steps) \in Nat
         /\ Reached => at \in 1..Len(Steps) /\ Now \in StepType
<1>1. Chosen \in ScriptType
  BY CatalogAssumption DEF TypeOK, Chosen
<1>2. Steps \in Seq(StepType)
  BY <1>1 DEF Steps, ScriptType
<1>3. Len(Steps) \in Nat
  BY <1>2
<1>4. Reached => at \in 1..Len(Steps)
  BY <1>3 DEF Reached, TypeOK
<1>5. Reached => Now \in StepType
  BY <1>2, <1>4 DEF Now
<1> QED
  BY <1>1, <1>3, <1>4, <1>5

\* A step's facts, and what is left after it, are facts of the script.
LEMMA AfterIsTyped ==
  ASSUME TypeOK, Reached, NEW made \in SUBSET Now.facts, NEW broken
  PROVE  After(made, broken) \subseteq Facts[script]
<1>1. at \in 1..Len(Steps)
  BY ScriptTypes
<1>2. Now.facts \subseteq FactsOf(Chosen)
  BY <1>1 DEF FactsOf, Now, Steps
<1>3. Facts[script] = FactsOf(Chosen)
  BY DEF Facts, Chosen, TypeOK
<1>4. (have \ broken) \cup made \subseteq Facts[script]
  BY <1>2, <1>3 DEF TypeOK
<1> QED
  BY <1>4, SettleFacts DEF After

LEMMA TypeInit == Init => TypeOK
<1> SUFFICES ASSUME Init PROVE TypeOK
  OBVIOUS
<1>1. Chosen \in ScriptType
  BY CatalogAssumption DEF Init, Chosen
<1>2. Len(Steps) \in Nat
  BY <1>1 DEF Steps, ScriptType
<1>3. have \subseteq Facts[script]
  BY DEF Init, Machines, Facts, Chosen
<1>4. start \in [met : BOOLEAN, items : SUBSET Chosen.kept]
  BY DEF Init
<1> QED
  <2>1. at \in 1..(Len(Steps) + 1) /\ faults \in 0..MaxFaults
    BY <1>2, FaultsAssumption DEF Init
  <2> QED
    BY <2>1, <1>3, <1>4 DEF Init, TypeOK, Modes

LEMMA TypeStep == TypeOK /\ [Next]_vars => TypeOK'
<1> SUFFICES ASSUME TypeOK, [Next]_vars PROVE TypeOK'
  OBVIOUS
<1>0. Len(Steps) \in Nat /\ MaxFaults \in Nat
  BY ScriptTypes, FaultsAssumption
<1>1. ASSUME NEW m \in Modes, Call(m) PROVE TypeOK'
  <2>1. script' = script /\ Chosen' = Chosen /\ Steps' = Steps
    BY <1>1 DEF Call, Chosen, Steps
  <2>2. have' \subseteq Facts[script]
    BY <1>1 DEF Call, TypeOK
  <2>3. start' \in [met : BOOLEAN, items : SUBSET Chosen.kept]
    BY <1>1 DEF Call, UserItems
  <2>4. at' \in 1..(Len(Steps) + 1)
    BY <1>0, <1>1 DEF Call
  <2> QED
    BY <1>1, <2>1, <2>2, <2>3, <2>4 DEF Call, TypeOK
<1>2. ASSUME Skip \/ Inspect \/ Check \/ Leave \/ Finish PROVE TypeOK'
  <2>1. script' = script /\ Chosen' = Chosen /\ Steps' = Steps
    BY <1>2 DEF Skip, Inspect, Check, Leave, Finish, RunKept, Chosen, Steps
  <2>2. CASE Skip
    BY <1>0, <2>1, <2>2 DEF Skip, Reached, Proceed, RunKept, TypeOK
  <2>3. CASE Inspect
    BY <1>0, <2>1, <2>3 DEF Inspect, Taking, Reached, Proceed, RunKept, TypeOK
  <2>4. CASE Check
    BY <1>0, <2>1, <2>4 DEF Check, Taking, Reached, Proceed, End, RunKept, TypeOK
  <2>5. CASE Leave
    BY <1>0, <2>1, <2>5 DEF Leave, Taking, Reached, End, RunKept, TypeOK
  <2>6. CASE Finish
    BY <1>0, <2>1, <2>6 DEF Finish, End, RunKept, TypeOK
  <2> QED
    BY <1>2, <2>2, <2>3, <2>4, <2>5, <2>6
<1>3. ASSUME Change \/ FallShort \/ Fail PROVE TypeOK'
  <2>1. script' = script /\ Chosen' = Chosen /\ Steps' = Steps
    BY <1>3 DEF Change, FallShort, Fail, RunKept, Chosen, Steps
  <2>2. Reached
    BY <1>3 DEF Change, FallShort, Fail, Taking
  <2>3. have' \subseteq Facts[script]
    <3>1. CASE Change
      BY <2>2, <3>1, AfterIsTyped DEF Change
    <3>2. CASE FallShort
      BY <2>2, <3>2, AfterIsTyped DEF FallShort
    <3>3. CASE Fail
      BY <2>2, <3>3, AfterIsTyped DEF Fail, TypeOK
    <3> QED
      BY <1>3, <3>1, <3>2, <3>3
  <2>4. at' \in 1..(Len(Steps) + 1)
    BY <1>0, <1>3, <2>2 DEF Change, FallShort, Fail, Proceed, End, Reached, TypeOK
  <2>5. faults' \in 0..MaxFaults /\ hurt' \in BOOLEAN
    <3>1. CASE Change
      BY <3>1 DEF Change, TypeOK
    <3>2. CASE FallShort
      BY <1>0, <3>2 DEF FallShort, TypeOK
    <3>3. CASE Fail
      BY <1>0, <3>3 DEF Fail, TypeOK
    <3> QED
      BY <1>3, <3>1, <3>2, <3>3
  <2>6. outcome' \in {"idle", "running", "succeeded", "shown", "failed"}
    BY <1>3 DEF Change, FallShort, Fail, Proceed, End, TypeOK
  <2>7. UNCHANGED <<seen, mode, start>>
    BY <1>3 DEF Change, FallShort, Fail, RunKept
  <2> QED
    BY <2>1, <2>3, <2>4, <2>5, <2>6, <2>7 DEF TypeOK
<1>4. CASE UNCHANGED vars
  BY <1>4 DEF vars, TypeOK, Facts, Chosen, Steps
<1> QED
  BY <1>1, <1>2, <1>3, <1>4 DEF Next

\* Every variable keeps its type: the run is at a step of its script or right
\* after the last one, and all it saw or made are facts of that script.
THEOREM TypeCorrect == Spec => []TypeOK
  BY TypeInit, TypeStep, PTL DEF Spec

(***************************************************************************)
(* One step of a run that goes on.                                         *)
(***************************************************************************)
Moved(made, broken, ends) == have' = After(made, broken) /\ seen' = seen /\ hurt' = ends

Advance ==
  /\ Reached /\ outcome' = "running" /\ at' = at + 1
  /\ script' = script /\ mode' = mode /\ start' = start
  /\ \/ ~Applies(Now) /\ have' = have /\ seen' = seen /\ hurt' = hurt
     \/ /\ Applies(Now)
        /\ \/ Now.kind = "look" /\ seen' = have /\ have' = have /\ hurt' = hurt
           \/ Now.kind = "change" /\ Moved(Now.facts, Now.breaks, hurt)
           \/ /\ Now.kind = "change" /\ Now.tool
              /\ \E made \in SUBSET Now.facts : Moved(made, Now.breaks, TRUE)
           \/ /\ Now.kind \in {"need", "verify"} /\ Now.facts \subseteq Ground(Now)
              /\ have' = have /\ seen' = seen /\ hurt' = hurt

LEMMA RunningGoesOn ==
  ASSUME TypeOK, Next, outcome' = "running"
  PROVE  (\E m \in Modes : Call(m)) \/ Advance
<1>1. CASE Skip
  BY <1>1 DEF Skip, Advance, Reached, Proceed, RunKept
<1>2. CASE Inspect
  BY <1>2 DEF Inspect, Advance, Taking, Reached, Proceed, RunKept
<1>3. CASE Change
  BY <1>3 DEF Change, Advance, Moved, Taking, Reached, Proceed, RunKept
<1>4. CASE FallShort
  <2>1. PICK made \in SUBSET Now.facts : have' = After(made, Now.breaks)
    BY <1>4 DEF FallShort
  <2> QED
    BY <1>4, <2>1 DEF FallShort, Advance, Moved, Taking, Reached, Proceed, RunKept
<1>5. CASE Check
  BY <1>5 DEF Check, Advance, Taking, Reached, Proceed, End, RunKept
<1>6. CASE Fail \/ Leave \/ Finish
  BY <1>6 DEF Fail, Leave, Finish, End
<1> QED
  BY <1>1, <1>2, <1>3, <1>4, <1>5, <1>6 DEF Next

LEMMA AlwaysApplies ==
  ASSUME Always(Now, mode)
  PROVE  Applies(Now)
  BY DEF Always, Applies

(***************************************************************************)
(* What a run knows.                                                       *)
(***************************************************************************)
\* What stands rests on what stands, as far as that rests on nothing itself.
Closed ==
  \A p \in Chosen.rests :
    p[1] \in have /\ p[2] \notin Dependent(Chosen) \cup CopiesOf(Chosen) => p[2] \in have

Trusted(t) == t => ~hurt

SeenHolds ==
  outcome = "running" => \A t \in BOOLEAN : Trusted(t) =>
    \A g \in seen : StillSeen(Chosen, mode, at, g, t) => g \in have

SettledHolds ==
  outcome = "running" => \A t \in BOOLEAN : Trusted(t) =>
    \A g : Settled(Chosen, mode, at, g, t) => g \in have

\* A run that goes on left no step that ends every run of the mode behind.
NothingEnded ==
  outcome = "running" => \A k \in 1..(at - 1) :
    Steps[k].kind \in {"report", "show", "rest"} => ~Always(Steps[k], mode)

Known == TypeOK /\ Closed /\ SeenHolds /\ SettledHolds /\ NothingEnded

LEMMA ClosedGrounds ==
  ASSUME Closed, NEW g \in have, Firm(Chosen, g)
  PROVE  Grounds(Chosen, {g}) \subseteq have
  BY DEF Closed, Firm, Grounds

LEMMA ClosedAfter ==
  ASSUME NEW r, NEW F
  PROVE  \A p \in r.rests :
           p[1] \in Settle(r, F) /\ p[2] \notin Dependent(r) => p[2] \in Settle(r, F)
  BY DEF Settle, Dependent

LEMMA SparedSurvives ==
  ASSUME Closed, Now.kind = "change",
         NEW g \in have, NEW t \in BOOLEAN, Spares(Chosen, Now, g, t),
         NEW made \in SUBSET Now.facts, (t \/ ~Now.tool) => made = Now.facts
  PROVE  g \in After(made, Now.breaks)
<1>1. Grounds(Chosen, {g}) \subseteq have
  BY ClosedGrounds DEF Spares
<1>2. Base(Chosen, {g}) \cap Now.breaks \subseteq made
  BY DEF Spares
<1>3. {g} \cup Grounds(Chosen, {g}) \subseteq (have \ Now.breaks) \cup made
  BY <1>1, <1>2, BaseFacts
<1> QED
  BY <1>3, SettleFacts DEF After

\* A step of the run that goes on keeps a fact that it spares.
LEMMA SparedByAdvance ==
  ASSUME Closed, Advance, NEW g \in have, NEW t \in BOOLEAN, Trusted(t)',
         mode \in Now.modes => Spares(Chosen, Now, g, t)
  PROVE  g \in have'
<1>1. CASE Now.kind # "change" \/ ~Applies(Now)
  BY <1>1 DEF Advance
<1>2. CASE Now.kind = "change" /\ Applies(Now)
  <2>1. Spares(Chosen, Now, g, t)
    BY <1>2 DEF Applies
  <2>2. CASE Moved(Now.facts, Now.breaks, hurt)
    BY <1>2, <2>1, <2>2, SparedSurvives DEF Moved
  <2>3. ASSUME Now.tool, NEW made \in SUBSET Now.facts, Moved(made, Now.breaks, TRUE)
        PROVE  g \in have'
    <3>1. ~t
      BY <2>3 DEF Moved, Trusted
    <3> QED
      BY <1>2, <2>1, <2>3, <3>1, SparedSurvives DEF Moved
  <2> QED
    BY <1>2, <2>2, <2>3 DEF Advance
<1> QED
  BY <1>1, <1>2

LEMMA TrustedBefore ==
  ASSUME TypeOK, Advance, NEW t \in BOOLEAN, Trusted(t)'
  PROVE  Trusted(t)
  BY DEF Advance, Moved, Trusted, TypeOK

LEMMA ClosedStep == TypeOK /\ Closed /\ [Next]_vars => Closed'
<1> SUFFICES ASSUME TypeOK, Closed, [Next]_vars PROVE Closed'
  OBVIOUS
<1>1. Chosen' = Chosen
  BY DEF Next, vars, Call, Skip, Inspect, Change, FallShort, Fail, Check, Leave, Finish,
         RunKept, Chosen
<1>2. CASE have' = have
  BY <1>1, <1>2 DEF Closed
<1>3. CASE \E F : have' = Settle(Chosen, F)
  BY <1>1, <1>3, ClosedAfter DEF Closed
<1>4. ASSUME NEW m, Call(m) PROVE Closed'
  BY <1>1, <1>4 DEF Closed, Call
<1>5. Change \/ FallShort \/ Fail => have' = have \/ \E F : have' = Settle(Chosen, F)
  BY DEF Change, FallShort, Fail, After
<1> QED
  BY <1>2, <1>3, <1>4, <1>5 DEF Next, vars, Skip, Inspect, Check, Leave, Finish

\* What was seen and spared since is so: an inspection shows the machine, and
\* a step that takes something away leaves what it spares.
LEMMA SeenStep == Known /\ [Next]_vars => SeenHolds'
<1> SUFFICES ASSUME Known, [Next]_vars, outcome' = "running",
                    NEW t \in BOOLEAN, Trusted(t)', NEW g \in seen',
                    StillSeen(Chosen', mode', at', g, t)
             PROVE  g \in have'
  BY DEF SeenHolds
<1>1. ASSUME NEW m, Call(m) PROVE FALSE
  BY <1>1 DEF Call, StillSeen
<1>2. CASE Advance
  <2>1. Chosen' = Chosen /\ mode' = mode /\ at' = at + 1 /\ at \in Nat \ {0}
    BY <1>2 DEF Advance, Chosen, Known, TypeOK
  <2>2. Chosen.steps[at] = Now
    BY DEF Now, Steps
  <2>3. CASE Now.kind = "look" /\ Applies(Now)
    BY <1>2, <2>3 DEF Advance
  <2>4. CASE ~(Now.kind = "look" /\ Applies(Now))
    <3>1. ~Looks(Chosen, mode, at)
      BY <2>2, <2>4, AlwaysApplies DEF Looks
    <3>2. /\ StillSeen(Chosen, mode, at, g, t)
          /\ mode \in Now.modes => Spares(Chosen, Now, g, t)
      BY <2>1, <2>2, <3>1, StillSeenStep
    <3>3. g \in seen
      BY <1>2, <2>4 DEF Advance, Moved
    <3>4. g \in have
      BY <1>2, <3>2, <3>3, TrustedBefore DEF Known, SeenHolds, Advance, Reached
    <3> QED
      BY <1>2, <3>2, <3>4, SparedByAdvance DEF Known
  <2> QED
    BY <2>3, <2>4
<1>3. CASE UNCHANGED vars
  <2>1. Chosen' = Chosen /\ UNCHANGED <<have, seen, mode, at, outcome, hurt>>
    BY <1>3 DEF vars, Chosen
  <2> QED
    BY <2>1 DEF Known, SeenHolds, Trusted
<1> QED
  BY <1>1, <1>2, <1>3, RunningGoesOn DEF Known

\* A step that settles a fact is not passed without it.
LEMMA PassedSettles ==
  ASSUME Known, Advance, NEW t \in BOOLEAN, Trusted(t)', NEW g,
         Settles(Chosen, mode, at, g, t)
  PROVE  g \in have'
<1>1. Chosen.steps[at] = Now
  BY DEF Now, Steps
<1>2. /\ mode \in Now.modes /\ Now.given = {} /\ g \in Now.facts
      /\ \/ Now.kind = "need" /\ Now.unless = {}
         \/ Now.kind = "verify" /\ Now.unless = {} /\ StillSeen(Chosen, mode, at, g, t)
         \/ /\ Now.kind = "change" /\ (t \/ ~Now.tool)
            /\ Grounds(Chosen, {g}) \subseteq Now.facts
            /\ \A F \in Now.unless : g \in F
            /\ Now.unless # {} => StillSeen(Chosen, mode, at, g, t)
  BY <1>1 DEF Settles
<1>3. Trusted(t) /\ outcome = "running"
  BY TrustedBefore DEF Known, Advance, Reached
<1>4. StillSeen(Chosen, mode, at, g, t) /\ g \in seen => g \in have
  BY <1>3 DEF Known, SeenHolds
<1>5. CASE Now.kind \in {"need", "verify"}
  <2>1. Applies(Now)
    BY <1>2, <1>5 DEF Applies
  <2>2. have' = have /\ Now.facts \subseteq Ground(Now)
    BY <1>5, <2>1 DEF Advance
  <2> QED
    BY <1>2, <1>4, <1>5, <2>2 DEF Ground
<1>6. CASE Now.kind = "change" /\ ~Applies(Now)
  <2>1. have' = have
    BY <1>6 DEF Advance
  <2>2. \E F \in Now.unless : F \subseteq seen
    BY <1>2, <1>6 DEF Applies
  <2> QED
    BY <1>2, <1>4, <1>6, <2>1, <2>2
<1>7. CASE Now.kind = "change" /\ Applies(Now)
  <2>1. ~(Now.tool /\ \E made \in SUBSET Now.facts : Moved(made, Now.breaks, TRUE))
    BY <1>2, <1>7 DEF Moved, Trusted
  <2>2. have' = After(Now.facts, Now.breaks)
    BY <1>7, <2>1 DEF Advance, Moved
  <2> QED
    BY <1>2, <1>7, <2>2, SettleFacts DEF After
<1> QED
  BY <1>2, <1>5, <1>6, <1>7

LEMMA SettledInvStep == Known /\ [Next]_vars => SettledHolds'
<1> SUFFICES ASSUME Known, [Next]_vars, outcome' = "running",
                    NEW t \in BOOLEAN, Trusted(t)', NEW g,
                    Settled(Chosen', mode', at', g, t)
             PROVE  g \in have'
  BY DEF SettledHolds
<1>1. ASSUME NEW m, Call(m) PROVE FALSE
  BY <1>1 DEF Call, Settled
<1>2. CASE Advance
  <2>1. Chosen' = Chosen /\ mode' = mode /\ at' = at + 1 /\ at \in Nat \ {0}
    BY <1>2 DEF Advance, Chosen, Known, TypeOK
  <2>2. Chosen.steps[at] = Now
    BY DEF Now, Steps
  <2>3. CASE Settles(Chosen, mode, at, g, t)
    BY <1>2, <2>3, PassedSettles
  <2>4. CASE ~Settles(Chosen, mode, at, g, t)
    <3>1. /\ Settled(Chosen, mode, at, g, t)
          /\ mode \in Now.modes => Spares(Chosen, Now, g, t)
      BY <2>1, <2>2, <2>4, SettledStep
    <3>2. g \in have
      BY <1>2, <3>1, TrustedBefore DEF Known, SettledHolds, Advance, Reached
    <3> QED
      BY <1>2, <3>1, <3>2, SparedByAdvance DEF Known
  <2> QED
    BY <2>3, <2>4
<1>3. CASE UNCHANGED vars
  <2>1. Chosen' = Chosen /\ UNCHANGED <<have, seen, mode, at, outcome, hurt>>
    BY <1>3 DEF vars, Chosen
  <2> QED
    BY <2>1 DEF Known, SettledHolds, Trusted
<1> QED
  BY <1>1, <1>2, <1>3, RunningGoesOn DEF Known

LEMMA EndedStep == Known /\ [Next]_vars => NothingEnded'
<1> SUFFICES ASSUME Known, [Next]_vars, outcome' = "running",
                    NEW k \in 1..(at' - 1),
                    Steps'[k].kind \in {"report", "show", "rest"},
                    Always(Steps'[k], mode')
             PROVE  FALSE
  BY DEF NothingEnded
<1>1. ASSUME NEW m, Call(m) PROVE FALSE
  BY <1>1 DEF Call
<1>2. CASE Advance
  <2>1. Steps' = Steps /\ mode' = mode /\ at' = at + 1 /\ at \in Nat \ {0}
    BY <1>2 DEF Advance, Steps, Chosen, Known, TypeOK
  <2>2. CASE k = at
    <3>1. Now.kind \in {"report", "show", "rest"} /\ Applies(Now)
      BY <2>1, <2>2, AlwaysApplies DEF Now
    <3> QED
      BY <1>2, <3>1 DEF Advance
  <2>3. CASE k # at
    <3>1. k \in 1..(at - 1)
      BY <2>1, <2>3
    <3> QED
      BY <1>2, <2>1, <3>1 DEF Known, NothingEnded, Advance, Reached
  <2> QED
    BY <2>2, <2>3
<1>3. CASE UNCHANGED vars
  <2>1. Steps' = Steps /\ UNCHANGED <<mode, at, outcome>>
    BY <1>3 DEF vars, Chosen, Steps
  <2> QED
    BY <2>1 DEF Known, NothingEnded
<1> QED
  BY <1>1, <1>2, <1>3, RunningGoesOn DEF Known

LEMMA KnownInit == Init => Known
<1> SUFFICES ASSUME Init PROVE Known
  OBVIOUS
<1>1. Settle(Chosen, have) = have
  BY DEF Init, Machines
<1>2. Closed
  BY <1>1 DEF Closed, Settle
<1> QED
  BY <1>2, TypeInit DEF Init, Known, SeenHolds, SettledHolds, NothingEnded

LEMMA KnownStep == Known /\ [Next]_vars => Known'
  BY TypeStep, ClosedStep, SeenStep, SettledInvStep, EndedStep DEF Known

\* For every catalog of scripts: what a run knows holds at its every step.
THEOREM KnownAlways == Spec => []Known
  BY KnownInit, KnownStep, PTL DEF Spec

(***************************************************************************)
(* Success is the truth.                                                   *)
(***************************************************************************)
Honest == Known /\ HonestSuccess

LEMMA HonestStep ==
  ASSUME HonestTexts, Honest, [Next]_vars
  PROVE  HonestSuccess'
<1> SUFFICES ASSUME outcome' = "succeeded", ~(script' \in Trusting /\ hurt'),
                    ~(script' \in Unreporting /\ mode' = "Test"),
                    NEW g \in Chosen'.goal
             PROVE  g \in have'
  BY DEF HonestSuccess
<1> DEFINE t == script \in Trusting
<1>1. HonestText(Chosen, t, script \notin Unreporting)
  BY DEF HonestTexts, Honest, Known, TypeOK, Chosen
<1>2. CASE Leave
  <2>1. /\ Chosen' = Chosen /\ have' = have /\ hurt' = hurt /\ script' = script
        /\ outcome = "running" /\ at \in 1..Len(Steps) /\ Applies(Now)
    BY <1>2, ScriptTypes DEF Leave, Taking, Reached, RunKept, Chosen, Honest, Known
  <2>2. t \in BOOLEAN /\ Trusted(t)
    BY <2>1 DEF Trusted, Honest, Known, TypeOK
  <2>3. g \in seen /\ StillSeen(Chosen, mode, at, g, t)
    <3>1. CASE Taking("report")
      <4>1. Chosen.goal \subseteq Now.facts /\ \A m \in Now.modes : StillSeen(Chosen, m, at, g, t)
        BY <1>1, <2>1, <3>1 DEF HonestText, Taking, Now, Steps
      <4>2. Now.facts \subseteq seen
        BY <1>2, <3>1 DEF Leave, Taking, End
      <4> QED
        BY <2>1, <4>1, <4>2 DEF Applies
    <3>2. CASE Taking("rest")
      <4>1. Chosen.goal \subseteq Now.given /\ \A m \in Now.modes : StillSeen(Chosen, m, at, g, t)
        BY <1>1, <2>1, <3>2 DEF HonestText, Taking, Now, Steps
      <4> QED
        BY <2>1, <4>1 DEF Applies
    <3> QED
      BY <1>2, <3>1, <3>2 DEF Leave, End
  <2> QED
    BY <2>1, <2>2, <2>3 DEF Honest, Known, SeenHolds
<1>3. CASE Finish
  <2>1. /\ Chosen' = Chosen /\ have' = have /\ hurt' = hurt /\ script' = script
        /\ mode' = mode /\ outcome = "running" /\ at = Len(Steps) + 1 /\ Len(Steps) \in Nat
    BY <1>3, ScriptTypes DEF Finish, RunKept, Chosen, Honest, Known, TypeOK
  <2>2. t \in BOOLEAN /\ Trusted(t)
    BY <2>1 DEF Trusted, Honest, Known, TypeOK
  <2>3. CASE mode \in Changing
    <3>1. Settled(Chosen, mode, at, g, t)
      BY <1>1, <2>1, <2>3 DEF HonestText, Steps
    <3> QED
      BY <2>1, <2>2, <3>1 DEF Honest, Known, SettledHolds
  <2>4. CASE mode = "Test"
    <3>1. PICK i \in 1..Len(Steps) :
            Steps[i].kind \in {"report", "show"} /\ Always(Steps[i], "Test")
      BY <1>1, <2>1, <2>4 DEF HonestText, Steps
    <3> QED
      BY <2>1, <2>4, <3>1 DEF Honest, Known, NothingEnded
  <2> QED
    BY <2>3, <2>4 DEF Honest, Known, TypeOK, Changing
<1>4. CASE UNCHANGED vars
  BY <1>4 DEF vars, Honest, HonestSuccess, Chosen
<1>5. ASSUME NEW m \in Modes, Call(m) PROVE FALSE
  BY <1>5 DEF Call
<1>6. CASE Skip \/ Inspect \/ Change \/ FallShort \/ Fail \/ Check
  BY <1>6 DEF Skip, Inspect, Change, FallShort, Fail, Check, Taking, Reached, Proceed, End
<1> QED
  BY <1>2, <1>3, <1>4, <1>5, <1>6 DEF Next

\* In a catalog whose texts are honest, exit code 0 of a changing run and of
\* a Test that reports means that everything Test inspects holds.
THEOREM HonestSuccessAlways ==
  ASSUME HonestTexts
  PROVE  Spec => []HonestSuccess
<1>1. Init => Honest
  BY KnownInit DEF Init, Honest, HonestSuccess
<1>2. Honest /\ [Next]_vars => Honest'
  BY HonestStep, KnownStep DEF Honest
<1>3. Honest => HonestSuccess
  BY DEF Honest
<1> QED
  BY <1>1, <1>2, <1>3, PTL DEF Spec

(***************************************************************************)
(* A compliant machine is left compliant.                                  *)
(***************************************************************************)
Compliant == mode = "Ensure" /\ start.met /\ ~(script \in Rewriting /\ hurt)

\* Ensure on a compliant machine has the goal and, once it looked, saw it; and
\* it is not past a step at which a run that saw the goal leaves.
Gentle ==
  /\ Known
  /\ outcome # "idle" /\ Compliant => Chosen.goal \subseteq have
  /\ outcome = "running" /\ Compliant =>
       /\ Looked(Chosen, "Ensure", at) => Chosen.goal \subseteq seen
       /\ ~LeavesBefore(Chosen, at)

LEMMA LeavesBeforeStep ==
  ASSUME NEW r, NEW i \in Nat \ {0}, LeavesBefore(r, i + 1)
  PROVE  \/ LeavesBefore(r, i)
         \/ /\ r.steps[i].kind = "rest" /\ "Ensure" \in r.steps[i].modes
            /\ r.steps[i].given \subseteq r.goal /\ r.steps[i].unless = {}
            /\ Looked(r, "Ensure", i)
  BY DEF LeavesBefore

\* What a change leaves of the goal on a machine that was compliant.
LEMMA GoalSurvives ==
  ASSUME Closed, NEW rewriting, GentleText(Chosen, rewriting),
         Chosen.goal \subseteq have, NEW made, NEW broken,
         broken \cap Base(Chosen, Chosen.goal) \subseteq made
  PROVE  Chosen.goal \subseteq After(made, broken)
<1>1. Grounds(Chosen, Chosen.goal) \subseteq have
  BY DEF Closed, GentleText, Grounds, Base
<1>2. Base(Chosen, Chosen.goal) \subseteq (have \ broken) \cup made
  BY <1>1 DEF Base
<1>3. \A g \in Chosen.goal : Grounds(Chosen, {g}) \subseteq Base(Chosen, Chosen.goal)
  BY DEF Base, Grounds
<1>4. \A g \in Chosen.goal : g \in Base(Chosen, Chosen.goal)
  BY DEF Base
<1> QED
  BY <1>2, <1>3, <1>4, SettleFacts DEF After

LEMMA GentleGoal ==
  ASSUME GentleTexts, Gentle, [Next]_vars, outcome' # "idle", Compliant'
  PROVE  Chosen'.goal \subseteq have'
<1>0. Chosen' = Chosen /\ script' = script
  BY DEF Next, vars, Call, Skip, Inspect, Change, FallShort, Fail, Check, Leave, Finish,
         RunKept, Chosen
<1>1. GentleText(Chosen, script \in Rewriting)
  BY DEF GentleTexts, Gentle, Known, TypeOK, Chosen
<1>2. ASSUME NEW m \in Modes, Call(m) PROVE Chosen'.goal \subseteq have'
  <2>1. Chosen.goal \cap CopiesOf(Chosen) = {}
    BY <1>1 DEF GentleText, Base
  <2> QED
    BY <1>0, <1>2, <2>1 DEF Call, Compliant
<1>3. CASE Change \/ FallShort \/ Fail
  <2>1. /\ outcome = "running" /\ mode = "Ensure" /\ start.met
        /\ at \in 1..Len(Steps) /\ Now.kind = "change" /\ Applies(Now)
        /\ "Ensure" \in Now.modes
    BY <1>3, ScriptTypes DEF Change, FallShort, Fail, Taking, Reached, RunKept, Applies,
         Compliant, Gentle, Known
  <2>2. Compliant
    BY <1>0, <1>3, <2>1 DEF Compliant, Change, FallShort, Fail, Gentle, Known, TypeOK
  <2>3. /\ Chosen.goal \subseteq have
        /\ Looked(Chosen, "Ensure", at) => Chosen.goal \subseteq seen
        /\ ~LeavesBefore(Chosen, at)
    BY <2>1, <2>2 DEF Gentle
  <2> DEFINE lost == Now.breaks \cap Base(Chosen, Chosen.goal)
  <2>4. \/ lost = {}
        \/ script \in Rewriting /\ lost \subseteq Now.facts
        \/ (\E F \in Now.unless : F \subseteq Chosen.goal) /\ Looked(Chosen, "Ensure", at)
        \/ LeavesBefore(Chosen, at)
    BY <1>1, <2>1 DEF GentleText, Now, Steps
  <2>5. ~((\E F \in Now.unless : F \subseteq Chosen.goal) /\ Looked(Chosen, "Ensure", at))
    BY <2>1, <2>3 DEF Applies
  <2>6. CASE lost = {}
    <3>1. ASSUME NEW made, NEW broken \in SUBSET Now.breaks
          PROVE  Chosen.goal \subseteq After(made, broken)
      BY <1>1, <2>3, <2>6, GoalSurvives DEF Gentle, Known
    <3>2. CASE Change
      BY <1>0, <3>1, <3>2 DEF Change
    <3>3. CASE FallShort
      BY <1>0, <3>1, <3>3 DEF FallShort
    <3>4. CASE Fail
      BY <1>0, <2>3, <3>1, <3>4 DEF Fail
    <3> QED
      BY <1>3, <3>2, <3>3, <3>4
  <2>7. CASE script \in Rewriting /\ lost \subseteq Now.facts
    <3>1. Change
      BY <1>0, <1>3, <2>7 DEF FallShort, Fail, Compliant
    <3> QED
      BY <1>0, <1>1, <2>3, <2>7, <3>1, GoalSurvives DEF Change, Gentle, Known
  <2> QED
    BY <2>3, <2>4, <2>5, <2>6, <2>7
<1>4. CASE Skip \/ Inspect \/ Check \/ Leave \/ Finish
  <2>1. have' = have /\ hurt' = hurt /\ mode' = mode /\ start' = start /\ outcome = "running"
    BY <1>4 DEF Skip, Inspect, Check, Leave, Finish, Taking, Reached, RunKept
  <2> QED
    BY <1>0, <2>1 DEF Gentle, Compliant
<1>5. CASE UNCHANGED vars
  BY <1>0, <1>5 DEF vars, Gentle, Compliant
<1> QED
  BY <1>2, <1>3, <1>4, <1>5 DEF Next

LEMMA GentleRun ==
  ASSUME GentleTexts, Gentle, [Next]_vars, outcome' = "running", Compliant'
  PROVE  /\ Looked(Chosen', "Ensure", at') => Chosen'.goal \subseteq seen'
         /\ ~LeavesBefore(Chosen', at')
<1>1. ASSUME NEW m \in Modes, Call(m)
      PROVE  ~Looked(Chosen', "Ensure", at') /\ ~LeavesBefore(Chosen', at')
  BY <1>1 DEF Call, Looked, LeavesBefore
<1>2. CASE Advance
  <2>1. /\ Chosen' = Chosen /\ at' = at + 1 /\ at \in Nat \ {0} /\ outcome = "running"
        /\ mode = "Ensure" /\ Compliant
    BY <1>2 DEF Advance, Moved, Reached, Chosen, Compliant, Gentle, Known, TypeOK
  <2>2. Chosen.goal \subseteq have /\ (Looked(Chosen, "Ensure", at) => Chosen.goal \subseteq seen)
    BY <2>1 DEF Gentle
  <2>3. Chosen.steps[at] = Now
    BY DEF Now, Steps
  <2>4. ASSUME Looked(Chosen, "Ensure", at + 1) PROVE Chosen.goal \subseteq seen'
    <3>1. CASE Looks(Chosen, "Ensure", at)
      <4>1. Now.kind = "look" /\ Applies(Now)
        BY <2>1, <2>3, <3>1, AlwaysApplies DEF Looks
      <4> QED
        BY <1>2, <2>2, <4>1 DEF Advance
    <3>2. CASE Looked(Chosen, "Ensure", at)
      BY <1>2, <2>2, <3>2 DEF Advance, Moved
    <3> QED
      BY <2>1, <2>4, <3>1, <3>2, LookedStep
  <2>5. ASSUME LeavesBefore(Chosen, at + 1) PROVE FALSE
    <3>1. ~LeavesBefore(Chosen, at)
      BY <2>1 DEF Gentle
    <3>2. /\ Now.kind = "rest" /\ "Ensure" \in Now.modes
          /\ Now.given \subseteq Chosen.goal /\ Now.unless = {}
          /\ Looked(Chosen, "Ensure", at)
      BY <2>1, <2>3, <2>5, <3>1, LeavesBeforeStep
    <3>3. Applies(Now)
      BY <2>1, <2>2, <3>2 DEF Applies
    <3> QED
      BY <1>2, <3>2, <3>3 DEF Advance
  <2> QED
    BY <2>1, <2>4, <2>5
<1>3. CASE UNCHANGED vars
  BY <1>3 DEF vars, Gentle, Compliant, Chosen
<1> QED
  BY <1>1, <1>2, <1>3, RunningGoesOn DEF Gentle, Known

\* In a catalog whose texts are gentle, Ensure leaves a compliant machine
\* compliant, at every step and whatever fails.
THEOREM CompliantStaysSoAlways ==
  ASSUME GentleTexts
  PROVE  Spec => []CompliantStaysSo
<1>1. Init => Gentle
  BY KnownInit DEF Init, Gentle
<1>2. Gentle /\ [Next]_vars => Gentle'
  BY GentleGoal, GentleRun, KnownStep DEF Gentle
<1>3. Gentle => CompliantStaysSo
  BY DEF Gentle, Compliant, CompliantStaysSo
<1> QED
  BY <1>1, <1>2, <1>3, PTL DEF Spec

(***************************************************************************)
(* The user's items are kept.                                              *)
(***************************************************************************)
\* Step k copies, or finds a copy, on what the run saw at its last look.
Copying(k, c) ==
  /\ c \in Steps[k].facts
  /\ Steps[k].kind = "need" \/ (Steps[k].kind = "change" /\ ~Steps[k].tool)
  /\ Applies(Steps[k])
  /\ SameLook(Chosen, k, at)

\* Of every item the run found, the machine has the item, seen since the run
\* looked, or its copy; the copy, once a step that makes it was passed. What
\* excludes each other and is made by no step is never there together.
Kept ==
  /\ Known
  /\ \A f, x : {f, x} \in Chosen.apart /\ NeverMade(Chosen, f) /\ NeverMade(Chosen, x) =>
       f \notin have \/ x \notin have
  /\ outcome # "idle" => \A p \in start.items : p[1] \in have \/ p[2] \in have
  /\ outcome = "running" => \A p \in start.items :
       /\ p[2] \notin have /\ Looked(Chosen, mode, at) => p[1] \in seen
       /\ \A k \in 1..(at - 1) : Copying(k, p[2]) => p[2] \in have
  /\ outcome = "running" => \A f : NeverMade(Chosen, f) =>
       \A k \in 1..(at - 1) : BarredBy(Chosen, mode, k, f) => f \notin have

LEMMA ItemsAreKept ==
  ASSUME TypeOK, NEW p \in start.items
  PROVE  p \in Chosen.kept
  BY DEF TypeOK

LEMMA MadeStands ==
  ASSUME NEW made, NEW broken, NEW c \in made, c \notin Dependent(Chosen)
  PROVE  c \in After(made, broken)
<1>1. c \in (have \ broken) \cup made
  OBVIOUS
<1> QED
  BY <1>1, SettleFacts DEF After

\* A change keeps an item, or leaves its copy.
LEMMA ItemSurvives ==
  ASSUME KeepingTexts, Kept, Change \/ FallShort \/ Fail, NEW p \in start.items
  PROVE  /\ p[2] \in have => p[2] \in have'
         /\ p[1] \in have' \/ p[2] \in have'
<1>1. /\ outcome = "running" /\ at \in 1..Len(Steps) /\ Now.kind = "change"
      /\ Applies(Now) /\ mode \in Now.modes /\ mode \in Modes
  BY ScriptTypes DEF Change, FallShort, Fail, Taking, Reached, Applies, Kept, Known, TypeOK
<1>2. p \in Chosen.kept /\ KeepingText(Chosen)
  BY ItemsAreKept DEF KeepingTexts, Kept, Known, TypeOK, Chosen
<1>3. /\ Firm(Chosen, p[1]) /\ p[2] \notin Dependent(Chosen)
      /\ p[2] \notin Now.breaks
  BY <1>1, <1>2 DEF KeepingText, Now, Steps
<1>4. \/ have' = have
      \/ \E made \in SUBSET Now.facts, broken \in SUBSET Now.breaks : have' = After(made, broken)
  BY DEF Change, FallShort, Fail
<1>5. p[2] \in have => p[2] \in have'
  <2>1. ASSUME p[2] \in have, NEW made, NEW broken \in SUBSET Now.breaks
        PROVE  p[2] \in After(made, broken)
    BY <1>3, <2>1, SettleFacts DEF After
  <2> QED
    BY <1>4, <2>1
<1>6. ASSUME p[2] \notin have PROVE p[1] \in have' \/ p[2] \in have'
  <2>1. p[1] \in have /\ (Looked(Chosen, mode, at) => p[1] \in seen)
    BY <1>1, <1>6 DEF Kept
  <2>2. \/ Base(Chosen, {p[1]}) \cap Now.breaks = {}
        \/ Now.whole /\ ~Now.tool /\ p[2] \in Now.facts
        \/ \E k \in 1..(at - 1) : CopiedAt(Chosen, mode, k, at, p[1], p[2])
        \/ NeverMade(Chosen, p[1]) /\ \E k \in 1..(at - 1) : BarredBy(Chosen, mode, k, p[1])
    BY <1>1, <1>2 DEF KeepingText, Now, Steps
  <2>3. CASE Base(Chosen, {p[1]}) \cap Now.breaks = {}
    <3>1. Grounds(Chosen, {p[1]}) \subseteq have
      BY <1>3, <2>1, ClosedGrounds DEF Kept, Known
    <3>2. ASSUME NEW made, NEW broken \in SUBSET Now.breaks
          PROVE  p[1] \in After(made, broken)
      <4>1. {p[1]} \cup Grounds(Chosen, {p[1]}) \subseteq (have \ broken) \cup made
        BY <2>1, <2>3, <3>1, BaseFacts
      <4> QED
        BY <4>1, SettleFacts DEF After
    <3> QED
      BY <1>4, <2>1, <3>2
  <2>4. CASE Now.whole /\ ~Now.tool /\ p[2] \in Now.facts
    <3>1. p[2] \in After(Now.facts, Now.breaks)
      BY <1>3, <2>4, MadeStands
    <3> QED
      BY <2>1, <2>4, <3>1 DEF Change, FallShort, Fail
  <2>5. ASSUME NEW k \in 1..(at - 1), CopiedAt(Chosen, mode, k, at, p[1], p[2]) PROVE FALSE
    <3>1. /\ p[2] \in Steps[k].facts /\ mode \in Steps[k].modes
          /\ Steps[k].kind = "need" \/ (Steps[k].kind = "change" /\ ~Steps[k].tool)
          /\ Steps[k].given \subseteq Now.given \cup {p[1]}
          /\ \/ Steps[k].unless = {}
             \/ Steps[k].unless \subseteq Now.unless /\ (Now.again => Steps[k].again)
          /\ SameLook(Chosen, k, at)
          /\ p[1] \in Steps[k].given => Looked(Chosen, mode, k)
      BY <2>5 DEF CopiedAt, Follows, Now, Steps
    <3>2. Looked(Chosen, mode, k) => Looked(Chosen, mode, at)
      BY <1>1 DEF Looked, Known
    <3>3. Steps[k].given \subseteq seen
      BY <1>1, <2>1, <3>1, <3>2 DEF Applies
    <3>4. (\A F \in Steps[k].unless : ~(F \subseteq seen)) \/ (Steps[k].again /\ mode = "Reinitialize")
      BY <1>1, <3>1 DEF Applies
    <3>5. Copying(k, p[2])
      BY <3>1, <3>3, <3>4 DEF Copying, Applies
    <3> QED
      BY <1>1, <1>6, <3>5 DEF Kept
  <2>6. ~(NeverMade(Chosen, p[1]) /\ \E k \in 1..(at - 1) : BarredBy(Chosen, mode, k, p[1]))
    BY <1>1, <2>1 DEF Kept
  <2> QED
    BY <2>2, <2>3, <2>4, <2>5, <2>6
<1>7. p[1] \in have \/ p[2] \in have
  BY <1>1 DEF Kept
<1> QED
  BY <1>5, <1>6, <1>7

LEMMA KeptItems ==
  ASSUME KeepingTexts, Kept, [Next]_vars, outcome' # "idle", NEW p \in start'.items
  PROVE  p[1] \in have' \/ p[2] \in have'
<1>1. ASSUME NEW m \in Modes, Call(m) PROVE p[1] \in have'
  <2>1. p \in Chosen.kept /\ p[1] \in have
    BY <1>1 DEF Call, UserItems
  <2>2. p[1] \notin CopiesOf(Chosen)
    BY <2>1 DEF KeepingTexts, KeepingText, Kept, Known, TypeOK, Chosen
  <2> QED
    BY <1>1, <2>1, <2>2 DEF Call
<1>2. CASE Change \/ FallShort \/ Fail
  BY <1>2, ItemSurvives DEF Change, FallShort, Fail, RunKept
<1>3. CASE Skip \/ Inspect \/ Check \/ Leave \/ Finish
  <2>1. have' = have /\ start' = start /\ outcome = "running"
    BY <1>3 DEF Skip, Inspect, Check, Leave, Finish, Taking, Reached, RunKept
  <2> QED
    BY <2>1 DEF Kept
<1>4. CASE UNCHANGED vars
  BY <1>4 DEF vars, Kept
<1> QED
  BY <1>1, <1>2, <1>3, <1>4 DEF Next

\* The copy is there once a step that makes it was passed, and an item that
\* has none was seen when the run looked.
LEMMA KeptRun ==
  ASSUME KeepingTexts, Kept, Advance, NEW p \in start.items
  PROVE  /\ p[2] \notin have' /\ Looked(Chosen, mode, at + 1) => p[1] \in seen'
         /\ \A k \in 1..at : Copying(k, p[2])' => p[2] \in have'
<1>0. /\ Chosen' = Chosen /\ Steps' = Steps /\ mode' = mode /\ at' = at + 1
      /\ at \in Nat \ {0} /\ outcome = "running" /\ Chosen.steps[at] = Now
  BY DEF Advance, Chosen, Steps, Kept, Known, TypeOK, Reached, Now
<1>1. p \in Chosen.kept /\ KeepingText(Chosen)
  BY ItemsAreKept DEF KeepingTexts, Kept, Known, TypeOK, Chosen
<1>2. p[2] \notin Dependent(Chosen)
  BY <1>1 DEF KeepingText
<1>3. p[2] \in have => p[2] \in have'
  <2>1. CASE Now.kind = "change" /\ Applies(Now)
    <3>1. p[2] \notin Now.breaks
      <4>1. at \in 1..Len(Steps) /\ mode \in Now.modes /\ mode \in Modes
        BY <2>1, ScriptTypes DEF Advance, Applies, Kept, Known, TypeOK
      <4> QED
        BY <1>1, <2>1, <4>1 DEF KeepingText, Now, Steps
    <3>2. ASSUME p[2] \in have, NEW made PROVE p[2] \in After(made, Now.breaks)
      BY <1>2, <3>1, <3>2, SettleFacts DEF After
    <3> QED
      BY <2>1, <3>2 DEF Advance, Moved
  <2>2. CASE ~(Now.kind = "change" /\ Applies(Now))
    BY <2>2 DEF Advance
  <2> QED
    BY <2>1, <2>2
<1>4. ASSUME p[2] \notin have', Looked(Chosen, mode, at + 1) PROVE p[1] \in seen'
  <2>1. p[2] \notin have /\ p[1] \in have
    BY <1>0, <1>3, <1>4 DEF Kept
  <2>2. CASE Looks(Chosen, mode, at)
    <3>1. Now.kind = "look" /\ Applies(Now)
      BY <1>0, <2>2, AlwaysApplies DEF Looks
    <3> QED
      BY <2>1, <3>1 DEF Advance
  <2>3. CASE Looked(Chosen, mode, at)
    <3>1. p[1] \in seen
      BY <1>0, <2>1, <2>3 DEF Kept
    <3> QED
      BY <2>1, <3>1 DEF Advance, Moved
  <2> QED
    BY <1>0, <1>4, <2>2, <2>3, LookedStep
<1>5. ASSUME NEW k \in 1..at, Copying(k, p[2])' PROVE p[2] \in have'
  <2>1. /\ p[2] \in Steps[k].facts
        /\ Steps[k].kind = "need" \/ (Steps[k].kind = "change" /\ ~Steps[k].tool)
        /\ SameLook(Chosen, k, at + 1)
        /\ mode \in Steps[k].modes /\ Steps[k].given \subseteq seen'
        /\ \/ \A F \in Steps[k].unless : ~(F \subseteq seen')
           \/ Steps[k].again /\ mode = "Reinitialize"
    BY <1>0, <1>5 DEF Copying, Applies
  <2>2. CASE k = at
    <3>1. seen' = seen
      BY <1>0, <2>1, <2>2 DEF Advance, Moved, Steps
    <3>2. Steps[k] = Now
      BY <2>2 DEF Now
    <3>3. Applies(Now)
      BY <2>1, <3>1, <3>2 DEF Applies
    <3>4. CASE Now.kind = "need"
      BY <2>1, <3>2, <3>3, <3>4 DEF Advance, Ground
    <3>5. CASE Now.kind = "change" /\ ~Now.tool
      <4>1. have' = After(Now.facts, Now.breaks)
        BY <3>3, <3>5 DEF Advance, Moved
      <4> QED
        BY <1>2, <2>1, <3>2, <4>1, MadeStands
    <3> QED
      BY <2>1, <3>2, <3>4, <3>5
  <2>3. CASE k # at
    <3>1. k \in 1..(at - 1) /\ at \in (k + 1)..((at + 1) - 1)
      BY <1>0, <2>3
    <3>2. Now.kind # "look"
      BY <1>0, <2>1, <3>1 DEF SameLook
    <3>3. seen' = seen
      BY <3>2 DEF Advance, Moved
    <3>4. SameLook(Chosen, k, at)
      BY <1>0, <2>1, <3>1 DEF SameLook
    <3>5. Copying(k, p[2])
      BY <2>1, <3>3, <3>4 DEF Copying, Applies
    <3> QED
      BY <1>0, <1>3, <3>1, <3>5 DEF Kept
  <2> QED
    BY <2>2, <2>3
<1> QED
  BY <1>4, <1>5

\* No step makes what is never made.
LEMMA NeverMadeStays ==
  ASSUME TypeOK, [Next]_vars, NEW f, NeverMade(Chosen, f), f \in have'
  PROVE  f \in have
<1>1. CASE Change \/ FallShort \/ Fail
  <2>1. at \in 1..Len(Steps) /\ Now.kind = "change"
    BY <1>1, ScriptTypes DEF Change, FallShort, Fail, Taking
  <2>2. f \notin Now.facts
    BY <2>1 DEF NeverMade, Now, Steps
  <2>3. \/ have' = have
        \/ \E made \in SUBSET Now.facts : \E broken : have' = After(made, broken)
    BY <1>1 DEF Change, FallShort, Fail
  <2>4. \A made, broken : After(made, broken) \subseteq (have \ broken) \cup made
    BY SettleFacts DEF After
  <2> QED
    BY <2>2, <2>3, <2>4
<1>2. CASE ~(Change \/ FallShort \/ Fail)
  BY <1>2 DEF Next, vars, Call, Skip, Inspect, Check, Leave, Finish
<1> QED
  BY <1>1, <1>2

LEMMA KeptStep ==
  ASSUME KeepingTexts, Kept, [Next]_vars
  PROVE  Kept'
<1>0. Chosen' = Chosen
  BY DEF Next, vars, Call, Skip, Inspect, Change, FallShort, Fail, Check, Leave, Finish,
         RunKept, Chosen
<1>1. Known'
  BY KnownStep DEF Kept
<1>2. ASSUME NEW f, NEW x, {f, x} \in Chosen.apart,
             NeverMade(Chosen, f), NeverMade(Chosen, x)
      PROVE  f \notin have' \/ x \notin have'
  BY <1>2, NeverMadeStays DEF Kept, Known
<1>3. ASSUME outcome' = "running", NEW p \in start'.items
      PROVE  /\ p[2] \notin have' /\ Looked(Chosen, mode', at') => p[1] \in seen'
             /\ \A k \in 1..(at' - 1) : Copying(k, p[2])' => p[2] \in have'
  <2>1. ASSUME NEW m \in Modes, Call(m)
        PROVE  ~Looked(Chosen, mode', at') /\ at' = 1
    BY <2>1 DEF Call, Looked
  <2>2. CASE Advance
    <3>1. at' = at + 1 /\ mode' = mode /\ start' = start /\ (at + 1) - 1 = at
      BY <2>2 DEF Advance, Kept, Known, TypeOK
    <3> QED
      BY <1>3, <2>2, <3>1, KeptRun
  <2>3. CASE UNCHANGED vars
    BY <1>0, <1>3, <2>3 DEF vars, Kept, Copying, Applies, Steps, Chosen
  <2> QED
    BY <1>3, <2>1, <2>2, <2>3, RunningGoesOn DEF Kept, Known
<1>4. ASSUME outcome' = "running", NEW f, NeverMade(Chosen, f),
             NEW k \in 1..(at' - 1), BarredBy(Chosen, mode', k, f)
      PROVE  f \notin have'
  <2>1. ASSUME NEW m \in Modes, Call(m) PROVE FALSE
    BY <1>4, <2>1 DEF Call
  <2>2. CASE Advance
    <3>1. /\ at' = at + 1 /\ mode' = mode /\ at \in Nat \ {0} /\ outcome = "running"
          /\ Chosen.steps[at] = Now
      BY <2>2 DEF Advance, Kept, Known, TypeOK, Reached, Now, Steps
    <3>2. CASE k # at
      <4>1. k \in 1..(at - 1)
        BY <3>1, <3>2
      <4> QED
        BY <1>4, <3>1, <4>1, NeverMadeStays DEF Kept, Known
    <3>3. CASE k = at
      <4>1. PICK x \in Now.facts : {f, x} \in Chosen.apart /\ NeverMade(Chosen, x)
        BY <1>4, <3>1, <3>3 DEF BarredBy
      <4>2. Now.kind = "need" /\ Applies(Now)
        BY <1>4, <3>1, <3>3, AlwaysApplies DEF BarredBy
      <4>3. have' = have /\ Now.facts \subseteq have
        BY <2>2, <4>2 DEF Advance, Ground
      <4> QED
        BY <1>4, <4>1, <4>3 DEF Kept
    <3> QED
      BY <3>2, <3>3
  <2>3. CASE UNCHANGED vars
    BY <1>4, <2>3 DEF vars, Kept
  <2> QED
    BY <1>4, <2>1, <2>2, <2>3, RunningGoesOn DEF Kept, Known
<1>5. outcome' # "idle" => \A p \in start'.items : p[1] \in have' \/ p[2] \in have'
  BY KeptItems
<1> QED
  BY <1>0, <1>1, <1>2, <1>3, <1>4, <1>5 DEF Kept

\* In a catalog whose texts keep the user's items, a file that a script
\* replaces is where it was, or there is a copy of it, at every step.
THEOREM UserItemsAreKeptAlways ==
  ASSUME KeepingTexts
  PROVE  Spec => []UserItemsAreKept
<1>1. Init => Kept
  <2>1. ASSUME Init, NEW f, NEW x, {f, x} \in Chosen.apart PROVE f \notin have \/ x \notin have
    <3>1. ~({f, x} \subseteq have)
      BY <2>1 DEF Init, Machines
    <3> QED
      BY <3>1
  <2> QED
    BY <2>1, KnownInit DEF Init, Kept
<1>2. Kept /\ [Next]_vars => Kept'
  BY KeptStep
<1>3. Kept => UserItemsAreKept
  BY DEF Kept, UserItemsAreKept
<1> QED
  BY <1>1, <1>2, <1>3, PTL DEF Spec

(***************************************************************************)
(* Repair is complete.  The recursive function that follows a run is there *)
(* by induction over the steps: what follows k of them can follow one more.*)
(***************************************************************************)

\* Every set of numbers has a least one: no chain of finite sets goes down for
\* ever, and the numbers up to one are a finite set.
LEMMA LeastNumber ==
  ASSUME NEW K \in SUBSET Nat, K # {}
  PROVE  \E m \in K : \A k \in K : m <= k
<1> DEFINE Upto(k) == 0..k
           T == {Upto(k) : k \in K}
<1>1. \A k \in Nat : Upto(k) \in FiniteSubsetsOf(Nat)
  BY FS_Interval DEF FiniteSubsetsOf
<1>2. T \subseteq FiniteSubsetsOf(Nat) /\ T # {}
  BY <1>1
<1> HIDE DEF T, Upto
<1>3. PICK x \in T : \A y \in T : ~(<<y, x>> \in StrictSubsetOrdering(Nat))
  BY <1>2, FS_StrictSubsetOrderingWellFounded, WFMin, Zenon
<1>4. PICK m \in K : x = Upto(m)
  BY DEF T
<1>5. ASSUME NEW k \in K, k < m PROVE FALSE
  <2>1. Upto(k) \subseteq Upto(m) /\ Upto(k) # Upto(m)
    BY <1>5 DEF Upto
  <2>2. Upto(k) \in T
    BY DEF T
  <2>3. <<Upto(k), Upto(m)>> \in StrictSubsetOrdering(Nat)
    BY <2>1, <1>1, K \subseteq Nat DEF StrictSubsetOrdering, FiniteSubsetsOf
  <2> QED BY <2>2, <2>3, <1>3, <1>4
<1> QED BY <1>5, K \subseteq Nat

LEMMA NumbersByInduction ==
  ASSUME NEW K \in SUBSET Nat, 0 \in K, \A n \in K : n + 1 \in K
  PROVE  Nat \subseteq K
<1> SUFFICES ASSUME Nat \ K # {} PROVE FALSE
  OBVIOUS
<1>1. PICK m \in Nat \ K : \A k \in Nat \ K : m <= k
  BY LeastNumber
<1>2. m - 1 \in Nat /\ m - 1 \in K
  BY <1>1
<1> QED BY <1>1, <1>2

Entry(F) == [have |-> F, seen |-> {}, on |-> TRUE]

\* The path begins at the entry and is taken on by one step at a time.
LEMMA PathSteps ==
  ASSUME NEW r, NEW m, NEW F, Len(r.steps) \in Nat
  PROVE  /\ Path(r, m, F)[1] = Entry(F)
         /\ \A i \in 1..Len(r.steps) :
              Path(r, m, F)[i + 1] = Onward(r, m, i, Path(r, m, F)[i])
<1> DEFINE n == Len(r.steps)
           Value(g, i) == IF i = 1 THEN [have |-> F, seen |-> {}, on |-> TRUE]
                          ELSE Onward(r, m, i - 1, g[i - 1])
           K == {k \in Nat : \E g : g = [i \in 1..(k + 1) |-> Value(g, i)]}
<1>1. 0 \in K
  <2>1. 1..(0 + 1) = {1}
    OBVIOUS
  <2> DEFINE g == [i \in {1} |-> [have |-> F, seen |-> {}, on |-> TRUE]]
  <2>2. g = [i \in {1} |-> Value(g, i)]
    OBVIOUS
  <2> HIDE DEF g, Value
  <2>3. \E h : h = [i \in 1..(0 + 1) |-> Value(h, i)]
    BY <2>1, <2>2
  <2> QED BY <2>3
<1>2. ASSUME NEW k \in K PROVE k + 1 \in K
  <2>1. PICK g : g = [i \in 1..(k + 1) |-> Value(g, i)]
    OBVIOUS
  <2> DEFINE j == k + 2
             below == 1..(k + 1)
             upto == 1..((k + 1) + 1)
             h == [i \in upto |-> IF i = j THEN Onward(r, m, j - 1, g[j - 1]) ELSE g[i]]
  <2>2. /\ k \in Nat /\ j # 1 /\ j - 1 \in below /\ j \notin below
        /\ upto = below \cup {j}
        /\ \A i \in below : i # 1 => i - 1 \in below
    OBVIOUS
  <2> HIDE DEF below, upto, j
  <2>3. \A i \in below : h[i] = g[i]
    BY <2>2
  <2>4. h[j] = Value(h, j)
    BY <2>2, <2>3
  <2>5. ASSUME NEW i \in below PROVE h[i] = Value(h, i)
    <3>1. g[i] = Value(g, i)
      BY <2>1 DEF below
    <3> QED BY <3>1, <2>2, <2>3
  <2> DEFINE h2 == [i \in upto |-> Value(h, i)]
  <2>6. h = h2
    <3>1. \A i \in upto : h[i] = h2[i]
      BY <2>2, <2>4, <2>5
    <3>2. h = [i \in upto |-> h[i]]
      OBVIOUS
    <3> HIDE DEF h, Value
    <3> QED BY <3>1, <3>2
  <2> HIDE DEF h, Value
  <2>7. \E f : f = [i \in 1..((k + 1) + 1) |-> Value(f, i)]
    BY <2>6 DEF upto
  <2> QED BY <2>2, <2>7
<1>3. n \in K
  <2>1. K \in SUBSET Nat
    OBVIOUS
  <2> HIDE DEF K
  <2> QED BY <1>1, <1>2, <2>1, NumbersByInduction
<1> DEFINE path == CHOOSE g : g = [i \in 1..(n + 1) |-> Value(g, i)]
<1>4. path = [i \in 1..(n + 1) |-> Value(path, i)]
  <2> HIDE DEF Value
  <2> QED BY <1>3
<1>5. Path(r, m, F) = path
  BY Zenon DEF Path
<1> HIDE DEF path
<1>6. path[1] = Entry(F)
  BY <1>4 DEF Entry
<1>7. ASSUME NEW i \in 1..n PROVE path[i + 1] = Onward(r, m, i, path[i])
  <2>1. i + 1 \in 1..(n + 1) /\ i + 1 # 1 /\ (i + 1) - 1 = i
    OBVIOUS
  <2>2. path[i + 1] = Value(path, i + 1)
    BY <1>4, <2>1
  <2> QED BY <2>1, <2>2
<1> QED BY <1>5, <1>6, <1>7

\* A fact and a ground joined to it stand together: no step separates them.
Stands == Standing(Chosen, have)

LEMMA StandsInit == Init => Stands
<1> SUFFICES ASSUME Init PROVE Stands
  OBVIOUS
<1>1. Settle(Chosen, have) = have
  BY DEF Init, Machines
<1> QED BY <1>1 DEF Settle, Stands, Standing, Joined

LEMMA StandsAfter ==
  ASSUME Stands, Now.kind = "change", at \in 1..Len(Steps),
         NEW broken \in SUBSET Now.breaks, NEW made \in SUBSET Now.facts
  PROVE  Standing(Chosen, After(made, broken))
<1> DEFINE X == (have \ broken) \cup made
<1> SUFFICES ASSUME NEW p \in Joined(Chosen), p[1] \in After(made, broken)
             PROVE  p[2] \in After(made, broken)
  BY DEF Standing
<1>1. After(made, broken) = Settle(Chosen, X)
  BY DEF After
<1>2. p \in Chosen.rests /\ p[1] \in X /\ p[2] \in X
  BY <1>1 DEF Settle, Joined
<1>3. CASE p[2] \notin Dependent(Chosen)
  BY <1>1, <1>2, <1>3 DEF Settle, Dependent
<1>4. CASE p[2] \in Dependent(Chosen)
  <2>1. /\ Firm(Chosen, p[2]) /\ Grounds(Chosen, {p[2]}) \cap Now.breaks = {}
        /\ ~({p[1], p[2]} \subseteq Now.facts)
    BY <1>4 DEF Joined, Now, Steps
  <2>2. p[2] \in have
    <3>1. CASE p[2] \in made
      BY <1>2, <2>1, <3>1 DEF Stands, Standing
    <3>2. CASE p[2] \notin made
      BY <1>2, <3>2
    <3> QED BY <3>1, <3>2
  <2>3. ASSUME NEW q \in Chosen.rests, q[1] = p[2] PROVE q[2] \in X
    <3>1. q[2] \in Grounds(Chosen, {p[2]})
      BY <2>3 DEF Grounds
    <3>2. q \in Joined(Chosen)
      BY <2>1, <3>1 DEF Joined, Firm
    <3>3. q[2] \in have
      BY <2>2, <2>3, <3>2 DEF Stands, Standing
    <3> QED BY <2>1, <3>1, <3>3
  <2> QED BY <1>1, <1>2, <2>3 DEF Settle
<1> QED BY <1>3, <1>4

LEMMA StandsStep == TypeOK /\ Stands /\ [Next]_vars => Stands'
<1> SUFFICES ASSUME TypeOK, Stands, [Next]_vars PROVE Stands'
  OBVIOUS
<1>1. Chosen' = Chosen
  BY DEF Next, vars, Call, Skip, Inspect, Change, FallShort, Fail, Check, Leave, Finish,
         RunKept, Chosen
<1>2. CASE have' = have
  BY <1>1, <1>2 DEF Stands
<1>3. ASSUME NEW m, Call(m) PROVE Stands'
  BY <1>1, <1>3 DEF Stands, Standing, Joined, Call
<1>4. CASE Change \/ FallShort \/ Fail
  <2>1. Now.kind = "change" /\ at \in 1..Len(Steps)
    BY <1>4, ScriptTypes DEF Change, FallShort, Fail, Taking
  <2>2. \/ have' = have
        \/ \E broken \in SUBSET Now.breaks, made \in SUBSET Now.facts :
             have' = After(made, broken)
    <3>1. CASE Change
      BY <3>1 DEF Change
    <3>2. CASE FallShort
      BY <3>2 DEF FallShort
    <3>3. CASE Fail
      BY <3>3 DEF Fail
    <3> QED BY <1>4, <3>1, <3>2, <3>3
  <2> QED BY <1>1, <1>2, <2>1, <2>2, StandsAfter DEF Stands
<1> QED BY <1>2, <1>3, <1>4 DEF Next, vars, Skip, Inspect, Check, Leave, Finish

\* A changing run without a fault is on the path from what it found.
Here == [have |-> have, seen |-> seen, on |-> TRUE]

OnPath ==
  outcome = "running" /\ mode \in Changing /\ ~hurt =>
    \E F \in SUBSET (FactsOf(Chosen) \ CopiesOf(Chosen)) :
      Standing(Chosen, F) /\ Path(Chosen, mode, F)[at] = Here

Complete == TypeOK /\ Stands /\ OnPath /\ RepairIsComplete

LEMMA AppliesIsTaken == Applies(Now) <=> Taken(Now, mode, seen)
  BY DEF Applies, Taken

LEMMA OnPathStep == Complete /\ [Next]_vars => OnPath'
<1> SUFFICES ASSUME Complete, [Next]_vars,
                    outcome' = "running", mode' \in Changing, ~hurt'
             PROVE  \E F \in SUBSET (FactsOf(Chosen') \ CopiesOf(Chosen')) :
                      Standing(Chosen', F) /\ Path(Chosen', mode', F)[at'] = Here'
  BY DEF OnPath
<1>1. Chosen' = Chosen
  BY DEF Next, vars, Call, Skip, Inspect, Change, FallShort, Fail, Check, Leave, Finish,
         RunKept, Chosen
<1>2. TypeOK /\ Len(Chosen.steps) \in Nat /\ Facts[script] = FactsOf(Chosen)
  BY ScriptTypes DEF Complete, Steps, Facts, Chosen, TypeOK
<1>3. ASSUME NEW m, Call(m)
      PROVE  have' \in SUBSET (FactsOf(Chosen) \ CopiesOf(Chosen))
             /\ Standing(Chosen, have') /\ Path(Chosen, mode', have')[at'] = Here'
  <2>1. have' \in SUBSET (FactsOf(Chosen) \ CopiesOf(Chosen))
    BY <1>2, <1>3 DEF Call, TypeOK
  <2>2. Standing(Chosen, have')
    BY <1>1, StandsStep DEF Complete, Stands
  <2>3. at' = 1 /\ seen' = {}
    BY <1>3 DEF Call
  <2> QED BY <1>2, <2>1, <2>2, <2>3, PathSteps DEF Entry, Here
<1>4. CASE Advance
  <2>1. /\ outcome = "running" /\ at \in 1..Len(Chosen.steps) /\ at' = at + 1
        /\ mode' = mode /\ Now = Chosen.steps[at]
    BY <1>2, <1>4, ScriptTypes DEF Advance, Reached, Now, Steps
  <2>2. ~hurt
    BY <1>2, <1>4 DEF Advance, Moved, TypeOK
  <2>3. PICK F \in SUBSET (FactsOf(Chosen) \ CopiesOf(Chosen)) :
          Standing(Chosen, F) /\ Path(Chosen, mode, F)[at] = Here
    BY <2>1, <2>2 DEF Complete, OnPath
  <2>4. Onward(Chosen, mode, at, Here) = Here'
    <3>1. Here.on = TRUE /\ Here.have = have /\ Here.seen = seen
      BY DEF Here
    <3>2. CASE ~Applies(Now)
      BY <1>4, <2>1, <3>1, <3>2, AppliesIsTaken DEF Advance, Onward, Here
    <3>3. CASE Applies(Now) /\ Now.kind = "look"
      BY <1>4, <2>1, <3>1, <3>3, AppliesIsTaken DEF Advance, Onward, Here
    <3>4. CASE Applies(Now) /\ Now.kind = "change"
      <4>1. Moved(Now.facts, Now.breaks, hurt)
        BY <1>4, <3>4 DEF Advance, Moved
      <4> QED BY <2>1, <3>1, <3>4, <4>1, AppliesIsTaken DEF Moved, After, Onward, Here
    <3>5. CASE Applies(Now) /\ Now.kind \in {"need", "verify"}
      <4>1. Now.facts \subseteq Ground(Now) /\ have' = have /\ seen' = seen
        BY <1>4, <3>5 DEF Advance
      <4> QED BY <2>1, <3>1, <3>5, <4>1, AppliesIsTaken DEF Ground, Onward, Here
    <3> QED BY <1>4, <3>2, <3>3, <3>4, <3>5 DEF Advance
  <2>5. Path(Chosen, mode, F)[at + 1] = Onward(Chosen, mode, at, Here)
    BY <1>2, <2>1, <2>3, PathSteps
  <2> QED BY <1>1, <2>1, <2>3, <2>4, <2>5
<1>5. CASE UNCHANGED vars
  BY <1>5 DEF Complete, OnPath, vars, Here, Chosen
<1>6. (\E m \in Modes : Call(m)) \/ Advance \/ UNCHANGED vars
  BY <1>2, RunningGoesOn
<1> QED BY <1>1, <1>3, <1>4, <1>5, <1>6

\* A check that fails in a run without a fault fails for want of what the
\* script needs: on its path every other check passes.
LEMMA CompleteStep ==
  ASSUME RepairTexts, Complete, [Next]_vars
  PROVE  RepairIsComplete'
<1> SUFFICES ASSUME outcome' = "failed", mode' \in Changing, ~hurt',
                    Chosen'.needs \subseteq have'
             PROVE  FALSE
  BY DEF RepairIsComplete
<1>1. Chosen' = Chosen
  BY DEF Next, vars, Call, Skip, Inspect, Change, FallShort, Fail, Check, Leave, Finish,
         RunKept, Chosen
<1>2. CASE UNCHANGED vars
  BY <1>1, <1>2 DEF Complete, RepairIsComplete, vars
<1>3. CASE Check \/ Leave
  <2>1. /\ outcome = "running" /\ mode' = mode /\ hurt' = hurt /\ have' = have
        /\ Applies(Now)
        /\ \/ Now.kind = "need" /\ ~(Now.facts \subseteq have)
           \/ Now.kind \in {"verify", "report"} /\ ~(Now.facts \subseteq seen)
    BY <1>3 DEF Check, Leave, Taking, Reached, Proceed, End, RunKept, Ground
  <2>2. at \in 1..Len(Chosen.steps) /\ Now = Chosen.steps[at]
    BY <1>3, ScriptTypes DEF Complete, Check, Leave, Taking, Now, Steps
  <2>3. PICK F \in SUBSET (FactsOf(Chosen) \ CopiesOf(Chosen)) :
          Standing(Chosen, F) /\ Path(Chosen, mode, F)[at] = Here
    BY <2>1 DEF Complete, OnPath
  <2>4. RepairText(Chosen)
    BY DEF RepairTexts, Complete, TypeOK, Chosen
  <2>5. Passes(Chosen, Now, mode, Here)
    BY <2>1, <2>2, <2>3, <2>4 DEF RepairText
  <2> QED BY <1>1, <2>1, <2>5, AppliesIsTaken DEF Passes, Here
<1>4. CASE Fail \/ FallShort
  BY <1>4 DEF Fail, FallShort
<1>5. CASE Skip \/ Inspect \/ Change \/ Finish
  BY <1>5 DEF Skip, Inspect, Change, Finish, Taking, Reached, Proceed, End
<1>6. ASSUME NEW m, Call(m) PROVE FALSE
  BY <1>6 DEF Call
<1> QED BY <1>2, <1>3, <1>4, <1>5, <1>6 DEF Next

\* Ensure repairs every drift: for every catalog whose texts, each followed
\* once from every state of the machine, pass their checks, a changing run in
\* which nothing went wrong fails only where a prerequisite is missing, after
\* any number of runs and faults.
THEOREM RepairIsCompleteAlways ==
  ASSUME RepairTexts
  PROVE  Spec => []RepairIsComplete
<1>1. Init => Complete
  BY TypeInit, StandsInit DEF Init, Complete, OnPath, RepairIsComplete
<1>2. Complete /\ [Next]_vars => Complete'
  BY TypeStep, StandsStep, OnPathStep, CompleteStep DEF Complete
<1>3. Complete => RepairIsComplete
  BY DEF Complete
<1> QED BY <1>1, <1>2, <1>3, PTL DEF Spec
=============================================================================
