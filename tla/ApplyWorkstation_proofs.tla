----------------------- MODULE ApplyWorkstation_proofs ---------------------
(***************************************************************************)
(* Proofs about the planner and the run of the modules, for every set of   *)
(* names, stages and catalogs.                                             *)
(***************************************************************************)
EXTENDS CatalogRules, TLAPS, FiniteSetTheorems

(***************************************************************************)
(* The planner.                                                            *)
(*                                                                         *)
(* The invariant is stated by what is already over rather than by the      *)
(* current phase, so that it also holds through the phases that            *)
(* ApplyWorkstation adds.  Its heart is Greedy, which remembers of every   *)
(* choice of the ordering loop that it was the first of the ready modules; *)
(* StagesAscend is not inductive without it.                               *)
(***************************************************************************)

Unchecked == {"arguments", "validate", "ambiguous", "invalid"}
Unclosed == Unchecked \cup {"close", "excluded"}
Unordered == Unclosed \cup {"order", "cycle"}

Typed ==
  /\ catalog \in Catalogs
  /\ request \in Requests
  /\ request.names \cup request.skip \subseteq catalog.modules
  /\ included \in SUBSET Name
  /\ order \in Seq(Name)

NothingYet ==
  /\ phase \in Unchecked => included = {}
  /\ phase \in Unclosed => order = <<>>

Checked ==
  phase \notin Unchecked =>
    /\ ValidCatalog(catalog)
    /\ included \subseteq catalog.modules
    /\ Wanted(catalog, request) \subseteq included
    /\ included \cap request.skip = {}
    /\ \A S \in SUBSET catalog.modules :
         Wanted(catalog, request) \subseteq S /\ ClosedUnderNeeds(S)
           => included \subseteq S

Closed == phase \notin Unclosed => ClosedUnderNeeds(included)

Ordered ==
  /\ Completed \subseteq included
  /\ phase \notin Unordered => Completed = included

Before(i) == {order[j] : j \in 1..(i - 1)}

\* Every choice of the ordering loop came first among the modules that were
\* ready when it was made.
Greedy ==
  \A i \in 1..Len(order) : \A n \in included \ Before(i) :
    catalog.deps[n] \subseteq Before(i)
      => n = order[i] \/ Precedes(catalog, order[i], n)

Stuck ==
  /\ phase = "cycle" => Ready = {} /\ Completed # included
  /\ phase = "excluded" => Pulled \cap request.skip # {}

PlanInv ==
  /\ Typed
  /\ NothingYet
  /\ Checked
  /\ Closed
  /\ Ordered
  /\ DependenciesFirst
  /\ Greedy
  /\ StagesAscend
  /\ Stuck

---------------------------------------------------------------------------
\* What Append does to a list of names and to the set of its elements.
LEMMA AppendFacts ==
  ASSUME NEW s \in Seq(Name), NEW m \in Name
  PROVE  /\ Append(s, m) \in Seq(Name)
         /\ Len(Append(s, m)) = Len(s) + 1
         /\ \A i \in 1..Len(s) : Append(s, m)[i] = s[i]
         /\ Append(s, m)[Len(s) + 1] = m
  OBVIOUS

LEMMA CatalogFields ==
  ASSUME Typed
  PROVE  /\ catalog.modules \in SUBSET Name
         /\ catalog.stages \in SUBSET Stage
         /\ catalog.stage \in [Name -> Stage]
         /\ catalog.stage \in [Name -> Nat]
         /\ catalog.rank \in [Name -> Nat]
         /\ catalog.default \in SUBSET Name
         /\ catalog.deps \in [Name -> SUBSET Name]
         /\ catalog.gate \in [Stage -> SUBSET Name]
         /\ request.skip \in SUBSET Name
         /\ request.names \in SUBSET Name
         /\ \A a, b \in Name : catalog.rank[a] = catalog.rank[b] => a = b
  BY CatalogAssumption, StageAssumption, RequestAssumption
     DEF Typed, Catalog, Request

LEMMA PlanInvInit == PlanInit => PlanInv
<1> SUFFICES ASSUME PlanInit PROVE PlanInv
  OBVIOUS
<1>1. Typed
  BY DEF PlanInit, Typed
<1>2. Completed = {} /\ Len(order) = 0
  BY DEF PlanInit, Completed
<1> QED
  BY <1>1, <1>2 DEF PlanInit, PlanInv, NothingYet, Checked, Closed, Ordered,
     DependenciesFirst, Greedy, StagesAscend, Stuck, Unchecked, Unclosed, Unordered

---------------------------------------------------------------------------
\* A step that leaves the catalog, the request, the selection and the order
\* alone, and does not go back to an earlier phase, keeps the invariant.
LEMMA PlanInvKept ==
  ASSUME PlanInv, UNCHANGED <<catalog, request, included, order>>,
         phase' \in Unchecked => phase \in Unchecked,
         phase' \in Unclosed => phase \in Unclosed,
         phase' \notin Unordered => phase \notin Unordered \/ Completed = included,
         phase' \in Unchecked \/ phase \notin Unchecked,
         phase' \in Unclosed \/ phase \notin Unclosed,
         phase' = "cycle" => (phase = "cycle" \/ (Ready = {} /\ Completed # included)),
         phase' = "excluded" => (phase = "excluded" \/ Pulled \cap request.skip # {})
  PROVE  PlanInv'
<1>1. Typed' /\ NothingYet'
  BY DEF PlanInv, Typed, NothingYet
<1>2. Checked' /\ Closed'
  BY DEF PlanInv, Checked, Closed, ClosedUnderNeeds, Needs, Wanted
<1>3. Ordered' /\ DependenciesFirst' /\ Greedy' /\ StagesAscend'
  BY DEF PlanInv, Ordered, DependenciesFirst, Greedy, StagesAscend, Before,
     Completed
<1>4. Stuck'
  BY DEF PlanInv, Stuck, Ready, ReadyAfter, Completed, Pulled, Needs
<1> QED
  BY <1>1, <1>2, <1>3, <1>4 DEF PlanInv

LEMMA OrderInduction ==
  ASSUME PlanInv, OrderNext
  PROVE  Ordered' /\ DependenciesFirst' /\ Greedy' /\ StagesAscend'
<1> PICK m \in Ready :
      /\ \A n \in Ready : n = m \/ Precedes(catalog, m, n)
      /\ order' = Append(order, m)
  BY DEF OrderNext
<1> DEFINE k == Len(order) + 1
<1>1. /\ UNCHANGED <<catalog, request, phase, included>>
      /\ phase = "order"
  BY DEF OrderNext
<1>2. /\ m \in included /\ m \in Name /\ m \notin Completed
      /\ \A d \in catalog.deps[m] : d \in included => d \in Completed
  BY DEF Ready, ReadyAfter, PlanInv, Typed
<1>3. catalog.deps[m] \subseteq included
  BY <1>1, <1>2 DEF PlanInv, Closed, ClosedUnderNeeds, Needs, Unclosed, Unchecked
<1>4. /\ Len(order) \in Nat
      /\ order' \in Seq(Name)
      /\ Len(order') = k
      /\ \A i \in 1..Len(order) : order'[i] = order[i]
      /\ order'[k] = m
  BY <1>2, AppendFacts DEF PlanInv, Typed
<1>5. \A i \in 1..k : Before(i)' = Before(i)
  BY <1>4 DEF Before
<1>6. Before(k) = Completed
  BY <1>4 DEF Before, Completed
<1>7. Ordered'
  <2>1. Completed' = Completed \cup {m}
    BY <1>4 DEF Completed
  <2> QED
    BY <2>1, <1>1, <1>2 DEF PlanInv, Ordered, Unordered
<1>8. DependenciesFirst'
  <2>1. ASSUME NEW i \in 1..k, NEW j \in 1..k, order'[i] = order'[j]
        PROVE  i = j
    <3>1. \A l \in 1..Len(order) : order[l] # m
      BY <1>2 DEF Completed
    <3> QED
      BY <2>1, <3>1, <1>4 DEF PlanInv, DependenciesFirst
  <2>2. ASSUME NEW i \in 1..k, NEW d \in catalog.deps[order'[i]]
        PROVE  \E j \in 1..(i - 1) : order'[j] = d
    <3>1. CASE i = k
      <4>1. d \in Completed
        BY <3>1, <2>2, <1>2, <1>3, <1>4
      <4> QED
        BY <4>1, <3>1, <1>4 DEF Completed
    <3>2. CASE i # k
      <4>1. i \in 1..Len(order) /\ order'[i] = order[i]
        BY <3>2, <1>4
      <4>2. PICK j \in 1..(i - 1) : order[j] = d
        BY <4>1, <2>2 DEF PlanInv, DependenciesFirst
      <4> QED
        BY <4>1, <4>2, <1>4
    <3> QED
      BY <3>1, <3>2
  <2> QED
    BY <2>1, <2>2, <1>1, <1>4 DEF DependenciesFirst
<1>9. Greedy'
  <2> SUFFICES ASSUME NEW i \in 1..k, NEW n \in included \ Before(i),
                      catalog.deps[n] \subseteq Before(i)
               PROVE  n = order'[i] \/ Precedes(catalog, order'[i], n)
    BY <1>1, <1>4, <1>5 DEF Greedy, Precedes
  <2>1. CASE i = k
    <3>1. n \in Ready
      BY <2>1, <1>1, <1>6
         DEF Ready, ReadyAfter, PlanInv, Checked, Unchecked
    <3> QED
      BY <3>1, <2>1, <1>4
  <2>2. CASE i # k
    <3>1. i \in 1..Len(order) /\ order'[i] = order[i]
      BY <2>2, <1>4
    <3> QED
      BY <3>1 DEF PlanInv, Greedy
  <2> QED
    BY <2>1, <2>2
<1>10. StagesAscend'
  \* Were a module of a later stage already chosen at i, m would have been
  \* ready at i: its dependencies are of its stage or earlier, hence before i.
  <2>0. /\ Typed /\ Checked /\ Greedy /\ StagesAscend
        /\ catalog.stage \in [Name -> Nat]
    BY CatalogFields DEF PlanInv
  <2>1. ASSUME NEW i \in 1..Len(order)
        PROVE  catalog.stage[order[i]] <= catalog.stage[m]
    <3>0. order[i] \in Name
      BY <2>0 DEF Typed
    <3> SUFFICES ASSUME catalog.stage[m] < catalog.stage[order[i]]
                 PROVE  FALSE
      BY <2>0, <1>2, <3>0
    <3>1. catalog.deps[m] \subseteq Before(i)
      <4> SUFFICES ASSUME NEW d \in catalog.deps[m] PROVE d \in Before(i)
        OBVIOUS
      <4>1. PICK j \in 1..Len(order) : order[j] = d
        BY <1>2, <1>3 DEF Completed
      <4>2. catalog.stage[d] <= catalog.stage[m]
        BY <2>0, <1>1, <1>2 DEF Checked, ValidCatalog, Unchecked
      <4>3. d \in Name
        BY <2>0, <4>1 DEF Typed
      <4>4. ~(i <= j)
        <5>1. catalog.stage[d] < catalog.stage[order[i]]
          BY <2>0, <4>2, <4>3, <3>0, <1>2
        <5>2. i < j => catalog.stage[order[i]] <= catalog.stage[order[j]]
          BY <2>0, <4>1 DEF StagesAscend
        <5> QED
          BY <2>0, <5>1, <5>2, <4>1, <4>3, <3>0
      <4> QED
        BY <4>1, <4>4, <1>4 DEF Before
    <3>2. m \in included \ Before(i)
      BY <1>2, <1>4 DEF Before, Completed
    <3>3. m = order[i] \/ Precedes(catalog, order[i], m)
      BY <2>0, <3>1, <3>2 DEF Greedy
    <3> QED
      BY <2>0, <3>3, <3>0, <1>2 DEF Precedes
  <2> SUFFICES ASSUME NEW i \in 1..k, NEW j \in 1..k, i < j
               PROVE  catalog.stage[order'[i]] <= catalog.stage[order'[j]]
    BY <1>1, <1>4 DEF StagesAscend
  <2>2. i \in 1..Len(order) /\ order'[i] = order[i]
    BY <1>4
  <2>3. CASE j = k
    BY <2>1, <2>2, <2>3, <1>4
  <2>4. CASE j # k
    <3>1. j \in 1..Len(order) /\ order'[j] = order[j]
      BY <2>4, <1>4
    <3> QED
      BY <2>0, <2>2, <3>1 DEF StagesAscend
  <2> QED
    BY <2>3, <2>4
<1> QED
  BY <1>7, <1>8, <1>9, <1>10

LEMMA PlanInvNext == PlanInv /\ [PlanNext]_planVars => PlanInv'
<1> SUFFICES ASSUME PlanInv, [PlanNext]_planVars PROVE PlanInv'
  OBVIOUS
<1> USE DEF Unchecked, Unclosed, Unordered
<1>1. CASE CheckArguments
  BY <1>1, PlanInvKept DEF CheckArguments
<1>2. CASE Validate
  <2>1. CASE ~ValidCatalog(catalog)
    BY <1>2, <2>1, PlanInvKept DEF Validate
  <2>2. CASE ValidCatalog(catalog)
    <3>1. /\ phase' = "close" /\ included' = Wanted(catalog, request)
          /\ UNCHANGED <<catalog, request, order>>
          /\ order = <<>>
      BY <1>2, <2>2 DEF Validate, PlanInv, NothingYet
    <3>2. Wanted(catalog, request) \in SUBSET catalog.modules
      BY CatalogFields DEF Wanted, PlanInv, Typed
    <3>3. Typed'
      BY <3>1, <3>2, CatalogFields DEF PlanInv, Typed
    <3>4. Checked'
      <4>1. Wanted(catalog, request) \cap request.skip = {}
        BY DEF Wanted
      <4> QED
        BY <3>1, <3>2, <4>1, <2>2 DEF Checked, Wanted, ClosedUnderNeeds, Needs
    <3>5. Ordered' /\ DependenciesFirst' /\ Greedy' /\ StagesAscend'
      BY <3>1 DEF Ordered, DependenciesFirst, Greedy, StagesAscend, Completed
    <3> QED
      BY <3>1, <3>3, <3>4, <3>5 DEF PlanInv, NothingYet, Closed, Stuck
  <2> QED
    BY <2>1, <2>2
<1>3. CASE ClosePass
  <2>1. CASE Pulled \cap request.skip # {}
    BY <1>3, <2>1, PlanInvKept DEF ClosePass
  <2>2. CASE Pulled \cap request.skip = {}
    <3>1. /\ included' = included \cup Pulled
          /\ phase' = IF Pulled \subseteq included THEN "order" ELSE "close"
          /\ UNCHANGED <<catalog, request, order>>
          /\ order = <<>> /\ phase = "close"
      BY <1>3, <2>2 DEF ClosePass, PlanInv, NothingYet
    <3>2. Pulled \subseteq catalog.modules
      BY <3>1, CatalogFields
         DEF Pulled, Needs, PlanInv, Checked, ValidCatalog
    <3>3. Typed'
      BY <3>1, <3>2, CatalogFields DEF PlanInv, Typed
    <3>4. Checked'
      <4>1. ASSUME NEW S \in SUBSET catalog.modules,
                   Wanted(catalog, request) \subseteq S, ClosedUnderNeeds(S)
            PROVE  included' \subseteq S
        BY <4>1, <3>1 DEF PlanInv, Checked, ClosedUnderNeeds, Pulled
      <4>2. included' \cap request.skip = {}
        BY <2>2, <3>1 DEF PlanInv, Checked
      <4> QED
        BY <4>1, <4>2, <3>1, <3>2
           DEF PlanInv, Checked, Wanted, ClosedUnderNeeds, Needs
    <3>5. Closed'
      BY <3>1 DEF Closed, ClosedUnderNeeds, Pulled, Needs
    <3>6. Ordered' /\ DependenciesFirst' /\ Greedy' /\ StagesAscend'
      BY <3>1 DEF Ordered, DependenciesFirst, Greedy, StagesAscend, Completed
    <3> QED
      BY <3>1, <3>3, <3>4, <3>5, <3>6 DEF PlanInv, NothingYet, Stuck
  <2> QED
    BY <2>1, <2>2
<1>4. CASE OrderNext
  <2>1. /\ UNCHANGED <<catalog, request, phase, included>>
        /\ phase = "order"
        /\ order' \in Seq(Name)
    BY <1>4, AppendFacts DEF OrderNext, Ready, ReadyAfter, PlanInv, Typed
  <2>2. Typed' /\ NothingYet'
    BY <2>1 DEF PlanInv, Typed, NothingYet
  <2>3. Checked' /\ Closed'
    BY <2>1 DEF PlanInv, Checked, Closed, ClosedUnderNeeds, Needs, Wanted
  <2> QED
    BY <2>1, <2>2, <2>3, <1>4, OrderInduction DEF PlanInv, Stuck
<1>5. CASE OrderCycle
  BY <1>5, PlanInvKept DEF OrderCycle
<1>6. CASE OrderDone
  BY <1>6, PlanInvKept DEF OrderDone
<1>7. CASE CheckPlan
  BY <1>7, PlanInvKept DEF CheckPlan
<1>8. CASE UNCHANGED planVars
  <2>1. phase' = phase /\ UNCHANGED <<catalog, request, included, order>>
    BY <1>8 DEF planVars
  <2> QED
    BY <2>1, PlanInvKept DEF PlanInv, Stuck
<1> QED
  BY <1>1, <1>2, <1>3, <1>4, <1>5, <1>6, <1>7, <1>8 DEF PlanNext

---------------------------------------------------------------------------
\* What the invariant says of the plan, in the words of ModulePlanner.
LEMMA PlanInvMeans ==
  ASSUME PlanInv
  PROVE  /\ ClosureIsLeast /\ DependenciesFirst /\ StagesAscend
         /\ PlanIsComplete /\ CycleMeansCycle /\ ExclusionMeansNeed
<1>1. ClosureIsLeast
  BY DEF PlanInv, Checked, Closed, ClosureIsLeast, Unclosed, Unchecked
<1>2. PlanIsComplete
  BY DEF PlanInv, Ordered, PlanIsComplete, Unordered, Unclosed, Unchecked
<1>3. CycleMeansCycle
  <2> SUFFICES ASSUME phase = "cycle"
               PROVE  \E S \in (SUBSET included) \ {{}} :
                        \A m \in S : catalog.deps[m] \cap S # {}
    BY DEF CycleMeansCycle
  <2> DEFINE S == included \ Completed
  <2>1. Completed \subseteq included /\ Completed # included /\ Ready = {}
    BY DEF PlanInv, Stuck, Ordered
  <2>2. S # {}
    BY <2>1
  <2>3. \A m \in S : catalog.deps[m] \cap S # {}
    BY <2>1 DEF PlanInv, Ready, ReadyAfter, Checked, Unchecked
  <2> QED
    BY <2>2, <2>3
<1>4. ExclusionMeansNeed
  <2> SUFFICES ASSUME phase = "excluded",
                      NEW S \in SUBSET catalog.modules,
                      Wanted(catalog, request) \subseteq S, ClosedUnderNeeds(S)
               PROVE  S \cap request.skip # {}
    BY DEF ExclusionMeansNeed
  <2>1. included \subseteq S
    BY DEF PlanInv, Checked, Unchecked
  <2>2. Pulled \subseteq S
    BY <2>1 DEF Pulled, ClosedUnderNeeds
  <2> QED
    BY <2>2 DEF PlanInv, Stuck
<1> QED
  BY <1>1, <1>2, <1>3, <1>4 DEF PlanInv

\* Whatever the catalog declares and whatever is asked for: the closure loop
\* of Get-SelectedModuleDefinitions computes the least closed selection, its
\* ordering loop puts dependencies first and never returns to an earlier
\* stage, and it gives up only on a selection that really has a cycle, or on one
\* that cannot be had without a skipped module.
THEOREM PlannerCorrect ==
  PlanSpec => [](/\ ClosureIsLeast /\ DependenciesFirst /\ StagesAscend
                 /\ PlanIsComplete /\ CycleMeansCycle /\ ExclusionMeansNeed)
<1>1. PlanSpec => []PlanInv
  BY PlanInvInit, PlanInvNext, PTL DEF PlanSpec
<1> QED
  BY <1>1, PlanInvMeans, PTL

(***************************************************************************)
(* The run, on top of the planner's invariant.                             *)
(*                                                                         *)
(* The loop looks at $failedStages and at the recorded status of the       *)
(* dependencies only.  That this is enough for StageBarrier needs two      *)
(* facts: a skip always has a failed stage at or below its own (Skips),    *)
(* and the order never returns to an earlier stage (StagesAscend).         *)
(***************************************************************************)
RunTyped ==
  /\ phase \in Phase \cup RunEnd
  /\ status \in [Name -> Outcome]
  /\ failedStages \in SUBSET Stage
  /\ failures \in Nat
  /\ before \in Nat
  /\ cursor \in Nat \ {0}
  /\ step \in Nat
  /\ invoked \in SUBSET Name

Idle ==
  /\ status = [m \in Name |-> "Pending"]
  /\ failedStages = {} /\ failures = 0 /\ before = 0
  /\ cursor = 1 /\ step = 0 /\ invoked = {}

IdleBeforeRun == phase \notin Accepted => Idle

Considered == {order[i] : i \in 1..(cursor - 1)}

Position ==
  /\ cursor <= Len(order) + 1
  /\ step > 0 => cursor <= Len(order) /\ Current \in invoked
  /\ phase \in {"succeeded", "failed"} => cursor > Len(order) /\ step = 0
  /\ phase = "failed" => failures > 0
  /\ phase = "succeeded" => failures = 0

Recorded == \A m \in Name : status[m] = "Pending" <=> m \notin Considered

FailuresByStage ==
  /\ \A m \in Name : status[m] = "Failed" => catalog.stage[m] \in failedStages
  /\ \A s \in failedStages :
       \E m \in included : status[m] = "Failed" /\ catalog.stage[m] = s

Skips ==
  \A m \in Name : status[m] = "Skipped" =>
    \E s \in failedStages : s <= catalog.stage[m]

Counted ==
  /\ \A m \in Name : status[m] \in {"Failed", "Skipped"} => failures > 0
  /\ step = 0 /\ failures > 0 => failedStages # {}
  /\ step > 0 /\ before > 0 => failedStages # {}
  /\ step > 0 => before <= failures
  /\ step > 0 /\ Current \in Chained /\ request.mode # "Test"
       => failures = before

Grounded(m) ==
  /\ \A d \in catalog.deps[m] : status[d] = "Succeeded"
  /\ \A n \in included :
       catalog.stage[n] < catalog.stage[m] => status[n] = "Succeeded"

InvokedGrounded ==
  /\ invoked \subseteq Completed
  /\ \A m \in invoked : Grounded(m)

Consented == phase \in Accepted => ~RejectedPlan /\ ~request.plan

RunInv ==
  /\ RunTyped /\ IdleBeforeRun /\ Position /\ Recorded /\ FailuresByStage
  /\ Skips /\ Counted /\ InvokedGrounded /\ Consented

Inv == PlanInv /\ RunInv

---------------------------------------------------------------------------
LEMMA PhaseFacts ==
  /\ Accepted \cap Planning = {}
  /\ \A p \in Accepted : p \notin Unordered
  /\ PlanNext => phase \in Planning /\ phase' \in Phase
  BY DEF Accepted, RunEnd, Planning, Refusals, Phase, Unordered, Unclosed,
     Unchecked, PlanNext, CheckArguments, Validate, ClosePass, OrderNext,
     OrderCycle, OrderDone, CheckPlan

LEMMA IdleIsSound ==
  ASSUME Typed, Idle, phase \in Phase, Consented
  PROVE  RunInv
<1>1. Len(order) \in Nat /\ Considered = {}
  BY DEF Typed, Idle, Considered
<1>2. RunTyped /\ IdleBeforeRun
  BY DEF Idle, RunTyped, IdleBeforeRun, Outcome
<1>3. Position /\ Recorded
  BY <1>1 DEF Idle, Position, Recorded, Phase, Planning, Refusals
<1>4. FailuresByStage /\ Skips /\ Counted /\ InvokedGrounded
  BY DEF Idle, FailuresByStage, Skips, Counted, InvokedGrounded
<1> QED
  BY <1>2, <1>3, <1>4 DEF RunInv

\* While the modules run the plan is final, and the module at the cursor is
\* one nothing has been recorded of.
LEMMA AtCursor ==
  ASSUME Inv, phase \in Accepted, cursor <= Len(order)
  PROVE  /\ Current \in included /\ Current \in Name /\ Current \in catalog.modules
         /\ Current \in Completed
         /\ Current \notin Considered
         /\ status[Current] = "Pending"
         /\ catalog.deps[Current] \subseteq included
         /\ \A d \in catalog.deps[Current] :
              /\ d \in Considered
              /\ d \in Name
              /\ catalog.stage[d] <= catalog.stage[Current]
         /\ \A n \in included :
              catalog.stage[n] < catalog.stage[Current] => n \in Considered
         /\ Considered \cup {Current} = {order[i] : i \in 1..cursor}
<1>1. /\ Completed = included
      /\ Typed /\ DependenciesFirst /\ StagesAscend /\ Recorded
      /\ ValidCatalog(catalog) /\ included \subseteq catalog.modules
      /\ ClosedUnderNeeds(included)
      /\ cursor \in Nat \ {0} /\ Len(order) \in Nat
      /\ catalog.stage \in [Name -> Nat]
  BY PhaseFacts, CatalogFields
     DEF Inv, PlanInv, RunInv, RunTyped, Ordered, Checked, Closed, Unordered,
         Unclosed, Typed
<1>2. Current \in Completed /\ Current \in included /\ Current \in Name
      /\ Current \in catalog.modules
  BY <1>1 DEF Current, Completed, Typed
<1>3. Current \notin Considered
  BY <1>1 DEF Current, Considered, DependenciesFirst
<1>4. status[Current] = "Pending"
  BY <1>1, <1>2, <1>3 DEF Recorded
<1>5. catalog.deps[Current] \subseteq included
  BY <1>1, <1>2 DEF ClosedUnderNeeds, Needs
<1>6. ASSUME NEW d \in catalog.deps[Current]
      PROVE  d \in Considered /\ d \in Name
             /\ catalog.stage[d] <= catalog.stage[Current]
  <2>1. \E j \in 1..(cursor - 1) : order[j] = d
    BY <1>1 DEF Current, DependenciesFirst
  <2>2. catalog.stage[d] <= catalog.stage[Current]
    BY <1>1, <1>2 DEF ValidCatalog
  <2> QED
    BY <2>1, <2>2, <1>5, <1>1 DEF Considered, Typed
<1>7. ASSUME NEW n \in included,
             catalog.stage[n] < catalog.stage[Current]
      PROVE  n \in Considered
  <2>1. PICK j \in 1..Len(order) : order[j] = n
    BY <1>1 DEF Completed
  <2>2. n \in Name
    BY <1>1 DEF Typed
  <2>3. cursor < j => catalog.stage[order[cursor]] <= catalog.stage[order[j]]
    BY <1>1 DEF StagesAscend
  <2>4. ~(cursor <= j)
    BY <2>1, <2>2, <2>3, <1>1, <1>2, <1>7 DEF Current
  <2> QED
    BY <2>1, <2>4, <1>1 DEF Considered
<1>8. Considered \cup {Current} = {order[i] : i \in 1..cursor}
  BY <1>1 DEF Considered, Current
<1> QED
  BY <1>2, <1>3, <1>4, <1>5, <1>6, <1>7, <1>8

\* A module that is not blocked stands on successes only.
LEMMA NotBlockedIsGrounded ==
  ASSUME Inv, phase \in Accepted, cursor <= Len(order),
         ~BlockedByStage(Current), ~BlockedByDependency(Current)
  PROVE  Grounded(Current)
<1> USE AtCursor
<1>0. /\ status \in [Name -> Outcome] /\ Recorded /\ FailuresByStage /\ Skips
      /\ failedStages \in SUBSET Nat
      /\ catalog.stage \in [Name -> Nat] /\ included \in SUBSET Name
  BY CatalogFields, StageAssumption DEF Inv, PlanInv, RunInv, RunTyped, Typed
<1>1. \A d \in catalog.deps[Current] : status[d] = "Succeeded"
  BY <1>0 DEF BlockedByDependency, Recorded
<1>2. ASSUME NEW n \in included, catalog.stage[n] < catalog.stage[Current]
      PROVE  status[n] = "Succeeded"
  <2>1. status[n] # "Pending"
    BY <1>0, <1>2 DEF Recorded
  <2>2. status[n] # "Failed"
    BY <1>0, <1>2 DEF FailuresByStage, BlockedByStage
  <2>3. status[n] # "Skipped"
    <3> SUFFICES ASSUME status[n] = "Skipped" PROVE FALSE
      OBVIOUS
    <3>1. PICK s \in failedStages : s <= catalog.stage[n]
      BY <1>0 DEF Skips
    <3>2. s < catalog.stage[Current]
      BY <3>1, <1>0, <1>2
    <3> QED
      BY <3>1, <3>2 DEF BlockedByStage
  <2> QED
    BY <2>1, <2>2, <2>3, <1>0 DEF Outcome
<1> QED
  BY <1>1, <1>2 DEF Grounded

\* A module that is blocked has a failure at or below its stage.
LEMMA BlockedHasACause ==
  ASSUME Inv, phase \in Accepted, cursor <= Len(order),
         BlockedByStage(Current) \/ BlockedByDependency(Current)
  PROVE  /\ \E s \in failedStages : s <= catalog.stage[Current]
         /\ failures > 0
<1> USE AtCursor
<1>0. /\ status \in [Name -> Outcome] /\ FailuresByStage /\ Skips /\ Counted
      /\ failedStages \in SUBSET Nat
      /\ catalog.stage \in [Name -> Nat] /\ included \in SUBSET Name
  BY CatalogFields, StageAssumption DEF Inv, PlanInv, RunInv, RunTyped, Typed
<1>1. CASE BlockedByStage(Current)
  BY <1>1, <1>0 DEF BlockedByStage, FailuresByStage, Counted
<1>2. CASE BlockedByDependency(Current)
  <2>1. PICK d \in catalog.deps[Current] : status[d] \in {"Failed", "Skipped"}
    BY <1>2, <1>0 DEF BlockedByDependency, Outcome
  <2>2. PICK s \in failedStages : s <= catalog.stage[d]
    BY <2>1, <1>0 DEF FailuresByStage, Skips
  <2> QED
    BY <2>1, <2>2, <1>0 DEF Counted
<1> QED
  BY <1>1, <1>2

---------------------------------------------------------------------------
LEMMA InvInit == Init => Inv
<1> SUFFICES ASSUME Init PROVE Inv
  OBVIOUS
<1>1. PlanInv
  BY PlanInvInit DEF Init
<1>2. Idle /\ phase = "arguments"
  BY DEF Init, Idle, PlanInit
<1>3. phase \in Phase /\ Consented
  BY <1>2 DEF Consented, Accepted, RunEnd, Phase, Planning
<1> QED
  BY <1>1, <1>2, <1>3, IdleIsSound DEF PlanInv, Inv

LEMMA InvPlan == Inv /\ Plan => Inv'
<1> SUFFICES ASSUME Inv, Plan PROVE Inv'
  OBVIOUS
<1>1. PlanInv'
  BY PlanInvNext DEF Inv, Plan
<1>2. Idle'
  BY PhaseFacts DEF Inv, RunInv, IdleBeforeRun, Plan, runVars, Idle
<1>3. phase' \in Phase
  BY PhaseFacts DEF Plan
<1>4. Consented'
  <2> SUFFICES ASSUME phase' \in Accepted PROVE ~RejectedPlan' /\ ~request.plan'
    BY DEF Consented
  <2>1. CheckPlan
    BY DEF Plan, PlanNext, CheckArguments, Validate, ClosePass, OrderNext,
       OrderCycle, OrderDone, Accepted, RunEnd
  <2> QED
    BY <2>1 DEF CheckPlan, RejectedPlan, DestructiveSelected, Accepted, RunEnd
<1>5. (Typed /\ Idle /\ phase \in Phase /\ Consented => RunInv)'
  BY IdleIsSound, PTL
<1> QED
  BY <1>1, <1>2, <1>3, <1>4, <1>5 DEF PlanInv, Inv

\* Every step of the loop leaves the plan alone.
LEMMA PlanInvRun ==
  ASSUME Inv, UNCHANGED <<catalog, request, included, order>>,
         phase \in Accepted, phase' \in Accepted
  PROVE  PlanInv' /\ Consented'
<1>1. /\ phase \notin Unordered /\ phase' \notin Unordered
      /\ phase' # "cycle"
  BY PhaseFacts DEF Unordered
<1>2. PlanInv'
  BY <1>1, PlanInvKept DEF Inv, Unordered, Unclosed
<1>3. Consented'
  BY DEF Inv, RunInv, Consented, RejectedPlan, DestructiveSelected
<1> QED
  BY <1>2, <1>3

LEMMA InvSkip == Inv /\ Skip => Inv'
<1> SUFFICES ASSUME Inv, Skip PROVE Inv'
  OBVIOUS
<1>1. /\ phase = "run" /\ step = 0 /\ cursor <= Len(order)
      /\ BlockedByStage(Current) \/ BlockedByDependency(Current)
      /\ status' = [status EXCEPT ![Current] = "Skipped"]
      /\ failures' = failures + 1
      /\ cursor' = cursor + 1
      /\ UNCHANGED <<catalog, request, phase, included, order>>
      /\ UNCHANGED <<failedStages, before, step, invoked>>
      /\ phase \in Accepted
  BY DEF Skip, planVars, Accepted
<1>2. PlanInv' /\ Consented'
  BY <1>1, PlanInvRun
<1>3. /\ Current \in Name /\ Current \notin Considered
      /\ status[Current] = "Pending"
      /\ Considered' = Considered \cup {Current}
  BY <1>1, AtCursor DEF Considered, Inv, RunInv, RunTyped
<1>4. \E s \in failedStages : s <= catalog.stage[Current]
  BY <1>1, BlockedHasACause
<1>5. RunTyped' /\ IdleBeforeRun' /\ Position'
  BY <1>1, <1>3 DEF Inv, RunInv, RunTyped, IdleBeforeRun, Position, Outcome,
     PlanInv, Typed
<1>6. Recorded'
  BY <1>1, <1>3 DEF Inv, RunInv, RunTyped, Recorded
<1>7. FailuresByStage' /\ Skips'
  BY <1>1, <1>3, <1>4 DEF Inv, RunInv, RunTyped, FailuresByStage, Skips
<1>8. Counted'
  BY <1>1, <1>3, <1>4 DEF Inv, RunInv, RunTyped, Counted
<1>9. InvokedGrounded'
  BY <1>1, <1>3
     DEF Inv, RunInv, RunTyped, InvokedGrounded, Grounded, Completed
<1> QED
  BY <1>2, <1>5, <1>6, <1>7, <1>8, <1>9 DEF Inv, RunInv

LEMMA InvStart == Inv /\ Start => Inv'
<1> SUFFICES ASSUME Inv, Start PROVE Inv'
  OBVIOUS
<1>1. /\ phase = "run" /\ step = 0 /\ cursor <= Len(order)
      /\ ~BlockedByStage(Current) /\ ~BlockedByDependency(Current)
      /\ before' = failures /\ step' = 1
      /\ invoked' = invoked \cup {Current}
      /\ UNCHANGED <<catalog, request, phase, included, order>>
      /\ UNCHANGED <<status, failedStages, failures, cursor>>
      /\ phase \in Accepted
  BY DEF Start, planVars, Accepted
<1>2. PlanInv' /\ Consented'
  BY <1>1, PlanInvRun
<1>3. Current \in Name /\ Current \in Completed /\ Current' = Current
  BY <1>1, AtCursor DEF Current
<1>4. Grounded(Current)
  BY <1>1, NotBlockedIsGrounded
<1>5. RunTyped' /\ IdleBeforeRun' /\ Position'
  BY <1>1, <1>3 DEF Inv, RunInv, RunTyped, IdleBeforeRun, Position
<1>6. Recorded' /\ FailuresByStage' /\ Skips'
  BY <1>1 DEF Inv, RunInv, Recorded, Considered, FailuresByStage, Skips
<1>7. Counted'
  BY <1>1 DEF Inv, RunInv, RunTyped, Counted
<1>8. InvokedGrounded'
  BY <1>1, <1>3, <1>4 DEF Inv, RunInv, InvokedGrounded, Grounded, Completed
<1> QED
  BY <1>2, <1>5, <1>6, <1>7, <1>8 DEF Inv, RunInv

LEMMA InvCall ==
  ASSUME Inv, NEW failed \in BOOLEAN, CallReturns(failed)
  PROVE  Inv'
<1>1. /\ phase = "run" /\ step > 0 /\ phase \in Accepted
      /\ failures' = IF failed THEN failures + 1 ELSE failures
      /\ UNCHANGED <<catalog, request, phase, included, order>>
      /\ UNCHANGED <<before, invoked>>
      /\ cursor <= Len(order) /\ Current \in invoked
  BY DEF CallReturns, planVars, Accepted, Inv, RunInv, Position
<1>2. PlanInv' /\ Consented'
  BY <1>1, PlanInvRun
<1>3. /\ Current \in Name /\ Current \in included
      /\ Current \notin Considered
      /\ status[Current] = "Pending"
  BY <1>1, AtCursor
<1>4. /\ RunTyped /\ cursor \in Nat \ {0} /\ step \in Nat /\ failures \in Nat
      /\ before \in Nat /\ before <= failures /\ Len(order) \in Nat
      /\ catalog.stage \in [Name -> Stage] /\ included \in SUBSET Name
      /\ failedStages \in SUBSET Nat
      /\ catalog.stage \in [Name -> Nat]
  <2>1. Typed /\ RunTyped /\ Counted
    BY DEF Inv, RunInv, PlanInv
  <2>2. catalog.stage \in [Name -> Stage] /\ catalog.stage \in [Name -> Nat]
    BY <2>1, CatalogFields
  <2>3. Len(order) \in Nat /\ included \in SUBSET Name
    BY <2>1 DEF Typed
  <2>4. before <= failures /\ failedStages \in SUBSET Nat
    BY <2>1, <1>1, StageAssumption DEF Counted, RunTyped
  <2> QED
    BY <2>1, <2>2, <2>3, <2>4 DEF RunTyped
<1> DEFINE finished ==
      \/ step = Steps[Current]
      \/ failed /\ Current \in Chained /\ request.mode # "Test"
<1>5. CASE ~finished
  <2>1. step' = step + 1 /\ UNCHANGED <<cursor, status, failedStages>>
    BY <1>5 DEF CallReturns
  <2>2. Current' = Current /\ Considered' = Considered
    BY <1>1, <2>1 DEF Current, Considered
  <2>3. RunTyped' /\ IdleBeforeRun' /\ Position'
    BY <1>1, <1>4, <2>1, <2>2 DEF RunTyped, IdleBeforeRun, Position
  <2>4. Recorded' /\ FailuresByStage' /\ Skips'
    BY <1>1, <2>1, <2>2 DEF Inv, RunInv, Recorded, FailuresByStage, Skips
  <2>5. Counted'
    BY <1>1, <1>4, <1>5, <2>1, <2>2 DEF Inv, RunInv, Counted
  <2>6. InvokedGrounded'
    BY <1>1, <2>1 DEF Inv, RunInv, InvokedGrounded, Grounded, Completed
  <2> QED
    BY <1>2, <2>3, <2>4, <2>5, <2>6 DEF Inv, RunInv
<1>6. CASE finished
  <2> DEFINE r == IF failures' = before THEN "Succeeded" ELSE "Failed"
  <2>1. /\ step' = 0 /\ cursor' = cursor + 1
        /\ status' = [status EXCEPT ![Current] = r]
        /\ failedStages' = IF failures' = before THEN failedStages
                           ELSE failedStages \cup {catalog.stage[Current]}
    BY <1>6 DEF CallReturns
  <2>2. Considered' = Considered \cup {Current}
    BY <1>1, <1>4, <2>1 DEF Current, Considered
  <2>3. RunTyped' /\ IdleBeforeRun' /\ Position'
    <3>1. status' \in [Name -> Outcome]
      BY <1>3, <1>4, <2>1 DEF RunTyped, Outcome
    <3>2. failedStages' \in SUBSET Stage
      BY <1>3, <1>4, <2>1 DEF RunTyped
    <3>3. RunTyped'
      BY <1>1, <1>4, <2>1, <3>1, <3>2 DEF RunTyped
    <3> QED
      BY <1>1, <1>4, <2>1, <3>3 DEF IdleBeforeRun, Position
  <2>4. Recorded'
    BY <1>1, <1>3, <1>4, <2>1, <2>2 DEF Inv, RunInv, RunTyped, Recorded
  <2>5. FailuresByStage'
    BY <1>1, <1>3, <1>4, <2>1 DEF Inv, RunInv, RunTyped, FailuresByStage
  <2>6. Skips'
    BY <1>1, <1>3, <1>4, <2>1 DEF Inv, RunInv, RunTyped, Skips
  <2>7. Counted'
    <3>1. Counted
      BY DEF Inv, RunInv
    <3>2. CASE failures' = before
      <4>1. failures' = failures /\ r = "Succeeded"
        BY <3>2, <1>1, <1>4
      <4>2. failures > 0 => failedStages' # {}
        BY <3>1, <3>2, <4>1, <1>1, <1>4, <2>1 DEF Counted
      <4> QED
        BY <3>1, <3>2, <4>1, <4>2, <1>1, <1>3, <1>4, <2>1 DEF Counted, RunTyped
    <3>3. CASE failures' # before
      <4>1. failures' > 0 /\ failedStages' # {}
        BY <3>3, <1>1, <1>4, <2>1
      <4> QED
        BY <4>1, <1>4, <2>1 DEF Counted
    <3> QED
      BY <3>2, <3>3
  <2>8. InvokedGrounded'
    BY <1>1, <1>3, <1>4, <2>1
       DEF Inv, RunInv, RunTyped, InvokedGrounded, Grounded, Completed
  <2> QED
    BY <1>2, <2>3, <2>4, <2>5, <2>6, <2>7, <2>8 DEF Inv, RunInv
<1> QED
  BY <1>5, <1>6

\* Steps that only change the phase.
LEMMA InvEnd == Inv /\ (CallThrows \/ Finish) => Inv'
<1> SUFFICES ASSUME Inv, CallThrows \/ Finish PROVE Inv'
  OBVIOUS
<1>1. /\ phase = "run" /\ phase' \in RunEnd
      /\ UNCHANGED <<catalog, request, included, order>>
      /\ UNCHANGED <<status, failedStages, failures, before, cursor, step, invoked>>
      /\ phase \in Accepted /\ phase' \in Accepted
  BY DEF CallThrows, Finish, runVars, Accepted, RunEnd
<1>2. PlanInv' /\ Consented'
  BY <1>1, PlanInvRun
<1>3. RunTyped' /\ IdleBeforeRun'
  BY <1>1 DEF Inv, RunInv, RunTyped, IdleBeforeRun
<1>4. Position'
  BY <1>1 DEF Inv, RunInv, RunTyped, Position, Current, CallThrows, Finish
<1>5. Recorded' /\ FailuresByStage' /\ Skips' /\ Counted' /\ InvokedGrounded'
  BY <1>1 DEF Inv, RunInv, Recorded, Considered, FailuresByStage, Skips,
     Counted, InvokedGrounded, Grounded, Completed, Current
<1> QED
  BY <1>2, <1>3, <1>4, <1>5 DEF Inv, RunInv

LEMMA InvStutter == Inv /\ UNCHANGED vars => Inv'
<1> SUFFICES ASSUME Inv, UNCHANGED vars PROVE Inv'
  OBVIOUS
<1>1. UNCHANGED planVars /\ UNCHANGED runVars
  BY DEF vars
<1>2. PlanInv'
  BY <1>1, PlanInvNext DEF Inv
<1>3. RunInv'
  BY <1>1 DEF planVars, runVars, Inv, RunInv, RunTyped, IdleBeforeRun, Idle,
     Position, Current, Recorded, Considered, FailuresByStage, Skips, Counted,
     InvokedGrounded, Grounded, Completed, Consented, RejectedPlan,
     DestructiveSelected
<1> QED
  BY <1>2, <1>3 DEF Inv

THEOREM Invariance == Spec => []Inv
<1>1. Inv /\ [Next]_vars => Inv'
  BY InvPlan, InvSkip, InvStart, InvCall, InvEnd, InvStutter
     DEF Next, CallSucceeds, CallFails
<1> QED
  BY InvInit, <1>1, PTL DEF Spec

---------------------------------------------------------------------------
\* Type correctness of the whole script.
THEOREM TypeCorrect == Spec => []TypeOK
<1>1. Inv => TypeOK
  BY CatalogAssumption, RequestAssumption
     DEF Inv, PlanInv, Typed, RunInv, RunTyped, TypeOK
<1> QED
  BY Invariance, <1>1, PTL

\* The plan that is run is the least closed selection, dependencies first, stage
\* after stage.
THEOREM PlanIsSound == Spec => []SoundPlan
<1>1. Inv => SoundPlan
  BY PlanInvMeans DEF Inv, SoundPlan
<1> QED
  BY Invariance, <1>1, PTL

\* A module is invoked only after every one of its dependencies succeeded.
THEOREM DependenciesAppliedAlways == Spec => []DependenciesApplied
<1>1. Inv => DependenciesApplied
  BY DEF Inv, RunInv, InvokedGrounded, Grounded, DependenciesApplied
<1> QED
  BY Invariance, <1>1, PTL

\* A module is invoked only after every selected module of every earlier stage
\* succeeded: README.md:311, a failed stage blocks every later one.
THEOREM StageBarrierAlways == Spec => []StageBarrier
<1>1. Inv => StageBarrier
  BY DEF Inv, RunInv, InvokedGrounded, Grounded, StageBarrier
<1> QED
  BY Invariance, <1>1, PTL

\* The gate of a stage succeeded before any module of the stage is invoked,
\* provided the catalog puts the gate in an earlier stage; the planner does not
\* ask for that, the shipped catalog does it.
GateBarrier ==
  \A m \in invoked : \A g \in catalog.gate[catalog.stage[m]] :
    catalog.stage[g] < catalog.stage[m] => status[g] = "Succeeded"

THEOREM GateBarrierAlways == Spec => []GateBarrier
<1>1. ASSUME Inv PROVE GateBarrier
  <2> SUFFICES ASSUME NEW m \in invoked,
                      NEW g \in catalog.gate[catalog.stage[m]],
                      catalog.stage[g] < catalog.stage[m]
               PROVE  status[g] = "Succeeded"
    BY DEF GateBarrier
  <2>1. phase \in Accepted
    BY <1>1 DEF Inv, RunInv, IdleBeforeRun, Idle
  <2>2. m \in included
    BY <1>1 DEF Inv, RunInv, InvokedGrounded, PlanInv, Ordered
  <2>3. g \in included
    BY <1>1, <2>1, <2>2, PhaseFacts
       DEF Inv, PlanInv, Closed, ClosedUnderNeeds, Needs, Unordered
  <2> QED
    BY <1>1, <2>3 DEF Inv, RunInv, InvokedGrounded, Grounded
<1> QED
  BY Invariance, <1>1, PTL

\* A skip always goes back to a module that failed at or below its stage.
THEOREM SkipsHaveACauseAlways == Spec => []SkipsHaveACause
<1>1. Inv => SkipsHaveACause
  BY CatalogFields, StageAssumption
     DEF Inv, PlanInv, RunInv, Skips, FailuresByStage, SkipsHaveACause, Typed
<1> QED
  BY Invariance, <1>1, PTL

\* The script ends without an error only if every selected module succeeded,
\* and with the collected failures only if one failed.
THEOREM VerdictIsHonestAlways == Spec => []VerdictIsHonest
<1>1. ASSUME Inv PROVE VerdictIsHonest
  <2>0. /\ RunTyped /\ Position /\ Recorded /\ FailuresByStage /\ Counted
        /\ Typed
    BY <1>1 DEF Inv, RunInv, PlanInv
  <2>1. ASSUME phase \in {"succeeded", "failed"}
        PROVE  \A m \in included : status[m] # "Pending"
    <3>1. Completed = included
      BY <1>1, <2>1, PhaseFacts DEF Inv, PlanInv, Ordered, Accepted, RunEnd
    <3>2. Completed \subseteq Considered
      BY <2>0, <2>1 DEF Completed, Considered, Position, RunTyped, Typed
    <3> QED
      BY <3>1, <3>2, <2>0 DEF Recorded, Typed
  <2>2. ASSUME phase = "succeeded"
        PROVE  \A m \in included : status[m] = "Succeeded"
    <3>1. \A m \in included : status[m] \notin {"Failed", "Skipped"}
      BY <2>0, <2>2 DEF Position, Counted, Typed
    <3> QED
      BY <2>0, <2>1, <2>2, <3>1 DEF RunTyped, Outcome, Typed
  <2>3. ASSUME phase = "failed"
        PROVE  \E m \in included : status[m] = "Failed"
    BY <2>0, <2>3 DEF Position, Counted, FailuresByStage
  <2> QED
    BY <2>1, <2>2, <2>3 DEF VerdictIsHonest
<1> QED
  BY Invariance, <1>1, PTL

\* Removing modules run under Ensure with a consent switch, Debloat with its own.
THEOREM RemovalHasConsentAlways == Spec => []RemovalHasConsent
<1>1. ASSUME Inv PROVE RemovalHasConsent
  <2> SUFFICES ASSUME NEW m \in invoked \cap catalog.destructive,
                      request.mode = "Ensure"
               PROVE  /\ request.confirmRemoval \/ request.confirmDestructive
                      /\ m = Debloat => request.confirmRemoval
    BY DEF RemovalHasConsent
  <2>1. ~RejectedPlan /\ ~request.plan
    BY <1>1 DEF Inv, RunInv, IdleBeforeRun, Idle, Consented
  <2>2. m \in included
    BY <1>1 DEF Inv, RunInv, InvokedGrounded, PlanInv, Ordered
  <2> QED
    BY <2>1, <2>2 DEF RejectedPlan, DestructiveSelected
<1> QED
  BY Invariance, <1>1, PTL

\* Outside Test mode a chained module makes no call after a failed one.
THEOREM ChainStopsAlways == Spec => []ChainStopsAtFirstFailure
<1>1. Inv => ChainStopsAtFirstFailure
  BY DEF Inv, RunInv, RunTyped, Counted, ChainStopsAtFirstFailure
<1> QED
  BY Invariance, <1>1, PTL

(***************************************************************************)
(* Refusals, and the catalogs that give none.                              *)
(*                                                                         *)
(* A refusal remembers its cause, so that a catalog without causes meets   *)
(* no refusal.  That no module waits for itself is read off the passes     *)
(* over the catalog, which are there by induction over their number.       *)
(***************************************************************************)
Causes ==
  /\ phase = "ambiguous" => request.names # {} /\ request.skip # {}
  /\ phase = "invalid" => ~ValidCatalog(catalog)
  /\ phase = "excluded" => request.skip # {}
  /\ phase = "rejected" => RejectedPlan \/ ~request.plan

LEMMA CausesStep == Causes /\ [Next]_vars => Causes'
<1> SUFFICES ASSUME Causes, [Next]_vars PROVE Causes'
  OBVIOUS
<1>1. CASE CheckArguments
  BY <1>1 DEF CheckArguments, Causes
<1>2. CASE Validate
  BY <1>2 DEF Validate, Causes
<1>3. CASE ClosePass
  BY <1>3 DEF ClosePass, Causes
<1>4. CASE OrderNext \/ OrderCycle \/ OrderDone
  BY <1>4 DEF OrderNext, OrderCycle, OrderDone, Causes
<1>5. CASE CheckPlan
  <2>1. RejectedPlan' = RejectedPlan
    BY <1>5 DEF CheckPlan, RejectedPlan, DestructiveSelected
  <2> QED BY <1>5, <2>1 DEF CheckPlan, Causes
<1>6. CASE Skip \/ Start \/ CallSucceeds \/ CallFails \/ CallThrows \/ Finish
  BY <1>6 DEF Skip, Start, CallSucceeds, CallFails, CallReturns, CallThrows, Finish,
     planVars, Causes
<1>7. CASE UNCHANGED vars
  BY <1>7 DEF vars, planVars, Causes, RejectedPlan, DestructiveSelected
<1> QED
  BY <1>1, <1>2, <1>3, <1>4, <1>5, <1>6, <1>7 DEF Next, Plan, PlanNext

\* Every set of numbers has a least one: no chain of finite sets goes down for
\* ever, and the numbers up to one are a finite set.
LEMMA LeastNumber ==
  ASSUME NEW K \in SUBSET Nat, K # {}
  PROVE  \E m \in K : \A k \in K : m <= k
<1> DEFINE Upto(k) == 0..k
           T == {Upto(k) : k \in K}
<1>1. \A k \in Nat : Upto(k) \in FiniteSubsetsOf(Nat)
  BY FS_Interval DEF FiniteSubsetsOf
<1>2. T \subseteq FiniteSubsetsOf(Nat) /\ T # {}
  BY <1>1
<1> HIDE DEF T, Upto
<1>3. PICK x \in T : \A y \in T : ~(<<y, x>> \in StrictSubsetOrdering(Nat))
  BY <1>2, FS_StrictSubsetOrderingWellFounded, WFMin, Zenon
<1>4. PICK m \in K : x = Upto(m)
  BY DEF T
<1>5. ASSUME NEW k \in K, k < m PROVE FALSE
  <2>1. Upto(k) \subseteq Upto(m) /\ Upto(k) # Upto(m)
    BY <1>5 DEF Upto
  <2>2. Upto(k) \in T
    BY DEF T
  <2>3. <<Upto(k), Upto(m)>> \in StrictSubsetOrdering(Nat)
    BY <2>1, <1>1, K \subseteq Nat DEF StrictSubsetOrdering, FiniteSubsetsOf
  <2> QED BY <2>2, <2>3, <1>3, <1>4
<1> QED BY <1>5, K \subseteq Nat

LEMMA NumbersByInduction ==
  ASSUME NEW K \in SUBSET Nat, 0 \in K, \A n \in K : n + 1 \in K
  PROVE  Nat \subseteq K
<1> SUFFICES ASSUME Nat \ K # {} PROVE FALSE
  OBVIOUS
<1>1. PICK m \in Nat \ K : \A k \in Nat \ K : m <= k
  BY LeastNumber
<1>2. m - 1 \in Nat /\ m - 1 \in K
  BY <1>1
<1> QED BY <1>1, <1>2


\* What one more pass over the catalog takes.
Ripe(c, T) == {m \in c.modules : c.deps[m] \subseteq T}

\* No set of modules that each wait for another of the set is ever placed.
LEMMA PlacedIsWellFounded ==
  ASSUME NEW c, NEW n \in Nat, NEW S,
         \A m \in S : c.deps[m] \cap S # {}
  PROVE  S \cap Placed(c, n) = {}
<1> DEFINE Value(g, k) == IF k = 0 THEN {} ELSE Ripe(c, g[k - 1])
           Good(g, k) == g = [i \in 0..k |-> Value(g, i)]
           K == {k \in Nat : \E g : Good(g, k)}
<1>1. 0 \in K
  <2>1. 0..0 = {0}
    OBVIOUS
  <2> DEFINE g == [i \in {0} |-> {}]
  <2>2. g = [i \in {0} |-> Value(g, i)]
    OBVIOUS
  <2> HIDE DEF g, Value
  <2> QED BY <2>1, <2>2
<1>2. ASSUME NEW k \in K PROVE k + 1 \in K
  <2>1. PICK g : Good(g, k)
    OBVIOUS
  <2> DEFINE j == k + 1
             below == 0..k
             upto == 0..(k + 1)
             h == [i \in upto |-> IF i = j THEN Ripe(c, g[j - 1]) ELSE g[i]]
  <2>2. /\ k \in Nat /\ j # 0 /\ j - 1 \in below /\ j \notin below
        /\ upto = below \cup {j}
        /\ \A i \in below : i # 0 => i - 1 \in below
    OBVIOUS
  <2> HIDE DEF below, upto, j
  <2>3. \A i \in below : h[i] = g[i]
    BY <2>2
  <2>4. h[j] = Value(h, j)
    BY <2>2, <2>3
  <2>5. ASSUME NEW i \in below PROVE h[i] = Value(h, i)
    <3>1. g[i] = Value(g, i)
      BY <2>1 DEF below
    <3> QED BY <3>1, <2>2, <2>3
  <2> DEFINE h2 == [i \in upto |-> Value(h, i)]
  <2>6. h = h2
    <3>1. \A i \in upto : h[i] = h2[i]
      BY <2>2, <2>4, <2>5
    <3>2. h = [i \in upto |-> h[i]]
      OBVIOUS
    <3> HIDE DEF h, Value
    <3> QED BY <3>1, <3>2
  <2> HIDE DEF h, Value
  <2>7. \E f : f = [i \in 0..(k + 1) |-> Value(f, i)]
    BY <2>6 DEF upto
  <2> QED BY <2>2, <2>7
<1>3. n \in K
  <2>1. K \in SUBSET Nat
    OBVIOUS
  <2> HIDE DEF K
  <2> QED BY <1>1, <1>2, <2>1, NumbersByInduction
<1> DEFINE placed == CHOOSE g : Good(g, n)
<1>4. placed = [i \in 0..n |-> Value(placed, i)]
  <2> HIDE DEF Value
  <2> QED BY <1>3
<1>5. Placed(c, n) = placed[n]
  BY Zenon DEF Placed, Ripe
<1> HIDE DEF placed
<1> DEFINE U == {k \in Nat : k \in 0..n => S \cap placed[k] = {}}
<1>6. 0 \in U
  BY <1>4
<1>7. ASSUME NEW k \in U PROVE k + 1 \in U
  <2> SUFFICES ASSUME k + 1 \in 0..n PROVE S \cap placed[k + 1] = {}
    OBVIOUS
  <2>1. k \in 0..n /\ k + 1 # 0 /\ (k + 1) - 1 = k
    OBVIOUS
  <2>2. placed[k + 1] = Value(placed, k + 1)
    BY <1>4
  <2>3. placed[k + 1] = Ripe(c, placed[k])
    BY <2>1, <2>2
  <2>4. S \cap placed[k] = {}
    BY <2>1
  <2> QED BY <2>3, <2>4 DEF Ripe
<1>8. n \in U
  <2>1. U \in SUBSET Nat
    OBVIOUS
  <2> HIDE DEF U
  <2> QED BY <1>6, <1>7, <2>1, NumbersByInduction
<1> QED BY <1>5, <1>8

\* What comes in by name only cannot come in with All: the modules without it
\* are closed under what they need, and the selection is the least such set.
LEMMA OptInsStayOut ==
  ASSUME PlanInv, StaysOut(catalog)
  PROVE  AllLeavesOptInsOut
<1> SUFFICES ASSUME request.all, request.names = {}
             PROVE  included \cap ByNameOnly = {}
  BY DEF AllLeavesOptInsOut
<1>1. CASE phase \in Unchecked
  BY <1>1 DEF PlanInv, NothingYet
<1>2. CASE phase \notin Unchecked
  <2> DEFINE S == catalog.modules \ ByNameOnly
  <2>1. Wanted(catalog, request) \subseteq S
    BY DEF Wanted, StaysOut
  <2>2. ClosedUnderNeeds(S)
    <3> SUFFICES ASSUME NEW m \in S PROVE Needs(catalog, m) \subseteq S
      BY DEF ClosedUnderNeeds
    <3>1. Needs(catalog, m) \cap ByNameOnly = {}
      BY DEF StaysOut
    <3>2. Needs(catalog, m) \subseteq catalog.modules
      BY <1>2 DEF PlanInv, Checked, ValidCatalog, Needs
    <3> QED BY <3>1, <3>2
  <2>3. included \subseteq S
    BY <1>2, <2>1, <2>2 DEF PlanInv, Checked
  <2> QED BY <2>3
<1> QED BY <1>1, <1>2

\* Each refusal has a cause that a catalog in which every module is reachable
\* does not give, unless the request does.
LEMMA NothingIsRefused ==
  ASSUME PlanInv, Causes, Reachable(catalog)
  PROVE  EveryModuleCanBePlanned
<1> SUFFICES ASSUME request.plan, request.mode = "Ensure", request.skip = {},
                    ~request.confirmRemoval, ~request.confirmDestructive
             PROVE  phase \notin Refusals
  BY DEF EveryModuleCanBePlanned
<1>1. phase \notin {"ambiguous", "invalid", "excluded"}
  BY DEF Causes, Reachable
<1>2. phase # "cycle"
  <2> SUFFICES ASSUME phase = "cycle" PROVE FALSE
    OBVIOUS
  <2>1. PICK S \in (SUBSET included) \ {{}} :
          \A m \in S : catalog.deps[m] \cap S # {}
    BY PlanInvMeans DEF CycleMeansCycle
  <2>2. PICK n \in 0..Cardinality(catalog.modules) :
          Placed(catalog, n) = catalog.modules
    BY DEF Reachable
  <2>3. n \in Nat
    OBVIOUS
  <2>4. S \cap Placed(catalog, n) = {}
    BY <2>1, <2>3, PlacedIsWellFounded
  <2>5. S \subseteq catalog.modules
    BY <2>1 DEF PlanInv, Checked, Unchecked
  <2>6. S # {}
    BY <2>1
  <2>7. S \cap catalog.modules = {}
    BY <2>2, <2>4
  <2> QED BY <2>5, <2>6, <2>7
<1>3. phase # "rejected"
  <2> SUFFICES ASSUME phase = "rejected" PROVE FALSE
    OBVIOUS
  <2>1. included \subseteq catalog.modules
    BY DEF PlanInv, Checked, Unchecked
  <2>2. ~RejectedPlan
    BY <2>1 DEF RejectedPlan, Reachable
  <2> QED BY <2>2 DEF Causes
<1> QED BY <1>1, <1>2, <1>3 DEF Refusals

\* A catalog whose declarations obey the rules of CatalogRules is sound for
\* whatever command line: what comes in by name only never comes in with All,
\* and Get-SelectedModuleDefinitions and the checks after it refuse no module.
\* The proof has nothing of the shipped catalog but the rules, which TLC
\* evaluates for it.
THEOREM CatalogIsSoundAlways ==
  ASSUME CatalogsObeyTheRules
  PROVE  Spec => []CatalogIsSound
<1>1. Init => Causes
  BY DEF Init, PlanInit, Causes
<1>2. Inv /\ Causes => CatalogIsSound
  <2> SUFFICES ASSUME Inv, Causes PROVE CatalogIsSound
    OBVIOUS
  <2>1. PlanInv /\ catalog \in Catalogs
    BY DEF Inv, PlanInv, Typed
  <2>2. StaysOut(catalog) /\ Reachable(catalog)
    BY <2>1 DEF CatalogsObeyTheRules
  <2> QED
    BY <2>1, <2>2, OptInsStayOut, NothingIsRefused DEF CatalogIsSound
<1> QED
  BY <1>1, <1>2, CausesStep, Invariance, PTL DEF Spec

---------------------------------------------------------------------------
LEMMA StagedInit == Init => Staged!Init
  BY CatalogAssumption
     DEF Init, PlanInit, Staged!Init, Catalog, Accepted, RunEnd

LEMMA StagedStep == Inv /\ [Next]_vars => [Staged!Next]_Staged!vars
<1> SUFFICES ASSUME Inv, [Next]_vars PROVE [Staged!Next]_Staged!vars
  OBVIOUS
<1> USE DEF Staged!vars, Accepted, RunEnd
<1>1. CASE Plan
  <2>1. UNCHANGED <<catalog, status>> /\ phase \notin Accepted
    BY <1>1, PhaseFacts
       DEF Plan, runVars, PlanNext, CheckArguments, Validate, ClosePass,
           OrderNext, OrderCycle, OrderDone, CheckPlan
  <2>2. CASE phase' \notin Accepted
    BY <2>1, <2>2
  <2>3. CASE phase' \in Accepted
    <3>1. CheckPlan
      BY <1>1, <2>3 DEF Plan, PlanNext, CheckArguments, Validate, ClosePass,
         OrderNext, OrderCycle, OrderDone
    <3>2. included' = included /\ included \in SUBSET Name /\ phase = "check"
      BY <3>1 DEF CheckPlan, Inv, PlanInv, Typed
    <3>3. \A m \in included : catalog.deps[m] \subseteq included
      BY <3>2 DEF Inv, PlanInv, Closed, ClosedUnderNeeds, Needs, Unclosed,
         Unchecked
    <3>4. Staged!Accept
      BY <2>1, <2>3, <3>2, <3>3 DEF Staged!Accept
    <3> QED
      BY <3>4 DEF Staged!Next
  <2> QED
    BY <2>2, <2>3
<1>2. CASE Skip
  <2>1. /\ phase = "run" /\ cursor <= Len(order)
        /\ BlockedByStage(Current) \/ BlockedByDependency(Current)
        /\ status' = [status EXCEPT ![Current] = "Skipped"]
        /\ UNCHANGED <<catalog, request, phase, included, order>>
    BY <1>2 DEF Skip, planVars
  <2>2. /\ Current \in included /\ Current \in Name
        /\ status[Current] = "Pending"
    BY <2>1, AtCursor
  <2>3. \E s \in failedStages : s <= catalog.stage[Current]
    BY <2>1, BlockedHasACause
  <2>4. \E n \in included :
          status[n] = "Failed" /\ catalog.stage[n] <= catalog.stage[Current]
    BY <2>3 DEF Inv, RunInv, FailuresByStage
  <2>5. Staged!PassOver(Current)
    BY <2>1, <2>2, <2>4 DEF Staged!PassOver
  <2> QED
    BY <2>2, <2>5 DEF Staged!Next
<1>3. CASE Start
  BY <1>3 DEF Start, planVars
<1>4. ASSUME NEW failed \in BOOLEAN, CallReturns(failed)
      PROVE  [Staged!Next]_Staged!vars
  <2>1. /\ phase = "run" /\ step > 0 /\ cursor <= Len(order)
        /\ Current \in invoked
        /\ UNCHANGED <<catalog, request, phase, included, order>>
    BY <1>4 DEF CallReturns, planVars, Inv, RunInv, Position
  <2>2. CASE UNCHANGED status
    BY <2>1, <2>2
  <2>3. CASE status' # status
    <3>1. \E r \in {"Succeeded", "Failed"} :
            status' = [status EXCEPT ![Current] = r]
      BY <1>4, <2>3 DEF CallReturns
    <3>2. /\ Current \in included /\ Current \in Name
          /\ status[Current] = "Pending"
      BY <2>1, AtCursor
    <3>3. Grounded(Current)
      BY <2>1 DEF Inv, RunInv, InvokedGrounded
    <3>4. Staged!Founded(Current)
      BY <2>1, <3>3 DEF Staged!Founded, Grounded
    <3>5. Staged!Apply(Current)
      BY <2>1, <3>1, <3>2, <3>4 DEF Staged!Apply
    <3> QED
      BY <3>2, <3>5 DEF Staged!Next
  <2> QED
    BY <2>2, <2>3
<1>5. CASE CallThrows \/ Finish
  BY <1>5 DEF CallThrows, Finish, runVars
<1>6. CASE UNCHANGED vars
  BY <1>6 DEF vars, planVars, runVars
<1> QED
  BY <1>1, <1>2, <1>3, <1>4, <1>5, <1>6 DEF Next, CallSucceeds, CallFails

\* The orchestrator implements staged execution: what the loop decides from
\* $failedStages and $moduleStatus is what StagedExecution allows.
THEOREM ImplementsStagedExecution == Spec => StagedSpec
  BY StagedInit, StagedStep, Invariance, PTL
     DEF Spec, StagedSpec, Staged!Spec
=============================================================================
