--------------------------- MODULE ModulePlanner ---------------------------
(***************************************************************************)
(* The planning half of Apply-Workstation.ps1: from the command line and   *)
(* the declared catalog (config/workstation-modules.psd1) to an ordered    *)
(* list of modules, or to a refusal.                                       *)
(*                                                                         *)
(* Names are compared case-insensitively by the script; here they are      *)
(* members of Name.  The three numbers a module is sorted by (stage order, *)
(* Order, Name) are `stage` and `rank`, the rank standing for the pair     *)
(* (Order, Name), which no two modules share.                              *)
(***************************************************************************)
EXTENDS Integers, Sequences, FiniteSets

CONSTANTS
  Name,       \* module names the catalog or a dependency list may mention
  Stage,      \* the Order numbers a dependency stage may carry
  Debloat,    \* the module with a consent switch of its own, -ConfirmRemoval
  Catalogs,   \* the catalogs considered
  Requests    \* the command lines considered

Mode == {"Test", "Ensure", "Reinitialize"}

\* config/workstation-modules.psd1, one record: `gate` is the DependsOn of a
\* stage, `deps` the DependsOn of a module; `runnable` are the modules whose
\* Runtime is Inbox, PowerShell7 or Native.
Catalog ==
  [modules : SUBSET Name, runnable : SUBSET Name,
   stages : SUBSET Stage, stage : [Name -> Stage],
   rank : [Name -> Nat], default : SUBSET Name, deps : [Name -> SUBSET Name],
   gate : [Stage -> SUBSET Name], modes : [Name -> SUBSET Mode],
   destructive : SUBSET Name]

\* The parameters of the script: `all` when -Module holds 'All', `names` the
\* explicit names, `skip` the modules the -Skip... switches stand for.
Request ==
  [mode : Mode, all : BOOLEAN, names : SUBSET Name, skip : SUBSET Name,
   plan : BOOLEAN, json : BOOLEAN, confirmRemoval : BOOLEAN,
   confirmDestructive : BOOLEAN]

ASSUME StageAssumption == Stage \subseteq Nat
ASSUME CatalogAssumption ==
  /\ Catalogs \subseteq Catalog
  /\ \A c \in Catalogs : \A a, b \in Name : c.rank[a] = c.rank[b] => a = b
ASSUME RequestAssumption == Requests \subseteq Request

VARIABLES
  catalog,    \* $moduleCatalog
  request,    \* the bound parameters
  phase,      \* where the script is
  included,   \* the HashSet $included
  order       \* the List $ordered

planVars == <<catalog, request, phase, included, order>>

Planning == {"arguments", "validate", "close", "order", "check"}
Refusals == {"ambiguous", "invalid", "excluded", "cycle", "rejected"}
Phase == Planning \cup Refusals \cup {"planned", "run"}

Completed == {order[i] : i \in 1..Len(order)}

---------------------------------------------------------------------------
\* The checks on the catalog, first error wins; duplicates cannot be written
\* in a record indexed by name.  A dependency or a gate may sit in the same
\* stage as what depends on it.
ValidCatalog(c) ==
  /\ c.stages # {}
  /\ \A m \in c.modules :
       /\ c.stage[m] \in c.stages /\ m \in c.runnable
       /\ \A d \in c.deps[m] : d \in c.modules /\ c.stage[d] <= c.stage[m]
  /\ \A s \in c.stages : \A g \in c.gate[s] :
       g \in c.modules /\ c.stage[g] <= s

\* Mutant: All brings in what is not a default as well.
WantedEverything(c, r) ==
  ((IF r.all THEN c.modules ELSE {}) \cup r.names) \ r.skip

\* $requestedNames without the excluded ones.
Wanted(c, r) ==
  ((IF r.all THEN c.default \cap c.modules ELSE {}) \cup r.names) \ r.skip

\* What a module pulls in: its own dependencies and the gate of its stage.
Needs(c, m) == c.deps[m] \cup c.gate[c.stage[m]]

\* Mutant: the sort forgets the stage order.
PrecedesByRank(c, a, b) == c.rank[a] < c.rank[b]

\* Sort-Object by stage order, then Order, then Name.
Precedes(c, a, b) ==
  \/ c.stage[a] < c.stage[b]
  \/ c.stage[a] = c.stage[b] /\ c.rank[a] < c.rank[b]

\* Ready modules: the gate of the stage is not looked at here.
ReadyAfter(c, sel, done) ==
  {m \in (sel \cap c.modules) \ done :
     \A d \in c.deps[m] : d \in sel => d \in done}

Ready == ReadyAfter(catalog, included, Completed)

\* The selected modules that are marked Destructive.
DestructiveSelected == included \cap catalog.destructive

\* The refusals after planning, in the order of the script.
RejectedPlan ==
  \/ \E m \in included : request.mode \notin catalog.modes[m]
  \/ request.confirmRemoval /\ Debloat \notin included
  \/ request.confirmDestructive /\ DestructiveSelected = {}
  \/ /\ ~request.plan /\ request.mode = "Ensure"
     /\ \/ /\ DestructiveSelected # {}
           /\ ~request.confirmDestructive
           /\ Debloat \notin included
        \/ Debloat \in included /\ ~request.confirmRemoval

---------------------------------------------------------------------------
PlanInit ==
  /\ catalog \in Catalogs
  /\ request \in Requests
  /\ request.names \cup request.skip \subseteq catalog.modules
  /\ phase = "arguments"
  /\ included = {}
  /\ order = <<>>

\* Explicit names and -Skip... switches do not mix.
CheckArguments ==
  /\ phase = "arguments"
  /\ phase' = IF request.names # {} /\ request.skip # {}
                THEN "ambiguous" ELSE "validate"
  /\ UNCHANGED <<catalog, request, included, order>>

Validate ==
  /\ phase = "validate"
  /\ IF ValidCatalog(catalog)
       THEN phase' = "close" /\ included' = Wanted(catalog, request)
       ELSE phase' = "invalid" /\ UNCHANGED included
  /\ UNCHANGED <<catalog, request, order>>

\* One iteration of the do-while loop: the foreach runs over a copy of
\* $included, and an excluded dependency throws.
Pulled == UNION {Needs(catalog, m) : m \in included}

ClosePass ==
  /\ phase = "close"
  /\ IF Pulled \cap request.skip # {}
       THEN phase' = "excluded" /\ UNCHANGED included
       ELSE /\ included' = included \cup Pulled
            /\ phase' = IF Pulled \subseteq included THEN "order" ELSE "close"
  /\ UNCHANGED <<catalog, request, order>>

\* One iteration of the while loop: the first ready module of the sort.
OrderNext ==
  /\ phase = "order"
  /\ Completed # included
  /\ \E m \in Ready :
       /\ \A n \in Ready : n = m \/ Precedes(catalog, m, n)
       /\ order' = Append(order, m)
  /\ UNCHANGED <<catalog, request, phase, included>>

\* Mutant: the loop spins when nothing is ready.
OrderCycleSpins ==
  /\ phase = "order" /\ Completed # included /\ Ready = {}
  /\ UNCHANGED planVars

OrderCycle ==
  /\ phase = "order"
  /\ Completed # included
  /\ Ready = {}
  /\ phase' = "cycle"
  /\ UNCHANGED <<catalog, request, included, order>>

OrderDone ==
  /\ phase = "order"
  /\ Completed = included
  /\ phase' = "check"
  /\ UNCHANGED <<catalog, request, included, order>>

\* -Plan prints the plan and exits; -Json without -Plan is refused.
CheckPlan ==
  /\ phase = "check"
  /\ phase' = IF RejectedPlan THEN "rejected"
              ELSE IF request.plan THEN "planned"
              ELSE IF request.json THEN "rejected"
              ELSE "run"
  /\ UNCHANGED <<catalog, request, included, order>>

PlanNext ==
  CheckArguments \/ Validate \/ ClosePass \/ OrderNext \/ OrderCycle
    \/ OrderDone \/ CheckPlan

\* The script is sequential and none of these steps waits for anything.
PlanSpec == PlanInit /\ [][PlanNext]_planVars /\ WF_planVars(PlanNext)

---------------------------------------------------------------------------
PlanTypeOK ==
  /\ catalog \in Catalog
  /\ request \in Request
  /\ phase \in Phase
  /\ included \in SUBSET Name
  /\ order \in Seq(Name)

\* A set of modules that lacks nothing its members need.
ClosedUnderNeeds(S) == \A m \in S : Needs(catalog, m) \subseteq S

\* The closure loop computes the least set that holds what was asked for and
\* is closed under module dependencies and stage gates: nothing needed is
\* missing, nothing unneeded is applied, nothing skipped comes back.
ClosureIsLeast ==
  phase \in {"order", "check", "planned", "run", "cycle"} =>
    /\ Wanted(catalog, request) \subseteq included
    /\ ClosedUnderNeeds(included)
    /\ included \cap request.skip = {}
    /\ \A S \in SUBSET catalog.modules :
         Wanted(catalog, request) \subseteq S /\ ClosedUnderNeeds(S)
           => included \subseteq S

\* Whatever order is being built, it names each module once, each after all
\* its dependencies.
DependenciesFirst ==
  \A i \in 1..Len(order) :
    /\ \A j \in 1..Len(order) : order[i] = order[j] => i = j
    /\ \A d \in catalog.deps[order[i]] :
         \E j \in 1..(i - 1) : order[j] = d

\* The greedy choice never returns to an earlier stage: although stage gates
\* play no part in it, no module of a stage precedes one of an earlier stage.
StagesAscend ==
  \A i, j \in 1..Len(order) :
    i < j => catalog.stage[order[i]] <= catalog.stage[order[j]]

\* A plan that is accepted orders everything that was selected.
PlanIsComplete == phase \in {"check", "planned", "run"} => Completed = included

\* Planning always ends, in a plan or in a refusal: the closure and the
\* ordering loop both terminate, whatever the catalog declares.
PlanningEnds == <>(phase \notin Planning)

\* A catalog is refused as cyclic exactly when the selected modules have no
\* order in which dependencies come first: some set of them each waits for
\* another of the set.
CycleMeansCycle ==
  phase = "cycle" =>
    \E S \in (SUBSET included) \ {{}} :
      \A m \in S : catalog.deps[m] \cap S # {}

\* A request is refused for a skipped module exactly when what remains of it
\* cannot be had without one, through whatever chain of dependencies and gates.
ExclusionMeansNeed ==
  phase = "excluded" =>
    \A S \in SUBSET catalog.modules :
      Wanted(catalog, request) \subseteq S /\ ClosedUnderNeeds(S)
        => S \cap request.skip # {}

\* What the five say together: the plan that is run, or the refusal to make one,
\* is right whatever the catalog declares.
SoundPlan ==
  /\ ClosureIsLeast /\ DependenciesFirst /\ StagesAscend
  /\ CycleMeansCycle /\ ExclusionMeansNeed
=============================================================================
