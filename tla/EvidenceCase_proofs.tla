------------------------ MODULE EvidenceCase_proofs -------------------------
(* The runner writes its files one after another, so what a reader may rely *)
(* on depends on how far it has come: the invariant says which files are    *)
(* whole, what every record stands for, and that all a summary speaks of is *)
(* settled before the first file is opened.                                 *)
EXTENDS EvidenceCase, TLAPS, SequenceTheorems, FiniteSetTheorems

(***************************************************************************)
(* Working through a sequence from its front.                              *)
(***************************************************************************)

\* q is what is left of s.
RestOf(q, s) ==
  /\ Len(q) <= Len(s)
  /\ \A i \in 1..Len(q) : q[i] = s[Len(s) - Len(q) + i]

\* What has been taken off s when q is left.
Taken(q, s) == {s[i] : i \in 1..(Len(s) - Len(q))}

Elements(s) == {s[i] : i \in 1..Len(s)}

(***************************************************************************)
(* The invariant.                                                          *)
(***************************************************************************)

DiffPlaces ==
  {"start", "analyze", "analyzed", "export", "match", "matching", "index", "writing"}

\* The tool of a static run that is being run or has been run in part.
Started ==
  /\ pc = "tools" /\ tools # <<>> /\ Applies
  /\ Tool \in printed /\ Tool # "ooxml-inventory"
  /\ Tool = "sqlite" => "rizin" \in printed

RunInv ==
  /\ pc \in IF kind = "static" THEN {"start", "tools", "writing"} ELSE DiffPlaces
  /\ child = "running" =>
       /\ exit = "none"
       /\ IF kind = "static" THEN Started ELSE pc \in Stages
  /\ exit = "zero" => pc = "writing" /\ queue = <<>>
  /\ queue \in Seq(Named) /\ RestOf(queue, Outputs(kind))
  /\ pc # "writing" => queue = Outputs(kind)
  /\ \A f \in Named : disk[f] = "whole" <=> f \in Taken(queue, Outputs(kind))

Observed == Taken(tools, Inventory)

\* What an observation of an applicable tool stands for.
Recorded(t) ==
  role = "Target" /\ t \in Applicable =>
    \/ log[t] # <<>> /\ obs[t] = Merged(log[t])
    \/ log[t] = <<>> /\ obs[t] = "missing"
    \/ /\ log[t] = <<>> /\ t = "sqlite"
       /\ "rizin" \in ToolsOf => "rizin" \in Observed /\ obs["rizin"] = "missing"

Sizes == [files : Nat, bytes : Nat, text : Nat, rows : Nat]

StaticInv ==
  /\ role \in {"Control", "Target"} /\ family \in DOMAIN FamilyTools
  /\ extracted \in Sizes /\ printed \subseteq ToolsOf
  /\ tools \in Seq(ToolsOf) /\ RestOf(tools, Inventory)
  /\ states \in Seq(CommandStates) /\ Len(states) <= 2
  /\ DOMAIN obs = Observed /\ DOMAIN log = Observed
  /\ \A t \in Observed :
       /\ obs[t] \in CommandStates \cup {"inapplicable", "missing"}
       /\ log[t] # <<>> => t \in printed
       /\ Recorded(t)
  /\ kind # "static" \/ pc = "start" => tools = Inventory /\ states = <<>>
  /\ kind = "static" /\ pc = "writing" => tools = <<>>
  /\ states # <<>> => Started
  /\ child = "running" /\ kind = "static" => Len(states) < 2

Keys ==
  {<<"ghidra", "Baseline">>, <<"binexport", "Baseline">>,
   <<"ghidra", "Candidate">>, <<"binexport", "Candidate">>,
   <<"bindiff", "Comparison">>, <<"sqlite-sidecar", "Comparison">>}

\* The stages that have been reported.
Reported(k) ==
  \/ k[2] = "Baseline" /\ (at = "Candidate" \/ pc \in {"match", "matching", "index", "writing"})
  \/ k[1] = "ghidra" /\ k[2] = at /\ pc \in {"analyzed", "export"}
  \/ k[2] = "Candidate" /\ pc \in {"match", "matching", "index", "writing"}
  \/ k[1] = "bindiff" /\ pc \in {"index", "writing"}
  \/ k[1] = "sqlite-sidecar" /\ pc = "writing"

DiffInv ==
  /\ installed \subseteq GraphTools /\ at \in Roles
  /\ jsonl \in [Roles -> {"absent", "cut", "there"}]
  /\ graph \in [Roles -> BOOLEAN]
  /\ db \in {"absent", "invalid", "whole"} /\ tooMany \in BOOLEAN
  /\ sidecar \in {"absent", "partial", "truncated", "complete"}
  /\ kind = "binary-diff" =>
       /\ DOMAIN steps = {k \in Keys : Reported(k)}
       /\ \A k \in DOMAIN steps :
            /\ steps[k] \in GraphStates
            /\ steps[k] = "complete" =>
                 /\ k[1] = "ghidra" => jsonl[k[2]] # "absent"
                 /\ k[1] = "binexport" => graph[k[2]]
                 /\ k[1] = "bindiff" => db = "whole"
                 /\ k[1] = "sqlite-sidecar" => sidecar = "complete"
       /\ sidecar = "complete" => ~tooMany /\ pc = "writing"

ReaderInv ==
  /\ manifest \in {"running", "complete", "failed", "untrusted-output-rejected"}
  /\ validated \in BOOLEAN
  /\ manifest \in {"complete", "untrusted-output-rejected"} => exit = "zero"
  /\ reader = [pc |-> reader.pc, file |-> reader.file, after |-> reader.after,
               display |-> reader.display, files |-> reader.files]
  /\ reader.pc \in {"idle", "loaded", "accepted", "rejected"}
  /\ reader.after => exit = "zero"
  /\ reader.pc \in {"loaded", "accepted"} =>
       /\ reader.file \in SummaryFiles /\ disk[reader.file] = "whole"
       /\ reader.display = Summary
  /\ AcceptedIsFinished /\ FinishedIsAccepted

IInv ==
  /\ kind \in Kinds /\ child \in {"none", "running"}
  /\ disk \in [Named -> {"absent", "torn", "whole"}]
  /\ exit \in {"none", "zero", "nonzero"}
  /\ RunInv /\ StaticInv /\ DiffInv /\ ReaderInv

---------------------------------------------------------------------------
(***************************************************************************)
(* Sequences.                                                              *)
(***************************************************************************)

LEMMA RestOfAll ==
  ASSUME NEW S, NEW s \in Seq(S)
  PROVE  RestOf(s, s) /\ Taken(s, s) = {} /\ Taken(<<>>, s) = Elements(s)
<1>1. Len(s) \in Nat /\ Len(<<>>) = 0
  BY LenProperties
<1> QED
  BY <1>1 DEF RestOf, Taken, Elements

LEMMA RestOfTail ==
  ASSUME NEW S, NEW s \in Seq(S), NEW q \in Seq(S), q # <<>>, RestOf(q, s)
  PROVE  /\ Tail(q) \in Seq(S) /\ RestOf(Tail(q), s)
         /\ Head(q) \in Elements(s)
         /\ Taken(Tail(q), s) = Taken(q, s) \cup {Head(q)}
<1>1. /\ Tail(q) \in Seq(S) /\ Len(Tail(q)) = Len(q) - 1
      /\ \A i \in 1..Len(Tail(q)) : Tail(q)[i] = q[i + 1]
  BY HeadTailProperties
<1>2. Len(s) \in Nat /\ Len(q) \in Nat \ {0} /\ Head(q) = q[1]
  BY EmptySeq, LenProperties
<1>3. Head(q) = s[Len(s) - Len(q) + 1] /\ Len(q) <= Len(s)
  BY <1>2 DEF RestOf
<1>4. RestOf(Tail(q), s)
  <2>1. ASSUME NEW i \in 1..(Len(q) - 1)
        PROVE  Tail(q)[i] = s[Len(s) - (Len(q) - 1) + i]
    <3>1. i + 1 \in 1..Len(q) /\ Len(s) - Len(q) + (i + 1) = Len(s) - (Len(q) - 1) + i
      BY <1>2, <2>1
    <3>2. q[i + 1] = s[Len(s) - Len(q) + (i + 1)]
      BY <3>1 DEF RestOf
    <3> QED BY <1>1, <2>1, <3>1, <3>2
  <2> QED BY <1>1, <1>2, <1>3, <2>1 DEF RestOf
<1>5. Taken(Tail(q), s) = Taken(q, s) \cup {Head(q)}
  <2>1. 1..(Len(s) - Len(Tail(q)))
          = 1..(Len(s) - Len(q)) \cup {Len(s) - Len(q) + 1}
    BY <1>1, <1>2, <1>3
  <2> QED BY <1>3, <2>1 DEF Taken
<1> QED
  BY <1>1, <1>2, <1>3, <1>4, <1>5 DEF Elements

\* Without repetitions nothing is both taken and left.
LEMMA RestIsNotTaken ==
  ASSUME NEW S, NEW s \in Seq(S), NEW q \in Seq(S), RestOf(q, s),
         \A i, j \in 1..Len(s) : s[i] = s[j] => i = j
  PROVE  Taken(q, s) = Elements(s) \ Elements(q)
<1>1. Len(s) \in Nat /\ Len(q) \in Nat /\ Len(q) <= Len(s)
  BY LenProperties DEF RestOf
<1>2. ASSUME NEW i \in 1..(Len(s) - Len(q)), NEW j \in 1..Len(q)
      PROVE  s[i] # q[j]
  <2>1. q[j] = s[Len(s) - Len(q) + j] /\ i # Len(s) - Len(q) + j
    BY <1>1 DEF RestOf
  <2> QED BY <1>1, <2>1
<1>3. ASSUME NEW i \in 1..Len(s), i > Len(s) - Len(q)
      PROVE  s[i] \in Elements(q)
  <2>1. i - (Len(s) - Len(q)) \in 1..Len(q)
    BY <1>1, <1>3
  <2>2. q[i - (Len(s) - Len(q))] = s[i]
    BY <1>1, <2>1 DEF RestOf
  <2> QED BY <2>1, <2>2 DEF Elements
<1> QED
  BY <1>1, <1>2, <1>3 DEF Taken, Elements

LEMMA OutputsOf ==
  ASSUME NEW k \in Kinds
  PROVE  /\ Outputs(k) \in Seq(Named) /\ Len(Outputs(k)) <= 4 /\ Outputs(k) # <<>>
         /\ k = "static" =>
              /\ Len(Outputs(k)) = 4
              /\ Outputs(k)[1] = "tool-status.jsonl"
              /\ Outputs(k)[2] = "extracted-artifacts.json"
              /\ Outputs(k)[3] = "result.json" /\ Outputs(k)[4] = "report.txt"
         /\ k = "binary-diff" =>
              /\ Len(Outputs(k)) = 3
              /\ Outputs(k)[1] = "binary-diff-summary.json"
              /\ Outputs(k)[2] = "result.json" /\ Outputs(k)[3] = "binary-diff-report.txt"
<1>1. CASE k = "static"
  <2>1. \A i \in 1..4 : StaticOutputs[i] \in Named
    BY DEF Named, StaticOutputs
  <2> QED BY <1>1, <2>1 DEF Outputs, StaticOutputs
<1>2. CASE k = "binary-diff"
  <2>1. \A i \in 1..3 : DiffOutputs[i] \in Named
    BY DEF Named, DiffOutputs
  <2> QED BY <1>2, <2>1 DEF Outputs, DiffOutputs
<1> QED
  BY <1>1, <1>2 DEF Kinds

LEMMA InventoryOfTools ==
  /\ Inventory \in Seq(ToolsOf) /\ Elements(Inventory) = ToolsOf
  /\ \A i, j \in 1..Len(Inventory) :
       /\ Inventory[i] = Inventory[j] => i = j
       /\ Inventory[i] = "rizin" /\ Inventory[j] = "sqlite" => i < j
  /\ IsFiniteSet(ToolsOf)
<1>1. Len(Inventory) \in Nat /\ DOMAIN Inventory = 1..Len(Inventory)
  BY InventoryIsSorted, LenProperties
<1>2. Inventory \in [1..Len(Inventory) -> ToolsOf]
  BY <1>1, InventoryIsSorted, LenProperties DEF ToolsOf
<1>3. Inventory \in Seq(ToolsOf)
  BY <1>1, <1>2, SeqDef
<1>4. Inventory \in Surjection(1..Len(Inventory), ToolsOf)
  BY <1>1, <1>2 DEF Surjection, ToolsOf
<1>5. IsFiniteSet(ToolsOf)
  BY <1>1, <1>4, FS_Interval, FS_Surjection
<1> QED
  BY <1>1, <1>3, <1>5, InventoryIsSorted DEF Elements, ToolsOf

\* Rizin has been observed when the index comes.
LEMMA RizinComesFirst ==
  ASSUME StaticInv, tools # <<>>, Tool = "sqlite", "rizin" \in ToolsOf
  PROVE  "rizin" \in Observed
<1>1. PICK i \in 1..Len(Inventory) : Inventory[i] = "rizin"
  BY InventoryOfTools DEF Elements
<1>2. /\ Len(tools) \in Nat \ {0} /\ Len(Inventory) \in Nat /\ Len(tools) <= Len(Inventory)
      /\ Tool = tools[1]
  BY EmptySeq, LenProperties, InventoryOfTools DEF StaticInv, RestOf, Tool
<1>3. Inventory[Len(Inventory) - Len(tools) + 1] = "sqlite"
  BY <1>2 DEF StaticInv, RestOf
<1>4. i < Len(Inventory) - Len(tools) + 1
  BY <1>1, <1>2, <1>3, InventoryOfTools
<1> QED
  BY <1>1, <1>2, <1>4 DEF Observed, Taken

---------------------------------------------------------------------------
(***************************************************************************)
(* The steps of a static run.                                              *)
(***************************************************************************)

LEMMA ToolAtHand ==
  ASSUME StaticInv, tools # <<>>
  PROVE  /\ Tool \in ToolsOf /\ Tool \notin Observed
         /\ Tail(tools) \in Seq(ToolsOf) /\ RestOf(Tail(tools), Inventory)
         /\ Taken(Tail(tools), Inventory) = Observed \cup {Tool}
<1>1. tools \in Seq(ToolsOf) /\ RestOf(tools, Inventory) /\ Inventory \in Seq(ToolsOf)
  BY InventoryOfTools DEF StaticInv
<1>2. Observed = Elements(Inventory) \ Elements(tools)
  BY <1>1, InventoryOfTools, RestIsNotTaken DEF Observed
<1>3. Tool \in Elements(tools)
  BY <1>1, EmptySeq, LenProperties DEF Tool, Elements
<1> QED
  BY <1>1, <1>2, <1>3, RestOfTail, InventoryOfTools DEF Tool, Observed

\* A tool that has been dealt with is observed; what was observed before stays.
LEMMA ObserveKeepsInv ==
  ASSUME StaticInv, Ready, child = "none", NEW state, NEW commandStates,
         Observe(state, commandStates),
         UNCHANGED <<runVars, role, family, extracted>>,
         printed \subseteq printed', printed' \subseteq ToolsOf,
         state \in CommandStates \cup {"inapplicable", "missing"},
         commandStates # <<>> => Tool \in printed',
         Applies =>
           \/ commandStates # <<>> /\ state = Merged(commandStates)
           \/ commandStates = <<>> /\ state = "missing"
           \/ /\ commandStates = <<>> /\ Tool = "sqlite"
              /\ "rizin" \in ToolsOf => obs["rizin"] = "missing"
  PROVE  StaticInv'
<1>1. /\ Tool \in ToolsOf /\ Tool \notin Observed
      /\ tools' = Tail(tools) /\ tools' \in Seq(ToolsOf) /\ RestOf(tools', Inventory)
      /\ Observed' = Observed \cup {Tool}
  BY ToolAtHand DEF Ready, Observe, Observed
<1>2. /\ DOMAIN obs' = Observed' /\ DOMAIN log' = Observed'
      /\ obs'[Tool] = state /\ log'[Tool] = commandStates
      /\ \A t \in Observed : obs'[t] = obs[t] /\ log'[t] = log[t]
  BY <1>1 DEF StaticInv, Observe, FunctionOn
<1>3. \A t \in Observed : Recorded(t)'
  BY <1>1, <1>2 DEF StaticInv, Recorded, Applicable
<1>4. ASSUME NEW t, t = Tool PROVE Recorded(t)'
  <2>1. CASE ~Applies
    BY <1>4, <2>1 DEF Recorded, Applies, Applicable
  <2>2. CASE Applies /\ commandStates = <<>> /\ Tool = "sqlite" /\ state # "missing"
    <3>1. "rizin" \in ToolsOf => "rizin" \in Observed /\ obs["rizin"] = "missing"
      BY <2>2, RizinComesFirst DEF Ready, Merged
    <3> QED BY <1>1, <1>2, <1>4, <2>2, <3>1 DEF Recorded
  <2>3. CASE Applies /\ ~(commandStates = <<>> /\ Tool = "sqlite" /\ state # "missing")
    BY <1>2, <1>4, <2>3 DEF Recorded, Applies, Applicable
  <2> QED BY <2>1, <2>2, <2>3
<1>5. states' = <<>> /\ states' \in Seq(CommandStates) /\ Len(states') = 0
  BY EmptySeq DEF Observe
<1>6. \A t \in Observed' :
        /\ obs'[t] \in CommandStates \cup {"inapplicable", "missing"}
        /\ log'[t] # <<>> => t \in printed'
        /\ Recorded(t)'
  <2>1. \A t \in Observed' : Recorded(t)'
    BY <1>1, <1>3, <1>4
  <2> QED BY <1>1, <1>2, <2>1 DEF StaticInv
<1> QED
  BY <1>1, <1>2, <1>5, <1>6 DEF StaticInv, Ready, runVars

\* The tool at hand has not been started.
LEMMA NotYetStarted ==
  ASSUME RunInv, StaticInv, Ready, ~Applies \/ Tool = "ooxml-inventory"
                                     \/ (Tool = "sqlite" /\ "rizin" \notin printed)
  PROVE  child # "running" /\ states = <<>>
BY DEF RunInv, StaticInv, Ready, Started

LEMMA MergedIsAState ==
  ASSUME NEW s PROVE Merged(s) \in CommandStates
BY DEF Merged, CommandStates

LEMMA ObservationsKeepInv ==
  ASSUME IInv, SkipTool \/ ListContainer \/ NoLogToIndex \/ Missing \/ Record
  PROVE  StaticInv'
<1>0. /\ StaticInv /\ RunInv /\ child \in {"none", "running"} /\ printed \subseteq ToolsOf
      /\ Ready /\ Tool \in ToolsOf
  BY ToolAtHand DEF IInv, StaticInv, SkipTool, ListContainer, NoLogToIndex, Missing,
     Record, Ready
<1>1. CASE SkipTool
  <2>1. child = "none"
    BY <1>0, <1>1, NotYetStarted DEF SkipTool
  <2> QED
    BY <1>0, <1>1, <2>1, ObserveKeepsInv DEF SkipTool
<1>2. CASE ListContainer
  <2>1. child = "none"
    BY <1>0, <1>2, NotYetStarted DEF ListContainer
  <2>2. PICK state \in {"complete", "failed"} : Observe(state, <<state>>)
    BY <1>2 DEF ListContainer
  <2>3. state = Merged(<<state>>) /\ <<state>> # <<>> /\ state \in CommandStates
    BY DEF Merged, CommandStates
  <2> QED
    BY <1>0, <1>2, <2>1, <2>2, <2>3, ObserveKeepsInv DEF ListContainer
<1>3. CASE NoLogToIndex
  <2>1. child = "none"
    BY <1>0, <1>3, NotYetStarted DEF NoLogToIndex
  <2>2. ASSUME "rizin" \in ToolsOf PROVE obs["rizin"] = "missing"
    <3>1. "rizin" \in Observed
      BY <1>0, <1>3, <2>2, RizinComesFirst DEF NoLogToIndex, Ready
    <3>2. "rizin" \in Applicable /\ role = "Target"
      BY <1>0, <1>3 DEF NoLogToIndex, Applies, Applicable, FamilyTools, StaticInv
    <3>3. Recorded("rizin") /\ log["rizin"] = <<>>
      BY <1>0, <1>3, <3>1 DEF StaticInv, NoLogToIndex
    <3> QED BY <3>2, <3>3 DEF Recorded
  <2>3. "partial" \in CommandStates
    BY DEF CommandStates
  <2> QED
    BY <1>0, <1>3, <2>1, <2>2, <2>3, ObserveKeepsInv DEF NoLogToIndex
<1>4. CASE Missing
  BY <1>0, <1>4, ObserveKeepsInv DEF Missing
<1>5. CASE Record
  BY <1>0, <1>5, ObserveKeepsInv, MergedIsAState DEF Record, StaticInv, Started
<1> QED
  BY <1>1, <1>2, <1>3, <1>4, <1>5

LEMMA CommandsOfTools ==
  ASSUME NEW t
  PROVE  Commands(t) \in 0..2 /\ (Commands(t) > 0 => t # "ooxml-inventory")
BY DEF Commands

LEMMA OneMoreState ==
  ASSUME states \in Seq(CommandStates), Len(states) < 2, NEW state \in CommandStates
  PROVE  /\ Append(states, state) \in Seq(CommandStates)
         /\ Len(Append(states, state)) <= 2
BY LenProperties, AppendProperties

\* A command that is started, ends or cannot be started.
LEMMA CommandsKeepInv ==
  ASSUME IInv, StartTool \/ CannotStart \/ ToolReturns \/ ToolIsKilled
  PROVE  StaticInv' /\ Started'
<1>0. /\ StaticInv /\ RunInv /\ printed \subseteq ToolsOf
      /\ Ready /\ Tool \in ToolsOf /\ Tool \notin Observed
      /\ states \in Seq(CommandStates) /\ Len(states) \in Nat
  BY ToolAtHand, LenProperties DEF IInv, StaticInv, StartTool, CannotStart, ToolReturns,
     ToolIsKilled, EndTool, CanStart, Ready
<1>1. CASE StartTool
  <2>1. Len(states) < Commands(Tool) /\ Commands(Tool) \in 0..2 /\ Tool # "ooxml-inventory"
    BY <1>0, <1>1, CommandsOfTools DEF StartTool, CanStart
  <2>2. Started'
    BY <1>0, <1>1, <2>1 DEF StartTool, CanStart, Started, Ready, Applies, Applicable, Tool
  <2> QED
    BY <1>0, <1>1, <2>1, <2>2 DEF StartTool, StaticInv, Recorded, Observed, Applicable, Ready
<1>2. CASE CannotStart
  <2>1. Len(states) < Commands(Tool) /\ Commands(Tool) \in 0..2 /\ Tool # "ooxml-inventory"
    BY <1>0, <1>2, CommandsOfTools DEF CannotStart, CanStart
  <2>2. Started' /\ child' = "none"
    BY <1>0, <1>2, <2>1 DEF CannotStart, CanStart, Started, Ready, Applies, Applicable, Tool,
       runVars
  <2>3. states' \in Seq(CommandStates) /\ Len(states') <= 2
    BY <1>0, <1>2, <2>1, OneMoreState DEF CannotStart, CommandStates
  <2> QED
    BY <1>0, <1>2, <2>2, <2>3
       DEF CannotStart, StaticInv, Recorded, Observed, Applicable, Ready, runVars
<1>3. CASE ToolReturns \/ ToolIsKilled
  <2>1. PICK state \in CommandStates : EndTool(state) /\ child = "running" /\ child' = "none"
    BY <1>3 DEF ToolReturns, ToolIsKilled, ToolEnds, ToolTimesOut, CommandStates
  <2>2. Started /\ Len(states) < 2
    BY <1>0, <2>1 DEF RunInv, StaticInv, Ready
  <2>3. Started'
    BY <2>1, <2>2 DEF EndTool, Started, Applies, Applicable, Tool
  <2>4. states' \in Seq(CommandStates) /\ Len(states') <= 2
    BY <1>0, <2>1, <2>2, OneMoreState DEF EndTool
  <2> QED
    BY <1>0, <2>1, <2>3, <2>4 DEF EndTool, StaticInv, Recorded, Observed, Applicable, Ready
<1> QED
  BY <1>1, <1>2, <1>3

LEMMA BeginKeepsInv ==
  ASSUME IInv, Begin
  PROVE  StaticInv' /\ child' = "none"
<1>1. child = "none" /\ tools = Inventory /\ states = <<>> /\ Observed = {}
  BY RestOfAll, InventoryOfTools DEF IInv, RunInv, StaticInv, Begin, Started, Observed
<1>2. family' \in DOMAIN FamilyTools
  BY DEF Begin, FamilyTools
<1> QED
  BY <1>1, <1>2 DEF IInv, StaticInv, Begin, Observed

LEMMA SummariseKeepsInv ==
  ASSUME IInv, Summarise
  PROVE  StaticInv' /\ child' = "none"
<1>1. child = "none" /\ states = <<>>
  BY DEF IInv, RunInv, StaticInv, Summarise, Started
<1>2. extracted' \in Sizes
  BY ExtractionsAreSizes DEF Summarise, NoExtraction, Sizes
<1> QED
  BY <1>1, <1>2 DEF IInv, StaticInv, Summarise, Recorded, Observed, Applicable

---------------------------------------------------------------------------
(***************************************************************************)
(* While the runner works nothing is written, so no report was accepted.   *)
(***************************************************************************)

Working ==
  /\ exit = "none" /\ pc # "writing"
  /\ UNCHANGED <<kind, disk, queue, exit, manifest, validated, reader>>

LEMMA NothingIsWhole ==
  ASSUME IInv, pc # "writing"
  PROVE  \A f \in Named : disk[f] # "whole"
BY RestOfAll, OutputsOf DEF IInv, RunInv

LEMMA SummaryFilesAreNamed ==
  /\ SummaryFiles \subseteq Named
  /\ SummaryFiles \subseteq {"result.json", "binary-diff-summary.json"}
  /\ kind = "static" => SummaryFiles = {"result.json"}
<1>1. StaticOutputs[3] = "result.json" /\ 3 \in DOMAIN StaticOutputs
  BY DEF StaticOutputs
<1>2. DiffOutputs[1] = "binary-diff-summary.json" /\ 1 \in DOMAIN DiffOutputs
  BY DEF DiffOutputs
<1> QED
  BY <1>1, <1>2 DEF SummaryFiles, Named

LEMMA WorkKeepsReader ==
  ASSUME IInv, Working
  PROVE  ReaderInv'
<1>1. reader.pc \notin {"loaded", "accepted"}
  BY NothingIsWhole, SummaryFilesAreNamed DEF IInv, ReaderInv, Working
<1>2. ~reader.after /\ manifest \notin {"complete", "untrusted-output-rejected"}
  BY DEF IInv, ReaderInv, Working
<1> QED
  BY <1>1, <1>2 DEF IInv, ReaderInv, Working, AcceptedIsFinished, FinishedIsAccepted

LEMMA WorkKeepsRun ==
  ASSUME IInv, Working,
         pc' \in IF kind = "static" THEN {"start", "tools", "writing"} ELSE DiffPlaces,
         child' = "running" => IF kind = "static" THEN Started' ELSE pc' \in Stages
  PROVE  RunInv'
BY DEF IInv, RunInv, Working

LEMMA StaticKeepsInv ==
  ASSUME IInv, RunStatic \/ (ToolReturns /\ UNCHANGED <<diffVars, Host>>)
                 \/ (ToolIsKilled /\ UNCHANGED <<diffVars, Host>>)
  PROVE  IInv'
<1>0. /\ Working /\ kind = "static" /\ pc' \in {"tools", "writing"}
      /\ UNCHANGED diffVars /\ (UNCHANGED pc \/ child' = "none")
      /\ (Begin \/ Summarise \/ StartTool \/ CannotStart \/ ToolReturns \/ ToolIsKilled
            \/ SkipTool \/ ListContainer \/ NoLogToIndex \/ Missing \/ Record)
  <2>1. CASE RunStatic
    <3>1. child = "none" \/ ~(Begin \/ Summarise)
      BY DEF IInv, RunInv, Begin, Summarise, Started
    <3> QED
      BY <2>1, <3>1 DEF RunStatic, StaticStep, Begin, SkipTool, ListContainer, NoLogToIndex, Missing,
         StartTool, CannotStart, Record, Summarise, CanStart, Ready, Working, runVars, Host
  <2>2. CASE ToolReturns /\ UNCHANGED <<diffVars, Host>>
    BY <2>2 DEF ToolReturns, EndTool, Ready, Working, Host
  <2>3. CASE ToolIsKilled /\ UNCHANGED <<diffVars, Host>>
    BY <2>3 DEF ToolIsKilled, EndTool, Ready, Working, Host
  <2> QED BY <2>1, <2>2, <2>3
<1>1. CASE Begin \/ Summarise
  <2>1. StaticInv' /\ child' = "none"
    BY <1>1, BeginKeepsInv, SummariseKeepsInv
  <2>2. RunInv'
    BY <1>0, <2>1, WorkKeepsRun
  <2> QED
    BY <1>0, <2>1, <2>2, WorkKeepsReader DEF IInv, DiffInv, Working, diffVars
<1>2. CASE StartTool \/ CannotStart \/ ToolReturns \/ ToolIsKilled
  <2>1. StaticInv' /\ Started'
    BY <1>2, CommandsKeepInv
  <2>2. RunInv' /\ child' \in {"none", "running"}
    BY <1>0, <1>2, <2>1, WorkKeepsRun DEF StartTool, CannotStart, ToolReturns, ToolIsKilled,
       ToolEnds, ToolTimesOut, Spawn, runVars, IInv
  <2> QED
    BY <1>0, <2>1, <2>2, WorkKeepsReader DEF IInv, DiffInv, Working, diffVars
<1>3. CASE SkipTool \/ ListContainer \/ NoLogToIndex \/ Missing \/ Record
  <2>1. StaticInv'
    BY <1>3, ObservationsKeepInv
  <2>2. child' = "none" /\ UNCHANGED runVars
    <3>1. UNCHANGED runVars
      BY <1>3 DEF SkipTool, ListContainer, NoLogToIndex, Missing, Record
    <3>2. child = "none"
      <4>1. CASE SkipTool \/ ListContainer \/ NoLogToIndex
        BY <4>1, NotYetStarted DEF IInv, SkipTool, ListContainer, NoLogToIndex
      <4>2. CASE Missing \/ Record
        BY <4>2 DEF Missing, Record
      <4> QED BY <1>3, <4>1, <4>2
    <3> QED BY <3>1, <3>2 DEF runVars
  <2>3. RunInv'
    BY <1>0, <2>2, WorkKeepsRun
  <2> QED
    BY <1>0, <2>1, <2>2, <2>3, WorkKeepsReader DEF IInv, DiffInv, Working, diffVars
<1> QED
  BY <1>0, <1>1, <1>2, <1>3

---------------------------------------------------------------------------
(***************************************************************************)
(* The stages of a comparison.                                             *)
(***************************************************************************)

\* What a step says of the stages that have been reported.
Tells(s) ==
  /\ DOMAIN s = {k \in Keys : Reported(k)'}
  /\ \A k \in DOMAIN s :
       /\ s[k] \in GraphStates
       /\ s[k] = "complete" =>
            /\ k[1] = "ghidra" => jsonl'[k[2]] # "absent"
            /\ k[1] = "binexport" => graph'[k[2]]
            /\ k[1] = "bindiff" => db' = "whole"
            /\ k[1] = "sqlite-sidecar" => sidecar' = "complete"

LEMMA WithOf ==
  ASSUME NEW s, NEW tool, NEW r, NEW state
  PROVE  /\ DOMAIN With(s, tool, r, state) = DOMAIN s \cup {<<tool, r>>}
         /\ With(s, tool, r, state)[<<tool, r>>] = state
         /\ \A k \in DOMAIN s : k # <<tool, r>> => With(s, tool, r, state)[k] = s[k]
BY DEF With

LEMMA NextBinaryGoesOn ==
  ASSUME at \in Roles, NextBinary
  PROVE  /\ at' \in Roles
         /\ at = "Baseline" => pc' = "start" /\ at' = "Candidate"
         /\ at = "Candidate" => pc' = "match" /\ at' = "Candidate"
BY DEF NextBinary, Roles

LEMMA StatesAreKnown ==
  /\ CommandStates \subseteq GraphStates /\ MissingTool \in GraphStates
  /\ MissingTool # "complete"
  /\ \A there \in BOOLEAN, state \in CommandStates :
       /\ Unless(there, state) \in CommandStates
       /\ Unless(there, state) = "complete" => there
BY DEF CommandStates, GraphStates, MissingTool, Unless

\* A stage that ends is reported in one step with what it left.
LEMMA StageIsTold ==
  ASSUME IInv, kind = "binary-diff", NEW tool, NEW r, NEW state \in GraphStates,
         <<tool, r>> \in Keys, steps' = With(steps, tool, r, state),
         \A k \in Keys : Reported(k)' <=> Reported(k) \/ k = <<tool, r>>,
         \A k \in Keys : k # <<tool, r>> =>
           /\ k[1] = "ghidra" => jsonl'[k[2]] = jsonl[k[2]]
           /\ k[1] = "binexport" => graph'[k[2]] = graph[k[2]]
           /\ k[1] = "bindiff" => db' = db
           /\ k[1] = "sqlite-sidecar" => sidecar' = sidecar,
         state = "complete" =>
           /\ tool = "ghidra" => jsonl'[r] # "absent"
           /\ tool = "binexport" => graph'[r]
           /\ tool = "bindiff" => db' = "whole"
           /\ tool = "sqlite-sidecar" => sidecar' = "complete"
  PROVE  Tells(steps')
<1>1. /\ DOMAIN steps' = DOMAIN steps \cup {<<tool, r>>}
      /\ steps'[<<tool, r>>] = state
      /\ \A k \in DOMAIN steps : k # <<tool, r>> => steps'[k] = steps[k]
  BY WithOf
<1>2. DOMAIN steps' = {k \in Keys : Reported(k)'}
  BY <1>1 DEF IInv, DiffInv
<1>3. ASSUME NEW k \in DOMAIN steps'
      PROVE  /\ steps'[k] \in GraphStates
             /\ steps'[k] = "complete" =>
                  /\ k[1] = "ghidra" => jsonl'[k[2]] # "absent"
                  /\ k[1] = "binexport" => graph'[k[2]]
                  /\ k[1] = "bindiff" => db' = "whole"
                  /\ k[1] = "sqlite-sidecar" => sidecar' = "complete"
  <2>1. CASE k = <<tool, r>>
    BY <1>1, <2>1
  <2>2. CASE k # <<tool, r>>
    <3>1. k \in DOMAIN steps /\ k \in Keys /\ steps'[k] = steps[k]
      BY <1>1, <1>2, <1>3, <2>2
    <3> QED BY <2>2, <3>1 DEF IInv, DiffInv
  <2> QED BY <2>1, <2>2
<1> QED
  BY <1>2, <1>3 DEF Tells

\* Two stages reported at once.
LEMMA TwoStagesAreTold ==
  ASSUME IInv, kind = "binary-diff", at \in Roles, NEW analysis \in GraphStates,
         NEW export \in GraphStates,
         steps' = With(With(steps, "ghidra", at, analysis), "binexport", at, export),
         pc \in {"start", "analyze"}, NextBinary,
         \A r \in Roles : r # at => jsonl'[r] = jsonl[r],
         UNCHANGED <<graph, db, sidecar>>,
         export # "complete", analysis = "complete" => jsonl'[at] # "absent"
  PROVE  Tells(steps')
<1> DEFINE first == With(steps, "ghidra", at, analysis)
           g == <<"ghidra", at>>
           b == <<"binexport", at>>
<1>1. /\ DOMAIN first = DOMAIN steps \cup {g} /\ first[g] = analysis
      /\ \A k \in DOMAIN steps : k # g => first[k] = steps[k]
  BY DEF With
<1>2. /\ DOMAIN steps' = DOMAIN first \cup {b} /\ steps'[b] = export
      /\ \A k \in DOMAIN first : k # b => steps'[k] = first[k]
  BY DEF With
<1>3. DOMAIN steps' = {k \in Keys : Reported(k)'}
  <2>1. DOMAIN steps = {k \in Keys : Reported(k)}
    BY DEF IInv, DiffInv
  <2>2. CASE at = "Baseline"
    <3>1. pc' = "start" /\ at' = "Candidate"
      BY <2>2, NextBinaryGoesOn
    <3> QED
      BY <1>1, <1>2, <2>1, <2>2, <3>1 DEF Keys, Reported
  <2>3. CASE at = "Candidate"
    <3>1. pc' = "match" /\ at' = "Candidate"
      BY <2>3, NextBinaryGoesOn
    <3> QED
      BY <1>1, <1>2, <2>1, <2>3, <3>1 DEF Keys, Reported
  <2> QED BY <2>2, <2>3 DEF Roles
<1>4. ASSUME NEW k \in DOMAIN steps'
      PROVE  /\ steps'[k] \in GraphStates
             /\ steps'[k] = "complete" =>
                  /\ k[1] = "ghidra" => jsonl'[k[2]] # "absent"
                  /\ k[1] = "binexport" => graph'[k[2]]
                  /\ k[1] = "bindiff" => db' = "whole"
                  /\ k[1] = "sqlite-sidecar" => sidecar' = "complete"
  <2>1. CASE k = b
    BY <1>2, <2>1
  <2>2. CASE k = g
    BY <1>1, <1>2, <2>2
  <2>3. CASE k # b /\ k # g
    <3>1. k \in DOMAIN steps /\ steps'[k] = steps[k] /\ k \in Keys
      BY <1>1, <1>2, <1>3, <1>4, <2>3
    <3>2. k[1] = "ghidra" => k[2] \in Roles /\ k[2] # at
      BY <2>3, <3>1 DEF Keys, Roles
    <3> QED BY <3>1, <3>2 DEF IInv, DiffInv
  <2> QED BY <2>1, <2>2, <2>3
<1> QED
  BY <1>3, <1>4 DEF Tells

DiffTypes ==
  /\ installed \subseteq GraphTools /\ at \in Roles
  /\ jsonl \in [Roles -> {"absent", "cut", "there"}]
  /\ graph \in [Roles -> BOOLEAN]
  /\ db \in {"absent", "invalid", "whole"} /\ tooMany \in BOOLEAN
  /\ sidecar \in {"absent", "partial", "truncated", "complete"}

LEMMA ToldKeepsInv ==
  ASSUME IInv, kind = "binary-diff", kind' = kind, DiffTypes', Tells(steps'),
         (sidecar' = "complete" => ~tooMany' /\ pc' = "writing")
  PROVE  DiffInv'
BY DEF Tells, DiffInv, DiffTypes

\* A tool is started: nothing is reported.
LEMMA StartsTellNothing ==
  ASSUME IInv, Analyze \/ Export \/ Match
  PROVE  DiffInv' /\ pc' \in Stages
<1>1. /\ kind = "binary-diff" /\ kind' = kind /\ UNCHANGED diffVars
      /\ pc \in {"start", "analyzed", "match"}
      /\ pc = "start" => pc' = "analyze"
      /\ pc = "analyzed" => pc' = "export"
      /\ pc = "match" => pc' = "matching"
  BY DEF Analyze, Export, Match, Running
<1>2. \A k \in Keys : Reported(k)' <=> Reported(k)
  BY <1>1 DEF Reported, diffVars
<1> QED
  BY <1>1, <1>2 DEF IInv, DiffInv, diffVars, Stages

\* The analysis of a binary ends, by itself or killed, and is exported next or
\* not at all.
LEMMA AnalysisIsTold ==
  ASSUME IInv, kind = "binary-diff", pc = "analyze", NEW state \in CommandStates,
         AnalyzeEnds(state)
  PROVE  DiffInv' /\ pc' \in {"analyzed", "start", "match"}
<1>0. /\ at \in Roles /\ jsonl \in [Roles -> {"absent", "cut", "there"}]
      /\ UNCHANGED <<kind, installed, graph, db, tooMany, sidecar>>
      /\ sidecar # "complete"
  BY DEF IInv, DiffInv, AnalyzeEnds
<1>1. PICK left \in {"absent", "cut", "there"} :
        /\ jsonl' = [jsonl EXCEPT ![at] = left]
        /\ LET s == With(steps, "ghidra", at, Unless(left # "absent", state))
           IN IF state = "complete" /\ "binexport" \in installed
              THEN steps' = s /\ pc' = "analyzed" /\ at' = at
              ELSE /\ steps' = With(s, "binexport", at,
                         IF "binexport" \in installed THEN "partial"
                         ELSE MissingTool)
                   /\ NextBinary
  BY DEF AnalyzeEnds
<1>2. /\ jsonl' \in [Roles -> {"absent", "cut", "there"}] /\ jsonl'[at] = left
      /\ \A r \in Roles : r # at => jsonl'[r] = jsonl[r]
  BY <1>0, <1>1
<1> DEFINE analysis == Unless(left # "absent", state)
<1>3. analysis \in GraphStates /\ (analysis = "complete" => left # "absent")
  BY StatesAreKnown
<1>4. CASE state = "complete" /\ "binexport" \in installed
  <2>1. steps' = With(steps, "ghidra", at, analysis) /\ pc' = "analyzed" /\ at' = at
    BY <1>1, <1>4
  <2> HIDE DEF analysis
  <2>2. <<"ghidra", at>> \in Keys
    BY <1>0 DEF Keys, Roles
  <2>3. \A k \in Keys : Reported(k)' <=> Reported(k) \/ k = <<"ghidra", at>>
    BY <1>0, <2>1 DEF Keys, Reported, Roles
  <2>4. \A k \in Keys : k # <<"ghidra", at>> => (k[1] = "ghidra" => jsonl'[k[2]] = jsonl[k[2]])
    BY <1>0, <1>2 DEF Keys, Roles
  <2>5. Tells(steps')
    BY <1>0, <1>2, <1>3, <2>1, <2>2, <2>3, <2>4, StageIsTold
  <2> QED
    BY <1>0, <1>2, <2>1, <2>5, ToldKeepsInv DEF IInv, DiffInv, DiffTypes
<1>5. CASE ~(state = "complete" /\ "binexport" \in installed)
  <2> DEFINE export == IF "binexport" \in installed THEN "partial" ELSE MissingTool
  <2>1. /\ steps' = With(With(steps, "ghidra", at, analysis), "binexport", at, export)
        /\ NextBinary
    BY <1>1, <1>5
  <2>2. export \in GraphStates /\ export # "complete"
    BY StatesAreKnown DEF GraphStates
  <2> HIDE DEF analysis, export
  <2>3. Tells(steps')
    BY <1>0, <1>2, <1>3, <2>1, <2>2, TwoStagesAreTold
  <2>4. at' \in Roles /\ pc' \in {"start", "match"}
    BY <1>0, <2>1, NextBinaryGoesOn DEF Roles
  <2> QED
    BY <1>0, <1>2, <2>3, <2>4, ToldKeepsInv DEF IInv, DiffInv, DiffTypes
<1> QED
  BY <1>4, <1>5

\* The export of a graph is reported with what it left.
LEMMA ExportIsTold ==
  ASSUME IInv, kind = "binary-diff", pc \in {"analyzed", "export"},
         NEW there \in BOOLEAN, NEW state \in GraphStates, state = "complete" => there,
         graph' = [graph EXCEPT ![at] = there] \/ (state # "complete" /\ graph' = graph),
         steps' = With(steps, "binexport", at, state), NextBinary,
         UNCHANGED <<kind, installed, jsonl, db, tooMany, sidecar>>
  PROVE  DiffInv' /\ pc' \in {"start", "match"}
<1>0. at \in Roles /\ graph \in [Roles -> BOOLEAN] /\ sidecar # "complete"
  BY DEF IInv, DiffInv
<1>1. /\ graph' \in [Roles -> BOOLEAN]
      /\ state = "complete" => graph'[at]
      /\ \A r \in Roles : r # at => graph'[r] = graph[r]
  BY <1>0
<1>2. at' \in Roles /\ pc' \in {"start", "match"}
  BY <1>0, NextBinaryGoesOn DEF Roles
<1>3. <<"binexport", at>> \in Keys
  BY <1>0 DEF Keys, Roles
<1>4. \A k \in Keys : Reported(k)' <=> Reported(k) \/ k = <<"binexport", at>>
  BY <1>0, NextBinaryGoesOn DEF Keys, Reported, Roles
<1>5. \A k \in Keys : k # <<"binexport", at>> => (k[1] = "binexport" => graph'[k[2]] = graph[k[2]])
  BY <1>0, <1>1 DEF Keys, Roles
<1>6. Tells(steps')
  BY <1>0, <1>1, <1>3, <1>4, <1>5, StageIsTold
<1> QED
  BY <1>0, <1>1, <1>2, <1>6, ToldKeepsInv DEF IInv, DiffInv, DiffTypes

\* The match of the graphs is reported with the database it left.
LEMMA MatchIsTold ==
  ASSUME IInv, kind = "binary-diff", pc \in {"match", "matching"},
         NEW state \in GraphStates, state = "complete" => db' = "whole",
         db' \in {"absent", "invalid", "whole"}, tooMany' \in BOOLEAN,
         steps' = With(steps, "bindiff", "Comparison", state), pc' = "index",
         UNCHANGED <<kind, installed, at, jsonl, graph, sidecar>>
  PROVE  DiffInv'
<1>0. at \in Roles /\ sidecar # "complete"
  BY DEF IInv, DiffInv
<1>1. <<"bindiff", "Comparison">> \in Keys
  BY DEF Keys
<1>2. \A k \in Keys : Reported(k)' <=> Reported(k) \/ k = <<"bindiff", "Comparison">>
  BY <1>0 DEF Keys, Reported, Roles
<1>3. \A k \in Keys : k # <<"bindiff", "Comparison">> => k[1] # "bindiff"
  BY DEF Keys
<1>4. Tells(steps')
  BY <1>1, <1>2, <1>3, StageIsTold
<1> QED
  BY <1>0, <1>4, ToldKeepsInv DEF IInv, DiffInv, DiffTypes

LEMMA IndexIsTold ==
  ASSUME IInv, Index
  PROVE  DiffInv' /\ pc' = "writing"
<1>0. /\ kind = "binary-diff" /\ pc = "index" /\ pc' = "writing"
      /\ UNCHANGED <<kind, installed, at, jsonl, graph, db, tooMany>>
  BY DEF Index, Running
<1>1. PICK roleTruncated \in BOOLEAN, raises \in BOOLEAN :
        /\ sidecar' = IF raises THEN "absent" ELSE SidecarState(roleTruncated)
        /\ steps' = With(steps, "sqlite-sidecar", "Comparison",
                         IF raises THEN "partial" ELSE sidecar')
  BY DEF Index
<1> DEFINE state == IF raises THEN "partial" ELSE sidecar'
<1>2. /\ sidecar' \in {"absent", "partial", "truncated", "complete"}
      /\ sidecar' = "complete" => ~tooMany
      /\ state \in GraphStates /\ (state = "complete" => sidecar' = "complete")
  BY <1>1 DEF SidecarState, GraphStates
<1>3. steps' = With(steps, "sqlite-sidecar", "Comparison", state)
  BY <1>1
<1> HIDE DEF state
<1>4. <<"sqlite-sidecar", "Comparison">> \in Keys
  BY DEF Keys
<1>5. \A k \in Keys : Reported(k)' <=> Reported(k) \/ k = <<"sqlite-sidecar", "Comparison">>
  BY <1>0 DEF IInv, DiffInv, Keys, Reported, Roles
<1>6. \A k \in Keys : k # <<"sqlite-sidecar", "Comparison">> => k[1] # "sqlite-sidecar"
  BY DEF Keys
<1>7. Tells(steps')
  BY <1>0, <1>2, <1>3, <1>4, <1>5, <1>6, StageIsTold
<1> QED
  BY <1>0, <1>2, <1>7, ToldKeepsInv DEF IInv, DiffInv, DiffTypes

\* The steps that report a stage.
LEMMA StagesAreTold ==
  ASSUME IInv, NoGhidra \/ NoMatch \/ StageCannotStart \/ StageReturns \/ StageIsKilled
  PROVE  DiffInv' /\ pc' \in {"start", "analyzed", "match", "index"}
<1>0. /\ at \in Roles /\ db \in {"absent", "invalid", "whole"} /\ tooMany \in BOOLEAN
      /\ db = "whole" \/ db # "whole"
      /\ graph \in [Roles -> BOOLEAN] /\ jsonl \in [Roles -> {"absent", "cut", "there"}]
      /\ installed \subseteq GraphTools
      /\ sidecar \in {"absent", "partial", "truncated", "complete"}
      /\ kind = "binary-diff" /\ pc # "writing" => sidecar # "complete"
      /\ CommandStates \subseteq GraphStates /\ MissingTool \in GraphStates
      /\ MissingTool # "complete" /\ "partial" \in GraphStates
  BY StatesAreKnown DEF IInv, DiffInv, GraphStates
<1>1. CASE NoGhidra
  <2>1. /\ steps' = With(With(steps, "ghidra", at, MissingTool), "binexport", at, MissingTool)
        /\ kind = "binary-diff" /\ pc = "start" /\ NextBinary
        /\ UNCHANGED <<kind, installed, jsonl, graph, db, tooMany, sidecar>>
    BY <1>1 DEF NoGhidra, Running
  <2>2. Tells(steps')
    BY <1>0, <2>1, TwoStagesAreTold
  <2>3. at' \in Roles /\ pc' \in {"start", "match"}
    BY <1>0, <2>1, NextBinaryGoesOn DEF Roles
  <2> QED
    BY <1>0, <2>1, <2>2, <2>3, ToldKeepsInv DEF DiffTypes
<1>2. CASE NoMatch
  <2> DEFINE state == IF "bindiff" \in installed THEN "partial" ELSE MissingTool
  <2>1. /\ steps' = With(steps, "bindiff", "Comparison", state)
        /\ kind = "binary-diff" /\ pc = "match" /\ pc' = "index"
        /\ UNCHANGED <<kind, installed, at, jsonl, graph, db, tooMany, sidecar>>
    BY <1>2 DEF NoMatch, Running
  <2>2. state \in GraphStates /\ state # "complete"
    BY <1>0
  <2> HIDE DEF state
  <2> QED
    BY <1>0, <2>1, <2>2, MatchIsTold
<1>3. CASE StageCannotStart
  <2>1. kind = "binary-diff" /\ UNCHANGED <<kind, installed, jsonl, graph, db, tooMany, sidecar>>
    BY <1>3 DEF StageCannotStart
  <2>2. CASE pc = "start"
    <3> DEFINE export == IF "binexport" \in installed THEN "partial" ELSE MissingTool
    <3>1. /\ steps' = With(With(steps, "ghidra", at, "partial"), "binexport", at, export)
          /\ NextBinary
      BY <1>3, <2>2 DEF StageCannotStart
    <3>2. export \in GraphStates /\ export # "complete"
      BY <1>0
    <3> HIDE DEF export
    <3>3. Tells(steps')
      BY <1>0, <2>1, <2>2, <3>1, <3>2, TwoStagesAreTold
    <3>4. at' \in Roles /\ pc' \in {"start", "match"}
      BY <1>0, <3>1, NextBinaryGoesOn DEF Roles
    <3> QED
      BY <1>0, <2>1, <2>2, <3>3, <3>4, ToldKeepsInv DEF DiffTypes
  <2>3. CASE pc = "analyzed"
    <3>1. steps' = With(steps, "binexport", at, "partial") /\ NextBinary
      BY <1>3, <2>3 DEF StageCannotStart
    <3> QED BY <1>0, <2>1, <2>3, <3>1, ExportIsTold
  <2>4. CASE pc = "match"
    <3>1. /\ steps' = With(steps, "bindiff", "Comparison", "partial")
          /\ pc' = "index" /\ at' = at
      BY <1>3, <2>4 DEF StageCannotStart
    <3> QED BY <1>0, <2>1, <2>4, <3>1, MatchIsTold
  <2> QED BY <1>3, <2>2, <2>3, <2>4 DEF StageCannotStart
<1>4. CASE StageReturns \/ StageIsKilled
  <2>1. PICK state \in CommandStates : StageEnds(state) /\ kind = "binary-diff"
    BY <1>4 DEF StageReturns, StageIsKilled, ToolTimesOut, CommandStates
  <2>2. CASE pc = "analyze"
    <3>1. AnalyzeEnds(state)
      BY <2>1, <2>2 DEF StageEnds
    <3> QED BY <2>1, <2>2, <3>1, AnalysisIsTold
  <2>3. CASE pc = "export"
    <3>1. PICK there \in BOOLEAN :
            /\ graph' = [graph EXCEPT ![at] = there]
            /\ steps' = With(steps, "binexport", at, Unless(there, state))
      BY <2>1, <2>3 DEF StageEnds, ExportEnds
    <3>2. NextBinary /\ UNCHANGED <<kind, installed, jsonl, db, tooMany, sidecar>>
      BY <2>1, <2>3 DEF StageEnds, ExportEnds
    <3>3. /\ Unless(there, state) \in GraphStates
          /\ Unless(there, state) = "complete" => there
      BY <1>0, StatesAreKnown
    <3> QED BY <2>1, <2>3, <3>1, <3>2, <3>3, ExportIsTold
  <2>4. CASE pc = "matching"
    <3>1. PICK left \in {"absent", "invalid", "whole"} :
            /\ db' = left
            /\ tooMany' \in IF left = "whole" THEN BOOLEAN ELSE {FALSE}
            /\ steps' = With(steps, "bindiff", "Comparison",
                             Unless(left = "whole", state))
      BY <2>1, <2>4 DEF StageEnds, MatchEnds
    <3>2. pc' = "index" /\ UNCHANGED <<kind, installed, at, jsonl, graph, sidecar>>
      BY <2>1, <2>4 DEF StageEnds, MatchEnds
    <3>3. /\ Unless(left = "whole", state) \in GraphStates
          /\ Unless(left = "whole", state) = "complete" => left = "whole"
      BY <1>0, <2>1, StatesAreKnown DEF Unless
    <3>4. tooMany' \in BOOLEAN
      BY <3>1
    <3> QED BY <2>1, <2>4, <3>1, <3>2, <3>3, <3>4, MatchIsTold
  <2> QED BY <2>1, <2>2, <2>3, <2>4 DEF StageEnds
<1> QED
  BY <1>1, <1>2, <1>3, <1>4

LEMMA DiffKeepsInv ==
  ASSUME IInv, RunDiff \/ (StageReturns /\ UNCHANGED <<staticVars, Host>>)
                 \/ (StageIsKilled /\ UNCHANGED <<staticVars, Host>>)
  PROVE  IInv'
<1>1. /\ Working /\ kind = "binary-diff" /\ UNCHANGED staticVars
      /\ child' \in {"none", "running"}
      /\ NoGhidra \/ NoMatch \/ StageCannotStart \/ StageReturns \/ StageIsKilled
           \/ Index => child' = "none"
  <2>1. CASE NoGhidra \/ NoMatch \/ Index
    <3>1. child = "none" /\ child' = child
      BY <2>1 DEF IInv, RunInv, NoGhidra, NoMatch, Index, Running, Stages
    <3> QED
      BY <2>1, <3>1 DEF NoGhidra, NoMatch, Index, Running, RunDiff, Host, Working,
         StageReturns, StageIsKilled
  <2>2. CASE StageCannotStart
    BY <2>2 DEF StageCannotStart, RunDiff, Host, Working, StageReturns, StageIsKilled
  <2>3. CASE Analyze \/ Export \/ Match
    <3>1. child = "none" /\ child' = "running"
      BY <2>3 DEF Analyze, Export, Match, Spawn
    <3> QED
      BY <2>3, <3>1 DEF Analyze, Export, Match, Running, RunDiff, Host, Working, Stages,
         NoGhidra, NoMatch, Index, StageCannotStart, StageReturns, StageIsKilled,
         ToolEnds, ToolTimesOut
  <2>4. CASE StageReturns \/ StageIsKilled
    BY <2>4 DEF StageReturns, StageIsKilled, ToolEnds, ToolTimesOut, StageEnds, AnalyzeEnds,
       ExportEnds, MatchEnds, RunDiff, Host, Working, Stages
  <2> QED BY <2>1, <2>2, <2>3, <2>4 DEF RunDiff, DiffStep
<1>2. DiffInv' /\ pc' \in DiffPlaces /\ (child' = "running" => pc' \in Stages)
  <2>1. CASE Index
    BY <1>1, <2>1, IndexIsTold DEF DiffPlaces
  <2>2. CASE Analyze \/ Export \/ Match
    BY <2>2, StartsTellNothing DEF DiffPlaces, Stages
  <2>3. CASE NoGhidra \/ NoMatch \/ StageCannotStart \/ StageReturns \/ StageIsKilled
    BY <1>1, <2>3, StagesAreTold DEF DiffPlaces
  <2> QED BY <2>1, <2>2, <2>3 DEF RunDiff, DiffStep
<1>3. StaticInv'
  BY <1>1 DEF IInv, StaticInv, Started, Recorded, Observed, Applicable, Working, staticVars,
     Applies, Tool
<1>4. RunInv' /\ ReaderInv'
  BY <1>1, <1>2, WorkKeepsRun, WorkKeepsReader
<1> QED
  BY <1>1, <1>2, <1>3, <1>4 DEF IInv, Working

---------------------------------------------------------------------------
(***************************************************************************)
(* Writing the results.                                                    *)
(***************************************************************************)

LEMMA SummaryIsSettled ==
  ASSUME UNCHANGED <<kind, staticVars, diffVars>>
  PROVE  Summary' = Summary /\ SummaryFiles' = SummaryFiles
<1>1. StaticSummary' = StaticSummary
  BY DEF staticVars, StaticSummary, StaticStatus, StaticFailures, ExtractedRecords, Least
<1>2. DiffSummary' = DiffSummary
  BY DEF diffVars, DiffSummary, DiffStatus, DiffFailures, DiffRefs
<1> QED
  BY <1>1, <1>2 DEF Summary, SummaryFiles

LEMMA AmountIsSettled ==
  ASSUME UNCHANGED <<kind, disk, staticVars, diffVars>>
  PROVE  (\A f : Files(f)' = Files(f)) /\ TooMuch' = TooMuch
<1>1. \A f : Files(f)' = Files(f)
  BY DEF staticVars, diffVars, Files, DiffRefs
<1>2. extracted' = extracted
  BY DEF staticVars
<1> QED
  BY <1>1, <1>2, SummaryIsSettled DEF TooMuch, FileCount, FileBytes, ReportBytes

\* Before the run has ended nobody was refused a report of a finished run.
LEMMA WritingKeepsReader ==
  ASSUME IInv, exit = "none", UNCHANGED <<kind, staticVars, diffVars, Host>>,
         \A f \in Named : disk[f] = "whole" => disk'[f] = "whole"
  PROVE  ReaderInv'
<1>1. ~reader.after /\ manifest \notin {"complete", "untrusted-output-rejected"}
  BY DEF IInv, ReaderInv
<1> QED
  BY <1>1, SummaryIsSettled, SummaryFilesAreNamed
     DEF IInv, ReaderInv, Host, AcceptedIsFinished, FinishedIsAccepted

LEMMA WriteKeepsInv ==
  ASSUME IInv, Write \/ Die
  PROVE  IInv'
<1>0. /\ exit = "none" /\ UNCHANGED <<kind, pc, staticVars, diffVars, Host>>
      /\ queue \in Seq(Named) /\ Outputs(kind) \in Seq(Named)
      /\ RestOf(queue, Outputs(kind))
      /\ \A f \in Named : disk[f] = "whole" <=> f \in Taken(queue, Outputs(kind))
  BY OutputsOf DEF IInv, RunInv, Write, WriteStarts, WriteEnds, ExitsZero, Die, Dies
<1>1. StaticInv' /\ DiffInv'
  BY <1>0 DEF IInv, StaticInv, Started, Recorded, Observed, Applicable, Applies, Tool,
     staticVars, diffVars, DiffInv, Reported, Write, WriteStarts, WriteEnds, ExitsZero,
     Die, Dies
<1>2. CASE WriteStarts \/ WriteEnds
  <2>1. pc = "writing" /\ queue # <<>> /\ Head(queue) \in Named /\ UNCHANGED <<child, exit>>
    BY <1>0, <1>2, EmptySeq, HeadTailProperties DEF WriteStarts, WriteEnds
  <2>2. child # "running"
    BY <2>1 DEF IInv, RunInv, Started, Stages
  <2>3. CASE WriteStarts
    <3>1. /\ disk' = [disk EXCEPT ![Head(queue)] = "torn"] /\ queue' = queue
          /\ disk[Head(queue)] # "whole"
      BY <2>3 DEF WriteStarts
    <3>2. /\ disk' \in [Named -> {"absent", "torn", "whole"}]
          /\ \A f \in Named : disk'[f] = "whole" <=> disk[f] = "whole"
      BY <2>1, <3>1 DEF IInv
    <3>3. RunInv'
      BY <1>0, <2>1, <2>2, <3>1, <3>2 DEF IInv, RunInv
    <3> QED
      BY <1>0, <1>1, <2>1, <3>2, <3>3, WritingKeepsReader DEF IInv
  <2>4. CASE WriteEnds
    <3>1. disk' = [disk EXCEPT ![Head(queue)] = "whole"] /\ queue' = Tail(queue)
      BY <2>4 DEF WriteEnds
    <3>2. /\ Tail(queue) \in Seq(Named) /\ RestOf(Tail(queue), Outputs(kind))
          /\ Taken(Tail(queue), Outputs(kind))
               = Taken(queue, Outputs(kind)) \cup {Head(queue)}
      BY <1>0, <2>1, RestOfTail
    <3>3. /\ disk' \in [Named -> {"absent", "torn", "whole"}]
          /\ \A f \in Named : disk'[f] = "whole" <=> disk[f] = "whole" \/ f = Head(queue)
      BY <2>1, <3>1 DEF IInv
    <3>4. RunInv'
      BY <1>0, <2>1, <2>2, <3>1, <3>2, <3>3 DEF IInv, RunInv
    <3> QED
      BY <1>0, <1>1, <2>1, <3>3, <3>4, WritingKeepsReader DEF IInv
  <2> QED BY <1>2, <2>3, <2>4
<1>3. CASE ExitsZero \/ Dies
  <2>1. UNCHANGED <<disk, queue>> /\ exit' \in {"zero", "nonzero"}
    BY <1>3 DEF ExitsZero, Dies
  <2>2. child' = "none"
    BY <1>3 DEF IInv, RunInv, ExitsZero, Dies, Started, Stages
  <2>3. RunInv'
    BY <1>0, <1>3, <2>1, <2>2 DEF IInv, RunInv, ExitsZero, Dies
  <2> QED
    BY <1>0, <1>1, <2>1, <2>2, <2>3, WritingKeepsReader DEF IInv
<1> QED
  BY <1>2, <1>3 DEF Write, Die

---------------------------------------------------------------------------
(***************************************************************************)
(* The host and the reader.                                                *)
(***************************************************************************)

\* A summary is written when all stages have been reported, and the validator
\* takes it unless it has too many values.
LEMMA SummaryIsValid ==
  ASSUME IInv, pc = "writing"
  PROVE  /\ Summary.text = "whole" /\ ValidSummary(Summary)
         /\ Summary.values \in Nat /\ Summary.bytes \in Nat
         /\ Summary.values <= MaxRecords /\ Summary.bytes <= MaxBytes => Loads(Summary)
<1>0. /\ MaxRecords \in Nat /\ MaxDepth \in Nat /\ MaxString \in Nat
      /\ Bare.values \in Nat /\ Bare.text \in Nat
      /\ extracted.files \in Nat /\ extracted.text \in Nat
  BY LimitsAreCounts, SizesAreCounts DEF IInv, StaticInv, Sizes
<1>1. CASE kind = "static"
  <2>1. ExtractedRecords \in Nat
    BY <1>0 DEF ExtractedRecords, Least
  <2>2. Bare.values + 5 * ExtractedRecords \in Nat /\ Bare.text + extracted.text \in Nat
    BY <1>0, <2>1
  <2> HIDE DEF ExtractedRecords
  <2> QED
    BY <1>0, <1>1, <2>2, SummariesFit
       DEF Summary, StaticSummary, ValidSummary, Loads, ValidShape
<1>2. CASE kind = "binary-diff"
  <2>1. Summary = DiffSummary
    BY <1>2 DEF Summary
  <2>2. DiffStatus = "complete" => db = "whole"
    <3>1. <<"bindiff", "Comparison">> \in DOMAIN steps
      BY <1>2 DEF IInv, DiffInv, Keys, Reported
    <3> QED
      BY <1>2, <3>1 DEF IInv, DiffInv, DiffStatus, DiffFailures
  <2>3. {steps[k] : k \in DOMAIN steps} \subseteq GraphStates
    BY <1>2 DEF IInv, DiffInv
  <2>4. DiffStatus \in {"complete", "partial"}
    BY DEF DiffStatus
  <2>5. /\ DiffSummary.changed <= DiffSummary.matched
        /\ DiffSummary.ambiguous <= DiffSummary.matched
    BY DEF DiffSummary
  <2>6. DiffSummary.status = "complete" => DiffSummary.scored
    BY <2>2 DEF DiffSummary
  <2>7. ValidBinaryDiff(DiffSummary)
    BY <2>3, <2>4, <2>5, <2>6 DEF DiffSummary, ValidBinaryDiff
  <2>8. ValidSummary(DiffSummary)
    BY <2>7 DEF DiffSummary, ValidSummary
  <2> QED
    BY <1>0, <2>1, <2>8, SummariesFit DEF DiffSummary, Loads, ValidShape
<1> QED
  BY <1>1, <1>2 DEF IInv, Kinds

LEMMA FileCountIsCount ==
  ASSUME IInv, NEW f
  PROVE  FileCount(f) \in Nat
<1>1. IsFiniteSet(Named)
  <2>1. Named = {"tool-status.jsonl", "extracted-artifacts.json", "result.json"}
                  \cup {"report.txt", "binary-diff-summary.json", "binary-diff-report.txt"}
    BY DEF Named, StaticOutputs, DiffOutputs
  <2>2. ASSUME NEW a, NEW b, NEW c PROVE IsFiniteSet({a, b, c})
    <3>1. IsFiniteSet({a} \cup {b})
      BY FS_Singleton, FS_Union
    <3>2. IsFiniteSet(({a} \cup {b}) \cup {c}) /\ ({a} \cup {b}) \cup {c} = {a, b, c}
      BY <3>1, FS_Singleton, FS_Union
    <3> QED BY <3>2
  <2> QED BY <2>1, <2>2, FS_Union
<1>2. IsFiniteSet(printed)
  BY InventoryOfTools, FS_Subset DEF IInv, StaticInv
<1>3. IsFiniteSet(DiffRefs)
  <2> DEFINE some == {"Baseline" \o ".jsonl"} \cup {"Candidate" \o ".jsonl"}
                       \cup {"Baseline" \o ".BinExport"} \cup {"Candidate" \o ".BinExport"}
                       \cup {"BinDiff"} \cup {"binary-analysis.sqlite"}
  <2>1. IsFiniteSet(some)
    BY FS_Singleton, FS_Union
  <2>2. DiffRefs \subseteq some
    BY DEF DiffRefs, Roles
  <2> QED BY <2>1, <2>2, FS_Subset
<1>4. IsFiniteSet(Files(f))
  <2>1. IsFiniteSet({g \in Named : disk[g] # "absent"} \ {f})
    BY <1>1, FS_Subset
  <2> QED BY <1>2, <1>3, <2>1, FS_Union DEF Files
<1> QED
  BY <1>4, FS_CardinalityType DEF FileCount, IInv, StaticInv, Sizes

\* What refuses a settled summary, or the report of it, is its amount.
LEMMA SettledIsTaken ==
  ASSUME IInv, pc = "writing", ~Accepts(Summary)
  PROVE  TooMuch
BY SummaryIsValid, LimitsAreCounts DEF Accepts, TooMuch

LEMMA ReportedOrTooMuch ==
  ASSUME IInv, NEW f \in SummaryFiles, ~Reports(f)
  PROVE  TooMuch
<1>1. /\ MaxRecords \in Nat /\ MaxTotalBytes \in Nat /\ MaxOutputBytes \in Nat
      /\ Bare.bytes \in Nat /\ Bare.report \in Nat
      /\ extracted.bytes \in Nat /\ extracted.text \in Nat /\ extracted.rows \in Nat
  BY LimitsAreCounts, SizesAreCounts DEF IInv, StaticInv, Sizes
<1>2. FileCount(f) \in Nat /\ FileBytes \in Nat /\ ReportBytes \in Nat
  BY <1>1, FileCountIsCount DEF FileBytes, ReportBytes
<1>3. ~(FileCount(f) <= MaxRecords /\ FileBytes <= MaxTotalBytes /\ ReportBytes <= MaxOutputBytes)
  BY DEF Reports, Listable
<1>4. FileCount(f) > MaxRecords \/ FileBytes > MaxTotalBytes \/ ReportBytes > MaxOutputBytes
  <2> HIDE DEF FileCount, FileBytes, ReportBytes
  <2> QED BY <1>1, <1>2, <1>3
<1> QED
  BY <1>4 DEF TooMuch

\* Once a summary is whole, what it speaks of and what was finalised before it
\* are among the files.
LEMMA WholeSummaryIsLast ==
  ASSUME IInv, NEW f \in SummaryFiles, disk[f] = "whole"
  PROVE  /\ pc = "writing" /\ Summary.refs \subseteq Files(f)
         /\ kind = "static" =>
              {"tool-status.jsonl", "extracted-artifacts.json"} \subseteq Files(f)
         /\ kind = "binary-diff" /\ f = "result.json" =>
              "binary-diff-summary.json" \in Files(f)
<1>1. f \in Named /\ pc = "writing" /\ f \in Taken(queue, Outputs(kind))
  BY NothingIsWhole, SummaryFilesAreNamed DEF IInv, RunInv
<1>2. PICK i \in 1..(Len(Outputs(kind)) - Len(queue)) : f = Outputs(kind)[i]
  BY <1>1 DEF Taken
<1>3. /\ Len(queue) \in Nat /\ Len(queue) <= Len(Outputs(kind))
      /\ \A j \in 1..i : Outputs(kind)[j] \in Taken(queue, Outputs(kind))
  BY LenProperties, OutputsOf DEF IInv, RunInv, RestOf, Taken
<1>4. CASE kind = "static"
  <2>1. f = "result.json" /\ i = 3
    BY <1>2, <1>3, <1>4, OutputsOf DEF SummaryFiles, Kinds
  <2>2. {"tool-status.jsonl", "extracted-artifacts.json"} \subseteq Taken(queue, Outputs(kind))
    BY <1>3, <1>4, <2>1, OutputsOf DEF Kinds
  <2>3. {"tool-status.jsonl", "extracted-artifacts.json"} \subseteq Named
    BY <1>4, OutputsOf, <1>3, <2>1 DEF Named, StaticOutputs, Outputs
  <2>4. Summary.refs \subseteq printed
    BY <1>4 DEF Summary, StaticSummary, IInv, StaticInv
  <2> QED
    BY <1>1, <1>4, <2>1, <2>2, <2>3, <2>4 DEF Files, IInv, RunInv
<1>5. CASE kind = "binary-diff"
  <2>1. Summary.refs = DiffRefs
    BY <1>5 DEF Summary, DiffSummary
  <2>2. ASSUME f = "result.json" PROVE "binary-diff-summary.json" \in Files(f)
    <3>1. i = 2
      BY <1>2, <1>3, <1>5, <2>2, OutputsOf DEF Kinds
    <3>2. "binary-diff-summary.json" \in Taken(queue, Outputs(kind))
      BY <1>3, <1>5, <3>1, OutputsOf DEF Kinds
    <3>3. "binary-diff-summary.json" \in Named
      BY DEF Named, DiffOutputs
    <3> QED BY <2>2, <3>2, <3>3 DEF Files, IInv, RunInv
  <2> QED BY <1>1, <1>5, <2>1, <2>2 DEF Files
<1> QED
  BY <1>4, <1>5 DEF IInv, Kinds

LEMMA HostKeepsInv ==
  ASSUME IInv, Returned \/ GivesUp \/ Validates \/ Load \/ List \/ Again
  PROVE  IInv'
<1>0. UNCHANGED RunnerVars /\ UNCHANGED <<kind, pc, child, disk, queue, exit>>
  BY DEF Returned, GivesUp, Validates, Load, List, Again, RunnerVars, runVars
<1>1. RunInv' /\ StaticInv' /\ DiffInv'
  BY <1>0 DEF IInv, RunInv, StaticInv, Started, Recorded, Observed, Applicable, Applies,
     Tool, DiffInv, Reported, RunnerVars, staticVars, diffVars
<1>2. Summary' = Summary /\ SummaryFiles' = SummaryFiles
  BY <1>0, SummaryIsSettled DEF RunnerVars
<1>3. (\A f : Files(f)' = Files(f)) /\ TooMuch' = TooMuch
  BY <1>0, AmountIsSettled DEF RunnerVars
<1>4. exit = "zero" => pc = "writing" /\ \A f \in SummaryFiles : disk[f] = "whole"
  <2>1. ASSUME exit = "zero", NEW f \in SummaryFiles PROVE disk[f] = "whole"
    <3>1. queue = <<>> /\ f \in Named
      BY <2>1, SummaryFilesAreNamed DEF IInv, RunInv
    <3>2. Taken(queue, Outputs(kind)) = Elements(Outputs(kind))
      BY <3>1, OutputsOf, RestOfAll DEF IInv
    <3>3. f \in Elements(Outputs(kind))
      BY OutputsOf DEF IInv, Kinds, SummaryFiles, Elements
    <3> QED BY <3>1, <3>2, <3>3 DEF IInv, RunInv
  <2> QED BY <2>1 DEF IInv, RunInv
<1>5. ReaderInv'
  <2>1. CASE Returned \/ GivesUp
    BY <1>0, <1>2, <1>3, <2>1
       DEF IInv, ReaderInv, AcceptedIsFinished, FinishedIsAccepted, Returned, GivesUp
  <2>2. CASE Validates
    <3>1. /\ exit = "zero" /\ HostFile \in SummaryFiles /\ reader' = reader
          /\ manifest' \in {"complete", "untrusted-output-rejected"} /\ validated' = TRUE
      BY <2>2 DEF Validates, IInv, ReaderInv, HostFile, SummaryFiles
    <3>2. manifest' = "untrusted-output-rejected" => TooMuch
      BY <1>4, <2>2, <3>1, SettledIsTaken, ReportedOrTooMuch DEF Validates
    <3> QED
      BY <1>0, <1>2, <1>3, <3>1, <3>2
         DEF IInv, ReaderInv, AcceptedIsFinished, FinishedIsAccepted
  <2>3. CASE Load
    <3>1. PICK f \in SummaryFiles :
            /\ disk[f] # "absent"
            /\ LET display == IF disk[f] = "whole" THEN Summary ELSE Nothing
               IN reader' = [pc |-> IF Accepts(display) THEN "loaded" ELSE "rejected",
                             file |-> f, after |-> exit = "zero", display |-> display,
                             files |-> {}]
      BY <2>3 DEF Load
    <3>2. reader'.pc = "loaded" => disk[f] = "whole" /\ reader'.display = Summary
      BY <3>1 DEF Nothing, Loads, Accepts
    <3>3. reader'.pc = "rejected" /\ reader'.after => TooMuch
      <4>1. ASSUME exit = "zero"
            PROVE  reader'.pc = IF Accepts(Summary) THEN "loaded" ELSE "rejected"
        BY <1>4, <3>1, <4>1
      <4>2. reader'.after => exit = "zero"
        BY <3>1
      <4> QED BY <1>4, <4>1, <4>2, SettledIsTaken
    <3>4. /\ reader' = [pc |-> reader'.pc, file |-> reader'.file, after |-> reader'.after,
                        display |-> reader'.display, files |-> reader'.files]
          /\ reader'.pc \in {"loaded", "rejected"} /\ reader'.file = f
          /\ reader'.after => exit = "zero"
      BY <3>1
    <3>5. manifest' = manifest /\ validated' = validated
      BY <2>3 DEF Load
    <3> QED
      BY <1>0, <1>2, <1>3, <3>2, <3>3, <3>4, <3>5
         DEF IInv, ReaderInv, AcceptedIsFinished, FinishedIsAccepted
  <2>4. CASE List
    <3>1. /\ reader' = [pc |-> reader'.pc, file |-> reader.file, after |-> reader.after,
                        display |-> Summary, files |-> Files(reader.file)]
          /\ reader'.pc = IF Reports(reader.file) THEN "accepted" ELSE "rejected"
          /\ reader.file \in SummaryFiles /\ disk[reader.file] = "whole"
          /\ reader.after => exit = "zero"
          /\ manifest' = manifest /\ validated' = validated
      BY <2>4 DEF List, IInv, ReaderInv
    <3>2. reader'.pc = "rejected" => TooMuch
      BY <3>1, ReportedOrTooMuch
    <3>3. AcceptedIsFinished'
      BY <1>0, <3>1, WholeSummaryIsLast DEF AcceptedIsFinished
    <3> QED
      BY <1>0, <1>2, <1>3, <3>1, <3>2, <3>3 DEF IInv, ReaderInv, FinishedIsAccepted
  <2>5. CASE Again
    BY <1>0, <1>2, <1>3, <2>5
       DEF IInv, ReaderInv, AcceptedIsFinished, FinishedIsAccepted, Again, Idle
  <2> QED BY <2>1, <2>2, <2>3, <2>4, <2>5
<1> QED
  BY <1>0, <1>1, <1>5 DEF IInv

---------------------------------------------------------------------------
(***************************************************************************)
(* The theorems.                                                           *)
(***************************************************************************)

LEMMA InitIsInv ==
  ASSUME Init PROVE IInv
<1>1. /\ kind \in Kinds /\ Outputs(kind) \in Seq(Named) /\ queue = Outputs(kind)
      /\ pc = "start" /\ child = "none" /\ exit = "none"
      /\ disk = [f \in Named |-> "absent"]
  BY OutputsOf DEF Init, RunInit
<1>2. RestOf(queue, Outputs(kind)) /\ Taken(queue, Outputs(kind)) = {}
  BY <1>1, RestOfAll
<1>3. RunInv
  BY <1>1, <1>2 DEF RunInv, DiffPlaces
<1>4. StaticInv
  <2>1. RestOf(Inventory, Inventory) /\ Taken(Inventory, Inventory) = {}
    BY RestOfAll, InventoryOfTools
  <2>2. /\ role \in {"Control", "Target"} /\ family \in DOMAIN FamilyTools
        /\ tools = Inventory /\ states = <<>> /\ obs = <<>> /\ log = <<>>
        /\ printed = {} /\ extracted \in Sizes
    BY DEF Init, StaticInit, FamilyTools, NoExtraction, Sizes
  <2>3. states \in Seq(CommandStates) /\ Len(states) = 0 /\ DOMAIN obs = {} /\ DOMAIN log = {}
    BY <2>2, EmptySeq
  <2> QED BY <1>1, <2>1, <2>2, <2>3, InventoryOfTools DEF StaticInv, Observed
<1>5. DiffInv
  <2>1. /\ installed \subseteq GraphTools /\ at = "Baseline"
        /\ jsonl = [r \in Roles |-> "absent"] /\ graph = [r \in Roles |-> FALSE]
        /\ db = "absent" /\ tooMany = FALSE /\ sidecar = "absent" /\ DOMAIN steps = {}
    BY DEF Init, DiffInit
  <2>2. \A k \in Keys : ~Reported(k)
    BY <1>1, <2>1 DEF Reported, Keys
  <2> QED BY <2>1, <2>2 DEF DiffInv, Roles
<1>6. ReaderInv
  BY DEF Init, Idle, ReaderInv, AcceptedIsFinished, FinishedIsAccepted
<1> QED
  BY <1>1, <1>3, <1>4, <1>5, <1>6 DEF IInv

LEMMA NextKeepsInv ==
  ASSUME IInv, [Next]_vars PROVE IInv'
<1>1. CASE Next
  BY <1>1, StaticKeepsInv, DiffKeepsInv, WriteKeepsInv, HostKeepsInv
     DEF Next, ToolsEnd, KillTool
<1>2. CASE UNCHANGED vars
  <2>1. UNCHANGED <<kind, pc, child, disk, queue, exit, manifest, validated, reader>>
        /\ UNCHANGED <<staticVars, diffVars>>
    BY <1>2 DEF vars, runVars
  <2>2. RunInv' /\ StaticInv' /\ DiffInv'
    BY <2>1 DEF IInv, RunInv, StaticInv, Started, Recorded, Observed, Applicable, Applies,
       Tool, DiffInv, Reported, staticVars, diffVars
  <2>3. ReaderInv'
    <3>1. Summary' = Summary /\ SummaryFiles' = SummaryFiles
      BY <2>1, SummaryIsSettled
    <3>2. TooMuch' = TooMuch
      BY <2>1, AmountIsSettled
    <3> QED
      BY <2>1, <3>1, <3>2 DEF IInv, ReaderInv, AcceptedIsFinished, FinishedIsAccepted
  <2> QED BY <2>1, <2>2, <2>3 DEF IInv
<1> QED
  BY <1>1, <1>2

\* Every file that is whole was written in its turn, every observation stands
\* for what its tool's commands did, every reported stage for what it left, and
\* a reader who took a summary holds the run's own (EvidenceCase's IInv).
THEOREM Invariance == Spec => []IInv
<1> QED
  BY InitIsInv, NextKeepsInv, PTL DEF Spec

LEMMA SixStages == Cardinality(Keys) = 6
<1> DEFINE k2 == <<"binexport", "Baseline">>
           k3 == <<"ghidra", "Candidate">>
           k4 == <<"binexport", "Candidate">>
           k5 == <<"bindiff", "Comparison">>
           k6 == <<"sqlite-sidecar", "Comparison">>
           K1 == {<<"ghidra", "Baseline">>}
           K2 == K1 \cup {k2}
           K3 == K2 \cup {k3}
           K4 == K3 \cup {k4}
           K5 == K4 \cup {k5}
           K6 == K5 \cup {k6}
<1>1. K6 = Keys
  BY DEF Keys
<1>2. ASSUME NEW S, NEW x, NEW n \in Nat, x \notin S, IsFiniteSet(S), Cardinality(S) = n
      PROVE  IsFiniteSet(S \cup {x}) /\ Cardinality(S \cup {x}) = n + 1
  BY <1>2, FS_AddElement
<1>3. k2 \notin K1
  OBVIOUS
<1>4. k3 \notin K2
  OBVIOUS
<1>5. k4 \notin K3
  OBVIOUS
<1>6. k5 \notin K4
  OBVIOUS
<1>7. k6 \notin K5
  OBVIOUS
<1> HIDE DEF k2, k3, k4, k5, k6, K1, K2, K3, K4, K5, K6
<1>8. IsFiniteSet(K1) /\ Cardinality(K1) = 1
  BY FS_Singleton DEF K1
<1>9. IsFiniteSet(K2) /\ Cardinality(K2) = 1 + 1
  BY <1>2, <1>3, <1>8 DEF K2
<1>10. IsFiniteSet(K3) /\ Cardinality(K3) = 2 + 1
  BY <1>2, <1>4, <1>9 DEF K3
<1>11. IsFiniteSet(K4) /\ Cardinality(K4) = 3 + 1
  BY <1>2, <1>5, <1>10 DEF K4
<1>12. IsFiniteSet(K5) /\ Cardinality(K5) = 4 + 1
  BY <1>2, <1>6, <1>11 DEF K5
<1>13. IsFiniteSet(K6) /\ Cardinality(K6) = 5 + 1
  BY <1>2, <1>7, <1>12 DEF K6
<1> QED
  BY <1>1, <1>13

\* The variables keep their types: a tool runs only in a living container that
\* is not yet writing, the observations are of just the tools worked through,
\* and all six stages are reported before a comparison's summary is written.
THEOREM TypeCorrect == Spec => []TypeOK
<1>1. ASSUME IInv PROVE TypeOK
  <2>1. RunTypeOK
    <3>1. Len(queue) <= 4
      BY <1>1, OutputsOf, LenProperties DEF IInv, RunInv, RestOf
    <3> QED BY <1>1, <3>1 DEF IInv, RunInv, RunTypeOK, Started, Stages
  <2>2. StaticTypeOK
    <3>1. Elements(tools) = {tools[i] : i \in DOMAIN tools}
      BY <1>1, LenProperties DEF IInv, StaticInv, Elements
    <3>2. Observed = ToolsOf \ Elements(tools)
      BY <1>1, InventoryOfTools, RestIsNotTaken DEF IInv, StaticInv, Observed
    <3> QED BY <1>1, <3>1, <3>2 DEF IInv, StaticInv, StaticTypeOK
  <2>3. DiffTypeOK
    <3>1. ASSUME pc = "writing", kind = "binary-diff" PROVE DOMAIN steps = Keys
      BY <1>1, <3>1 DEF IInv, DiffInv, Keys, Reported
    <3> QED BY <1>1, <3>1, SixStages DEF IInv, DiffInv, DiffTypeOK
  <2> QED BY <1>1, <2>1, <2>2, <2>3 DEF IInv, ReaderInv, TypeOK
<1> QED
  BY <1>1, Invariance, PTL

\* An accepted report lists every product its summary names and the records
\* finalised before it, for every inventory and whenever the reader asks: the
\* order of write_json calls in run_analysis and run_binary_diff is what the
\* validator's listing relies on.
THEOREM AcceptedIsFinishedAlways == Spec => []AcceptedIsFinished
<1> QED
  BY Invariance, PTL DEF IInv, ReaderInv

\* Of a finished run the validator refuses nothing but its amount: values and
\* bytes of the summary, files, bytes in them, and the length of the report.
THEOREM FinishedIsAcceptedAlways == Spec => []FinishedIsAccepted
<1> QED
  BY Invariance, PTL DEF IInv, ReaderInv

\* No accepted report calls a run complete that lost a tool, a command or a
\* product on the way.
THEOREM CompleteIsEarnedAlways == Spec => []CompleteIsEarned
<1>1. ASSUME IInv, reader.pc = "accepted", reader.display.status = "complete"
      PROVE  IF kind = "static"
             THEN role = "Target" =>
                  \A t \in Applicable \cap ToolsOf :
                    /\ log[t] # <<>> \/ (t = "sqlite" /\ "rizin" \notin ToolsOf)
                    /\ \A i \in DOMAIN log[t] :
                         /\ log[t][i] # "timed-out"
                         /\ log[t][i] = "failed" =>
                              \E j \in DOMAIN log[t] : log[t][j] \in {"partial", "truncated"}
             ELSE /\ \A r \in Roles : graph[r] /\ jsonl[r] # "absent"
                  /\ db = "whole" /\ ~tooMany
                  /\ sidecar = "complete"
  <2>1. pc = "writing" /\ Summary.status = "complete"
    BY <1>1, WholeSummaryIsLast DEF IInv, ReaderInv
  <2>2. CASE kind = "static"
    <3>1. StaticFailures = {} /\ Observed = ToolsOf
      <4>1. StaticFailures = {}
        BY <2>1, <2>2 DEF Summary, StaticSummary, StaticStatus
      <4>2. tools = <<>>
        BY <1>1, <2>1, <2>2 DEF IInv, StaticInv
      <4> QED BY <4>1, <4>2, RestOfAll, InventoryOfTools DEF Observed
    <3>2. ASSUME role = "Target", NEW t \in Applicable \cap ToolsOf
          PROVE  /\ log[t] # <<>> \/ (t = "sqlite" /\ "rizin" \notin ToolsOf)
                 /\ \A i \in DOMAIN log[t] :
                      /\ log[t][i] # "timed-out"
                      /\ log[t][i] = "failed" =>
                           \E j \in DOMAIN log[t] : log[t][j] \in {"partial", "truncated"}
      <4>1. obs[t] \notin {"failed", "timed-out", "missing"} /\ Recorded(t)
        BY <1>1, <3>1, <3>2 DEF IInv, StaticInv, StaticFailures
      <4>2. CASE log[t] # <<>> /\ obs[t] = Merged(log[t])
        BY <4>1, <4>2 DEF Merged
      <4>3. CASE log[t] = <<>> /\ t = "sqlite"
                   /\ ("rizin" \in ToolsOf => obs["rizin"] = "missing")
        <5>1. "rizin" \notin ToolsOf
          BY <1>1, <3>1, <4>3 DEF IInv, StaticInv, StaticFailures
        <5> QED BY <4>3, <5>1
      <4> QED BY <3>2, <4>1, <4>2, <4>3 DEF Recorded
    <3> QED BY <2>2, <3>2
  <2>3. CASE kind = "binary-diff"
    <3>1. DiffFailures = {} /\ DOMAIN steps = Keys
      <4>1. DiffFailures = {}
        BY <2>1, <2>3 DEF Summary, DiffSummary, DiffStatus
      <4> QED BY <1>1, <2>1, <2>3, <4>1 DEF IInv, DiffInv, Keys, Reported
    <3>2. \A k \in Keys : steps[k] = "complete"
      BY <3>1 DEF DiffFailures
    <3>3. \A r \in Roles : <<"ghidra", r>> \in Keys /\ <<"binexport", r>> \in Keys
      BY DEF Roles, Keys
    <3>4. <<"bindiff", "Comparison">> \in Keys /\ <<"sqlite-sidecar", "Comparison">> \in Keys
      BY DEF Keys
    <3> QED BY <1>1, <2>3, <3>1, <3>2, <3>3, <3>4 DEF IInv, DiffInv
  <2> QED BY <1>1, <2>2, <2>3 DEF IInv, Kinds
<1>2. IInv => CompleteIsEarned
  BY <1>1 DEF CompleteIsEarned
<1> QED
  BY <1>2, Invariance, PTL
=============================================================================
