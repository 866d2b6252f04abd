--------------------------- MODULE StaticAnalysis ---------------------------
(***************************************************************************)
(* run_analysis of src/linux/malware-analysis/entrypoint.py: every tool of *)
(* the inventory in the order of its identity, one after another, and an   *)
(* observation for each.  Commands are abstracted to how many a tool has;  *)
(* the inventory is a constant, because only the order of a few tools      *)
(* matters: the SQLite index reads what Rizin printed.                     *)
(***************************************************************************)
EXTENDS ContainerRun

CONSTANTS
  Inventory,     \* the tool identities of tool-inventory.json, sorted
  Extractions    \* what the tools may leave under extracted/

\* How many files, the bytes in them, the bytes that their records come to in
\* the summary, and those that their rows come to in a validator's listing.
ASSUME ExtractionsAreSizes ==
  Extractions \subseteq [files : Nat, bytes : Nat, text : Nat, rows : Nat]

\* The keys of a dictionary in the order of their names, of which it matters
\* that no tool comes twice and that Rizin comes before the index.
ASSUME InventoryIsSorted ==
  /\ Inventory \in Seq(STRING)
  /\ \A i, j \in DOMAIN Inventory :
       /\ Inventory[i] = Inventory[j] => i = j
       /\ Inventory[i] = "rizin" /\ Inventory[j] = "sqlite" => i < j

VARIABLES
  role,       \* Control or Target
  family,     \* the family found or given
  tools,      \* the tools still to do
  states,     \* the states of the current tool's commands so far
  obs,        \* the observations: tool to state
  log,        \* history: tool to the states of all its commands
  printed,    \* the tools with a file under tools/
  extracted   \* what lies under extracted/ when it is looked through

staticVars == <<role, family, tools, states, obs, log, printed, extracted>>

ToolsOf == {Inventory[i] : i \in DOMAIN Inventory}

FamilyTools ==
  [office |-> {"file", "exiftool", "yara-x", "capa", "oleid", "olevba",
               "mraptor", "oleobj", "rtfobj", "msodde", "ooxml-inventory"},
   pdf    |-> {"file", "exiftool", "yara-x", "capa", "pdfid", "pdf-parser",
               "qpdf", "mutool", "pdfinfo", "pdfdetach"},
   binary |-> {"file", "exiftool", "yara-x", "capa", "diec", "rizin",
               "sqlite", "ghidra"}]

Applicable == FamilyTools[family]

\* How many commands tool_commands gives; the graph tools of the inventory
\* have none, and no family names them.
Commands(tool) ==
  CASE tool \in {"qpdf", "mutool"} -> 2
    [] tool \in {"binexport", "bindiff", "ooxml-inventory"} -> 0
    [] OTHER -> 1

\* The state of a tool from the states of its commands.
Merged(s) ==
  LET has(state) == \E i \in DOMAIN s : s[i] = state
  IN IF has("timed-out") THEN "timed-out"
     ELSE IF has("truncated") THEN "truncated"
     ELSE IF has("partial") THEN "partial"
     ELSE IF has("failed") THEN "failed" ELSE "complete"

NoExtraction == [files |-> 0, bytes |-> 0, text |-> 0, rows |-> 0]

FunctionOn(S, f, x, v) == [y \in S \cup {x} |-> IF y = x THEN v ELSE f[y]]

(***************************************************************************)
(* Steps.                                                                  *)
(***************************************************************************)

Ready == exit = "none" /\ kind = "static" /\ pc = "tools" /\ tools # <<>>

Tool == Head(tools)

Applies == role = "Target" /\ Tool \in Applicable

\* Append the observation and go on with the next tool.
Observe(state, commandStates) ==
  /\ obs' = FunctionOn(DOMAIN obs, obs, Tool, state)
  /\ log' = FunctionOn(DOMAIN log, log, Tool, commandStates)
  /\ tools' = Tail(tools)
  /\ states' = <<>>

StaticInit ==
  /\ role \in {"Control", "Target"}
  /\ family = "binary"
  /\ tools = Inventory
  /\ states = <<>>
  /\ obs = <<>> /\ log = <<>>
  /\ printed = {}
  /\ extracted = NoExtraction

\* A target is hashed and its family detected; a control reads no sample and
\* --family auto makes it a binary.  A sample that is no regular file or too
\* large raises, which is Dies.
Begin ==
  /\ exit = "none" /\ kind = "static" /\ pc = "start"
  /\ pc' = "tools"
  /\ family' \in IF role = "Target" THEN DOMAIN FamilyTools ELSE {"binary"}
  /\ UNCHANGED <<kind, child, disk, queue, exit, role, tools, states, obs, log,
                 printed, extracted>>

SkipTool ==
  /\ Ready /\ ~Applies
  /\ Observe("inapplicable", <<>>)
  /\ UNCHANGED <<runVars, role, family, printed, extracted>>

\* write_ooxml_inventory: the listing itself, done in the runner.
ListContainer ==
  /\ Ready /\ Applies /\ Tool = "ooxml-inventory"
  /\ \E state \in {"complete", "failed"} : Observe(state, <<state>>)
  /\ printed' = printed \cup {Tool}
  /\ UNCHANGED <<runVars, role, family, extracted>>

\* The index needs Rizin's log, which is there once Rizin was started.
NoLogToIndex ==
  /\ Ready /\ Applies /\ Tool = "sqlite" /\ "rizin" \notin printed
  /\ Observe("partial", <<>>)
  /\ UNCHANGED <<runVars, role, family, printed, extracted>>

\* The executable of the first command is not there.  The commands of three
\* tools begin with env or python3, which are.
Missing ==
  /\ Ready /\ Applies /\ child = "none" /\ states = <<>>
  /\ Tool \notin {"sqlite", "ooxml-inventory", "capa", "pdfid", "pdf-parser"}
  /\ Observe("missing", <<>>)
  /\ UNCHANGED <<runVars, role, family, printed, extracted>>

\* The tool has a command left to start; for the index the database is filled
\* from Rizin's log first.
CanStart ==
  /\ Ready /\ Applies /\ child = "none" /\ Len(states) < Commands(Tool)
  /\ Tool = "sqlite" => "rizin" \in printed

StartTool ==
  /\ CanStart
  /\ Spawn
  /\ printed' = printed \cup {Tool}
  /\ UNCHANGED <<kind, pc, disk, queue, exit, role, family, tools, states, obs,
                 log, extracted>>

\* Popen raises an OSError: both streams were opened.
CannotStart ==
  /\ CanStart
  /\ states' = Append(states, "failed")
  /\ printed' = printed \cup {Tool}
  /\ UNCHANGED <<runVars, role, family, tools, obs, log, extracted>>

EndTool(state) ==
  /\ Ready
  /\ states' = Append(states, state)
  /\ UNCHANGED <<kind, pc, disk, queue, exit, role, family, tools, obs, log,
                 printed, extracted>>

ToolReturns == \E state \in CommandStates : ToolEnds(state) /\ EndTool(state)

ToolIsKilled == ToolTimesOut("timed-out") /\ EndTool("timed-out")

Record ==
  /\ Ready /\ Applies /\ child = "none"
  /\ states # <<>> /\ Len(states) = Commands(Tool)
  /\ Observe(Merged(states), states)
  /\ UNCHANGED <<runVars, role, family, printed, extracted>>

\* inventory_extracted, and the failures and the status drawn from what was
\* observed.  A control runs no tool, so nothing was extracted.
Summarise ==
  /\ exit = "none" /\ kind = "static" /\ pc = "tools" /\ tools = <<>>
  /\ pc' = "writing"
  /\ extracted' \in IF role = "Target" THEN Extractions ELSE {NoExtraction}
  /\ UNCHANGED <<kind, child, disk, queue, exit, role, family, tools, states,
                 obs, log, printed>>

StaticStep ==
  \/ Begin \/ SkipTool \/ ListContainer \/ NoLogToIndex \/ Missing \/ StartTool
  \/ CannotStart \/ Record \/ Summarise

\* Failures lists a tool that failed, was killed or is missing, and neither a
\* partial nor a truncated one.
StaticFailures ==
  {t \in DOMAIN obs : obs[t] \in {"failed", "timed-out", "missing"}}

StaticStatus == IF StaticFailures = {} THEN "complete" ELSE "partial"

StaticTypeOK ==
  /\ role \in {"Control", "Target"}
  /\ family \in DOMAIN FamilyTools
  /\ \A t \in DOMAIN obs :
       obs[t] \in CommandStates \cup {"inapplicable", "missing"}
  /\ DOMAIN obs = ToolsOf \ {tools[i] : i \in DOMAIN tools}
  /\ printed \subseteq ToolsOf
  /\ Len(states) <= 2
=============================================================================
