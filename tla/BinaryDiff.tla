----------------------------- MODULE BinaryDiff -----------------------------
(***************************************************************************)
(* run_binary_diff of src/linux/malware-analysis/entrypoint.py: Ghidra     *)
(* analyses the baseline and then the candidate and exports a graph of     *)
(* each, BinDiff matches the two graphs, its database is read, and a       *)
(* sidecar for queries is filled from all of it.                           *)
(*                                                                         *)
(* The programs Ghidra and BinDiff are external: how they end says nothing *)
(* of the file they were to leave, which may be there, cut inside a record *)
(* or not at all.  That a file is short of whole records shows nowhere, so *)
(* such a file counts as there.                                            *)
(***************************************************************************)
EXTENDS ContainerRun, FiniteSets

VARIABLES
  installed,   \* the graph tools of the image
  at,          \* the binary in work
  jsonl,       \* role to what its records' file holds
  graph,       \* role to whether its graph export exists
  db,          \* BinDiff's database
  tooMany,     \* more matches than the bound on records
  sidecar,     \* the query database
  steps        \* <<tool, role>> to the state reported for it

diffVars == <<installed, at, jsonl, graph, db, tooMany, sidecar, steps>>

Roles == {"Baseline", "Candidate"}
GraphTools == {"ghidra", "binexport", "bindiff"}

\* graph_tool_state adds one record to the statuses.
With(s, tool, r, state) ==
  [k \in DOMAIN s \cup {<<tool, r>>} |-> IF k = <<tool, r>> THEN state ELSE s[k]]

\* The state of a stage whose product may be missing whatever the tool said.
Unless(there, state) == IF there THEN state ELSE "partial"

\* Mutant: the word static analysis uses.
MissingToolStatic == "missing"

\* What the validator knows as the state of a tool that is not installed.
MissingTool == "missing-tool"

DiffInit ==
  /\ installed \in SUBSET GraphTools
  /\ at = "Baseline"
  /\ jsonl = [r \in Roles |-> "absent"]
  /\ graph = [r \in Roles |-> FALSE]
  /\ db = "absent"
  /\ tooMany = FALSE
  /\ sidecar = "absent"
  /\ steps = <<>>

Running(where) == exit = "none" /\ kind = "binary-diff" /\ pc = where

\* The stage after the exports of the binary in work.
NextBinary ==
  IF at = "Baseline" THEN pc' = "start" /\ at' = "Candidate"
                     ELSE pc' = "match" /\ at' = at

\* Both hashes were checked, or the run died; without Ghidra both stages of
\* the binary are missing.
NoGhidra ==
  /\ Running("start") /\ "ghidra" \notin installed
  /\ steps' = With(With(steps, "ghidra", at, MissingTool),
                   "binexport", at, MissingTool)
  /\ NextBinary
  /\ UNCHANGED <<kind, child, disk, queue, exit, installed, jsonl, graph, db,
                 tooMany, sidecar>>

\* A tool is started, or Popen raises and the stage has failed.
Analyze ==
  /\ Running("start") /\ "ghidra" \in installed
  /\ Spawn /\ pc' = "analyze"
  /\ UNCHANGED <<kind, disk, queue, exit, diffVars>>

\* The end of the analysis and what it left; the export follows only a
\* complete analysis and an installed exporter.
AnalyzeEnds(state) ==
  /\ \E left \in {"absent", "cut", "there"} :
       /\ jsonl' = [jsonl EXCEPT ![at] = left]
       /\ LET s == With(steps, "ghidra", at, Unless(left # "absent", state))
          IN IF state = "complete" /\ "binexport" \in installed
             THEN steps' = s /\ pc' = "analyzed" /\ at' = at
             ELSE /\ steps' = With(s, "binexport", at,
                        IF "binexport" \in installed THEN "partial"
                        ELSE MissingTool)
                  /\ NextBinary
  /\ UNCHANGED <<kind, disk, queue, exit, installed, graph, db, tooMany, sidecar>>

Export ==
  /\ Running("analyzed")
  /\ Spawn /\ pc' = "export"
  /\ UNCHANGED <<kind, disk, queue, exit, diffVars>>

ExportEnds(state) ==
  /\ \E there \in BOOLEAN :
       /\ graph' = [graph EXCEPT ![at] = there]
       /\ steps' = With(steps, "binexport", at, Unless(there, state))
  /\ NextBinary
  /\ UNCHANGED <<kind, disk, queue, exit, installed, jsonl, db, tooMany, sidecar>>

\* No BinDiff, or no two graphs to match.
NoMatch ==
  /\ Running("match")
  /\ \/ "bindiff" \notin installed
     \/ \E r \in Roles : ~graph[r]
  /\ steps' = With(steps, "bindiff", "Comparison",
                   IF "bindiff" \in installed THEN "partial" ELSE MissingTool)
  /\ pc' = "index"
  /\ UNCHANGED <<kind, child, disk, queue, exit, installed, at, jsonl, graph,
                 db, tooMany, sidecar>>

Match ==
  /\ Running("match") /\ "bindiff" \in installed /\ \A r \in Roles : graph[r]
  /\ Spawn /\ pc' = "matching"
  /\ UNCHANGED <<kind, disk, queue, exit, diffVars>>

\* BinDiff ends, and read_bindiff_projection reads the database it left: one
\* of another schema, or no database at all, makes the stage partial.
MatchEnds(state) ==
  /\ \E left \in {"absent", "invalid", "whole"} :
       /\ db' = left
       /\ tooMany' \in IF left = "whole" THEN BOOLEAN ELSE {FALSE}
       /\ steps' = With(steps, "bindiff", "Comparison",
                        Unless(left = "whole", state))
  /\ pc' = "index"
  /\ UNCHANGED <<kind, disk, queue, exit, installed, at, jsonl, graph, sidecar>>

Stages == {"analyze", "export", "matching"}

StageEnds(state) ==
  \/ pc = "analyze" /\ AnalyzeEnds(state)
  \/ pc = "export" /\ ExportEnds(state)
  \/ pc = "matching" /\ MatchEnds(state)

StageReturns ==
  /\ exit = "none" /\ kind = "binary-diff" /\ pc \in Stages
  /\ \E state \in CommandStates : ToolEnds(state) /\ StageEnds(state)

StageIsKilled ==
  /\ exit = "none" /\ kind = "binary-diff" /\ pc \in Stages
  /\ ToolTimesOut("timed-out") /\ StageEnds("timed-out")

\* Popen raises an OSError, which leaves nothing but the error's name.
StageCannotStart ==
  /\ exit = "none" /\ kind = "binary-diff"
  /\ child = "none" /\ child' = child
  /\ \/ /\ pc = "start" /\ "ghidra" \in installed
        /\ steps' = With(With(steps, "ghidra", at, "partial"), "binexport", at,
                         IF "binexport" \in installed THEN "partial"
                         ELSE MissingTool)
        /\ NextBinary
     \/ /\ pc = "analyzed"
        /\ steps' = With(steps, "binexport", at, "partial")
        /\ NextBinary
     \/ /\ pc = "match" /\ "bindiff" \in installed /\ \A r \in Roles : graph[r]
        /\ steps' = With(steps, "bindiff", "Comparison", "partial")
        /\ pc' = "index" /\ at' = at
  /\ UNCHANGED <<kind, disk, queue, exit, installed, jsonl, graph, db, tooMany,
                 sidecar>>

\* Mutant: the bound on the matches read is forgotten.
SidecarStateUnbounded(roleTruncated) ==
  IF \E r \in Roles : jsonl[r] = "absent" THEN "partial"
  ELSE IF roleTruncated THEN "truncated" ELSE "complete"

\* The state create_binary_analysis_database returns.
SidecarState(roleTruncated) ==
  IF \E r \in Roles : jsonl[r] = "absent" THEN "partial"
  ELSE IF roleTruncated \/ tooMany THEN "truncated" ELSE "complete"

\* Both files of records are read, up to the bound; a record that is cut, or
\* that the database refuses, raises.
Index ==
  /\ Running("index")
  /\ \E roleTruncated \in BOOLEAN, raises \in BOOLEAN :
       /\ roleTruncated => \E r \in Roles : jsonl[r] # "absent"
       /\ (\E r \in Roles : jsonl[r] = "cut") => raises \/ roleTruncated
       /\ sidecar' = IF raises THEN "absent" ELSE SidecarState(roleTruncated)
       /\ steps' = With(steps, "sqlite-sidecar", "Comparison",
                        IF raises THEN "partial" ELSE sidecar')
  /\ pc' = "writing"
  /\ UNCHANGED <<kind, child, disk, queue, exit, installed, at, jsonl, graph, db,
                 tooMany>>

DiffStep ==
  \/ NoGhidra \/ Analyze \/ Export \/ NoMatch \/ Match \/ StageCannotStart
  \/ Index

\* Failures lists every stage that is not complete.
DiffFailures == {k \in DOMAIN steps : steps[k] # "complete"}

DiffStatus == IF DiffFailures = {} THEN "complete" ELSE "partial"

DiffTypeOK ==
  /\ installed \subseteq GraphTools
  /\ at \in Roles
  /\ jsonl \in [Roles -> {"absent", "cut", "there"}]
  /\ graph \in [Roles -> BOOLEAN]
  /\ db \in {"absent", "invalid", "whole"}
  /\ tooMany \in BOOLEAN
  /\ sidecar \in {"absent", "partial", "truncated", "complete"}
  /\ pc = "writing" /\ kind = "binary-diff" => Cardinality(DOMAIN steps) = 6
=============================================================================
