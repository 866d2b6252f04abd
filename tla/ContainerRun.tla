---------------------------- MODULE ContainerRun ----------------------------
(***************************************************************************)
(* What a static analysis and a binary comparison of                       *)
(* src/linux/malware-analysis/entrypoint.py share: one runner process in   *)
(* a container, the tool process it waits for, the bounds put on that      *)
(* tool, and the files under /output that the host reads.                  *)
(*                                                                         *)
(* A file is absent, torn or whole.  Path.write_text opens with            *)
(* truncation before it writes, so a file is torn between the two and      *)
(* stays torn when the container dies there.  The output directory is new  *)
(* for every case, so every file starts absent.                            *)
(*                                                                         *)
(* Faults: a tool may hang, end with any status or fill its bounds; the    *)
(* container may die at any step, by an exception (exit 1 or 2), the       *)
(* memory limit or the host's timeout.                                     *)
(***************************************************************************)
EXTENDS Naturals, Sequences

CONSTANTS
  ReturnStates   \* kind to the states in which a tool that returns may end

VARIABLES
  kind,     \* the --analysis-kind argument
  pc,       \* where the runner is
  child,    \* the tool process: none or running
  disk,     \* the named files of the output directory
  queue,    \* the files the runner has still to write, in order
  exit      \* how the container ended, "none" while it runs

runVars == <<kind, pc, child, disk, queue, exit>>

Kinds == {"static", "binary-diff"}

StaticOutputs ==
  <<"tool-status.jsonl", "extracted-artifacts.json", "result.json",
    "report.txt">>

DiffOutputs ==
  <<"binary-diff-summary.json", "result.json", "binary-diff-report.txt">>

\* Mutant: the result is finalised before the per-tool record.
StaticOutputsEarly ==
  <<"result.json", "tool-status.jsonl", "extracted-artifacts.json",
    "report.txt">>

\* Mutant: see StaticOutputsEarly.
OutputsEarly(k) == IF k = "static" THEN StaticOutputsEarly ELSE DiffOutputs

\* The files of a run, in the order they are written.
Outputs(k) == IF k = "static" THEN StaticOutputs ELSE DiffOutputs

Named == {StaticOutputs[i] : i \in DOMAIN StaticOutputs}
           \cup {DiffOutputs[i] : i \in DOMAIN DiffOutputs}

(***************************************************************************)
(* run_command.                                                            *)
(***************************************************************************)

\* How a tool that was started may end by itself: with status zero, with
\* another, or by the signal for a file beyond the size limit.
Endings == {"zero", "nonzero", "xfsz"}

\* The state of a command that ended by itself; cut says that truncate_output
\* had to shorten what it printed.
CommandState(ending, cut) ==
  IF cut \/ ending = "xfsz" THEN "truncated"
  ELSE IF ending = "zero" THEN "complete" ELSE "partial"

CommandStates == {"complete", "partial", "failed", "timed-out", "truncated"}

ASSUME ReturnStatesAreStates ==
  ReturnStates \in [Kinds -> SUBSET {"complete", "partial", "truncated"}]

\* Popen succeeds.
Spawn == child = "none" /\ child' = "running"

\* The tool ends by itself.
ToolEnds(state) ==
  /\ child = "running"
  /\ \E ending \in Endings, cut \in BOOLEAN : state = CommandState(ending, cut)
  /\ state \in ReturnStates[kind]
  /\ child' = "none"

\* Mutant: the wait for the tool has no timeout.
ToolNeverTimesOut(state) == FALSE /\ child' = "none"

\* process.wait runs out of time: the process group is killed and reaped.
ToolTimesOut(state) ==
  /\ child = "running"
  /\ state = "timed-out"
  /\ child' = "none"

(***************************************************************************)
(* Writing the results, the end and the death of the container.            *)
(***************************************************************************)

RunInit ==
  /\ kind \in Kinds
  /\ pc = "start"
  /\ child = "none"
  /\ disk = [f \in Named |-> "absent"]
  /\ queue = Outputs(kind)
  /\ exit = "none"

WriteStarts ==
  /\ exit = "none" /\ pc = "writing" /\ queue # <<>>
  /\ disk[Head(queue)] = "absent"
  /\ disk' = [disk EXCEPT ![Head(queue)] = "torn"]
  /\ UNCHANGED <<kind, pc, child, queue, exit>>

WriteEnds ==
  /\ exit = "none" /\ pc = "writing" /\ queue # <<>>
  /\ disk[Head(queue)] = "torn"
  /\ disk' = [disk EXCEPT ![Head(queue)] = "whole"]
  /\ queue' = Tail(queue)
  /\ UNCHANGED <<kind, pc, child, exit>>

\* main returns 0.
ExitsZero ==
  /\ exit = "none" /\ pc = "writing" /\ queue = <<>>
  /\ exit' = "zero"
  /\ UNCHANGED <<kind, pc, child, disk, queue>>

\* Mutant: the tool outlives the container.
DiesLeavingTool ==
  /\ exit = "none"
  /\ exit' = "nonzero"
  /\ UNCHANGED <<kind, pc, child, disk, queue>>

\* An exception main reports (exit 2) or does not catch (exit 1), the memory
\* limit, or the host's timeout: the container and its tool are gone.
Dies ==
  /\ exit = "none"
  /\ exit' = "nonzero"
  /\ child' = "none"
  /\ UNCHANGED <<kind, pc, disk, queue>>

RunTypeOK ==
  /\ kind \in Kinds
  /\ child \in {"none", "running"}
  /\ disk \in [Named -> {"absent", "torn", "whole"}]
  /\ queue \in Seq(Named) /\ Len(queue) <= 4
  /\ exit \in {"none", "zero", "nonzero"}
  /\ child = "running" => exit = "none" /\ pc # "writing"
=============================================================================
