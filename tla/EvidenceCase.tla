---------------------------- MODULE EvidenceCase ----------------------------
(***************************************************************************)
(* One case of a static analysis or a binary comparison: the runner in its *)
(* container, the host that started it and waits                           *)
(* (src/scripts/Invoke-MalwareContainerAnalysis.ps1 and                    *)
(* src/scripts/Invoke-BinaryDiffAnalysis.ps1), and a reader who may ask    *)
(* for a report at any time (src/scripts/Read-MalwareEvidence.ps1 with     *)
(* src/linux/malware-analysis/evidence_ingest.py).                         *)
(*                                                                         *)
(* The host's timeout ends the container or only the client that started   *)
(* it, so a run may go on after the host wrote "failed".                   *)
(***************************************************************************)
EXTENDS StaticAnalysis, BinaryDiff, EvidenceIngest

CONSTANTS
  Bare,           \* what a run comes to that extracts nothing: the values and
                  \* the bytes of its summary, the bytes of its files, and
                  \* those of a report of it
  MaxOutputBytes  \* of the report that Read-MalwareEvidence takes

ASSUME SizesAreCounts ==
  /\ Bare \in [values : Nat, text : Nat, bytes : Nat, report : Nat]
  /\ MaxOutputBytes \in Nat

\* The validator's bounds on depth and strings are beyond what a runner writes:
\* the artifacts of a tool's record nest deepest, and a path is the longest.
ASSUME SummariesFit == MaxDepth >= 4 /\ MaxString >= 1

VARIABLES
  manifest,   \* the state the host keeps of the run
  validated,  \* the host has asked for the report of the run
  reader      \* the last report asked for

vars == <<runVars, staticVars, diffVars, manifest, validated, reader>>

(***************************************************************************)
(* What the runner writes, as the validator sees it.                       *)
(***************************************************************************)

Least(a, b) == IF a < b THEN a ELSE b

\* inventory_extracted stops at the bound on records.
ExtractedRecords == Least(extracted.files, MaxRecords)

\* Every extracted file is a record of four values.
StaticSummary ==
  [kind |-> "static", schema |-> 1, verdict |-> "undetermined",
   status |-> StaticStatus, finalized |-> TRUE, execution |-> "not-run",
   text |-> "whole", depth |-> 4, longest |-> 1,
   values |-> Bare.values + 5 * ExtractedRecords,
   bytes |-> Bare.text + extracted.text,
   refs |-> {t \in DOMAIN obs : log[t] # <<>>}]

\* The products a stage names when it finds them.
DiffRefs ==
  {r \o ".jsonl" : r \in {q \in Roles : jsonl[q] # "absent"}}
    \cup {r \o ".BinExport" : r \in {q \in Roles : graph[q]}}
    \cup (IF db # "absent" THEN {"BinDiff"} ELSE {})
    \cup (IF sidecar # "absent" THEN {"binary-analysis.sqlite"} ELSE {})

\* Without a readable database every count is zero and no score is known.
DiffSummary ==
  [kind |-> "binary-diff", schema |-> 1, verdict |-> "undetermined",
   status |-> DiffStatus, finalized |-> TRUE, execution |-> "not-run",
   text |-> "whole", depth |-> 4, longest |-> 1,
   values |-> Bare.values, bytes |-> Bare.text,
   primary |-> "structural-graph", hashed |-> TRUE,
   scored |-> db = "whole", inRange |-> TRUE,
   matched |-> IF db = "whole" THEN 2 ELSE 0,
   changed |-> IF db = "whole" THEN 1 ELSE 0, ambiguous |-> 0,
   states |-> {steps[k] : k \in DOMAIN steps},
   refs |-> DiffRefs]

Summary == IF kind = "static" THEN StaticSummary ELSE DiffSummary

Nothing == [kind |-> "none", text |-> "torn", depth |-> 0, values |-> 0,
            bytes |-> 0, longest |-> 0]

\* The files below the output directory, the summary left out; the streams of
\* a tool count as one file.
Files(summaryFile) ==
  ({f \in Named : disk[f] # "absent"} \ {summaryFile})
    \cup (IF kind = "static" THEN printed ELSE DiffRefs)

FileCount(summaryFile) ==
  Cardinality(Files(summaryFile)) + extracted.files

\* What a run writes beside the extracted files is cut or capped file by file.
FileBytes == Bare.bytes + extracted.bytes

\* The report repeats the summary and lists the files.
ReportBytes == Bare.report + extracted.text + extracted.rows

SummaryFiles ==
  IF kind = "static" THEN {"result.json"}
  ELSE {"result.json", "binary-diff-summary.json"}

Idle == [pc |-> "idle", file |-> "result.json", after |-> FALSE,
         display |-> Nothing, files |-> {}]

Init ==
  /\ RunInit /\ StaticInit /\ DiffInit
  /\ manifest = "running" /\ validated = FALSE
  /\ reader = Idle
  \* A run of one kind leaves the other's variables alone.
  /\ kind = "static" => installed = {}
  /\ kind = "binary-diff" => role = "Target"

(***************************************************************************)
(* The runner.                                                             *)
(***************************************************************************)

Host == <<manifest, validated, reader>>

RunStatic == StaticStep /\ UNCHANGED <<diffVars, Host>>

RunDiff == DiffStep /\ UNCHANGED <<staticVars, Host>>

ToolsEnd ==
  \/ ToolReturns /\ UNCHANGED <<diffVars, Host>>
  \/ StageReturns /\ UNCHANGED <<staticVars, Host>>

KillTool ==
  \/ ToolIsKilled /\ UNCHANGED <<diffVars, Host>>
  \/ StageIsKilled /\ UNCHANGED <<staticVars, Host>>

Write ==
  (WriteStarts \/ WriteEnds \/ ExitsZero)
    /\ UNCHANGED <<staticVars, diffVars, Host>>

Die == Dies /\ UNCHANGED <<staticVars, diffVars, Host>>

Runner == RunStatic \/ RunDiff \/ KillTool \/ Write

(***************************************************************************)
(* The host that waits for the run.                                        *)
(***************************************************************************)

RunnerVars == <<runVars, staticVars, diffVars>>

\* podman returned: a status other than zero fails the case.
Returned ==
  /\ manifest = "running" /\ exit # "none"
  /\ manifest' = IF exit = "zero" THEN "complete" ELSE "failed"
  /\ UNCHANGED <<RunnerVars, validated, reader>>

\* The host's timeout ran out, which need not end the container.
GivesUp ==
  /\ manifest = "running" /\ exit = "none"
  /\ manifest' = "failed"
  /\ UNCHANGED <<RunnerVars, validated, reader>>

\* The file the host validates after a run that returned zero.
HostFile == IF kind = "static" THEN "result.json" ELSE "binary-diff-summary.json"

\* The validator lists the files and its report is not too long to take.
Reports(f) == Listable(FileCount(f), FileBytes) /\ ReportBytes <= MaxOutputBytes

Accepts(display) == Loads(display) /\ ValidSummary(display)

\* Read-MalwareEvidence on a finished case: nothing changes under it.
Validates ==
  /\ manifest = "complete" /\ ~validated
  /\ validated' = TRUE
  /\ manifest' = IF disk[HostFile] = "whole" /\ Accepts(Summary) /\ Reports(HostFile)
                 THEN manifest ELSE "untrusted-output-rejected"
  /\ UNCHANGED <<RunnerVars, reader>>

(***************************************************************************)
(* A reader: the summary is loaded and validated first, and the files of   *)
(* the case are listed after it.                                           *)
(***************************************************************************)

\* The summary exists, so Read-MalwareEvidence calls the validator.
Load ==
  /\ reader.pc = "idle"
  /\ \E f \in SummaryFiles :
       /\ disk[f] # "absent"
       /\ LET display == IF disk[f] = "whole" THEN Summary ELSE Nothing
          IN reader' = [pc |-> IF Accepts(display) THEN "loaded" ELSE "rejected",
                        file |-> f, after |-> exit = "zero", display |-> display,
                        files |-> {}]
  /\ UNCHANGED <<RunnerVars, manifest, validated>>

List ==
  /\ reader.pc = "loaded"
  /\ reader' = [reader EXCEPT
       !.pc = IF Reports(reader.file) THEN "accepted" ELSE "rejected",
       !.files = Files(reader.file)]
  /\ UNCHANGED <<RunnerVars, manifest, validated>>

\* The report is shown, and another may be asked for.
Again ==
  /\ reader.pc \in {"accepted", "rejected"}
  /\ reader' = Idle
  /\ UNCHANGED <<RunnerVars, manifest, validated>>

Next ==
  \/ RunStatic \/ RunDiff \/ ToolsEnd \/ KillTool \/ Write \/ Die
  \/ Returned \/ GivesUp \/ Validates
  \/ Load \/ List \/ Again

\* The runner goes on while it lives, and process.wait gives up on a tool;
\* that a tool ends by itself, and that anyone asks for a report, is assumed
\* of no one.
Spec ==
  Init /\ [][Next]_vars /\ WF_vars(Runner) /\ WF_vars(Returned) /\ WF_vars(Validates)

(***************************************************************************)
(* Properties.                                                             *)
(***************************************************************************)

TypeOK ==
  /\ RunTypeOK /\ StaticTypeOK /\ DiffTypeOK
  /\ manifest \in {"running", "complete", "failed", "untrusted-output-rejected"}
  /\ validated \in BOOLEAN
  /\ reader.pc \in {"idle", "loaded", "accepted", "rejected"}
  /\ manifest \in {"complete", "untrusted-output-rejected"} => exit = "zero"

\* A report that was accepted is of a run that had written all that the
\* report speaks of: whatever the reader's timing and however the container
\* died since, the files it lists contain every product the summary names and
\* the records finalised before it.
AcceptedIsFinished ==
  reader.pc = "accepted" =>
    /\ reader.display.refs \subseteq reader.files
    /\ kind = "static" =>
         {"tool-status.jsonl", "extracted-artifacts.json"} \subseteq reader.files
    /\ kind = "binary-diff" /\ reader.file = "result.json" =>
         "binary-diff-summary.json" \in reader.files

\* A static run is complete only if no applicable tool was missing or killed,
\* and a command that could not be started is excused only by another command
\* of its tool; a comparison is complete only with both graphs, a readable
\* database within the bound and a complete sidecar.
CompleteIsEarned ==
  reader.pc = "accepted" /\ reader.display.status = "complete" =>
    IF kind = "static"
    THEN role = "Target" =>
         \A t \in Applicable \cap ToolsOf :
           /\ log[t] # <<>> \/ (t = "sqlite" /\ "rizin" \notin ToolsOf)
           /\ \A i \in DOMAIN log[t] :
                /\ log[t][i] # "timed-out"
                /\ log[t][i] = "failed" =>
                     \E j \in DOMAIN log[t] : log[t][j] \in {"partial", "truncated"}
    ELSE /\ \A r \in Roles : graph[r] /\ jsonl[r] # "absent"
         /\ db = "whole" /\ ~tooMany
         /\ sidecar = "complete"

\* More was extracted than one of the validator's bounds admits: in values or
\* in bytes of the summary, in files, in the bytes of these, in the report.
TooMuch ==
  \/ Summary.values > MaxRecords
  \/ Summary.bytes > MaxBytes
  \/ \E f \in SummaryFiles : FileCount(f) > MaxRecords
  \/ FileBytes > MaxTotalBytes
  \/ ReportBytes > MaxOutputBytes

\* What a finished run leaves is what the validator takes, whichever tools were
\* missing, failed or were killed and whichever summary is asked for: it is
\* refused only for its amount.
FinishedIsAccepted ==
  (reader.pc = "rejected" /\ reader.after) \/ manifest = "untrusted-output-rejected"
    => TooMuch

\* A tool that hangs does not hold the run: the container ends, and the host
\* says how.
RunEnds ==
  <>(exit # "none" /\ (manifest = "failed" \/ validated))
=============================================================================
