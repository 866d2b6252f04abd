--------------------------- MODULE EvidenceIngest ---------------------------
(***************************************************************************)
(* src/linux/malware-analysis/evidence_ingest.py as operators: what it     *)
(* takes for a valid document, a valid summary and a valid hash report,    *)
(* what it lists, and which files it writes into a canonical directory.    *)
(*                                                                         *)
(* A document is its text and what validate_shape measures of it:          *)
(* how deep it nests, how many values it has, containers included, and its *)
(* longest string, next to the bytes of the text.  One cut short is "torn". *)
(***************************************************************************)
EXTENDS Naturals, FiniteSets

CONSTANTS
  MaxBytes,       \* of the summary's text
  MaxRecords,     \* of the values in a document, and of the files listed
  MaxDepth, MaxString,
  MaxTotalBytes   \* of the files listed, together

ASSUME LimitsAreCounts ==
  {MaxBytes, MaxRecords, MaxDepth, MaxString, MaxTotalBytes} \subseteq Nat

ValidShape(doc) ==
  /\ doc.depth <= MaxDepth
  /\ doc.values <= MaxRecords
  /\ doc.longest <= MaxString

\* load_json_file returns rather than raises.
Loads(doc) == doc.bytes <= MaxBytes /\ doc.text = "whole" /\ ValidShape(doc)

GraphStates ==
  {"complete", "partial", "failed", "timed-out", "truncated", "missing-tool"}

\* validate_binary_diff_summary; scored says that both scores are present,
\* and inRange that those present lie between 0 and 1.
ValidBinaryDiff(s) ==
  /\ s.status \in {"complete", "partial"} /\ s.finalized
  /\ s.primary = "structural-graph"
  /\ s.execution = "not-run"
  /\ s.hashed
  /\ s.inRange
  /\ s.changed <= s.matched /\ s.ambiguous <= s.matched
  /\ s.status = "complete" => s.scored
  /\ s.states \subseteq GraphStates

\* validate_summary: only a binary comparison has a schema of its own.
ValidSummary(s) ==
  /\ s.schema = 1
  /\ s.verdict = "undetermined"
  /\ s.kind = "binary-diff" => ValidBinaryDiff(s)

\* enumerate_artifacts raises when there are too many files to list, or too
\* many bytes in them.
Listable(count, bytes) == count <= MaxRecords /\ bytes <= MaxTotalBytes

\* The hash report of a boundary: not collected, valid or not.
HashReports == {"none", "valid", "invalid"}

\* Reports that are there have to be valid, each of its own.
ReportsLoad(host, sandbox) == "invalid" \notin {host, sandbox}
=============================================================================
