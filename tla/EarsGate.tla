------------------------------ MODULE EarsGate ------------------------------
(***************************************************************************)
(* The checks of                                                           *)
(* src/.specify/extensions/ears-validate/scripts/ears_sdd.py over a        *)
(* specification, its traceability file, the policy of the project and its *)
(* production code.  A document is what the checks measure of it; a check  *)
(* gives the set of the codes it found, and every code is an error.        *)
(***************************************************************************)
EXTENDS Naturals, Sequences, FiniteSets

Phases == <<"spec", "plan", "tasks", "final">>

\* The checks of the traceability file run in every phase but the first.
Traced(phase) == phase \in {"plan", "tasks", "final"}

(***************************************************************************)
(* A requirement: its identifier and its sentence, of which is known how   *)
(* it starts ("glued": a keyword with no space after it), how often it     *)
(* says shall, whether it uses another modal verb, whether there is        *)
(* something on each side of the first shall, where the first comma is,    *)
(* and whether ", then " comes before shall.                               *)
(***************************************************************************)
Sentences ==
  [start : {"when", "while", "where", "if", "glued", "other"}, shalls : 0..2,
   modal : BOOLEAN, subject : BOOLEAN, response : BOOLEAN,
   comma : {"none", "before", "after"}, then : BOOLEAN]

\* validate_ears; without a shall nothing is asked of the rest.
EarsFindings(s) ==
  {c \in {"EARS_SHALL", "EARS_MODAL", "EARS_INCOMPLETE", "EARS_CLAUSE",
          "EARS_UNWANTED", "EARS_PREFIX"} :
     CASE c = "EARS_SHALL" -> s.shalls # 1
       [] c = "EARS_MODAL" -> s.modal
       [] c = "EARS_INCOMPLETE" -> s.shalls > 0 /\ ~(s.subject /\ s.response)
       [] c = "EARS_CLAUSE" ->
            s.shalls > 0 /\ s.start \in {"when", "while", "where"} /\ s.comma # "before"
       [] c = "EARS_UNWANTED" -> s.shalls > 0 /\ s.start = "if" /\ ~s.then
       [] c = "EARS_PREFIX" -> s.shalls > 0 /\ s.start = "glued"}

\* The lines with requirements: of those with one identifier the first counts.
FirstLines(doc) ==
  {i \in DOMAIN doc.lines : \A j \in 1..(i - 1) : doc.lines[j].id # doc.lines[i].id}

Requirements(doc) ==
  IF doc.text = "readable" THEN {doc.lines[i].id : i \in DOMAIN doc.lines} ELSE {}

\* parse_requirements.
SpecFindings(doc) ==
  IF doc.text = "absent" THEN {"SPEC_MISSING"}
  ELSE IF doc.text = "unreadable" THEN {"SPEC_UNREADABLE"}
  ELSE (UNION {EarsFindings(doc.lines[i].sentence) : i \in FirstLines(doc)})
         \cup (IF FirstLines(doc) # DOMAIN doc.lines THEN {"REQ_DUPLICATE"} ELSE {})
         \cup (IF doc.lines = <<>> THEN {"REQ_NONE"} ELSE {})

(***************************************************************************)
(* Traceability: the file may be missing, not be TOML, or map identifiers  *)
(* to entries.  A test is known by whether it lies in a test root and      *)
(* whether its file exists.                                                *)
(***************************************************************************)

TestFindings(test, policy) ==
  (IF policy.roots /\ ~test.inRoot THEN {"TRACE_TEST_ROOT"} ELSE {})
    \cup (IF policy.requireFiles /\ ~test.exists THEN {"TRACE_TEST_FILE"} ELSE {})

EntryFindings(e, policy) ==
  CASE e.mode = "not-a-table" -> {"TRACE_ENTRY"}
    [] e.mode = "automated" ->
         IF e.tests = {} THEN {"TRACE_TESTS"}
         ELSE UNION {TestFindings(t, policy) : t \in e.tests}
    [] e.mode = "manual" -> IF e.rationale THEN {} ELSE {"TRACE_MANUAL"}
    [] OTHER -> {"TRACE_MODE"}

\* load_traceability and validate_traceability.
TraceFindings(doc, trace, policy) ==
  LET ids == Requirements(doc)
      mapped == DOMAIN trace.entries
  IN CASE trace.file = "absent" -> {"TRACE_MISSING"}
       [] trace.file = "invalid" -> {"TRACE_INVALID"}
       [] trace.file = "valid" ->
            (IF ids \ mapped # {} THEN {"TRACE_MISSING_REQ"} ELSE {})
              \cup (IF mapped \ ids # {} THEN {"TRACE_UNKNOWN_REQ"} ELSE {})
              \cup UNION {EntryFindings(trace.entries[r], policy) :
                            r \in ids \cap mapped}

(***************************************************************************)
(* The project: its policy, and what the readable source files below the   *)
(* production roots say of requirements.                                   *)
(***************************************************************************)

\* load_config: with no readable policy the defaults hold, and they have no
\* test command.
ConfigFindings(policy) ==
  CASE policy.file = "absent" -> {"CONFIG_MISSING"}
    [] policy.file = "invalid" -> {"CONFIG_INVALID"}
    [] policy.file = "valid" -> {}

\* validate_separation; prose of fewer than forty characters is not looked for.
SeparationFindings(ids, production) ==
  (IF ids \cap production.ids # {} THEN {"CODE_REQ_ID"} ELSE {})
    \cup (IF ids \cap production.prose # {} THEN {"CODE_REQ_PROSE"} ELSE {})

FinalFindings(ids, policy, production) ==
  (IF policy.testCommand /\ policy.file = "valid" THEN {} ELSE {"TEST_COMMAND"})
    \cup SeparationFindings(ids, production)

\* validate_project over features, each with a document and its traceability.
GateFindings(phase, features, policy, production) ==
  ConfigFindings(policy)
    \cup (IF features = {} THEN {"SPEC_NONE"} ELSE {})
    \cup (UNION {SpecFindings(f.doc) : f \in features})
    \cup (IF Traced(phase)
          THEN UNION {TraceFindings(f.doc, f.trace, policy) : f \in features} ELSE {})
    \cup (IF phase = "final"
          THEN FinalFindings(UNION {Requirements(f.doc) : f \in features}, policy,
                             production)
          ELSE {})
=============================================================================
