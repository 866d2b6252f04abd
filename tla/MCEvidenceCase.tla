--------------------------- MODULE MCEvidenceCase ---------------------------
(***************************************************************************)
(* One case of either kind.  The inventory keeps one tool of each shape:   *)
(* one that no family names, the listing done in the runner, a tool of two *)
(* commands, and Rizin with the index that follows it.                     *)
(***************************************************************************)
EXTENDS EvidenceCase

MCInventory == <<"bindiff", "ooxml-inventory", "qpdf", "rizin", "sqlite">>

Extraction(files, bytes, text, rows) ==
  [files |-> files, bytes |-> bytes, text |-> text, rows |-> rows]

MCBare == [values |-> 10, text |-> 1, bytes |-> 1, report |-> 2]

\* Nothing and a file within every bound; then a file that is large, one with a
\* long name, one that a report repeats at length, files of too many records,
\* and too many files.
MCExtractions ==
  {NoExtraction, Extraction(1, 1, 1, 1), Extraction(1, 5, 1, 1), Extraction(1, 1, 3, 1),
   Extraction(1, 1, 1, 4), Extraction(4, 1, 1, 1), Extraction(21, 1, 1, 1)}

\* A comparison tells only complete from not complete, an analysis also what
\* was cut.
MCReturnStates ==
  [k \in Kinds |-> IF k = "static" THEN {"complete", "partial", "truncated"}
                   ELSE {"complete", "partial"}]
=============================================================================
