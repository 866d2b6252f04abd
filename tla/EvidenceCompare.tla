--------------------------- MODULE EvidenceCompare --------------------------
(***************************************************************************)
(* src/scripts/Compare-MalwareEvidence.ps1 over two cases: both are read,  *)
(* found compatible, canonicalised one after the other into a directory of *)
(* the comparison's own, and compared there by git.  Every reading is a    *)
(* process of src/linux/malware-analysis/evidence_ingest.py, which may be  *)
(* killed at any step.                                                     *)
(*                                                                         *)
(* Everything below a case is hostile: it may hold anything, and a guest   *)
(* that is left open may write between two steps of the host.              *)
(***************************************************************************)
EXTENDS EvidenceIngest, Sequences

CONSTANTS
  Contents,   \* what a case may hold
  Places      \* where the user puts the comparison: outside, or in a case

VARIABLES
  place,      \* the directory chosen
  content,    \* case to what its directory holds
  open,       \* the cases whose guest still runs
  step,       \* where Compare-MalwareEvidence is
  proc,       \* the ingestion in work
  tree,       \* case to the files of its canonical directory
  listing     \* history: case to what its canonicalisation had listed

vars == <<place, content, open, step, proc, tree, listing>>

Cases == {"control", "target"}

Parts == {"snapshot", "handles"}

\* A case: its summary, the hash reports of both boundaries, and its two kinds
\* of structured evidence.  A "loose" summary is valid and still holds a
\* finding that no line can be made of.
Content ==
  [summary : {"valid", "loose", "torn"},
   host : HashReports, sandbox : HashReports,
   snapshot : {"absent", "valid", "invalid"},
   handles : {"absent", "valid", "invalid"}]

ASSUME ContentsAssumption ==
  Contents \subseteq Content /\ Places \subseteq Cases \cup {"outside"}

CanonicalFile ==
  {"result.tsv", "opaque-artifacts.tsv"} \cup Parts

\* The files canonicalize_case writes, in its order.  The hash reports are left
\* out of a comparison.
CanonicalFiles(listed) ==
  <<"result.tsv">>
    \o (IF "snapshot" \in listed THEN <<"snapshot">> ELSE <<>>)
    \o (IF "handles" \in listed THEN <<"handles">> ELSE <<>>)
    \o <<"opaque-artifacts.tsv">>

Idle == [case |-> "control", at |-> "idle", canonical |-> FALSE,
         loose |-> FALSE, listed |-> {}, todo |-> <<>>]

Init ==
  /\ place \in Places
  /\ content \in [Cases -> Contents]
  /\ open \in SUBSET Cases
  /\ step = "read-control"
  /\ proc = Idle
  /\ tree = [c \in Cases |-> [f \in CanonicalFile |-> "absent"]]
  /\ listing = [c \in Cases |-> {}]

\* The guest of an open case writes over its evidence and is closed.
GuestWrites(c) ==
  /\ c \in open
  /\ content' \in {[content EXCEPT ![c] = new] : new \in Contents}
  /\ open' = open \ {c}
  /\ UNCHANGED <<place, step, proc, tree, listing>>

(***************************************************************************)
(* One ingestion.                                                          *)
(***************************************************************************)

Case == proc.case

\* What follows an ingestion that ended well.
After ==
  [s \in {"read-control", "read-target", "write-control", "write-target"} |->
     CASE s = "read-control" -> "read-target"
       [] s = "read-target" -> "check"
       [] s = "write-control" -> "write-target"
       [] s = "write-target" -> "diff"]

\* Mutant: the status of the helper is not looked at.
RejectsQuietly == step' = After[step] /\ proc' = Idle

\* The helper ends with a status other than zero, Read-MalwareEvidence throws
\* and nothing catches it.
Rejects == step' = "threw" /\ proc' = Idle

Starts(c, canonical) ==
  /\ proc.at = "idle"
  /\ proc' = [Idle EXCEPT !.case = c, !.at = "load", !.canonical = canonical]
  /\ UNCHANGED <<place, content, open, step, tree, listing>>

Start ==
  \/ step = "read-control" /\ Starts("control", FALSE)
  \/ step = "read-target" /\ Starts("target", FALSE)
  \/ step = "write-control" /\ Starts("control", TRUE)
  \/ step = "write-target" /\ Starts("target", TRUE)

Load ==
  /\ proc.at = "load"
  /\ IF content[Case].summary = "torn" THEN Rejects
     ELSE /\ proc' = [proc EXCEPT !.at = "list",
                                  !.loose = content[Case].summary = "loose"]
          /\ UNCHANGED step
  /\ UNCHANGED <<place, content, open, tree, listing>>

\* The canonical directory lies in the case that is being canonicalised.
OwnCase == place = Case

\* The files are listed and the hash reports read; then the destination and
\* what the summary says are checked before the first file is written.
List ==
  /\ proc.at = "list"
  /\ LET found == {p \in Parts : content[Case][p] # "absent"}
         refused == \/ ~ReportsLoad(content[Case].host, content[Case].sandbox)
                    \/ proc.canonical /\ (OwnCase \/ proc.loose)
     IN IF refused
        THEN Rejects /\ UNCHANGED listing
        ELSE /\ proc' = [proc EXCEPT !.at = "write", !.listed = found,
                           !.todo = IF proc.canonical THEN CanonicalFiles(found)
                                    ELSE <<>>]
             /\ listing' = IF proc.canonical
                           THEN [listing EXCEPT ![Case] = found] ELSE listing
             /\ UNCHANGED step
  /\ UNCHANGED <<place, content, open, tree>>

\* One file of the canonical directory.  Structured evidence is read now: it
\* may have changed or gone since it was listed.
Write ==
  /\ proc.at = "write" /\ proc.todo # <<>>
  /\ LET f == Head(proc.todo)
     IN IF f \in Parts /\ content[Case][f] # "valid"
        THEN Rejects /\ UNCHANGED tree
        ELSE /\ tree' = [tree EXCEPT ![Case][f] = "whole"]
             /\ proc' = [proc EXCEPT !.todo = Tail(proc.todo)]
             /\ UNCHANGED step
  /\ UNCHANGED <<place, content, open, listing>>

\* The helper prints its record and ends with zero.
Ends ==
  /\ proc.at = "write" /\ proc.todo = <<>>
  /\ proc' = Idle
  /\ step' = After[step]
  /\ UNCHANGED <<place, content, open, tree, listing>>

\* The helper is killed, perhaps inside a file.
Killed ==
  /\ proc.at # "idle"
  /\ Rejects
  /\ IF proc.todo = <<>> THEN UNCHANGED tree
     ELSE tree' \in {tree, [tree EXCEPT ![Case][Head(proc.todo)] = "torn"]}
  /\ UNCHANGED <<place, content, open, listing>>

(***************************************************************************)
(* The comparison around them.                                             *)
(***************************************************************************)

\* The host's own manifests agree or they do not; git is there or it is not.
Check ==
  /\ step = "check"
  /\ step' \in {"write-control", "threw"}
  /\ UNCHANGED <<place, content, open, proc, tree, listing>>

\* git ends with 0 or 1, the differences are kept and the report is written.
Diff ==
  /\ step = "diff"
  /\ step' \in {"compared", "threw"}
  /\ UNCHANGED <<place, content, open, proc, tree, listing>>

Next ==
  \/ \E c \in Cases : GuestWrites(c)
  \/ Start \/ Load \/ List \/ Write \/ Ends \/ Killed \/ Check \/ Diff

Spec == Init /\ [][Next]_vars

(***************************************************************************)
(* Property.                                                               *)
(***************************************************************************)

\* Two trees are compared only when each is the whole of one canonicalisation
\* that ended well: every file for what it had listed, no other, none torn,
\* although any ingestion may be killed or refused in the middle and a guest
\* may write between the steps.
ComparedTreesAreWhole ==
  step \in {"diff", "compared"} =>
    \A c \in Cases :
      LET files == CanonicalFiles(listing[c])
      IN tree[c] = [f \in CanonicalFile |->
                      IF \E i \in DOMAIN files : files[i] = f
                      THEN "whole" ELSE "absent"]
=============================================================================
