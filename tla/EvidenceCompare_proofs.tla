----------------------- MODULE EvidenceCompare_proofs -----------------------
(* A tree is compared once both canonicalisations ended well.  That it is   *)
(* whole then has to be known from the moment the first file is listed: the *)
(* invariant says of every tree which of its files have still to be         *)
(* written, and that all others are as the listing asks.                    *)
EXTENDS EvidenceCompare, TLAPS, SequenceTheorems

Working == {"read-control", "read-target", "write-control", "write-target"}

CaseOf == [s \in Working |->
             IF s \in {"read-control", "write-control"} THEN "control" ELSE "target"]

Members(seq) == {seq[i] : i \in DOMAIN seq}

\* No file is written twice.
Distinct(seq) == \A i, j \in DOMAIN seq : seq[i] = seq[j] => i = j

Procs ==
  [case : Cases, at : {"idle", "load", "list", "write"}, canonical : BOOLEAN,
   loose : BOOLEAN, listed : SUBSET Parts, todo : Seq(CanonicalFile)]

TypeOK ==
  /\ step \in Working \cup {"check", "diff", "compared", "threw"}
  /\ proc \in Procs
  /\ tree \in [Cases -> [CanonicalFile -> {"absent", "torn", "whole"}]]
  /\ listing \in [Cases -> SUBSET Parts]

\* The ingestion in work is the one the comparison waits for.
InStep ==
  /\ proc.at # "idle" =>
       /\ step \in Working /\ proc.case = CaseOf[step]
       /\ proc.canonical <=> step \in {"write-control", "write-target"}
  /\ proc.at # "write" \/ step \in {"read-control", "read-target"}
       => proc.todo = <<>>
  /\ Distinct(proc.todo)
  /\ proc.at = "write" => Members(proc.todo) \subseteq Members(CanonicalFiles(listing[proc.case]))

Done(c) ==
  step \in IF c = "control" THEN {"write-target", "diff", "compared"}
           ELSE {"diff", "compared"}

Writing(c) == proc.at = "write" /\ proc.canonical /\ proc.case = c

\* The files of c that have still to be written.
Pending(c) ==
  IF Done(c) THEN {} ELSE IF Writing(c) THEN Members(proc.todo) ELSE CanonicalFile

\* A tree that holds what was listed, but for the files pending.
Holds(listed, pending) ==
  [f \in CanonicalFile |->
     IF f \in Members(CanonicalFiles(listed)) \ pending THEN "whole" ELSE "absent"]

TreesSoFar ==
  step # "threw" => \A c \in Cases : tree[c] = Holds(listing[c], Pending(c))

IInv == TypeOK /\ InStep /\ TreesSoFar

---------------------------------------------------------------------------
LEMMA NothingPending == Members(<<>>) = {} /\ Distinct(<<>>)
BY DEF Members, Distinct

LEMMA ConcatOfDistinct ==
  ASSUME NEW S, NEW s \in Seq(S), NEW t \in Seq(S), Distinct(s), Distinct(t),
         Members(s) \cap Members(t) = {}
  PROVE  /\ s \o t \in Seq(S)
         /\ Distinct(s \o t)
         /\ Members(s \o t) = Members(s) \cup Members(t)
<1>1. /\ s \o t \in Seq(S) /\ Len(s \o t) = Len(s) + Len(t)
      /\ \A i \in 1..Len(s) + Len(t) :
           (s \o t)[i] = IF i <= Len(s) THEN s[i] ELSE t[i - Len(s)]
  BY ConcatProperties
<1>2. /\ Len(s) \in Nat /\ Len(t) \in Nat /\ DOMAIN s = 1..Len(s) /\ DOMAIN t = 1..Len(t)
      /\ DOMAIN (s \o t) = 1..(Len(s) + Len(t))
  BY <1>1, LenProperties
<1>3. \A i \in DOMAIN (s \o t) :
        \/ i \in DOMAIN s /\ (s \o t)[i] = s[i] /\ s[i] \in Members(s)
        \/ /\ i > Len(s) /\ i - Len(s) \in DOMAIN t
           /\ (s \o t)[i] = t[i - Len(s)] /\ t[i - Len(s)] \in Members(t)
  BY <1>1, <1>2 DEF Members
<1>4. Distinct(s \o t)
  <2> SUFFICES ASSUME NEW i \in DOMAIN (s \o t), NEW j \in DOMAIN (s \o t),
                      (s \o t)[i] = (s \o t)[j]
               PROVE  i = j
    BY DEF Distinct
  <2>1. CASE i \in DOMAIN s
    <3>1. j \in DOMAIN s /\ s[i] = s[j]
      BY <1>2, <1>3, <2>1
    <3> QED BY <2>1, <3>1 DEF Distinct
  <2>2. CASE i \notin DOMAIN s
    <3>1. /\ i - Len(s) \in DOMAIN t /\ j - Len(s) \in DOMAIN t
          /\ t[i - Len(s)] = t[j - Len(s)]
      BY <1>2, <1>3, <2>2
    <3>2. i - Len(s) = j - Len(s)
      BY <3>1 DEF Distinct
    <3> QED BY <1>2, <3>2
  <2> QED BY <2>1, <2>2
<1>5. Members(s \o t) \subseteq Members(s) \cup Members(t)
  BY <1>3 DEF Members
<1>6. ASSUME NEW i \in DOMAIN s PROVE s[i] \in Members(s \o t)
  <2>1. i \in DOMAIN (s \o t) /\ (s \o t)[i] = s[i]
    BY <1>1, <1>2, <1>6
  <2> QED BY <2>1 DEF Members
<1>7. ASSUME NEW i \in DOMAIN t PROVE t[i] \in Members(s \o t)
  <2>1. i + Len(s) \in DOMAIN (s \o t) /\ (s \o t)[i + Len(s)] = t[i]
    BY <1>1, <1>2, <1>7
  <2> QED BY <2>1 DEF Members
<1> QED
  BY <1>1, <1>4, <1>5, <1>6, <1>7 DEF Members

LEMMA OfOne ==
  ASSUME NEW S, NEW x \in S
  PROVE  <<x>> \in Seq(S) /\ Distinct(<<x>>) /\ Members(<<x>>) = {x}
BY DEF Distinct, Members

\* The list of files a canonicalisation writes.
LEMMA FilesAreDistinct ==
  ASSUME NEW listed \in SUBSET Parts
  PROVE  /\ CanonicalFiles(listed) \in Seq(CanonicalFile)
         /\ Distinct(CanonicalFiles(listed))
<1> DEFINE If(p) == IF p \in listed THEN <<p>> ELSE <<>>
           upTo0 == <<"result.tsv">>
           upTo1 == upTo0 \o If("snapshot")
           upTo2 == upTo1 \o If("handles")
<1>1. \A p \in Parts : /\ If(p) \in Seq(CanonicalFile) /\ Distinct(If(p))
                       /\ Members(If(p)) \subseteq {p}
  BY OfOne, NothingPending, EmptySeq DEF CanonicalFile
<1>2. \A f \in {"result.tsv", "opaque-artifacts.tsv"} :
        /\ <<f>> \in Seq(CanonicalFile) /\ Distinct(<<f>>) /\ Members(<<f>>) = {f}
  BY OfOne DEF CanonicalFile
<1> HIDE DEF If
<1>3. /\ upTo1 \in Seq(CanonicalFile) /\ Distinct(upTo1)
      /\ Members(upTo1) \subseteq {"result.tsv", "snapshot"}
  <2>1. /\ If("snapshot") \in Seq(CanonicalFile) /\ Distinct(If("snapshot"))
        /\ Members(If("snapshot")) \subseteq {"snapshot"}
    BY <1>1 DEF Parts
  <2>2. /\ upTo0 \in Seq(CanonicalFile) /\ Distinct(upTo0)
        /\ Members(upTo0) = {"result.tsv"}
    BY <1>2
  <2> HIDE DEF upTo0
  <2> QED BY <2>1, <2>2, ConcatOfDistinct
<1> HIDE DEF upTo1
<1>4. /\ upTo2 \in Seq(CanonicalFile) /\ Distinct(upTo2)
      /\ Members(upTo2) \subseteq {"result.tsv", "snapshot", "handles"}
  BY <1>1, <1>3, ConcatOfDistinct DEF Parts
<1> HIDE DEF upTo2
<1>5. /\ upTo2 \o <<"opaque-artifacts.tsv">> \in Seq(CanonicalFile)
      /\ Distinct(upTo2 \o <<"opaque-artifacts.tsv">>)
  BY <1>2, <1>4, ConcatOfDistinct
<1>6. CanonicalFiles(listed) = upTo2 \o <<"opaque-artifacts.tsv">>
  BY Zenon DEF CanonicalFiles, If, upTo0, upTo1, upTo2
<1> QED BY <1>5, <1>6

\* Taking the head off a list without repetitions.
LEMMA TailWithoutHead ==
  ASSUME NEW S, NEW seq \in Seq(S), seq # <<>>, Distinct(seq)
  PROVE  /\ Head(seq) \in S /\ Tail(seq) \in Seq(S)
         /\ Distinct(Tail(seq))
         /\ Members(Tail(seq)) = Members(seq) \ {Head(seq)}
<1>1. /\ Head(seq) \in S /\ Tail(seq) \in Seq(S)
      /\ Len(Tail(seq)) = Len(seq) - 1
      /\ \A i \in 1..Len(Tail(seq)) : Tail(seq)[i] = seq[i + 1]
  BY HeadTailProperties
<1>2. /\ Len(seq) \in Nat \ {0} /\ DOMAIN seq = 1..Len(seq)
      /\ DOMAIN Tail(seq) = 1..(Len(seq) - 1)
  BY <1>1, EmptySeq, LenProperties
<1>3. Head(seq) = seq[1]
  BY <1>2
<1>4. Distinct(Tail(seq))
  <2> SUFFICES ASSUME NEW i \in 1..(Len(seq) - 1), NEW j \in 1..(Len(seq) - 1),
                      Tail(seq)[i] = Tail(seq)[j]
               PROVE  i = j
    BY <1>2 DEF Distinct
  <2>1. seq[i + 1] = seq[j + 1] /\ i + 1 \in DOMAIN seq /\ j + 1 \in DOMAIN seq
    BY <1>1, <1>2
  <2> QED BY <1>2, <2>1 DEF Distinct
<1>5. Members(Tail(seq)) \subseteq Members(seq) \ {Head(seq)}
  <2> SUFFICES ASSUME NEW i \in 1..(Len(seq) - 1)
               PROVE  Tail(seq)[i] \in Members(seq) \ {seq[1]}
    BY <1>2, <1>3 DEF Members
  <2>1. Tail(seq)[i] = seq[i + 1] /\ i + 1 \in DOMAIN seq /\ 1 \in DOMAIN seq /\ i + 1 # 1
    BY <1>1, <1>2
  <2> QED BY <2>1 DEF Members, Distinct
<1>6. Members(seq) \ {Head(seq)} \subseteq Members(Tail(seq))
  <2> SUFFICES ASSUME NEW i \in DOMAIN seq, seq[i] # seq[1]
               PROVE  seq[i] \in Members(Tail(seq))
    BY <1>3 DEF Members
  <2>1. i - 1 \in 1..(Len(seq) - 1) /\ seq[i] = Tail(seq)[i - 1]
    BY <1>1, <1>2
  <2> QED BY <1>2, <2>1 DEF Members
<1> QED BY <1>1, <1>4, <1>5, <1>6

---------------------------------------------------------------------------
LEMMA InitEstablishes == Init => IInv
<1> SUFFICES ASSUME Init PROVE IInv
  OBVIOUS
<1>1. proc = Idle /\ Idle \in Procs /\ Idle.at = "idle" /\ Idle.todo = <<>>
  BY EmptySeq DEF Init, Idle, Procs, Cases
<1>2. TypeOK
  BY <1>1 DEF Init, TypeOK, Working
<1>3. InStep
  BY <1>1, NothingPending DEF InStep
<1>4. \A c \in Cases : Pending(c) = CanonicalFile
  BY <1>1 DEF Init, Pending, Done, Writing
<1>5. TreesSoFar
  BY <1>4 DEF Init, TreesSoFar, Holds
<1> QED BY <1>2, <1>3, <1>5 DEF IInv

\* The status of the helper is looked at: a helper that did not end well ends
\* the comparison.
LEMMA RejectionKeepsInv ==
  ASSUME IInv, Rejects, listing' = listing,
         tree' \in [Cases -> [CanonicalFile -> {"absent", "torn", "whole"}]]
  PROVE  IInv'
<1>1. proc' = Idle /\ Idle \in Procs /\ Idle.at = "idle" /\ Idle.todo = <<>>
  BY EmptySeq DEF Rejects, Idle, Procs, Cases
<1> QED
  BY <1>1, NothingPending DEF IInv, TypeOK, InStep, TreesSoFar, Rejects

LEMMA StartKeepsInv == ASSUME IInv, Start PROVE IInv'
<1>1. PICK c \in Cases, canonical \in BOOLEAN :
        /\ step \in Working /\ c = CaseOf[step]
        /\ canonical <=> step \in {"write-control", "write-target"}
        /\ Starts(c, canonical)
  BY DEF Start, Cases, Working, CaseOf
<1>2. proc' = [Idle EXCEPT !.case = c, !.at = "load", !.canonical = canonical]
      /\ proc' \in Procs /\ proc'.at = "load" /\ proc'.todo = <<>>
      /\ proc'.case = c /\ proc'.canonical = canonical
  BY <1>1, EmptySeq DEF Starts, Idle, Procs, Cases
<1>3. TypeOK' /\ InStep'
  BY <1>1, <1>2, NothingPending DEF IInv, TypeOK, InStep, Starts
<1>4. \A d \in Cases : Pending(d)' = Pending(d)
  BY <1>1, <1>2 DEF Starts, Pending, Done, Writing
<1> QED
  BY <1>1, <1>3, <1>4 DEF IInv, TreesSoFar, Starts

LEMMA LoadKeepsInv == ASSUME IInv, Load PROVE IInv'
<1>1. CASE Rejects
  BY <1>1, RejectionKeepsInv DEF Load, IInv, TypeOK
<1>2. CASE /\ proc' = [proc EXCEPT !.at = "list",
                                   !.loose = content[Case].summary = "loose"]
           /\ UNCHANGED step
  <2>1. proc' \in Procs /\ proc'.at = "list" /\ proc'.todo = proc.todo
        /\ proc'.case = proc.case /\ proc'.canonical = proc.canonical
    BY <1>2 DEF IInv, TypeOK, Procs
  <2>2. TypeOK' /\ InStep'
    BY <1>2, <2>1 DEF Load, IInv, TypeOK, InStep
  <2>3. \A c \in Cases : Pending(c)' = Pending(c)
    BY <1>2, <2>1 DEF Load, Pending, Done, Writing
  <2> QED
    BY <1>2, <2>2, <2>3 DEF Load, IInv, TreesSoFar
<1> QED
  BY <1>1, <1>2 DEF Load

\* Nothing of a case has been written when its files are listed.
LEMMA ListKeepsInv == ASSUME IInv, List PROVE IInv'
<1> DEFINE found == {p \in Parts : content[Case][p] # "absent"}
           files == IF proc.canonical THEN CanonicalFiles(found) ELSE <<>>
<1>1. CASE Rejects /\ UNCHANGED listing
  BY <1>1, RejectionKeepsInv DEF List, IInv, TypeOK
<1>2. CASE /\ proc' = [proc EXCEPT !.at = "write", !.listed = found, !.todo = files]
           /\ listing' = IF proc.canonical
                         THEN [listing EXCEPT ![Case] = found] ELSE listing
           /\ UNCHANGED step
  <2>0. /\ proc.at = "list" /\ step \in Working /\ Case \in Cases /\ Case = CaseOf[step]
        /\ proc.canonical <=> step \in {"write-control", "write-target"}
        /\ found \in SUBSET Parts /\ tree' = tree
    BY DEF List, IInv, TypeOK, InStep, Procs, Case
  <2>1. files \in Seq(CanonicalFile) /\ Distinct(files)
    BY <2>0, FilesAreDistinct, NothingPending, EmptySeq
  <2>2. /\ proc' \in Procs /\ proc'.at = "write" /\ proc'.todo = files
        /\ proc'.case = Case /\ proc'.canonical = proc.canonical
    BY <1>2, <2>0, <2>1 DEF IInv, TypeOK, Procs, Case
  <2>3. /\ listing' \in [Cases -> SUBSET Parts]
        /\ proc.canonical => listing'[Case] = found
        /\ \A c \in Cases : c # Case => listing'[c] = listing[c]
    BY <1>2, <2>0 DEF IInv, TypeOK
  <2>4. TypeOK' 
    BY <1>2, <2>0, <2>2, <2>3 DEF IInv, TypeOK
  <2>5. InStep'
    BY <1>2, <2>0, <2>1, <2>2, <2>3, NothingPending DEF InStep
  <2>6. ASSUME NEW c \in Cases PROVE tree'[c] = Holds(listing'[c], Pending(c)')
    <3>0. tree[c] = Holds(listing[c], Pending(c))
      BY <2>0 DEF IInv, TreesSoFar, Working
    <3>1. CASE c = Case /\ proc.canonical
      <4>1. ~Done(c) /\ ~Writing(c) /\ ~Done(c)' /\ Writing(c)'
        BY <1>2, <2>0, <2>2, <3>1 DEF Done, Writing, CaseOf, Working, Cases
      <4>2. Pending(c) = CanonicalFile /\ Pending(c)' = Members(CanonicalFiles(listing'[c]))
        BY <2>2, <2>3, <3>1, <4>1 DEF Pending
      <4> QED
        BY <2>0, <3>0, <4>2 DEF Holds
    <3>2. CASE ~(c = Case /\ proc.canonical)
      <4>1. Pending(c)' = Pending(c) /\ listing'[c] = listing[c]
        BY <1>2, <2>0, <2>2, <2>3, <3>2 DEF Pending, Done, Writing
      <4> QED
        BY <2>0, <3>0, <4>1
    <3> QED BY <3>1, <3>2
  <2> QED
    BY <2>4, <2>5, <2>6 DEF IInv, TreesSoFar
<1> QED
  BY <1>1, <1>2 DEF List

LEMMA WriteKeepsInv == ASSUME IInv, Write PROVE IInv'
<1> DEFINE f == Head(proc.todo)
<1>1. CASE Rejects /\ UNCHANGED tree
  BY <1>1, RejectionKeepsInv DEF Write, IInv, TypeOK
<1>2. CASE /\ tree' = [tree EXCEPT ![Case][f] = "whole"]
           /\ proc' = [proc EXCEPT !.todo = Tail(proc.todo)]
           /\ UNCHANGED step
  <2>0. /\ proc.at = "write" /\ proc.todo # <<>> /\ Distinct(proc.todo)
        /\ step \in {"write-control", "write-target"} /\ Case = CaseOf[step]
        /\ Case \in Cases /\ proc.canonical /\ listing' = listing
        /\ proc.todo \in Seq(CanonicalFile)
        /\ Members(proc.todo) \subseteq Members(CanonicalFiles(listing[Case]))
    BY DEF Write, IInv, TypeOK, InStep, Procs, Case, Working
  <2>1. /\ f \in CanonicalFile /\ Tail(proc.todo) \in Seq(CanonicalFile)
        /\ Distinct(Tail(proc.todo))
        /\ Members(Tail(proc.todo)) = Members(proc.todo) \ {f}
    BY <2>0, TailWithoutHead
  <2>2. f \in Members(proc.todo)
    BY <2>0, EmptySeq, LenProperties DEF Members
  <2>3. /\ proc' \in Procs /\ proc'.at = "write" /\ proc'.todo = Tail(proc.todo)
        /\ proc'.case = Case /\ proc'.canonical = proc.canonical
    BY <1>2, <2>0, <2>1 DEF IInv, TypeOK, Procs, Case
  <2>4. /\ tree' \in [Cases -> [CanonicalFile -> {"absent", "torn", "whole"}]]
        /\ tree'[Case] = [tree[Case] EXCEPT ![f] = "whole"]
        /\ \A c \in Cases : c # Case => tree'[c] = tree[c]
    BY <1>2, <2>0, <2>1 DEF IInv, TypeOK
  <2>5. TypeOK' /\ InStep'
    BY <1>2, <2>0, <2>1, <2>3, <2>4 DEF IInv, TypeOK, InStep, Case, CaseOf
  <2>6. ASSUME NEW c \in Cases PROVE tree'[c] = Holds(listing'[c], Pending(c)')
    <3>0. tree[c] = Holds(listing[c], Pending(c))
      BY <2>0 DEF IInv, TreesSoFar
    <3>1. CASE c = Case
      <4>1. ~Done(c) /\ Writing(c) /\ ~Done(c)' /\ Writing(c)'
        BY <1>2, <2>0, <2>3, <3>1 DEF Done, Writing, CaseOf, Working, Case
      <4>2. Pending(c) = Members(proc.todo) /\ Pending(c)' = Members(proc.todo) \ {f}
        BY <2>1, <2>3, <4>1 DEF Pending
      <4> QED
        BY <2>0, <2>1, <2>2, <2>4, <3>0, <3>1, <4>2 DEF Holds
    <3>2. CASE c # Case
      <4>1. Pending(c)' = Pending(c)
        BY <1>2, <2>0, <2>3, <3>2 DEF Pending, Done, Writing, Case
      <4> QED
        BY <2>0, <2>4, <3>0, <3>2, <4>1
    <3> QED BY <3>1, <3>2
  <2> QED
    BY <2>5, <2>6 DEF IInv, TreesSoFar
<1> QED
  BY <1>1, <1>2 DEF Write

\* An ingestion that ends has nothing left to write.
LEMMA EndsKeepsInv == ASSUME IInv, Ends PROVE IInv'
<1>1. /\ proc.at = "write" /\ proc.todo = <<>> /\ step \in Working /\ Case = CaseOf[step]
      /\ proc.canonical <=> step \in {"write-control", "write-target"}
      /\ step' = After[step] /\ tree' = tree /\ listing' = listing
  BY DEF Ends, IInv, TypeOK, InStep, Case
<1>2. proc' = Idle /\ Idle \in Procs /\ Idle.at = "idle" /\ Idle.todo = <<>>
  BY EmptySeq DEF Ends, Idle, Procs, Cases
<1>3. /\ step = "read-control" => step' = "read-target"
      /\ step = "read-target" => step' = "check"
      /\ step = "write-control" => step' = "write-target"
      /\ step = "write-target" => step' = "diff"
  BY <1>1 DEF After
<1>4. TypeOK' /\ InStep'
  BY <1>1, <1>2, <1>3, NothingPending DEF IInv, TypeOK, InStep, Working
<1>5. \A c \in Cases : Pending(c)' = Pending(c)
  BY <1>1, <1>2, <1>3, NothingPending
     DEF Pending, Done, Writing, CaseOf, Working, Cases, Case
<1> QED
  BY <1>1, <1>3, <1>4, <1>5 DEF IInv, TreesSoFar, Working

LEMMA KilledKeepsInv == ASSUME IInv, Killed PROVE IInv'
<1>1. tree' \in [Cases -> [CanonicalFile -> {"absent", "torn", "whole"}]]
  <2>1. CASE proc.todo = <<>>
    BY <2>1 DEF Killed, IInv, TypeOK
  <2>2. CASE proc.todo # <<>>
    <3>1. Head(proc.todo) \in CanonicalFile /\ Case \in Cases
      BY <2>2, TailWithoutHead DEF IInv, TypeOK, InStep, Procs, Case
    <3> QED BY <2>2, <3>1 DEF Killed, IInv, TypeOK
  <2> QED BY <2>1, <2>2
<1> QED
  BY <1>1, RejectionKeepsInv DEF Killed

\* The checks between the readings and the comparison itself.
LEMMA HostKeepsInv == ASSUME IInv, Check \/ Diff PROVE IInv'
<1>1. /\ step \in {"check", "diff"} /\ proc.at = "idle"
      /\ UNCHANGED <<proc, tree, listing>>
      /\ step = "check" => step' \in {"write-control", "threw"}
      /\ step = "diff" => step' \in {"compared", "threw"}
  BY DEF Check, Diff, IInv, InStep, Working
<1>2. TypeOK' /\ InStep'
  BY <1>1 DEF IInv, TypeOK, InStep, Working
<1>3. step' # "threw" => \A c \in Cases : Pending(c)' = Pending(c)
  BY <1>1 DEF Pending, Done, Writing
<1> QED
  BY <1>1, <1>2, <1>3 DEF IInv, TreesSoFar

LEMMA NextKeepsInv == IInv /\ [Next]_vars => IInv'
<1> SUFFICES ASSUME IInv, [Next]_vars PROVE IInv'
  OBVIOUS
<1>1. CASE \E c \in Cases : GuestWrites(c)
  BY <1>1 DEF IInv, TypeOK, InStep, TreesSoFar, Pending, Done, Writing, GuestWrites
<1>2. CASE UNCHANGED vars
  BY <1>2 DEF IInv, TypeOK, InStep, TreesSoFar, Pending, Done, Writing, vars
<1> QED
  BY <1>1, <1>2, StartKeepsInv, LoadKeepsInv, ListKeepsInv, WriteKeepsInv,
     EndsKeepsInv, KilledKeepsInv, HostKeepsInv DEF Next

\* The invariant of the comparison holds whatever the cases hold, wherever its
\* directory lies, and whenever an ingestion is killed or a guest writes.
THEOREM Invariance == Spec => []IInv
BY InitEstablishes, NextKeepsInv, PTL DEF Spec

\* Only whole trees are compared (Compare-MalwareEvidence.ps1, the canonical
\* directories of canonicalize_case).
THEOREM OnlyWholeTreesAreCompared == Spec => []ComparedTreesAreWhole
<1>1. IInv => ComparedTreesAreWhole
  <2> SUFFICES ASSUME IInv, step \in {"diff", "compared"}, NEW c \in Cases
               PROVE  LET files == CanonicalFiles(listing[c])
                      IN tree[c] = [f \in CanonicalFile |->
                                      IF \E i \in DOMAIN files : files[i] = f
                                      THEN "whole" ELSE "absent"]
    BY DEF ComparedTreesAreWhole
  <2>1. tree[c] = Holds(listing[c], {})
    BY DEF IInv, TreesSoFar, Pending, Done
  <2> QED BY <2>1 DEF Holds, Members
<1> QED
  BY <1>1, Invariance, PTL
=============================================================================
