------------------------ MODULE SpecFeatures_proofs ------------------------
(***************************************************************************)
(* Proofs about the features and the commands that work on them, for every *)
(* set of names, documents, policies and template stacks, and for every    *)
(* number of commands and edits.                                           *)
(*                                                                         *)
(* A command remembers between its steps what it saw before them.  The     *)
(* invariant says for each point a command may be at what is still true    *)
(* of the files it saw: nothing but the command itself, or its being       *)
(* killed, happens before it ends.                                         *)
(*                                                                         *)
(* The second part is about the templates: for every stack of layers the   *)
(* text that is composed holds the layers it should, in their order.       *)
(***************************************************************************)
EXTENDS SpecFeatures, TLAPS, FiniteSetTheorems

Unwritten == {Absent, Torn, Empty, Template}

\* What a specification may hold, and what a plan.
SpecContents == Unwritten \cup {Written(d.doc) : d \in Documents}
PlanContents == Unwritten \cup {Written(<<>>)}

FilesTyped ==
  /\ dirs \subseteq Names /\ IsFiniteSet(dirs)
  /\ tasks \subseteq dirs
  /\ spec \in [Names -> SpecContents]
  /\ plan \in [Names -> PlanContents]
  /\ \A n \in Names \ dirs : spec[n] = Absent /\ plan[n] = Absent

BoundsTyped ==
  /\ commands \in 0..MaxCommands /\ edits \in 0..MaxEdits
  /\ stack \in Stacks \/ commands = MaxCommands

\* The active feature is one that was asked for.
ActiveWanted ==
  /\ active \in {NoFeature, TornFeature} \cup {Active(n) : n \in Names}
  /\ active.is = "names" => active.name \in wanted

Creations ==
  [op : {"create"}, at : {"mkdir", "open", "write", "persist", "persisting", "persisted"},
   name : Names, way : {"next", "asked", "instead"}, needs : BOOLEAN,
   text : {Resolution[s].kind : s \in Stacks}]

Works ==
  [op : {"plan", "tasks", "check"}, at : {"persist", "persisting", "persisted", "open", "write"},
   name : Names, selects : BOOLEAN, options : SUBSET {"tasks", "template"}]

CommandTyped ==
  /\ cmd \in {Idle} \cup Creations \cup Works
  /\ cmd # Idle => last = Nothing /\ cmd.name \in wanted

\* A name given in this way is apart from the directories of D, see
\* OneFeaturePerNumber.
Apart(D, name, way) ==
  \A e \in D : name.form # "time" /\ name.num = e.num =>
    \/ way = "asked" /\ e.form = "padded"
    \/ way = "next" /\ e.form = "time"

\* What a creation saw before it made the directory holds until it acts on it.
CreationKnows ==
  cmd.op = "create" =>
    /\ cmd.at = "mkdir" =>
         /\ cmd.name \in dirs \/ Apart(dirs, cmd.name, cmd.way)
         /\ cmd.needs <=> spec[cmd.name] = Absent
    /\ cmd.at = "open" => cmd.name \in dirs /\ spec[cmd.name] = Absent
    /\ cmd.at = "write" => spec[cmd.name] = Torn
    /\ cmd.at \in {"persist", "persisting"} => spec[cmd.name] # Absent

PlanKnows ==
  cmd.op = "plan" =>
    /\ cmd.at = "open" => cmd.name \in dirs
    /\ cmd.at = "write" => plan[cmd.name] = Torn

\* A command that is past the persisting works on the active feature.
PastPersisting ==
  \/ cmd.op = "create" /\ cmd.at = "persisted"
  \/ cmd.op \in {"plan", "tasks", "check"} /\ cmd.at \in {"persisted", "open", "write"}

Persisted == PastPersisting => active = Active(cmd.name)

\* A feature a creation made active has a specification.
MadeWhole == \A n \in made : n \in Names /\ spec[n] # Absent

Inv ==
  /\ FilesTyped
  /\ BoundsTyped
  /\ ActiveWanted
  /\ CommandTyped
  /\ CreationKnows
  /\ PlanKnows
  /\ Persisted
  /\ MadeWhole
  /\ SelectionIsKept

(***************************************************************************)
(* Numbers.  A set of numbers has a least one, because the intervals from  *)
(* zero up to its members are finite sets and inclusion between finite     *)
(* sets is well-founded.                                                   *)
(***************************************************************************)

\* Every set of numbers has a least one.  The sets 0..k are finite, and no chain of
\* finite sets goes down for ever.
LEMMA LeastNumber ==
  ASSUME NEW K \in SUBSET Nat, K # {}
  PROVE  \E m \in K : \A k \in K : m <= k
<1> DEFINE Upto(k) == 0..k
           T == {Upto(k) : k \in K}
<1>1. \A k \in Nat : Upto(k) \in FiniteSubsetsOf(Nat)
  BY FS_Interval DEF FiniteSubsetsOf
<1>2. T \subseteq FiniteSubsetsOf(Nat) /\ T # {}
  BY <1>1
<1> HIDE DEF T, Upto
<1>3. PICK x \in T : \A y \in T : ~(<<y, x>> \in StrictSubsetOrdering(Nat))
  BY <1>2, FS_StrictSubsetOrderingWellFounded, WFMin, Zenon
<1>4. PICK m \in K : x = Upto(m)
  BY DEF T
<1>5. ASSUME NEW k \in K, k < m PROVE FALSE
  <2>1. Upto(k) \subseteq Upto(m) /\ Upto(k) # Upto(m)
    BY <1>5 DEF Upto
  <2>2. Upto(k) \in T
    BY DEF T
  <2>3. <<Upto(k), Upto(m)>> \in StrictSubsetOrdering(Nat)
    BY <2>1, <1>1, K \subseteq Nat DEF StrictSubsetOrdering, FiniteSubsetsOf
  <2> QED BY <2>2, <2>3, <1>3, <1>4
<1> QED BY <1>5, K \subseteq Nat

\* A bounded set of numbers has a largest one: the least of its bounds.
LEMMA LargestNumber ==
  ASSUME NEW K \in SUBSET Nat, K # {}, NEW b \in Nat, \A k \in K : k <= b
  PROVE  Largest(K) \in K /\ \A k \in K : k <= Largest(K)
<1> DEFINE Bounds == {c \in Nat : \A k \in K : k <= c}
<1>1. PICK m \in Bounds : \A c \in Bounds : m <= c
  BY LeastNumber
<1>2. m \in K
  <2> SUFFICES ASSUME m \notin K PROVE FALSE
    OBVIOUS
  <2>1. \A k \in K : k < m
    BY <1>1
  <2>2. PICK k \in K : TRUE
    OBVIOUS
  <2>3. m - 1 \in Bounds
    <3>1. m \in Nat /\ k \in Nat /\ k < m
      BY <2>1, <1>1
    <3>2. m - 1 \in Nat /\ \A j \in K : j <= m - 1
      BY <3>1, <2>1, K \subseteq Nat
    <3> QED BY <3>2
  <2> QED BY <2>3, <1>1
<1> QED BY <1>1, <1>2 DEF Largest

(***************************************************************************)
(* The number of a new directory.                                          *)
(***************************************************************************)

LEMMA NamesAreNumbered ==
  /\ MaxNumber \in Nat
  /\ \A n \in Names : n.num \in 0..MaxNumber /\ n.form \in {"plain", "padded", "time"}
<1>1. MaxNumber \in Nat
  BY BoundsAssumption
<1>2. ASSUME NEW n \in Names
      PROVE  n.num \in 0..MaxNumber /\ n.form \in {"plain", "padded", "time"}
  <2>1. CASE n \in [num : 0..MaxNumber, form : {"plain", "padded"}, suffix : ShortNames]
    BY <2>1
  <2>2. CASE n \in [num : Days, form : {"time"}, suffix : ShortNames]
    BY <2>2, BoundsAssumption
  <2> QED BY <2>1, <2>2 DEF Names
<1> QED BY <1>1, <1>2

LEMMA HighestIsHighest ==
  ASSUME NEW D \in SUBSET Names
  PROVE  GetHighest(D) \in Nat /\ \A d \in D : d.form # "time" => d.num <= GetHighest(D)
<1> DEFINE K == {0} \cup {d.num : d \in {e \in D : e.form # "time"}}
<1>1. 0 \in K /\ K \subseteq Nat /\ \A k \in K : k <= MaxNumber
  BY NamesAreNumbered
<1>2. GetHighest(D) = Largest(K)
  BY DEF GetHighest
<1>3. \A d \in D : d.form # "time" => d.num \in K
  OBVIOUS
<1> HIDE DEF K
<1>4. Largest(K) \in K /\ \A k \in K : k <= Largest(K)
  BY <1>1, LargestNumber, NamesAreNumbered
<1> QED BY <1>1, <1>2, <1>3, <1>4

\* There are more numbers in the search than directories whose names begin with
\* one.
LEMMA SearchEnds ==
  ASSUME NEW D \in SUBSET Names, IsFiniteSet(D), NEW h \in Nat
  PROVE  \E n \in h..(h + Cardinality(D)) : ~PrefixExists(D, n)
<1> DEFINE c == Cardinality(D)
           I == {d.num : d \in D}
           f == [d \in D |-> d.num]
<1> SUFFICES ASSUME \A n \in h..(h + c) : PrefixExists(D, n) PROVE FALSE
  OBVIOUS
<1>1. c \in Nat
  BY FS_CardinalityType
<1>2. IsFiniteSet(I) /\ Cardinality(I) <= c
  <2>1. f \in Surjection(D, I)
    BY DEF Surjection
  <2> HIDE DEF f, I
  <2> QED BY <2>1, FS_Surjection
<1>3. (h..(h + c)) \subseteq I
  BY DEF PrefixExists
<1> HIDE DEF I
<1>4. Cardinality(h..(h + c)) <= Cardinality(I) /\ Cardinality(I) \in Nat
  BY <1>2, <1>3, FS_Subset, FS_CardinalityType
<1>5. Cardinality(h..(h + c)) = c + 1
  <2> HIDE DEF c
  <2>1. h \in Int /\ h + c \in Int /\ ~(h > h + c) /\ (h + c) - h + 1 = c + 1
    BY <1>1
  <2>2. Cardinality(h..(h + c)) = IF h > h + c THEN 0 ELSE (h + c) - h + 1
    BY <2>1, FS_Interval
  <2> QED BY <2>1, <2>2
<1> HIDE DEF c
<1> QED BY <1>1, <1>2, <1>4, <1>5

\* However the number is asked for, the directory of this name is there or the
\* name is apart from those that are.
LEMMA NumberIsFree ==
  ASSUME NEW D \in SUBSET Names, IsFiniteSet(D), NEW asked \in Asked, asked.by # "time",
         NEW s, NEW allow \in BOOLEAN
  PROVE  LET n == NumberFor(D, asked, s, allow)
             name == Numbered(n, s)
         IN  n \in Nat /\ (name \in D \/ Apart(D, name, WayOf(asked, name)))
<1> DEFINE next == GetHighest(D) + 1
           free == {n \in next..(next + Cardinality(D)) : ~PrefixExists(D, n)}
           least == CHOOSE n \in free : \A m \in free : n <= m
           number == NumberFor(D, asked, s, allow)
           name == Numbered(number, s)
<1>1. next \in Nat /\ \A d \in D : d.num \in Nat /\ (d.form # "time" => d.num < next)
  <2>1. GetHighest(D) \in Nat /\ \A d \in D : d.form # "time" => d.num <= GetHighest(D)
    BY HighestIsHighest
  <2>2. \A d \in D : d.num \in Nat
    BY NamesAreNumbered
  <2> QED BY <2>1, <2>2
<1>2. Cardinality(D) \in Nat
  BY FS_CardinalityType
<1>3. least \in Nat /\ next <= least /\ ~PrefixExists(D, least)
  <2>1. free \subseteq Nat /\ free # {} /\ \A n \in free : next <= n /\ ~PrefixExists(D, n)
    <3>1. \E n \in next..(next + Cardinality(D)) : ~PrefixExists(D, n)
      BY <1>1, SearchEnds
    <3> HIDE DEF next
    <3> QED BY <1>1, <1>2, <3>1
  <2> HIDE DEF free, next
  <2>2. \E n \in free : \A m \in free : n <= m
    BY <2>1, LeastNumber
  <2>3. least \in free
    BY <2>2
  <2> QED BY <2>1, <2>3
<1> HIDE DEF free, least, next
<1>4. number
        = IF asked.by = "auto" THEN next
          ELSE IF PrefixConflict(D, asked.num, s, allow) THEN least ELSE asked.num
  BY DEF NumberFor, free, least, next
<1>5. asked.by # "auto" => asked.num \in Nat
  BY BoundsAssumption DEF Asked
<1> HIDE DEF number
<1>6. name.form = "plain" /\ name.num = number
  BY DEF Numbered
<1> HIDE DEF name
<1>7. CASE asked.by = "auto"
  <2>1. number = next /\ WayOf(asked, name) = "next"
    BY <1>4, <1>7 DEF WayOf
  <2>2. Apart(D, name, "next")
    BY <1>1, <1>6, <2>1 DEF Apart
  <2> QED BY <1>1, <2>1, <2>2 DEF name, number
<1>8. CASE asked.by # "auto" /\ PrefixConflict(D, asked.num, s, allow)
  <2>1. number = least
    BY <1>4, <1>8
  <2>2. \A e \in D : e.num # number
    BY <1>1, <1>3, <2>1 DEF PrefixExists
  <2> QED BY <1>3, <1>6, <2>1, <2>2 DEF Apart, name, number
<1>9. CASE asked.by # "auto" /\ ~PrefixConflict(D, asked.num, s, allow)
  <2>1. number = asked.num /\ WayOf(asked, name) = "asked"
    BY <1>4, <1>6, <1>9 DEF WayOf
  <2>2. name \in D \/ ~PrefixExists(D, number)
    BY <1>9, <2>1 DEF PrefixConflict, name
  <2>3. name \in D \/ Apart(D, name, "asked")
    BY <1>6, <2>2 DEF PrefixExists, Apart
  <2> QED BY <1>5, <1>9, <2>1, <2>3 DEF name, number
<1> QED BY <1>7, <1>8, <1>9

(***************************************************************************)
(* What a record can be told by.                                           *)
(***************************************************************************)

LEMMA ContentForms ==
  /\ \A c \in SpecContents \cup PlanContents :
       /\ c.is \in {"absent", "torn", "empty", "template", "doc"}
       /\ c.is = "absent" <=> c = Absent
  /\ Torn # Absent /\ Empty # Absent /\ Template # Absent
  /\ {Absent, Torn, Empty, Template} \subseteq SpecContents \cap PlanContents
  /\ \A d \in Documents : Written(d.doc) \in SpecContents /\ Written(d.doc) # Absent
  /\ Written(<<>>) \in PlanContents /\ Written(<<>>) # Absent
<1> USE DEF SpecContents, PlanContents, Unwritten, Absent, Torn, Empty, Template, Written
<1>1. ASSUME NEW c \in SpecContents \cup PlanContents
      PROVE  /\ c.is \in {"absent", "torn", "empty", "template", "doc"}
             /\ c.is = "absent" <=> c = Absent
  OBVIOUS
<1>2. Torn # Absent /\ Empty # Absent /\ Template # Absent
  OBVIOUS
<1>3. \A x : Written(x) # Absent
  OBVIOUS
<1>4. /\ {Absent, Torn, Empty, Template} \subseteq SpecContents \cap PlanContents
      /\ \A d \in Documents : Written(d.doc) \in SpecContents
      /\ Written(<<>>) \in PlanContents
  BY Zenon DEF SpecContents, PlanContents, Unwritten
<1> QED BY <1>1, <1>2, <1>3, <1>4, Zenon

LEMMA CommandForms ==
  ASSUME CommandTyped
  PROVE  /\ cmd.op = "none" <=> cmd = Idle
         /\ cmd.op = "create" => cmd \in Creations
         /\ cmd.op \in {"plan", "tasks", "check"} => cmd \in Works
         /\ cmd.op \in {"none", "create", "plan", "tasks", "check"}
         /\ cmd.op # "none" => cmd.name \in Names /\ last = Nothing /\ cmd.name \in wanted
  BY DEF CommandTyped, Creations, Works, Idle

\* A step of a command changes where it is and nothing else of it.
LEMMA CreationMoves ==
  ASSUME CommandTyped, cmd.op = "create",
         NEW at \in {"mkdir", "open", "write", "persist", "persisting", "persisted"},
         cmd' = [cmd EXCEPT !.at = at], UNCHANGED <<last, wanted>>
  PROVE  /\ CommandTyped'
         /\ cmd'.op = "create" /\ cmd'.at = at /\ cmd'.name = cmd.name
         /\ cmd'.needs = cmd.needs /\ cmd'.text = cmd.text
<1>1. cmd \in Creations /\ last = Nothing /\ cmd.name \in wanted
  BY CommandForms
<1>2. cmd' \in Creations /\ cmd'.op = "create" /\ cmd'.at = at /\ cmd'.name = cmd.name
        /\ cmd'.needs = cmd.needs /\ cmd'.text = cmd.text
  BY <1>1 DEF Creations
<1>3. CommandTyped'
  BY <1>1, <1>2 DEF CommandTyped
<1> QED BY <1>2, <1>3

LEMMA WorkMoves ==
  ASSUME CommandTyped, cmd.op \in {"plan", "tasks", "check"},
         NEW at \in {"persist", "persisting", "persisted", "open", "write"},
         cmd' = [cmd EXCEPT !.at = at], UNCHANGED <<last, wanted>>
  PROVE  /\ CommandTyped'
         /\ cmd'.op = cmd.op /\ cmd'.at = at /\ cmd'.name = cmd.name
         /\ cmd'.selects = cmd.selects
<1>1. cmd \in Works /\ last = Nothing /\ cmd.name \in wanted
  BY CommandForms
<1>2. cmd' \in Works /\ cmd'.op = cmd.op /\ cmd'.at = at /\ cmd'.name = cmd.name
        /\ cmd'.selects = cmd.selects
  BY <1>1 DEF Works
<1>3. CommandTyped'
  BY <1>1, <1>2 DEF CommandTyped
<1> QED BY <1>2, <1>3

(***************************************************************************)
(* The steps of a creation.                                                *)
(***************************************************************************)

LEMMA MkdirKeeps ==
  ASSUME Inv, Mkdir
  PROVE  Inv'
<1>1. CommandTyped /\ cmd.op = "create" /\ cmd.at = "mkdir" /\ cmd.name \in Names
        /\ last = Nothing
  BY CommandForms DEF Inv, Mkdir
<1>2. AfterMkdir(cmd) \in {"open", "persist"} /\ (AfterMkdir(cmd) = "open" <=> cmd.needs)
  BY DEF AfterMkdir
<1>3. /\ CommandTyped'
      /\ cmd'.op = "create" /\ cmd'.at = AfterMkdir(cmd) /\ cmd'.name = cmd.name
  BY <1>1, <1>2, CreationMoves DEF Mkdir
<1>4. dirs' = dirs \cup {cmd.name}
        /\ UNCHANGED <<stack, spec, plan, tasks, active, last, wanted, made, commands, edits>>
  BY DEF Mkdir, counters
<1>5. FilesTyped'
  BY <1>1, <1>4, FS_AddElement DEF Inv, FilesTyped
<1>6. BoundsTyped' /\ ActiveWanted' /\ MadeWhole'
  BY <1>4 DEF Inv, BoundsTyped, ActiveWanted, MadeWhole
<1>7. CreationKnows'
  BY <1>1, <1>2, <1>3, <1>4 DEF Inv, CreationKnows
<1>8. PlanKnows' /\ Persisted'
  BY <1>2, <1>3 DEF PlanKnows, Persisted, PastPersisting
<1>9. SelectionIsKept'
  BY <1>1, <1>4 DEF SelectionIsKept, Nothing
<1> QED BY <1>3, <1>5, <1>6, <1>7, <1>8, <1>9 DEF Inv

LEMMA OpenSpecKeeps ==
  ASSUME Inv, OpenSpec
  PROVE  Inv'
<1>1. CommandTyped /\ cmd.op = "create" /\ cmd.at = "open" /\ cmd.name \in Names
        /\ last = Nothing /\ cmd.name \in dirs
  BY CommandForms DEF Inv, OpenSpec, CreationKnows
<1> DEFINE text == IF cmd.text = "text" THEN Torn ELSE Empty
           next == IF cmd.text = "text" THEN "write" ELSE "persist"
<1>2. next \in {"write", "persist"} /\ (next = "write" => text = Torn)
        /\ text # Absent /\ text \in SpecContents
  BY ContentForms
<1>3. spec' = [spec EXCEPT ![cmd.name] = text] /\ cmd' = [cmd EXCEPT !.at = next]
        /\ UNCHANGED <<stack, dirs, plan, tasks, active, last, wanted, made, commands, edits>>
  BY DEF OpenSpec, counters
<1> HIDE DEF text, next
<1>4. /\ CommandTyped'
      /\ cmd'.op = "create" /\ cmd'.at = next /\ cmd'.name = cmd.name
  BY <1>1, <1>2, <1>3, CreationMoves
<1>5. FilesTyped' /\ spec'[cmd.name] = text
        /\ \A n \in Names : spec[n] # Absent => spec'[n] # Absent
  BY <1>1, <1>2, <1>3 DEF Inv, FilesTyped
<1>6. BoundsTyped' /\ ActiveWanted'
  BY <1>3 DEF Inv, BoundsTyped, ActiveWanted
<1>7. MadeWhole'
  BY <1>3, <1>5 DEF Inv, MadeWhole
<1>8. CreationKnows'
  BY <1>1, <1>2, <1>4, <1>5 DEF CreationKnows
<1>9. PlanKnows' /\ Persisted'
  BY <1>2, <1>4 DEF PlanKnows, Persisted, PastPersisting
<1>10. SelectionIsKept'
  BY <1>1, <1>3 DEF SelectionIsKept, Nothing
<1> QED BY <1>4, <1>5, <1>6, <1>7, <1>8, <1>9, <1>10 DEF Inv

LEMMA WriteSpecKeeps ==
  ASSUME Inv, WriteSpec
  PROVE  Inv'
<1>1. CommandTyped /\ cmd.op = "create" /\ cmd.at = "write" /\ cmd.name \in Names
        /\ last = Nothing /\ spec[cmd.name] = Torn
  BY CommandForms DEF Inv, WriteSpec, CreationKnows
<1>2. spec' = [spec EXCEPT ![cmd.name] = Template] /\ cmd' = [cmd EXCEPT !.at = "persist"]
        /\ UNCHANGED <<stack, dirs, plan, tasks, active, last, wanted, made, commands, edits>>
  BY DEF WriteSpec, counters
<1>3. /\ CommandTyped'
      /\ cmd'.op = "create" /\ cmd'.at = "persist" /\ cmd'.name = cmd.name
  BY <1>1, <1>2, CreationMoves
<1>4. FilesTyped' /\ spec'[cmd.name] = Template
        /\ \A n \in Names : spec[n] # Absent => spec'[n] # Absent
  BY <1>1, <1>2, ContentForms DEF Inv, FilesTyped
<1>5. BoundsTyped' /\ ActiveWanted'
  BY <1>2 DEF Inv, BoundsTyped, ActiveWanted
<1>6. MadeWhole'
  BY <1>2, <1>4 DEF Inv, MadeWhole
<1>7. CreationKnows'
  BY <1>3, <1>4, ContentForms DEF CreationKnows
<1>8. PlanKnows' /\ Persisted'
  BY <1>3 DEF PlanKnows, Persisted, PastPersisting
<1>9. SelectionIsKept'
  BY <1>1, <1>2 DEF SelectionIsKept, Nothing
<1> QED BY <1>3, <1>4, <1>5, <1>6, <1>7, <1>8, <1>9 DEF Inv

LEMMA PersistMoves ==
  ASSUME CommandTyped, cmd.op # "none", NEW at \in {"persisting", "persisted"},
         cmd' = [cmd EXCEPT !.at = at], UNCHANGED <<last, wanted>>
  PROVE  CommandTyped' /\ cmd'.op = cmd.op /\ cmd'.at = at /\ cmd'.name = cmd.name
<1>1. cmd.op = "create" \/ cmd.op \in {"plan", "tasks", "check"}
  BY CommandForms
<1>2. CASE cmd.op = "create"
  BY <1>2, CreationMoves
<1>3. CASE cmd.op \in {"plan", "tasks", "check"}
  BY <1>3, WorkMoves
<1> QED BY <1>1, <1>2, <1>3

LEMMA ActiveForms ==
  ASSUME ActiveWanted
  PROVE  /\ active.is = "names" => active = Active(active.name) /\ active.name \in Names
         /\ \A n : Active(n).is = "names" /\ Active(n).name = n
         /\ NoFeature.is # "names" /\ TornFeature.is # "names"
         /\ active.is \in {"absent", "torn", "names"}
<1>1. /\ \A n : Active(n).is = "names" /\ Active(n).name = n
      /\ NoFeature.is = "absent" /\ TornFeature.is = "torn"
  BY DEF Active, NoFeature, TornFeature
<1> QED BY <1>1 DEF ActiveWanted

\* Naming the feature makes a creation's feature one that has a specification.
LEMMA MakesWhole ==
  ASSUME Inv, cmd.op # "none", cmd.at \in {"persist", "persisting"}, Makes, UNCHANGED spec
  PROVE  MadeWhole'
<1>1. cmd.op = "create" => cmd.name \in Names /\ spec[cmd.name] # Absent
  BY CommandForms DEF Inv, CreationKnows
<1>2. made' \subseteq made \cup {cmd.name} /\ (cmd.op # "create" => made' = made)
  BY DEF Makes
<1> QED BY <1>1, <1>2 DEF Inv, MadeWhole

LEMMA PersistOpensKeeps ==
  ASSUME Inv, PersistOpens
  PROVE  Inv'
<1>1. CommandTyped /\ cmd.op # "none" /\ cmd.at = "persist" /\ cmd.name \in Names
        /\ last = Nothing /\ cmd.name \in wanted
  BY CommandForms DEF Inv, PersistOpens
<1>2. UNCHANGED <<stack, dirs, spec, plan, tasks, last, wanted, commands, edits>>
  BY DEF PersistOpens, files, counters
<1>3. FilesTyped' /\ BoundsTyped'
  BY <1>2 DEF Inv, FilesTyped, BoundsTyped
<1>4. SelectionIsKept'
  BY <1>1, <1>2 DEF SelectionIsKept, Nothing
<1>5. CASE active = Active(cmd.name)
  <2>1. active' = active /\ cmd' = [cmd EXCEPT !.at = "persisted"] /\ Makes
    BY <1>5 DEF PersistOpens
  <2>2. CommandTyped' /\ cmd'.op = cmd.op /\ cmd'.at = "persisted" /\ cmd'.name = cmd.name
    BY <1>1, <1>2, <2>1, PersistMoves
  <2>3. ActiveWanted' /\ CreationKnows' /\ PlanKnows' /\ Persisted'
    BY <1>2, <1>5, <2>1, <2>2 DEF Inv, ActiveWanted, CreationKnows, PlanKnows, Persisted
  <2>4. MadeWhole'
    BY <1>1, <1>2, <2>1, MakesWhole
  <2> QED BY <1>3, <1>4, <2>2, <2>3, <2>4 DEF Inv
<1>6. CASE active # Active(cmd.name)
  <2>1. active' = TornFeature /\ cmd' = [cmd EXCEPT !.at = "persisting"] /\ made' = made
    BY <1>6 DEF PersistOpens
  <2>2. CommandTyped' /\ cmd'.op = cmd.op /\ cmd'.at = "persisting" /\ cmd'.name = cmd.name
    BY <1>1, <1>2, <2>1, PersistMoves
  <2>3. ActiveWanted'
    BY <2>1, ActiveForms DEF Inv, ActiveWanted
  <2>4. CreationKnows'
    BY <1>1, <1>2, <2>2 DEF Inv, CreationKnows
  <2>5. PlanKnows' /\ Persisted'
    BY <2>2 DEF PlanKnows, Persisted, PastPersisting
  <2>6. MadeWhole'
    BY <1>2, <2>1 DEF Inv, MadeWhole
  <2> QED BY <1>3, <1>4, <2>2, <2>3, <2>4, <2>5, <2>6 DEF Inv
<1> QED BY <1>5, <1>6

LEMMA PersistWritesKeeps ==
  ASSUME Inv, PersistWrites
  PROVE  Inv'
<1>1. CommandTyped /\ cmd.op # "none" /\ cmd.at = "persisting" /\ cmd.name \in Names
        /\ last = Nothing /\ cmd.name \in wanted
  BY CommandForms DEF Inv, PersistWrites
<1>2. /\ active' = Active(cmd.name) /\ cmd' = [cmd EXCEPT !.at = "persisted"] /\ Makes
      /\ UNCHANGED <<stack, dirs, spec, plan, tasks, last, wanted, commands, edits>>
  BY DEF PersistWrites, files, counters
<1>3. FilesTyped' /\ BoundsTyped'
  BY <1>2 DEF Inv, FilesTyped, BoundsTyped
<1>4. SelectionIsKept'
  BY <1>1, <1>2 DEF SelectionIsKept, Nothing
<1>5. CommandTyped' /\ cmd'.op = cmd.op /\ cmd'.at = "persisted" /\ cmd'.name = cmd.name
  BY <1>1, <1>2, PersistMoves
<1>6. ActiveWanted'
  BY <1>1, <1>2, ActiveForms DEF Inv, ActiveWanted
<1>7. CreationKnows' /\ PlanKnows' /\ Persisted'
  BY <1>2, <1>5 DEF CreationKnows, PlanKnows, Persisted
<1>8. MadeWhole'
  BY <1>1, <1>2, MakesWhole
<1> QED BY <1>3, <1>4, <1>5, <1>6, <1>7, <1>8 DEF Inv

\* With no command running there is nothing to remember.
LEMMA IdleRemembersNothing ==
  ASSUME cmd' = Idle
  PROVE  CommandTyped' /\ CreationKnows' /\ PlanKnows' /\ Persisted'
  BY DEF CommandTyped, CreationKnows, PlanKnows, Persisted, PastPersisting, Idle

\* How a command may end, as far as what is kept of the selection goes.
LEMMA EndingKeepsSelection ==
  ASSUME last'.op \notin {"work", "gate"} \/ (last'.op = "work" /\ last'.name \in wanted')
  PROVE  SelectionIsKept'
  BY DEF SelectionIsKept

LEMMA ResultForms ==
  /\ \A ok : Result(ok).op = "none"
  /\ \A n : On(n).op = "work" /\ On(n).name = n
  /\ Nothing.op = "none"
  BY DEF Result, On, Nothing

LEMMA CreatedKeeps ==
  ASSUME Inv, Created
  PROVE  Inv'
<1>1. CommandTyped /\ cmd.op = "create" /\ cmd.at = "persisted"
        /\ active = Active(cmd.name)
  BY CommandForms DEF Inv, Created, Persisted, PastPersisting
<1>2. /\ cmd' = Idle /\ last'.op = "none" /\ wanted' = {cmd.name}
      /\ UNCHANGED <<stack, dirs, spec, plan, tasks, active, made, commands, edits>>
  BY ResultForms DEF Created, files, counters, AtOnce, Selects
<1>3. FilesTyped' /\ BoundsTyped' /\ MadeWhole'
  BY <1>2 DEF Inv, FilesTyped, BoundsTyped, MadeWhole
<1>4. ActiveWanted'
  BY <1>1, <1>2, ActiveForms DEF Inv, ActiveWanted
<1>5. SelectionIsKept'
  BY <1>2, EndingKeepsSelection
<1> QED BY <1>2, <1>3, <1>4, <1>5, IdleRemembersNothing DEF Inv

LEMMA KillKeeps ==
  ASSUME Inv, Kill
  PROVE  Inv'
<1>1. /\ cmd' = Idle /\ last'.op = "none"
      /\ UNCHANGED <<stack, dirs, spec, plan, tasks, active, wanted, made, commands, edits>>
  BY ResultForms DEF Kill, files, counters, AtOnce
<1>2. FilesTyped' /\ BoundsTyped' /\ ActiveWanted' /\ MadeWhole'
  BY <1>1 DEF Inv, FilesTyped, BoundsTyped, ActiveWanted, MadeWhole
<1>3. SelectionIsKept'
  BY <1>1, EndingKeepsSelection
<1> QED BY <1>1, <1>2, <1>3, IdleRemembersNothing DEF Inv

(***************************************************************************)
(* How commands start.                                                     *)
(***************************************************************************)

LEMMA StartsKeeps ==
  ASSUME Inv, Starts,
         UNCHANGED <<stack, dirs, spec, plan, tasks, active, made, edits>>,
         wanted \subseteq wanted'
  PROVE  /\ FilesTyped' /\ BoundsTyped' /\ ActiveWanted' /\ MadeWhole'
         /\ stack \in Stacks /\ cmd = Idle
<1>1. cmd = Idle /\ commands < MaxCommands /\ commands' = commands + 1
  BY DEF Starts
<1>2. MaxCommands \in Nat
  BY BoundsAssumption
<1>3. BoundsTyped' /\ stack \in Stacks
  BY <1>1, <1>2 DEF Inv, BoundsTyped
<1>4. FilesTyped' /\ ActiveWanted' /\ MadeWhole'
  BY DEF Inv, FilesTyped, ActiveWanted, MadeWhole
<1> QED BY <1>1, <1>3, <1>4

\* A command that starts and ends in one step.
LEMMA AtOnceKeeps ==
  ASSUME Inv, Starts, cmd' = Idle,
         last'.op \notin {"work", "gate"} \/ (last'.op = "work" /\ last'.name \in wanted'),
         UNCHANGED <<stack, dirs, spec, plan, tasks, active, made, edits, wanted>>
  PROVE  Inv'
<1>1. FilesTyped' /\ BoundsTyped' /\ ActiveWanted' /\ MadeWhole'
  BY StartsKeeps
<1>2. SelectionIsKept'
  BY EndingKeepsSelection
<1> QED BY <1>1, <1>2, IdleRemembersNothing DEF Inv

LEMMA NameOfCreation ==
  ASSUME dirs \subseteq Names, IsFiniteSet(dirs),
         NEW asked \in Asked, NEW suffix \in ShortNames, NEW allow \in BOOLEAN,
         NEW name, name = NameFor(dirs, asked, suffix, allow), ~(name.num > MaxNumber)
  PROVE  /\ name \in Names
         /\ name \in dirs \/ Apart(dirs, name, WayOf(asked, name))
         /\ WayOf(asked, name) \in {"next", "asked", "instead"}
<1>0. WayOf(asked, name) \in {"next", "asked", "instead"}
  BY DEF WayOf
<1>1. CASE asked.by = "time"
  <2>1. asked.num \in Days
    BY <1>1 DEF Asked
  <2>2. name \in [num : Days, form : {"time"}, suffix : ShortNames] /\ name.form = "time"
    BY <1>1, <2>1 DEF NameFor
  <2> QED BY <1>0, <2>2 DEF Names, Apart
<1>2. CASE asked.by # "time"
  <2> DEFINE number == NumberFor(dirs, asked, suffix, allow)
  <2>1. name = Numbered(number, suffix)
    BY <1>2 DEF NameFor
  <2>2. number \in Nat /\ (name \in dirs \/ Apart(dirs, name, WayOf(asked, name)))
    BY <1>2, <2>1, NumberIsFree
  <2> HIDE DEF number
  <2>3. name.num = number
    BY <2>1 DEF Numbered
  <2>4. number \in 0..MaxNumber
    BY <2>2, <2>3, NamesAreNumbered
  <2>5. name \in [num : 0..MaxNumber, form : {"plain", "padded"}, suffix : ShortNames]
    BY <2>1, <2>4 DEF Numbered
  <2> QED BY <1>0, <2>2, <2>5, Zenon DEF Names
<1> QED BY <1>1, <1>2

LEMMA CreateKeeps ==
  ASSUME Inv, NEW asked \in Asked, NEW suffix \in ShortNames,
         NEW allow \in BOOLEAN, NEW dry \in BOOLEAN, Create(asked, suffix, allow, dry)
  PROVE  Inv'
<1> DEFINE name == NameFor(dirs, asked, suffix, allow)
           way == WayOf(asked, name)
           needs == spec[name].is = "absent"
           new == [op |-> "create", at |-> "mkdir", name |-> name, way |-> way,
                   needs |-> needs, text |-> Resolution[stack].kind]
<1>1. Starts /\ UNCHANGED <<stack, dirs, spec, plan, tasks, active, made, edits>>
  BY DEF Create, files
<1>2. \/ cmd' = Idle /\ last'.op = "none" /\ wanted' = wanted
      \/ /\ ~(name.num > MaxNumber)
         /\ cmd' = new /\ last' = Nothing /\ wanted' = wanted \cup {name}
  BY ResultForms DEF Create, AtOnce, GoesOn
<1>3. CASE cmd' = Idle /\ last'.op = "none" /\ wanted' = wanted
  BY <1>1, <1>3, AtOnceKeeps
<1>4. CASE /\ ~(name.num > MaxNumber)
           /\ cmd' = new /\ last' = Nothing /\ wanted' = wanted \cup {name}
  <2>1. FilesTyped' /\ BoundsTyped' /\ ActiveWanted' /\ MadeWhole' /\ stack \in Stacks
    BY <1>1, <1>4, StartsKeeps
  <2>4. /\ name \in Names
        /\ name \in dirs \/ Apart(dirs, name, way)
        /\ way \in {"next", "asked", "instead"}
    BY <1>4, NameOfCreation DEF Inv, FilesTyped
  <2>5. /\ needs \in BOOLEAN
        /\ needs <=> spec[name] = Absent
    BY <2>4, ContentForms DEF Inv, FilesTyped
  <2> HIDE DEF name, way, needs
  <2>6. /\ cmd'.op = "create" /\ cmd'.at = "mkdir" /\ cmd'.name = name
        /\ cmd'.way = way /\ cmd'.needs = needs
    BY <1>4
  <2>7. cmd' \in Creations'
    BY <1>1, <1>4, <2>1, <2>4, <2>5 DEF Creations
  <2>8. CommandTyped'
    BY <1>4, <2>6, <2>7 DEF CommandTyped
  <2>9. CreationKnows'
    BY <1>1, <2>4, <2>5, <2>6 DEF CreationKnows, Apart
  <2>10. PlanKnows' /\ Persisted'
    BY <2>6 DEF PlanKnows, Persisted, PastPersisting
  <2>11. SelectionIsKept'
    BY <1>4, ResultForms, EndingKeepsSelection
  <2> QED BY <2>1, <2>8, <2>9, <2>10, <2>11 DEF Inv
<1> QED BY <1>2, <1>3, <1>4

\* The feature a command works on.
LEMMA WorkFeature ==
  ASSUME ActiveWanted, dirs \subseteq Names, NEW env \in Env, NEW n \in FeatureOf(env)
  PROVE  /\ n \in Names
         /\ env = {} => active = Active(n) /\ n \in wanted
         /\ env # {} => n \in env
<1>1. CASE env = {}
  BY <1>1, ActiveForms DEF FeatureOf, ActiveWanted
<1>2. CASE env # {}
  <2>1. PICK m \in dirs \cup EnvNames : env = {m}
    BY <1>2 DEF Env
  <2>2. m \in Names
    BY EnvNamesAssumption, Zenon DEF Names
  <2> QED BY <1>2, <2>1, <2>2 DEF FeatureOf
<1> QED BY <1>1, <1>2

LEMMA WorkKeeps ==
  ASSUME Inv, NEW op \in {"plan", "tasks", "check"}, NEW env \in Env,
         NEW options \in SUBSET {"tasks", "template"}, Work(op, env, options)
  PROVE  Inv'
<1>1. Starts /\ UNCHANGED <<stack, dirs, spec, plan, tasks, active, made, edits>>
  BY DEF Work, files
<1>2. CASE FeatureOf(env) = {}
  <2>1. cmd' = Idle /\ last'.op = "none" /\ wanted' = wanted
    BY <1>2, ResultForms DEF Work, AtOnce
  <2> QED BY <1>1, <2>1, AtOnceKeeps
<1>3. CASE FeatureOf(env) # {}
  <2> DEFINE start == IF env = {} THEN "persisted" ELSE "persist"
             told == env # {}
  <2>1. PICK n \in FeatureOf(env) :
          /\ cmd' = [op |-> op, at |-> start, name |-> n, selects |-> told,
                     options |-> options]
          /\ last' = Nothing
    BY <1>3, Zenon DEF Work, GoesOn
  <2>2. wanted' = wanted \cup env
    BY <1>3 DEF Work
  <2>3. /\ n \in Names
        /\ env = {} => active = Active(n) /\ n \in wanted
        /\ env # {} => n \in env
    BY WorkFeature DEF Inv, FilesTyped
  <2>4. told \in BOOLEAN /\ start \in {"persisted", "persist"}
          /\ (start = "persisted" => env = {})
    OBVIOUS
  <2> HIDE DEF start, told
  <2>5. cmd'.op = op /\ cmd'.at = start /\ cmd'.name = n
    BY <2>1
  <2>6. cmd' \in Works'
    BY <2>1, <2>3, <2>4 DEF Works
  <2>7. CommandTyped'
    BY <2>1, <2>2, <2>3, <2>5, <2>6 DEF CommandTyped
  <2>8. CreationKnows' /\ PlanKnows' /\ Persisted'
    BY <1>1, <2>3, <2>4, <2>5 DEF CreationKnows, PlanKnows, Persisted, PastPersisting
  <2>9. FilesTyped' /\ BoundsTyped' /\ ActiveWanted' /\ MadeWhole'
    BY <1>1, <2>2, StartsKeeps
  <2>10. SelectionIsKept'
    BY <2>1, ResultForms, EndingKeepsSelection
  <2> QED BY <2>7, <2>8, <2>9, <2>10 DEF Inv
<1> QED BY <1>2, <1>3

LEMMA LookingKeeps ==
  ASSUME Inv, Resolve \/ \E env \in Env : PathsOnly(env)
  PROVE  Inv'
<1>1. Starts /\ UNCHANGED <<stack, dirs, spec, plan, tasks, active, made, edits, wanted>>
  BY DEF Resolve, PathsOnly, files
<1>2. cmd' = Idle /\ last'.op = "none"
  BY ResultForms DEF Resolve, PathsOnly, AtOnce
<1> QED BY <1>1, <1>2, AtOnceKeeps

\* A gate that is told no feature looks at the active one alone when that is
\* one with a specification.
LEMMA GateKeeps ==
  ASSUME Inv, NEW given \in Env, NEW ph, NEW status \in BOOLEAN, Gate(given, ph, status)
  PROVE  Inv'
<1>1. /\ Starts /\ cmd' = Idle
      /\ UNCHANGED <<stack, dirs, spec, plan, tasks, active, made, edits, wanted>>
  BY DEF Gate, files, AtOnce
<1>2. \/ last'.op = "none"
      \/ last' = [op |-> "gate", ok |-> TRUE, specs |-> DiscoverSpecs(given)] /\ given = {}
  BY ResultForms DEF Gate, AtOnce
<1>3. CASE last'.op = "none"
  BY <1>1, <1>3, AtOnceKeeps
<1>4. CASE last' = [op |-> "gate", ok |-> TRUE, specs |-> DiscoverSpecs(given)] /\ given = {}
  <2>1. FilesTyped' /\ BoundsTyped' /\ ActiveWanted' /\ MadeWhole'
    BY <1>1, StartsKeeps
  <2>2. last'.op = "gate" /\ last'.specs = DiscoverSpecs({})
    BY <1>4
  <2>3. ASSUME active.is = "names", active.name \in made
        PROVE  DiscoverSpecs({}) = {active.name}
    <3>1. active.name \in Names /\ spec[active.name].is # "absent"
      BY <2>3, ContentForms DEF Inv, MadeWhole, FilesTyped
    <3> QED BY <2>3, <3>1 DEF DiscoverSpecs
  <2>4. SelectionIsKept'
    BY <1>1, <2>2, <2>3 DEF SelectionIsKept
  <2> QED BY <1>1, <2>1, <2>4, IdleRemembersNothing DEF Inv
<1> QED BY <1>2, <1>3, <1>4

(***************************************************************************)
(* The commands that work on a feature.                                    *)
(***************************************************************************)

\* A command that succeeds works on the active feature and leaves it selected.
LEMMA SucceedsKeeps ==
  ASSUME Inv, cmd.op # "none", active = Active(cmd.name), Succeeds, active' = active
  PROVE  cmd' = Idle /\ ActiveWanted' /\ SelectionIsKept'
<1>1. cmd' = Idle /\ cmd.name \in wanted /\ cmd.name \in Names
  BY CommandForms DEF Inv, Succeeds, AtOnce
<1>2. \/ last'.op = "none" /\ wanted' = {cmd.name}
      \/ last'.op = "work" /\ last'.name = cmd.name /\ wanted' = wanted
  BY ResultForms DEF Succeeds, AtOnce, Selects
<1>3. cmd.name \in wanted'
  BY <1>1, <1>2
<1>4. ActiveWanted'
  BY <1>1, <1>3, ActiveForms DEF Inv, ActiveWanted
<1>5. SelectionIsKept'
  BY <1>2, <1>3, EndingKeepsSelection
<1> QED BY <1>1, <1>4, <1>5

LEMMA EndsKeeps ==
  ASSUME Inv, cmd.op # "none", active = Active(cmd.name), NEW ok, EndsWith(ok),
         active' = active
  PROVE  cmd' = Idle /\ ActiveWanted' /\ SelectionIsKept'
<1>1. CASE ok
  BY <1>1, SucceedsKeeps DEF EndsWith
<1>2. CASE ~ok
  <2>1. cmd' = Idle /\ last'.op = "none" /\ wanted' = wanted
    BY <1>2, ResultForms DEF EndsWith, AtOnce
  <2> QED BY <2>1, EndingKeepsSelection DEF Inv, ActiveWanted
<1> QED BY <1>1, <1>2

LEMMA CheckingKeeps ==
  ASSUME Inv, SetupTasks \/ CheckPrerequisites
  PROVE  Inv'
<1>1. cmd.op # "none" /\ active = Active(cmd.name)
        /\ UNCHANGED <<stack, dirs, spec, plan, tasks, active, made, commands, edits>>
  BY DEF Inv, Persisted, PastPersisting, SetupTasks, CheckPrerequisites, Doing, files,
         counters
<1>2. \E ok \in {TRUE, FALSE} : EndsWith(ok)
  <2>1. CASE SetupTasks
    BY <2>1, Zenon DEF SetupTasks, EndsWith
  <2>2. CASE CheckPrerequisites
    BY <2>2, Zenon DEF CheckPrerequisites, EndsWith
  <2> QED BY <2>1, <2>2
<1>3. cmd' = Idle /\ ActiveWanted' /\ SelectionIsKept'
  BY <1>1, <1>2, EndsKeeps
<1>4. FilesTyped' /\ BoundsTyped' /\ MadeWhole'
  BY <1>1 DEF Inv, FilesTyped, BoundsTyped, MadeWhole
<1> QED BY <1>3, <1>4, IdleRemembersNothing DEF Inv

LEMMA PlanFiles ==
  ASSUME Inv, NEW n \in Names, NEW p \in PlanContents, dirs' = dirs \cup {n},
         plan' = plan \/ plan' = [plan EXCEPT ![n] = p],
         UNCHANGED <<stack, spec, tasks, commands, edits, made>>
  PROVE  FilesTyped' /\ BoundsTyped' /\ MadeWhole'
<1>1. IsFiniteSet(dirs') /\ dirs' \subseteq Names /\ tasks' \subseteq dirs'
  BY FS_AddElement DEF Inv, FilesTyped
<1>2. plan' \in [Names -> PlanContents] /\ \A m \in Names \ {n} : plan'[m] = plan[m]
  BY DEF Inv, FilesTyped
<1>3. \A m \in Names \ dirs' : spec'[m] = Absent /\ plan'[m] = Absent
  BY <1>2 DEF Inv, FilesTyped
<1>4. FilesTyped'
  BY <1>1, <1>2, <1>3 DEF Inv, FilesTyped
<1>5. BoundsTyped' /\ MadeWhole'
  BY DEF Inv, BoundsTyped, MadeWhole
<1> QED BY <1>4, <1>5

LEMMA SetupPlanKeeps ==
  ASSUME Inv, SetupPlan
  PROVE  Inv'
<1>1. /\ cmd.op = "plan" /\ cmd.at = "persisted" /\ cmd.name \in Names
      /\ CommandTyped /\ last = Nothing /\ active = Active(cmd.name)
  BY CommandForms DEF Inv, Persisted, PastPersisting, SetupPlan, Doing
<1>2. /\ dirs' = dirs \cup {cmd.name} /\ cmd' = [cmd EXCEPT !.at = "open"]
      /\ UNCHANGED <<stack, spec, plan, tasks, active, made, last, wanted, commands, edits>>
  BY DEF SetupPlan, counters
<1>3. FilesTyped' /\ BoundsTyped' /\ MadeWhole'
  BY <1>1, <1>2, PlanFiles, ContentForms
<1>4. CommandTyped' /\ cmd'.op = "plan" /\ cmd'.at = "open" /\ cmd'.name = cmd.name
  BY <1>1, <1>2, WorkMoves
<1>5. CreationKnows' /\ PlanKnows' /\ Persisted'
  BY <1>1, <1>2, <1>4 DEF CreationKnows, PlanKnows, Persisted
<1>6. ActiveWanted'
  BY <1>2 DEF Inv, ActiveWanted
<1>7. SelectionIsKept'
  BY <1>1, <1>2, ResultForms, EndingKeepsSelection
<1> QED BY <1>3, <1>4, <1>5, <1>6, <1>7 DEF Inv

LEMMA OpenPlanKeeps ==
  ASSUME Inv, OpenPlan
  PROVE  Inv'
<1>1. /\ cmd.op = "plan" /\ cmd.at = "open" /\ cmd.name \in Names
      /\ CommandTyped /\ last = Nothing /\ active = Active(cmd.name)
      /\ cmd.name \in dirs
  BY CommandForms DEF Inv, Persisted, PastPersisting, PlanKnows, OpenPlan
<1>2. dirs' = dirs \cup {cmd.name}
        /\ UNCHANGED <<stack, spec, tasks, active, made, commands, edits>>
  BY <1>1 DEF OpenPlan, counters
<1> DEFINE there == PlanIsThere(cmd.name)
<1>3. \/ EndsWith(there) /\ plan' = plan
      \/ Succeeds /\ plan' = [plan EXCEPT ![cmd.name] = Empty]
      \/ /\ plan' = [plan EXCEPT ![cmd.name] = Torn]
         /\ cmd' = [cmd EXCEPT !.at = "write"]
         /\ UNCHANGED <<last, wanted>>
  BY Zenon DEF OpenPlan
<1> HIDE DEF there
<1>4. FilesTyped' /\ BoundsTyped' /\ MadeWhole'
  BY <1>1, <1>2, <1>3, PlanFiles, ContentForms
<1>5. CASE EndsWith(there) \/ Succeeds
  <2>1. cmd' = Idle /\ ActiveWanted' /\ SelectionIsKept'
    BY <1>1, <1>2, <1>5, EndsKeeps, SucceedsKeeps
  <2> QED BY <1>4, <2>1, IdleRemembersNothing DEF Inv
<1>6. CASE /\ plan' = [plan EXCEPT ![cmd.name] = Torn]
           /\ cmd' = [cmd EXCEPT !.at = "write"]
           /\ UNCHANGED <<last, wanted>>
  <2>1. CommandTyped' /\ cmd'.op = "plan" /\ cmd'.at = "write" /\ cmd'.name = cmd.name
    BY <1>1, <1>6, WorkMoves
  <2>2. plan'[cmd.name] = Torn
    BY <1>1, <1>6 DEF Inv, FilesTyped
  <2>3. CreationKnows' /\ PlanKnows' /\ Persisted'
    BY <1>1, <1>2, <2>1, <2>2 DEF CreationKnows, PlanKnows, Persisted
  <2>4. ActiveWanted'
    BY <1>2, <1>6 DEF Inv, ActiveWanted
  <2>5. SelectionIsKept'
    BY <1>1, <1>6, ResultForms, EndingKeepsSelection
  <2> QED BY <1>4, <2>1, <2>3, <2>4, <2>5 DEF Inv
<1> QED BY <1>3, <1>5, <1>6

LEMMA WritePlanKeeps ==
  ASSUME Inv, WritePlan
  PROVE  Inv'
<1>1. cmd.op = "plan" /\ cmd.at = "write" /\ cmd.name \in Names
        /\ active = Active(cmd.name) /\ plan[cmd.name] = Torn
  BY CommandForms DEF Inv, Persisted, PastPersisting, PlanKnows, WritePlan
<1>2. cmd.name \in dirs
  BY <1>1, ContentForms DEF Inv, FilesTyped
<1>3. /\ Succeeds /\ plan' = [plan EXCEPT ![cmd.name] = Template]
      /\ dirs' = dirs \cup {cmd.name}
      /\ UNCHANGED <<stack, spec, tasks, active, made, commands, edits>>
  BY <1>2 DEF WritePlan, counters
<1>4. FilesTyped' /\ BoundsTyped' /\ MadeWhole'
  BY <1>1, <1>3, PlanFiles, ContentForms
<1>5. cmd' = Idle /\ ActiveWanted' /\ SelectionIsKept'
  BY <1>1, <1>3, SucceedsKeeps
<1> QED BY <1>4, <1>5, IdleRemembersNothing DEF Inv

(***************************************************************************)
(* What is done by hand.                                                   *)
(***************************************************************************)

LEMMA ByHandKeeps ==
  ASSUME Inv, ByHand
  PROVE  /\ BoundsTyped' /\ ActiveWanted' /\ SelectionIsKept' /\ cmd' = Idle
         /\ made' = made
<1>1. /\ cmd' = Idle /\ last' = Nothing /\ edits < MaxEdits /\ edits' = edits + 1
      /\ UNCHANGED <<stack, active, wanted, made, commands>>
  BY DEF ByHand
<1>2. MaxEdits \in Nat
  BY BoundsAssumption
<1>3. BoundsTyped'
  BY <1>1, <1>2 DEF Inv, BoundsTyped
<1>4. ActiveWanted'
  BY <1>1 DEF Inv, ActiveWanted
<1>5. SelectionIsKept'
  BY <1>1, ResultForms, EndingKeepsSelection
<1> QED BY <1>1, <1>3, <1>4, <1>5

LEMMA MakeDirectoryKeeps ==
  ASSUME Inv, NEW n \in Names, MakeDirectory(n)
  PROVE  Inv'
<1>1. /\ BoundsTyped' /\ ActiveWanted' /\ SelectionIsKept' /\ cmd' = Idle
      /\ made' = made
  BY ByHandKeeps DEF MakeDirectory
<1>2. dirs' = dirs \cup {n} /\ UNCHANGED <<spec, plan, tasks>>
  BY DEF MakeDirectory
<1>3. FilesTyped'
  BY <1>2, FS_AddElement DEF Inv, FilesTyped
<1>4. MadeWhole'
  BY <1>1, <1>2 DEF Inv, MadeWhole
<1> QED BY <1>1, <1>3, <1>4, IdleRemembersNothing DEF Inv

LEMMA WriteDocumentKeeps ==
  ASSUME Inv, NEW n \in Names, WriteDocument(n)
  PROVE  Inv'
<1>1. /\ BoundsTyped' /\ ActiveWanted' /\ SelectionIsKept' /\ cmd' = Idle
      /\ made' = made
  BY ByHandKeeps DEF WriteDocument
<1>2. n \in dirs /\ dirs' = dirs
  BY DEF WriteDocument
<1>3. \/ \E d \in Documents : /\ spec' = [spec EXCEPT ![n] = Written(d.doc)]
                              /\ plan' = plan /\ tasks' = tasks
      \/ plan' = [plan EXCEPT ![n] = Written(<<>>)] /\ spec' = spec /\ tasks' = tasks
      \/ tasks' = tasks \cup {n} /\ spec' = spec /\ plan' = plan
  BY DEF WriteDocument
<1>4. FilesTyped' /\ \A m \in Names : spec[m] # Absent => spec'[m] # Absent
  <2>1. CASE \E d \in Documents : /\ spec' = [spec EXCEPT ![n] = Written(d.doc)]
                                  /\ plan' = plan /\ tasks' = tasks
    BY <1>2, <2>1, ContentForms DEF Inv, FilesTyped
  <2>2. CASE plan' = [plan EXCEPT ![n] = Written(<<>>)] /\ spec' = spec /\ tasks' = tasks
    BY <1>2, <2>2, ContentForms DEF Inv, FilesTyped
  <2>3. CASE tasks' = tasks \cup {n} /\ spec' = spec /\ plan' = plan
    BY <1>2, <2>3 DEF Inv, FilesTyped
  <2> QED BY <1>3, <2>1, <2>2, <2>3
<1>5. MadeWhole'
  BY <1>1, <1>4 DEF Inv, MadeWhole
<1> QED BY <1>1, <1>4, <1>5, IdleRemembersNothing DEF Inv

(***************************************************************************)
(* The invariant.                                                          *)
(***************************************************************************)

LEMMA InitInv == Init => Inv
<1> SUFFICES ASSUME Init PROVE Inv
  OBVIOUS
<1>1. /\ dirs = {} /\ tasks = {} /\ active = NoFeature /\ cmd = Idle /\ last = Nothing
      /\ wanted = {} /\ made = {}
      /\ spec = [n \in Names |-> Absent] /\ plan = [n \in Names |-> Absent]
      /\ \/ stack \in Stacks /\ commands = 0 /\ edits = 0
         \/ commands = MaxCommands /\ edits = MaxEdits
  BY DEF Init
<1>2. FilesTyped
  BY <1>1, ContentForms, FS_EmptySet DEF FilesTyped
<1>3. BoundsTyped
  BY <1>1, BoundsAssumption DEF BoundsTyped
<1>4. ActiveWanted
  BY <1>1 DEF ActiveWanted, NoFeature
<1>5. CommandTyped /\ CreationKnows /\ PlanKnows /\ Persisted
  BY <1>1 DEF CommandTyped, CreationKnows, PlanKnows, Persisted, PastPersisting, Idle
<1>6. MadeWhole /\ SelectionIsKept
  BY <1>1, ResultForms DEF MadeWhole, SelectionIsKept
<1> QED BY <1>2, <1>3, <1>4, <1>5, <1>6 DEF Inv

LEMMA StutterInv == Inv /\ UNCHANGED vars => Inv'
<1> SUFFICES ASSUME Inv, UNCHANGED vars PROVE Inv'
  OBVIOUS
<1>1. UNCHANGED <<stack, dirs, spec, plan, tasks, active, cmd, last, wanted, made,
                  commands, edits>>
  BY DEF vars, files, counters
<1>2. FilesTyped' /\ BoundsTyped' /\ ActiveWanted' /\ CommandTyped'
  BY <1>1 DEF Inv, FilesTyped, BoundsTyped, ActiveWanted, CommandTyped, Creations, Works
<1>3. CreationKnows' /\ PlanKnows' /\ Persisted' /\ MadeWhole' /\ SelectionIsKept'
  BY <1>1 DEF Inv, CreationKnows, PlanKnows, Persisted, PastPersisting, MadeWhole,
              SelectionIsKept
<1> QED BY <1>2, <1>3 DEF Inv

LEMMA NextInv == Inv /\ Next => Inv'
<1> SUFFICES ASSUME Inv, Next PROVE Inv'
  OBVIOUS
<1>1. CASE \E asked \in Asked, suffix \in ShortNames, allow, dry \in BOOLEAN :
             Create(asked, suffix, allow, dry)
  BY <1>1, CreateKeeps
<1>2. CASE \/ \E env \in Env, op \in {"plan", "tasks"} : Work(op, env, {})
           \/ \E env \in Env, options \in SUBSET {"tasks", "template"} :
                Work("check", env, options)
  BY <1>2, WorkKeeps
<1>3. CASE Resolve \/ \E env \in Env : PathsOnly(env)
  BY <1>3, LookingKeeps
<1>4. CASE \E given \in Env, i \in DOMAIN Phases, status \in BOOLEAN :
             Gate(given, Phases[i], status)
  BY <1>4, GateKeeps
<1>5. CASE Mkdir \/ OpenSpec \/ WriteSpec \/ PersistOpens \/ PersistWrites \/ Created
  BY <1>5, MkdirKeeps, OpenSpecKeeps, WriteSpecKeeps, PersistOpensKeeps,
     PersistWritesKeeps, CreatedKeeps
<1>6. CASE SetupPlan \/ OpenPlan \/ WritePlan \/ SetupTasks \/ CheckPrerequisites \/ Kill
  BY <1>6, SetupPlanKeeps, OpenPlanKeeps, WritePlanKeeps, CheckingKeeps, KillKeeps
<1>7. CASE \E n \in Names : MakeDirectory(n) \/ WriteDocument(n)
  BY <1>7, MakeDirectoryKeeps, WriteDocumentKeeps
<1> QED BY <1>1, <1>2, <1>3, <1>4, <1>5, <1>6, <1>7, Zenon DEF Next

\* The inductive invariant holds in every reachable state, for any names,
\* numbers, documents and stacks, wherever the commands are killed.
THEOREM Invariance == Spec => []Inv
<1>1. Inv /\ [Next]_vars => Inv'
  BY NextInv, StutterInv
<1> QED BY InitInv, <1>1, PTL DEF Spec

(***************************************************************************)
(* What follows.                                                           *)
(***************************************************************************)

\* Type correctness: a file lies in a directory that is there, and no command
\* has ended while one runs.
THEOREM TypeCorrect == Spec => []TypeOK
<1>1. Inv => TypeOK
  <2> SUFFICES ASSUME Inv PROVE TypeOK
    OBVIOUS
  <2>1. active.is \in {"absent", "torn", "names"}
    BY ActiveForms DEF Inv
  <2>2. \A n \in Names : spec[n].is \in {"absent", "torn", "empty", "template", "doc"}
    BY ContentForms DEF Inv, FilesTyped
  <2> QED BY <2>1, <2>2 DEF Inv, FilesTyped, CommandTyped, BoundsTyped, TypeOK
<1> QED BY Invariance, <1>1, PTL

\* A command that is not told its feature works on the one selected last or on
\* one a command cut short was about to select, and the gate passes on the
\* active feature alone once a creation made it so.
THEOREM SelectionIsKeptAlways == Spec => []SelectionIsKept
<1>1. Inv => SelectionIsKept
  BY DEF Inv
<1> QED BY Invariance, <1>1, PTL

\* No command writes over a specification or a plan that is there.
THEOREM TextIsKeptAlways == Spec => TextIsKept
<1> DEFINE Kept ==
      edits' = edits =>
        \A n \in Names : /\ spec[n].is \in {"doc", "template"} => spec'[n] = spec[n]
                         /\ plan[n].is \in {"doc", "template"} => plan'[n] = plan[n]
<1>1. ASSUME Inv, Next, edits' = edits, NEW n \in Names
      PROVE  /\ spec[n].is \in {"doc", "template"} => spec'[n] = spec[n]
             /\ plan[n].is \in {"doc", "template"} => plan'[n] = plan[n]
  <2>1. CASE \E asked \in Asked, suffix \in ShortNames, allow, dry \in BOOLEAN :
               Create(asked, suffix, allow, dry)
    BY <2>1 DEF Create, files
  <2>2. CASE \/ \E env \in Env, op \in {"plan", "tasks"} : Work(op, env, {})
             \/ \E env \in Env, options \in SUBSET {"tasks", "template"} :
                  Work("check", env, options)
    BY <2>2 DEF Work, files
  <2>3. CASE Resolve \/ \E env \in Env : PathsOnly(env)
    BY <2>3 DEF Resolve, PathsOnly, files
  <2>4. CASE \E given \in Env, i \in DOMAIN Phases, status \in BOOLEAN :
               Gate(given, Phases[i], status)
    BY <2>4 DEF Gate, files
  <2>5. CASE Mkdir \/ PersistOpens \/ PersistWrites \/ Created \/ SetupPlan
               \/ SetupTasks \/ CheckPrerequisites \/ Kill
    BY <2>5 DEF Mkdir, PersistOpens, PersistWrites, Created, SetupPlan, SetupTasks,
                CheckPrerequisites, Kill, files
  <2>6. CASE OpenSpec \/ WriteSpec
    <3>1. spec[cmd.name].is \in {"absent", "torn"} /\ plan' = plan
      <4>1. spec[cmd.name] = Absent \/ spec[cmd.name] = Torn
        BY <1>1, <2>6 DEF Inv, CreationKnows, OpenSpec, WriteSpec
      <4>2. plan' = plan
        BY <2>6 DEF OpenSpec, WriteSpec
      <4> QED BY <4>1, <4>2 DEF Absent, Torn
    <3>2. PICK t : spec' = [spec EXCEPT ![cmd.name] = t]
      BY <2>6, Zenon DEF OpenSpec, WriteSpec
    <3>3. n # cmd.name => spec'[n] = spec[n]
      BY <1>1, <3>2 DEF Inv, FilesTyped
    <3> QED BY <3>1, <3>3
  <2>7. CASE OpenPlan
    <3>1. CASE plan' = plan
      BY <2>7, <3>1 DEF OpenPlan
    <3>2. CASE plan' # plan
      <4>1. plan[cmd.name].is = "absent" /\ spec' = spec
        BY <2>7, <3>2 DEF OpenPlan, PlanIsThere
      <4>2. PICK t : plan' = [plan EXCEPT ![cmd.name] = t]
        BY <2>7, <3>2, Zenon DEF OpenPlan
      <4>3. n # cmd.name => plan'[n] = plan[n]
        BY <1>1, <4>2 DEF Inv, FilesTyped
      <4> QED BY <4>1, <4>3
    <3> QED BY <3>1, <3>2
  <2>8. CASE WritePlan
    <3>1. plan[cmd.name].is = "torn" /\ spec' = spec
      <4>1. plan[cmd.name] = Torn /\ spec' = spec
        BY <1>1, <2>8 DEF Inv, PlanKnows, WritePlan
      <4> QED BY <4>1 DEF Torn
    <3>2. n # cmd.name => plan'[n] = plan[n]
      BY <1>1, <2>8 DEF Inv, FilesTyped, WritePlan
    <3> QED BY <3>1, <3>2
  <2>9. CASE \E m \in Names : MakeDirectory(m) \/ WriteDocument(m)
    <3>1. edits' = edits + 1 /\ edits \in Nat
      <4>1. edits' = edits + 1
        BY <2>9 DEF MakeDirectory, WriteDocument, ByHand
      <4>2. edits \in Nat
        BY <1>1, BoundsAssumption DEF Inv, BoundsTyped
      <4> QED BY <4>1, <4>2
    <3> QED BY <1>1, <3>1
  <2> QED BY <1>1, <2>1, <2>2, <2>3, <2>4, <2>5, <2>6, <2>7, <2>8, <2>9, Zenon DEF Next
<1>2. Inv /\ [Next]_vars => [Kept]_vars
  BY <1>1
<1> QED BY Invariance, <1>2, PTL DEF Spec, TextIsKept

\* A creation does not give a directory the number of another: the directories
\* are looked through before, and their names are apart (CreationKnows).  The two
\* cases that are not looked at are those the property names.
THEOREM OneFeaturePerNumberAlways == Spec => OneFeaturePerNumber
<1> DEFINE Free ==
      cmd.op = "create" =>
        \A d \in dirs' \ dirs, e \in dirs :
          d.form # "time" /\ d.num = e.num =>
            \/ cmd.way = "asked" /\ e.form = "padded"
            \/ cmd.way = "next" /\ e.form = "time"
<1>1. ASSUME Inv, Next, cmd.op = "create"
      PROVE  \A d \in dirs' \ dirs : Apart(dirs, d, cmd.way)
  <2>1. CASE Mkdir
    <3>1. dirs' = dirs \cup {cmd.name} /\ cmd.at = "mkdir"
      BY <2>1 DEF Mkdir
    <3>2. cmd.name \in dirs \/ Apart(dirs, cmd.name, cmd.way)
      BY <1>1, <3>1 DEF Inv, CreationKnows
    <3> QED BY <3>1, <3>2
  <2>2. CASE ~Mkdir
    <3>1. cmd # Idle
      BY <1>1 DEF Idle
    <3>2. ~Starts /\ ~ByHand
      BY <3>1 DEF Starts, ByHand
    <3>3. ~\E asked \in Asked, suffix \in ShortNames, allow, dry \in BOOLEAN :
              Create(asked, suffix, allow, dry)
      <4>1. ASSUME NEW asked, NEW suffix, NEW allow, NEW dry,
                   Create(asked, suffix, allow, dry)
            PROVE  Starts
        BY <4>1 DEF Create
      <4> QED BY <3>2, <4>1
    <3>4. ~\E op, env, options : Work(op, env, options)
      BY <3>2 DEF Work
    <3>5. ~Resolve /\ ~\E env : PathsOnly(env)
      BY <3>2 DEF Resolve, PathsOnly
    <3>6. ~\E given, ph, status : Gate(given, ph, status)
      BY <3>2 DEF Gate
    <3>7. ~\E n : MakeDirectory(n) \/ WriteDocument(n)
      BY <3>2 DEF MakeDirectory, WriteDocument
    <3>8. ~(SetupPlan \/ OpenPlan \/ WritePlan \/ SetupTasks \/ CheckPrerequisites)
      BY <1>1 DEF SetupPlan, OpenPlan, WritePlan, SetupTasks, CheckPrerequisites, Doing
    <3>9. OpenSpec \/ WriteSpec \/ PersistOpens \/ PersistWrites \/ Created \/ Kill
      BY <1>1, <2>2, <3>3, <3>4, <3>5, <3>6, <3>7, <3>8, Zenon DEF Next
    <3>10. dirs' = dirs
      BY <3>9 DEF OpenSpec, WriteSpec, PersistOpens, PersistWrites, Created, Kill, files
    <3> QED BY <3>10
  <2> QED BY <2>1, <2>2
<1>2. Inv /\ [Next]_vars => [Free]_vars
  BY <1>1 DEF Apart
<1> QED BY Invariance, <1>2, PTL DEF Spec, OneFeaturePerNumber

(***************************************************************************)
(* The order of the presets.  A finite set with a strict total order is    *)
(* put in order by the rank of its members, the number of those before.    *)
(***************************************************************************)

StrictOrder(R, S) ==
  /\ \A a \in S : <<a, a>> \notin R
  /\ \A a, b, c \in S : <<a, b>> \in R /\ <<b, c>> \in R => <<a, c>> \in R
  /\ \A a, b \in S : a # b => <<a, b>> \in R \/ <<b, a>> \in R

InOrderOf(f, R, S) ==
  /\ f \in [1..Cardinality(S) -> S]
  /\ \A i, j \in 1..Cardinality(S) : i < j => <<f[i], f[j]>> \in R

\* A finite set with a strict total order can be put in that order.
LEMMA OrderExists ==
  ASSUME NEW S, IsFiniteSet(S), NEW R, StrictOrder(R, S)
  PROVE  \E f : InOrderOf(f, R, S)
<1> DEFINE n == Cardinality(S)
           Below(x) == {y \in S : <<y, x>> \in R}
           rank == [x \in S |-> Cardinality(Below(x)) + 1]
<1>1. n \in Nat
  BY FS_CardinalityType
<1>2. ASSUME NEW x \in S
      PROVE  IsFiniteSet(Below(x)) /\ Cardinality(Below(x)) \in 0..(n - 1)
  <2>1. Below(x) \in SUBSET (S \ {x})
    BY DEF StrictOrder
  <2>2. IsFiniteSet(S \ {x}) /\ Cardinality(S \ {x}) = n - 1
    BY FS_RemoveElement
  <2> HIDE DEF Below
  <2>3. IsFiniteSet(Below(x)) /\ Cardinality(Below(x)) <= Cardinality(S \ {x})
    BY <2>1, <2>2, FS_Subset
  <2>4. Cardinality(Below(x)) \in Nat
    BY <2>3, FS_CardinalityType
  <2> HIDE DEF n
  <2> QED BY <2>2, <2>3, <2>4, <1>1
<1>3. rank \in [S -> 1..n]
  <2>1. ASSUME NEW x \in S PROVE Cardinality(Below(x)) + 1 \in 1..n
    <3>1. Cardinality(Below(x)) \in 0..(n - 1)
      BY <1>2
    <3> HIDE DEF Below, n
    <3> QED BY <1>1, <3>1
  <2> QED BY <2>1
<1>4. ASSUME NEW x \in S, NEW y \in S, <<x, y>> \in R
      PROVE  rank[x] < rank[y]
  <2>1. Below(x) \in SUBSET Below(y) /\ x \in Below(y) /\ x \notin Below(x)
    BY <1>4 DEF StrictOrder
  <2>2. /\ Cardinality(Below(x)) <= Cardinality(Below(y))
        /\ Cardinality(Below(x)) # Cardinality(Below(y))
    BY <2>1, <1>2, FS_Subset
  <2> QED BY <2>2, <1>1, <1>2
<1> HIDE DEF rank, Below
<1>5. rank \in Injection(S, 1..n)
  <2>1. ASSUME NEW x \in S, NEW y \in S, x # y PROVE rank[x] # rank[y]
    <3>1. rank[x] < rank[y] \/ rank[y] < rank[x]
      BY <2>1, <1>4 DEF StrictOrder
    <3>2. rank[x] \in 1..n /\ rank[y] \in 1..n
      BY <1>3
    <3> HIDE DEF n
    <3> QED BY <3>1, <3>2, <1>1
  <2> QED BY <2>1, <1>3 DEF Injection, IsInjective
<1>6. rank \in Surjection(S, 1..n)
  BY <1>1, <1>5, FS_Interval, FS_Injection
<1> DEFINE f == [i \in 1..n |-> CHOOSE x \in S : rank[x] = i]
<1>7. \A i \in 1..n : f[i] \in S /\ rank[f[i]] = i
  BY <1>6 DEF Surjection
<1>8. ASSUME NEW i \in 1..n, NEW j \in 1..n, i < j
      PROVE  <<f[i], f[j]>> \in R
  <2>1. f[i] \in S /\ f[j] \in S /\ rank[f[i]] = i /\ rank[f[j]] = j
    BY <1>7
  <2>2. f[i] # f[j] /\ <<f[j], f[i]>> \notin R
    BY <2>1, <1>1, <1>4, <1>8
  <2> QED BY <2>1, <2>2 DEF StrictOrder
<1>9. f \in [1..n -> S]
  BY <1>7
<1> QED BY <1>8, <1>9 DEF InOrderOf

\* An order leaves no member out.
LEMMA OrderIsWhole ==
  ASSUME NEW S, IsFiniteSet(S), NEW R, StrictOrder(R, S), NEW f, InOrderOf(f, R, S)
  PROVE  \A x \in S : \E i \in 1..Cardinality(S) : f[i] = x
<1> DEFINE n == Cardinality(S)
<1>1. n \in Nat /\ IsFiniteSet(1..n) /\ Cardinality(1..n) = n
  BY FS_CardinalityType, FS_Interval
<1>2. ASSUME NEW i \in 1..n, NEW j \in 1..n, f[i] = f[j] PROVE i = j
  <2>1. f[i] \in S /\ f[j] \in S
    BY DEF InOrderOf
  <2>2. ~(i < j) /\ ~(j < i)
    BY <1>2, <2>1 DEF InOrderOf, StrictOrder
  <2> HIDE DEF n
  <2> QED BY <1>1, <2>2
<1>3. f \in Injection(1..n, S)
  BY <1>2 DEF InOrderOf, Injection, IsInjective
<1>4. f \in Surjection(1..n, S)
  BY <1>1, <1>3, FS_Injection
<1> QED BY <1>4 DEF Surjection

AboveIn(s) == {r \in InForce(s) \X InForce(s) : Above(s, r[1], r[2])}

\* What is in force are finitely many presets.
LEMMA InForceForms ==
  ASSUME NEW s \in StackRecords
  PROVE  /\ InForce(s) \subseteq Nat /\ IsFiniteSet(InForce(s))
         /\ Cardinality(InForce(s)) \in Nat
         /\ \A p \in InForce(s) : s.presets[p] \in PresetRecords
<1>1. s.presets \in Seq(PresetRecords)
  BY DEF StackRecords
<1>2. /\ Len(s.presets) \in Nat /\ DOMAIN s.presets = 1..Len(s.presets)
      /\ \A p \in DOMAIN s.presets : s.presets[p] \in PresetRecords
  BY <1>1
<1>3. InForce(s) \in SUBSET (1..Len(s.presets))
  BY <1>2 DEF InForce
<1>4. IsFiniteSet(InForce(s))
  <2>1. IsFiniteSet(1..Len(s.presets))
    BY <1>2, FS_Interval
  <2> QED BY <2>1, <1>3, FS_Subset
<1> QED BY <1>2, <1>3, <1>4, FS_CardinalityType

\* One preset stands above another by priority and name: a strict total order.
LEMMA AboveIsStrict ==
  ASSUME NEW s \in StackRecords
  PROVE  StrictOrder(AboveIn(s), InForce(s))
<1> DEFINE S == InForce(s)
           prio == [p \in S |-> NormalPriority(s.presets[p].priority)]
<1>1. S \subseteq Nat
  BY InForceForms
<1>2. \A p \in S : prio[p] \in Nat
  <2> SUFFICES ASSUME NEW p \in S PROVE prio[p] \in Nat
    OBVIOUS
  <2>1. s.presets[p].priority \in Nat
    BY InForceForms DEF PresetRecords
  <2> QED BY <2>1 DEF NormalPriority
<1>3. ASSUME NEW p \in S, NEW q \in S
      PROVE  Above(s, p, q)
               <=> IF s.presetRegistry = "valid"
                   THEN prio[p] < prio[q] \/ (prio[p] = prio[q] /\ p < q) ELSE p < q
  BY DEF Above, Before
<1>4. ASSUME NEW p \in S, NEW q \in S
      PROVE  <<p, q>> \in AboveIn(s) <=> Above(s, p, q)
  BY DEF AboveIn
<1> HIDE DEF S, prio
<1>5. /\ \A a \in S : ~Above(s, a, a)
      /\ \A a, b \in S : a # b => Above(s, a, b) \/ Above(s, b, a)
  BY <1>1, <1>2, <1>3
<1>6. \A a, b, c \in S : Above(s, a, b) /\ Above(s, b, c) => Above(s, a, c)
  BY <1>1, <1>2, <1>3
<1> QED BY <1>4, <1>5, <1>6 DEF StrictOrder, S

\* The presets in force are walked each once, a higher one before a lower one.
LEMMA PresetOrder ==
  ASSUME NEW s \in StackRecords
  PROVE  LET order == SortedPresetIds(s)
             n == Cardinality(InForce(s))
         IN  /\ order \in [1..n -> InForce(s)]
             /\ \A p \in InForce(s) : \E i \in 1..n : order[i] = p
             /\ \A i, j \in 1..n : i < j <=> Above(s, order[i], order[j])
<1> DEFINE S == InForce(s)
           n == Cardinality(S)
           Sorted(f) == f \in [1..n -> S]
                          /\ \A i, j \in DOMAIN f : i < j => Above(s, f[i], f[j])
<1>1. SortedPresetIds(s) = CHOOSE f \in [1..n -> S] :
                             \A i, j \in DOMAIN f : i < j => Above(s, f[i], f[j])
  <2>1. CASE s.presetRegistry = "valid"
    BY <2>1 DEF SortedPresetIds, InOrder, InForce, Above, Before
  <2>2. CASE s.presetRegistry # "valid"
    BY <2>2 DEF SortedPresetIds, InOrder, InForce, Above, Before
  <2> QED BY <2>1, <2>2
<1>2. StrictOrder(AboveIn(s), S) /\ IsFiniteSet(S) /\ n \in Nat
  BY AboveIsStrict, InForceForms
<1>3. \A p, q \in S : <<p, q>> \in AboveIn(s) <=> Above(s, p, q)
  BY DEF AboveIn
<1> HIDE DEF S
<1>4. \A f : InOrderOf(f, AboveIn(s), S) <=> Sorted(f)
  BY <1>3 DEF InOrderOf
<1>5. PICK f : Sorted(f)
  BY <1>2, <1>4, OrderExists
<1>6. Sorted(SortedPresetIds(s))
  BY <1>1, <1>5
<1> DEFINE o == SortedPresetIds(s)
<1> HIDE DEF o
<1>7. o \in [1..n -> S] /\ \A i, j \in 1..n : i < j => Above(s, o[i], o[j])
  BY <1>6 DEF o
<1>8. \A p \in S : \E i \in 1..n : o[i] = p
  BY <1>2, <1>4, <1>6, OrderIsWhole DEF o
<1>9. ASSUME NEW i \in 1..n, NEW j \in 1..n, Above(s, o[i], o[j])
      PROVE  i < j
  <2>1. o[i] \in S /\ o[j] \in S
    BY <1>7
  <2>2. ~Above(s, o[j], o[i]) /\ o[i] # o[j]
    BY <2>1, <1>2, <1>3, <1>9 DEF StrictOrder
  <2>3. ~(j < i) /\ i # j
    BY <2>2, <1>7
  <2> HIDE DEF n
  <2> QED BY <2>3, <1>2
<1> QED BY <1>7, <1>8, <1>9 DEF S, o

(***************************************************************************)
(* The layers of the presets.                                              *)
(***************************************************************************)

\* A preset gives a layer of its own name, nothing, or an error.
LEMMA LayerForms ==
  ASSUME NEW s \in StackRecords, NEW p \in InForce(s)
  PROVE  LET l == PresetLayer(s, p)
         IN  /\ l.is \in {"layer", "nothing", "error"}
             /\ l.is = "layer" => l.id = <<"preset", p>> /\ l.strategy \in Strategies
                                    /\ l.placeholder \in BOOLEAN
             /\ l.is # "layer" => l.strategy = "none"
<1>1. s.presets[p] \in PresetRecords
  BY InForceForms
<1>2. PICK strategy \in Strategies, placeholder \in BOOLEAN :
        PresetLayer(s, p) \in {NoLayer, BadLayer, Layer(<<"preset", p>>, strategy, placeholder)}
  <2>1. s.presets[p].strategy \in Strategies /\ s.presets[p].placeholder \in BOOLEAN
    BY <1>1 DEF PresetRecords
  <2>2. "replace" \in Strategies
    BY DEF Strategies
  <2>3. PresetLayer(s, p) \in
          {NoLayer, BadLayer, Replacing(<<"preset", p>>),
           Layer(<<"preset", p>>, s.presets[p].strategy, s.presets[p].placeholder)}
    BY Zenon DEF PresetLayer
  <2> QED BY <2>1, <2>2, <2>3, Zenon DEF Replacing
<1>3. \A id, st, ph : /\ Layer(id, st, ph).is = "layer" /\ Layer(id, st, ph).id = id
                      /\ Layer(id, st, ph).strategy = st /\ Layer(id, st, ph).placeholder = ph
  BY DEF Layer
<1>4. NoLayer.is = "nothing" /\ NoLayer.strategy = "none"
        /\ BadLayer.is = "error" /\ BadLayer.strategy = "none"
  BY DEF NoLayer, BadLayer, Layer
<1> QED BY <1>2, <1>3, <1>4

LEMMA MinIsLeast ==
  ASSUME NEW K \in SUBSET Nat, K # {}
  PROVE  Min(K) \in K /\ \A k \in K : Min(K) <= k
  BY LeastNumber DEF Min

\* The walk keeps the layers of the first m presets, and stops at the first that
\* ends the search or at the last of all.
LEMMA PresetLayersWalk ==
  ASSUME NEW s \in StackRecords
  PROVE  LET order == SortedPresetIds(s)
             n == Cardinality(InForce(s))
             layers == PresetLayers(s)
         IN  \E m \in 0..n :
               /\ DOMAIN layers = 1..m /\ Len(layers) = m
               /\ \A i \in 1..m : layers[i] = PresetLayer(s, order[i])
               /\ \A i \in 1..(m - 1) : ~Ends(layers[i])
               /\ \/ m = n /\ \A i \in 1..n : ~Ends(PresetLayer(s, order[i]))
                  \/ m > 0 /\ Ends(layers[m])
               /\ layers \in Seq({PresetLayer(s, p) : p \in InForce(s)})
<1> DEFINE o == SortedPresetIds(s)
           S == InForce(s)
           n == Cardinality(S)
           layers == PresetLayers(s)
           ending == {i \in DOMAIN o : Ends(PresetLayer(s, o[i]))}
           m == IF ending = {} THEN Len(o) ELSE Min(ending)
<1>1. n \in Nat /\ o \in [1..n -> S]
  BY PresetOrder, InForceForms
<1>2. DOMAIN o = 1..n /\ Len(o) = n
  <2> HIDE DEF o, n, S
  <2> QED BY <1>1
<1>3. layers = [i \in 1..m |-> PresetLayer(s, o[i])]
  BY DEF PresetLayers
<1>4. /\ m \in 0..n
      /\ \A i \in 1..(m - 1) : i \in 1..n /\ ~Ends(PresetLayer(s, o[i]))
      /\ \/ m = n /\ \A i \in 1..n : ~Ends(PresetLayer(s, o[i]))
         \/ m > 0 /\ Ends(PresetLayer(s, o[m]))
  <2>1. ending \subseteq 1..n /\ \A i \in 1..n : i \in ending <=> Ends(PresetLayer(s, o[i]))
    BY <1>2
  <2> HIDE DEF o, n, S
  <2>2. CASE ending = {}
    <3>1. m = n
      BY <1>2, <2>2
    <3> HIDE DEF ending, m
    <3> QED BY <2>1, <2>2, <3>1, <1>1
  <2>3. CASE ending # {}
    <3>1. m = Min(ending)
      BY <2>3
    <3>2. ending \in SUBSET Nat
      BY <2>1
    <3> HIDE DEF ending, m
    <3>3. m \in ending /\ \A k \in ending : m <= k
      BY <3>1, <3>2, <2>3, MinIsLeast
    <3>4. m \in 1..n
      BY <3>3, <2>1
    <3>5. \A i \in 1..(m - 1) : i \in 1..n /\ i \notin ending
      BY <3>3, <3>4, <1>1
    <3> QED BY <2>1, <3>3, <3>4, <3>5, <1>1
  <2> QED BY <2>2, <2>3
<1> HIDE DEF m, o, layers, ending, n, S
<1>5. m \in Nat /\ \A i \in 1..m : i \in 1..n
  BY <1>4, <1>1
<1>6. DOMAIN layers = 1..m /\ \A i \in 1..m : layers[i] = PresetLayer(s, o[i])
  BY <1>3
<1>7. layers \in [1..m -> {PresetLayer(s, p) : p \in S}]
  BY <1>3, <1>5, <1>1
<1>8. layers \in Seq({PresetLayer(s, p) : p \in S}) /\ Len(layers) = m
  <2> DEFINE T == {PresetLayer(s, p) : p \in S}
  <2> HIDE DEF T
  <2> QED BY <1>5, <1>7 DEF T
<1>9. \A i \in 1..(m - 1) : ~Ends(layers[i])
  BY <1>4, <1>5, <1>6
<1>10. m > 0 => layers[m] = PresetLayer(s, o[m])
  BY <1>5, <1>6
<1> QED BY <1>4, <1>6, <1>8, <1>9, <1>10 DEF layers, n, o, S

(***************************************************************************)
(* Composition.  The recursive function of Compose is there: one defined   *)
(* on the k lowest layers can be carried on to one more.                   *)
(***************************************************************************)

\* Induction over the numbers, said of a set of them.
LEMMA NumbersByInduction ==
  ASSUME NEW K \in SUBSET Nat, 0 \in K, \A n \in K : n + 1 \in K
  PROVE  Nat \subseteq K
<1> SUFFICES ASSUME Nat \ K # {} PROVE FALSE
  OBVIOUS
<1>1. PICK m \in Nat \ K : \A k \in Nat \ K : m <= k
  BY LeastNumber
<1>2. m - 1 \in Nat /\ m - 1 \in K
  BY <1>1
<1> QED BY <1>1, <1>2

\* What g says of the texts of the layers from the i-th down.
Composing(g, layers, m) ==
  /\ g[m] = Text(<<layers[m].id>>)
  /\ \A i \in 1..(m - 1) : g[i] = Put(g[i + 1], layers[i])

\* The text of all layers is reached from the last one, one layer at a time.
LEMMA ComposeSteps ==
  ASSUME NEW layers, NEW m \in Nat \ {0}, DOMAIN layers = 1..m, Len(layers) = m
  PROVE  \E g : Composing(g, layers, m) /\ Compose(layers) = g[1]
<1> DEFINE Value(g, i) == IF i = m THEN Text(<<layers[i].id>>) ELSE Put(g[i + 1], layers[i])
           Lowest(k) == (m - k)..m
           K == {k \in Nat : k < m => \E g : g = [i \in Lowest(k) |-> Value(g, i)]}
<1>1. 0 \in K
  <2>1. Lowest(0) = {m}
    OBVIOUS
  <2> DEFINE g == [i \in {m} |-> Text(<<layers[i].id>>)]
  <2>2. g = [i \in {m} |-> Value(g, i)]
    OBVIOUS
  <2> HIDE DEF g, Value
  <2>3. \E h : h = [i \in Lowest(0) |-> Value(h, i)]
    BY <2>1, <2>2
  <2> QED BY <2>3
<1>2. ASSUME NEW k \in K PROVE k + 1 \in K
  <2> SUFFICES ASSUME k + 1 < m
               PROVE  \E g : g = [i \in Lowest(k + 1) |-> Value(g, i)]
    OBVIOUS
  <2>1. PICK g : g = [i \in Lowest(k) |-> Value(g, i)]
    OBVIOUS
  <2> DEFINE j == m - (k + 1)
             h == [i \in Lowest(k + 1) |-> IF i = j THEN Put(g[j + 1], layers[j]) ELSE g[i]]
  <2>2. /\ k \in Nat /\ j \in Nat /\ j < m /\ j + 1 \in Lowest(k) /\ j \notin Lowest(k)
        /\ Lowest(k + 1) = Lowest(k) \cup {j}
        /\ \A i \in Lowest(k) : i # m => i + 1 \in Lowest(k)
    OBVIOUS
  <2> HIDE DEF Lowest, j
  <2>3. \A i \in Lowest(k) : h[i] = g[i]
    BY <2>2
  <2>4. h[j] = Put(h[j + 1], layers[j]) /\ h[j] = Value(h, j)
    BY <2>2, <2>3
  <2>5. ASSUME NEW i \in Lowest(k) PROVE h[i] = Value(h, i)
    <3>1. g[i] = Value(g, i)
      BY <2>1
    <3> QED BY <3>1, <2>2, <2>3
  <2>6. DOMAIN h = Lowest(k + 1)
    OBVIOUS
  <2> DEFINE h2 == [i \in Lowest(k + 1) |-> Value(h, i)]
  <2>7. h = h2
    <3>1. \A i \in Lowest(k + 1) : h[i] = h2[i]
      BY <2>2, <2>4, <2>5
    <3>2. h = [i \in Lowest(k + 1) |-> h[i]]
      OBVIOUS
    <3> HIDE DEF h, Value
    <3> QED BY <3>1, <3>2
  <2> HIDE DEF h, Value
  <2> QED BY <2>7
<1>3. m - 1 \in K
  <2>1. K \in SUBSET Nat /\ m - 1 \in Nat
    OBVIOUS
  <2> HIDE DEF K
  <2>2. Nat \subseteq K
    BY <1>1, <1>2, <2>1, NumbersByInduction
  <2> QED BY <2>1, <2>2
<1>4. Lowest(m - 1) = 1..m
  OBVIOUS
<1>5. \E g : g = [i \in 1..m |-> Value(g, i)]
  <2> HIDE DEF Lowest, Value
  <2> QED BY <1>3, <1>4
<1> DEFINE from == CHOOSE g : g = [i \in 1..m |-> Value(g, i)]
<1>6. from = [i \in 1..m |-> Value(from, i)]
  <2> HIDE DEF Value
  <2> QED BY <1>5
<1>7. Compose(layers) = from[1]
  BY Zenon DEF Compose
<1> HIDE DEF from
<1>8. Composing(from, layers, m)
  BY <1>6 DEF Composing
<1> QED BY <1>7, <1>8

\* Layers that say nothing leave the text of those below them.
LEMMA ComposeAlone ==
  ASSUME NEW layers, NEW m \in Nat \ {0}, DOMAIN layers = 1..m, Len(layers) = m,
         \A i \in 1..(m - 1) : layers[i].is = "nothing"
  PROVE  Compose(layers) = Text(<<layers[m].id>>)
<1>1. PICK g : Composing(g, layers, m) /\ Compose(layers) = g[1]
  BY ComposeSteps
<1> DEFINE K == {k \in Nat : k < m => g[m - k] = Text(<<layers[m].id>>)}
<1>2. 0 \in K
  BY <1>1 DEF Composing
<1>3. ASSUME NEW k \in K PROVE k + 1 \in K
  <2> SUFFICES ASSUME k + 1 < m PROVE g[m - (k + 1)] = Text(<<layers[m].id>>)
    OBVIOUS
  <2> DEFINE i == m - (k + 1)
  <2>1. i \in 1..(m - 1) /\ i + 1 = m - k /\ k < m
    OBVIOUS
  <2> HIDE DEF i
  <2>2. g[i] = g[i + 1]
    BY <1>1, <2>1 DEF Composing, Put
  <2> QED BY <2>1, <2>2 DEF i
<1>4. m - 1 \in K
  <2>1. K \in SUBSET Nat /\ m - 1 \in Nat
    OBVIOUS
  <2> HIDE DEF K
  <2>2. Nat \subseteq K
    BY <1>2, <1>3, <2>1, NumbersByInduction
  <2> QED BY <2>1, <2>2
<1>5. g[1] = Text(<<layers[m].id>>)
  BY <1>4
<1> QED BY <1>1, <1>5

(***************************************************************************)
(* What a composed text holds: of the layers from the i-th down, each once *)
(* or on both sides of what it wraps.                                      *)
(***************************************************************************)

Real(layers, j) == layers[j].is = "layer"

Ids(layers, m) == {layers[j].id : j \in 1..m}

Holds(text, layers, i, m) ==
  /\ text \in Seq(Ids(layers, m))
  /\ \A j \in i..m : Real(layers, j) => \E k \in DOMAIN text : text[k] = layers[j].id
  /\ \A k \in DOMAIN text : \E j \in i..m : Real(layers, j) /\ text[k] = layers[j].id
  /\ \A j, l \in i..m : Real(layers, j) /\ Real(layers, l) /\ j < l =>
       \A k \in DOMAIN text : text[k] = layers[l].id =>
         /\ layers[j].strategy \in {"prepend", "wrap"}
              => \E a \in DOMAIN text : a < k /\ text[a] = layers[j].id
         /\ layers[j].strategy \in {"append", "wrap"}
              => \E a \in DOMAIN text : a > k /\ text[a] = layers[j].id

Composable(layers, m) ==
  /\ DOMAIN layers = 1..m /\ Len(layers) = m
  /\ layers[m].is = "layer" /\ layers[m].strategy = "replace"
  /\ \A i \in 1..(m - 1) : layers[i].is = "nothing"
                             \/ (layers[i].is = "layer"
                                   /\ layers[i].strategy \in {"prepend", "append", "wrap"})
  /\ \A i, j \in 1..m : Real(layers, i) /\ Real(layers, j) /\ i # j
                          => layers[i].id # layers[j].id

\* Putting one name before, after or around a text moves what it holds by d.
Shifted(text, below, id, d, before, after) ==
  /\ \A k \in DOMAIN below : k + d \in DOMAIN text /\ text[k + d] = below[k]
  /\ \A k \in DOMAIN text :
       text[k] = id \/ (k - d \in DOMAIN below /\ text[k] = below[k - d])
  /\ \E k \in DOMAIN text : text[k] = id
  /\ before => \E a \in DOMAIN text :
                 text[a] = id /\ \A k \in DOMAIN below : a < k + d
  /\ after => \E a \in DOMAIN text :
                text[a] = id /\ \A k \in DOMAIN below : a > k + d

\* The three ways of putting a name on a text, each a shift.
LEMMA PutShifts ==
  ASSUME NEW I, NEW b \in Seq(I), NEW id \in I
  PROVE  /\ Shifted(<<id>> \o b, b, id, 1, TRUE, FALSE) /\ <<id>> \o b \in Seq(I)
         /\ Shifted(b \o <<id>>, b, id, 0, FALSE, TRUE) /\ b \o <<id>> \in Seq(I)
         /\ Shifted(<<id>> \o b \o <<id>>, b, id, 1, TRUE, TRUE)
         /\ <<id>> \o b \o <<id>> \in Seq(I)
<1> DEFINE n == Len(b)
           p == <<id>> \o b
           a == b \o <<id>>
           w == <<id>> \o b \o <<id>>
<1>1. n \in Nat /\ DOMAIN b = 1..n /\ <<id>> \in Seq(I)
  OBVIOUS
<1>2. /\ p \in Seq(I) /\ Len(p) = n + 1 /\ DOMAIN p = 1..(n + 1)
      /\ p[1] = id /\ \A k \in 1..n : p[k + 1] = b[k]
  BY <1>1
<1>3. /\ a \in Seq(I) /\ DOMAIN a = 1..(n + 1)
      /\ a[n + 1] = id /\ \A k \in 1..n : a[k] = b[k]
  BY <1>1
<1>4. /\ w \in Seq(I) /\ DOMAIN w = 1..(n + 2)
      /\ w[1] = id /\ w[n + 2] = id /\ \A k \in 1..n : w[k + 1] = b[k]
  <2>1. w = p \o <<id>>
    OBVIOUS
  <2> HIDE DEF p, w, n
  <2>2. w \in Seq(I) /\ DOMAIN w = 1..(n + 2)
    BY <1>1, <1>2, <2>1
  <2>3. w[n + 2] = id
    BY <1>1, <1>2, <2>1
  <2>4. \A k \in 1..(n + 1) : w[k] = p[k]
    BY <1>1, <1>2, <2>1
  <2> QED BY <1>1, <1>2, <2>2, <2>3, <2>4
<1> HIDE DEF n, p, a, w
<1>5. Shifted(p, b, id, 1, TRUE, FALSE)
  <2>1. \A k \in DOMAIN p : p[k] = id \/ (k - 1 \in DOMAIN b /\ p[k] = b[k - 1])
    <3> SUFFICES ASSUME NEW k \in 1..(n + 1), k # 1
                 PROVE  k - 1 \in 1..n /\ p[k] = b[k - 1]
      BY <1>1, <1>2
    <3>1. k - 1 \in 1..n /\ (k - 1) + 1 = k
      BY <1>1
    <3> QED BY <3>1, <1>2
  <2> QED BY <1>1, <1>2, <2>1 DEF Shifted
<1>6. Shifted(a, b, id, 0, FALSE, TRUE)
  <2>1. \A k \in DOMAIN a : a[k] = id \/ (k \in DOMAIN b /\ a[k] = b[k])
    BY <1>1, <1>3
  <2>2. \A k \in DOMAIN b : k + 0 = k /\ k \in DOMAIN a /\ k < n + 1
    BY <1>1, <1>3
  <2>3. \A k \in DOMAIN a : k - 0 = k
    BY <1>1, <1>3
  <2> QED BY <1>1, <1>3, <2>1, <2>2, <2>3 DEF Shifted
<1>7. Shifted(w, b, id, 1, TRUE, TRUE)
  <2>1. \A k \in DOMAIN w : w[k] = id \/ (k - 1 \in DOMAIN b /\ w[k] = b[k - 1])
    <3> SUFFICES ASSUME NEW k \in 1..(n + 2), k # 1, k # n + 2
                 PROVE  k - 1 \in 1..n /\ w[k] = b[k - 1]
      BY <1>1, <1>4
    <3>1. k - 1 \in 1..n /\ (k - 1) + 1 = k
      BY <1>1
    <3> QED BY <3>1, <1>4
  <2>2. \A k \in DOMAIN b : k + 1 \in DOMAIN w /\ w[k + 1] = b[k]
                              /\ 1 < k + 1 /\ n + 2 > k + 1
    BY <1>1, <1>4
  <2>3. 1 \in DOMAIN w /\ n + 2 \in DOMAIN w
    BY <1>1, <1>4
  <2> QED BY <1>4, <2>1, <2>2, <2>3 DEF Shifted
<1> QED BY <1>2, <1>3, <1>4, <1>5, <1>6, <1>7 DEF p, a, w

\* One more layer on a text that holds those below it.
LEMMA HoldsOneMore ==
  ASSUME NEW layers, NEW m \in Nat \ {0}, Composable(layers, m),
         NEW i \in 1..(m - 1), Real(layers, i),
         NEW b, Holds(b, layers, i + 1, m),
         NEW t \in Seq(Ids(layers, m)), NEW d \in {0, 1},
         NEW before \in BOOLEAN, NEW after \in BOOLEAN,
         Shifted(t, b, layers[i].id, d, before, after),
         layers[i].strategy \in {"prepend", "wrap"} => before,
         layers[i].strategy \in {"append", "wrap"} => after
  PROVE  Holds(t, layers, i, m)
<1> DEFINE id == layers[i].id
           n == Len(b)
<1>1. /\ n \in Nat /\ DOMAIN b = 1..n
      /\ Len(t) \in Nat /\ DOMAIN t = 1..Len(t)
  BY DEF Holds
<1>2. \A j \in i..m : j = i \/ j \in (i + 1)..m
  OBVIOUS
<1>3. \A j \in (i + 1)..m : Real(layers, j) => layers[j].id # id
  BY DEF Composable
<1>4. ASSUME NEW j \in i..m, Real(layers, j)
      PROVE  \E k \in DOMAIN t : t[k] = layers[j].id
  <2>1. CASE j = i
    BY <2>1 DEF Shifted
  <2>2. CASE j \in (i + 1)..m
    <3>1. PICK k \in DOMAIN b : b[k] = layers[j].id
      BY <1>4, <2>2 DEF Holds
    <3> QED BY <3>1 DEF Shifted
  <2> QED BY <1>2, <2>1, <2>2
<1>5. ASSUME NEW k \in DOMAIN t
      PROVE  \E j \in i..m : Real(layers, j) /\ t[k] = layers[j].id
  <2>1. CASE t[k] = id
    BY <2>1
  <2>2. CASE k - d \in DOMAIN b /\ t[k] = b[k - d]
    <3>1. PICK j \in (i + 1)..m : Real(layers, j) /\ b[k - d] = layers[j].id
      BY <2>2 DEF Holds
    <3>2. j \in i..m
      OBVIOUS
    <3> QED BY <2>2, <3>1, <3>2
  <2> QED BY <2>1, <2>2 DEF Shifted
<1>6. ASSUME NEW j \in i..m, NEW l \in i..m, Real(layers, j), Real(layers, l), j < l,
             NEW k \in DOMAIN t, t[k] = layers[l].id
      PROVE  /\ layers[j].strategy \in {"prepend", "wrap"}
                  => \E a \in DOMAIN t : a < k /\ t[a] = layers[j].id
             /\ layers[j].strategy \in {"append", "wrap"}
                  => \E a \in DOMAIN t : a > k /\ t[a] = layers[j].id
  <2>1. l \in (i + 1)..m
    BY <1>6
  <2>2. k - d \in DOMAIN b /\ t[k] = b[k - d]
    BY <2>1, <1>3, <1>6 DEF Shifted
  <2>3. k = (k - d) + d
    BY <1>1
  <2>4. CASE j = i
    BY <2>2, <2>3, <2>4 DEF Shifted
  <2>5. CASE j \in (i + 1)..m
    <3>0. \A c \in DOMAIN b : b[c] = layers[l].id =>
            /\ layers[j].strategy \in {"prepend", "wrap"}
                 => \E a \in DOMAIN b : a < c /\ b[a] = layers[j].id
            /\ layers[j].strategy \in {"append", "wrap"}
                 => \E a \in DOMAIN b : a > c /\ b[a] = layers[j].id
      BY <1>6, <2>1, <2>5, Zenon DEF Holds
    <3>1. ASSUME NEW a \in DOMAIN b
          PROVE  a + d \in DOMAIN t /\ t[a + d] = b[a]
      BY DEF Shifted
    <3>2. ASSUME layers[j].strategy \in {"prepend", "wrap"}
          PROVE  \E a \in DOMAIN t : a < k /\ t[a] = layers[j].id
      <4>1. PICK a \in DOMAIN b : a < k - d /\ b[a] = layers[j].id
        BY <1>6, <2>2, <3>0, <3>2
      <4>2. a + d < k
        BY <4>1, <1>1
      <4> QED BY <3>1, <4>1, <4>2
    <3>3. ASSUME layers[j].strategy \in {"append", "wrap"}
          PROVE  \E a \in DOMAIN t : a > k /\ t[a] = layers[j].id
      <4>1. PICK a \in DOMAIN b : a > k - d /\ b[a] = layers[j].id
        BY <1>6, <2>2, <3>0, <3>3
      <4>2. a + d > k
        BY <4>1, <1>1
      <4> QED BY <3>1, <4>1, <4>2
    <3> QED BY <3>2, <3>3
  <2> QED BY <1>2, <2>4, <2>5
<1> QED BY <1>4, <1>5, <1>6 DEF Holds

\* The last layer alone.
LEMMA HoldsLast ==
  ASSUME NEW layers, NEW m \in Nat \ {0}, Composable(layers, m)
  PROVE  Holds(<<layers[m].id>>, layers, m, m)
<1> DEFINE t == <<layers[m].id>>
<1>1. t \in Seq(Ids(layers, m)) /\ DOMAIN t = {1} /\ t[1] = layers[m].id
  BY DEF Ids
<1>2. m..m = {m} /\ Real(layers, m)
  BY DEF Composable, Real
<1> HIDE DEF t
<1>3. \A j, l \in m..m : ~(j < l)
  BY <1>2
<1>4. Holds(t, layers, m, m)
  BY <1>1, <1>2, <1>3 DEF Holds
<1> QED BY <1>4 DEF t

\* A preset that has nothing for the template adds nothing to the text.
LEMMA HoldsNoMore ==
  ASSUME NEW layers, NEW m \in Nat \ {0}, NEW i \in 1..(m - 1), ~Real(layers, i),
         NEW b, Holds(b, layers, i + 1, m)
  PROVE  Holds(b, layers, i, m)
<1>1. \A j \in i..m : Real(layers, j) => j \in (i + 1)..m
  <2>1. \A j \in i..m : j = i \/ j \in (i + 1)..m
    OBVIOUS
  <2> QED BY <2>1
<1>2. \A j \in (i + 1)..m : j \in i..m
  OBVIOUS
<1> QED BY <1>1, <1>2 DEF Holds

\* What is composed is an error, or a text that holds every layer in its place.
Composed1(c, layers, i, m) ==
  c.kind = "error" \/ (c.kind = "text" /\ Holds(c.text, layers, i, m))

\* One step of compose_from_base.
LEMMA PutComposes ==
  ASSUME NEW layers, NEW m \in Nat \ {0}, Composable(layers, m),
         NEW i \in 1..(m - 1), NEW c, Composed1(c, layers, i + 1, m)
  PROVE  Composed1(Put(c, layers[i]), layers, i, m)
<1>1. CASE c.kind = "error"
  BY <1>1 DEF Put, Composed1
<1>2. CASE c.kind = "text" /\ layers[i].is = "nothing"
  <2>1. ~Real(layers, i)
    BY <1>2 DEF Real
  <2>2. Put(c, layers[i]) = c
    BY <1>2 DEF Put
  <2> QED BY <1>2, <2>1, <2>2, HoldsNoMore DEF Composed1
<1>3. CASE c.kind = "text" /\ layers[i].is # "nothing"
  <2> DEFINE id == layers[i].id
             b == c.text
             I == Ids(layers, m)
  <2>1. Real(layers, i) /\ layers[i].strategy \in {"prepend", "append", "wrap"}
    BY <1>3 DEF Composable, Real
  <2>2. b \in Seq(I) /\ id \in I /\ Holds(b, layers, i + 1, m)
    <3>1. Holds(b, layers, i + 1, m)
      BY <1>3 DEF Composed1
    <3>2. i \in 1..m
      OBVIOUS
    <3>3. id \in I
      BY <3>2 DEF Ids
    <3>4. b \in Seq(I)
      BY <3>1 DEF Holds
    <3> QED BY <3>1, <3>3, <3>4
  <2>3. \A t : Text(t).kind = "text" /\ Text(t).text = t
    BY DEF Text
  <2>4. Failure.kind = "error"
    BY DEF Failure
  <2> HIDE DEF b, I, id
  <2>5. /\ Shifted(<<id>> \o b, b, id, 1, TRUE, FALSE) /\ <<id>> \o b \in Seq(I)
        /\ Shifted(b \o <<id>>, b, id, 0, FALSE, TRUE) /\ b \o <<id>> \in Seq(I)
        /\ Shifted(<<id>> \o b \o <<id>>, b, id, 1, TRUE, TRUE)
        /\ <<id>> \o b \o <<id>> \in Seq(I)
    BY <2>2, PutShifts
  <2>6. CASE layers[i].strategy = "prepend"
    <3>1. Put(c, layers[i]) = Text(<<id>> \o b)
      BY <1>3, <2>6 DEF Put, b, id
    <3>2. Holds(<<id>> \o b, layers, i, m)
      BY <2>1, <2>2, <2>5, <2>6, HoldsOneMore DEF I, id
    <3> QED BY <2>3, <3>1, <3>2 DEF Composed1
  <2>7. CASE layers[i].strategy = "append"
    <3>1. Put(c, layers[i]) = Text(b \o <<id>>)
      BY <1>3, <2>7 DEF Put, b, id
    <3>2. Holds(b \o <<id>>, layers, i, m)
      BY <2>1, <2>2, <2>5, <2>7, HoldsOneMore DEF I, id
    <3> QED BY <2>3, <3>1, <3>2 DEF Composed1
  <2>8. CASE layers[i].strategy = "wrap"
    <3>1. Put(c, layers[i]) \in {Text(<<id>> \o b \o <<id>>), Failure}
      BY <1>3, <2>8 DEF Put, b, id
    <3>2. Holds(<<id>> \o b \o <<id>>, layers, i, m)
      BY <2>1, <2>2, <2>5, <2>8, HoldsOneMore DEF I, id
    <3> QED BY <2>3, <2>4, <3>1, <3>2 DEF Composed1
  <2> QED BY <2>1, <2>6, <2>7, <2>8
<1> QED BY <1>1, <1>2, <1>3 DEF Composed1

\* compose_from_base from the last layer to the first.
LEMMA ComposeHolds ==
  ASSUME NEW layers, NEW m \in Nat \ {0}, Composable(layers, m)
  PROVE  Composed1(Compose(layers), layers, 1, m)
<1>1. PICK g : Composing(g, layers, m) /\ Compose(layers) = g[1]
  BY ComposeSteps DEF Composable
<1> DEFINE K == {k \in Nat : k < m => Composed1(g[m - k], layers, m - k, m)}
<1>2. 0 \in K
  <2>1. g[m] = Text(<<layers[m].id>>)
    BY <1>1 DEF Composing
  <2>2. g[m].kind = "text" /\ g[m].text = <<layers[m].id>>
    BY <2>1 DEF Text
  <2>3. Composed1(g[m], layers, m, m)
    BY <2>2, HoldsLast DEF Composed1
  <2>4. m - 0 = m
    OBVIOUS
  <2> QED BY <2>3, <2>4
<1>3. ASSUME NEW k \in K PROVE k + 1 \in K
  <2> SUFFICES ASSUME k + 1 < m PROVE Composed1(g[m - (k + 1)], layers, m - (k + 1), m)
    OBVIOUS
  <2> DEFINE i == m - (k + 1)
  <2>1. i \in 1..(m - 1) /\ i + 1 = m - k /\ k < m
    OBVIOUS
  <2> HIDE DEF i
  <2>2. Composed1(g[i + 1], layers, i + 1, m)
    BY <2>1
  <2>3. g[i] = Put(g[i + 1], layers[i])
    BY <1>1, <2>1 DEF Composing
  <2> QED BY <2>1, <2>2, <2>3, PutComposes DEF i
<1>4. m - 1 \in K
  <2>1. K \in SUBSET Nat /\ m - 1 \in Nat
    OBVIOUS
  <2> HIDE DEF K
  <2>2. Nat \subseteq K
    BY <1>2, <1>3, <2>1, NumbersByInduction
  <2> QED BY <2>1, <2>2
<1>5. m - (m - 1) = 1 /\ m - 1 < m
  OBVIOUS
<1>6. Composed1(g[m - (m - 1)], layers, m - (m - 1), m)
  BY <1>4, <1>5
<1> HIDE DEF K
<1> QED BY <1>1, <1>5, <1>6

(***************************************************************************)
(* What the resolution of a template promises, for every stack.            *)
(***************************************************************************)

\* Below the presets lies no preset.
LEMMA FloorForms ==
  ASSUME NEW s
  PROVE  LET floor == Floor(s)
         IN  /\ floor.is \in {"layer", "nothing", "error"}
             /\ floor.is = "layer" =>
                  floor.strategy = "replace" /\ \A p : floor.id # <<"preset", p>>
<1>1. \A id : /\ Replacing(id).is = "layer" /\ Replacing(id).id = id
              /\ Replacing(id).strategy = "replace"
  BY DEF Replacing, Layer
<1>2. NoLayer.is = "nothing" /\ BadLayer.is = "error"
  BY DEF NoLayer, BadLayer, Layer
<1>3. \A p : <<"core">> # <<"preset", p>>
  <2> SUFFICES ASSUME NEW p, <<"core">> = <<"preset", p>> PROVE FALSE
    OBVIOUS
  <2>1. <<"core">>[1] = "core" /\ <<"preset", p>>[1] = "preset"
    OBVIOUS
  <2> QED BY <2>1
<1>4. \A p, e : <<"extension", e>> # <<"preset", p>>
  OBVIOUS
<1>5. \/ Floor(s) \in {NoLayer, BadLayer, Replacing(<<"core">>)}
      \/ \E e : Floor(s) = Replacing(<<"extension", e>>)
  <2>1. \/ FirstExtension(s) = NoLayer
        \/ \E e : FirstExtension(s) = Replacing(<<"extension", e>>)
    BY Zenon DEF FirstExtension
  <2> QED BY <2>1, Zenon DEF Floor
<1>6. CASE Floor(s) \in {NoLayer, BadLayer}
  BY <1>2, <1>6
<1>7. CASE Floor(s) = Replacing(<<"core">>)
  BY <1>1, <1>3, <1>7
<1>8. ASSUME NEW e, Floor(s) = Replacing(<<"extension", e>>)
      PROVE  /\ Floor(s).is = "layer" /\ Floor(s).strategy = "replace"
             /\ \A p : Floor(s).id # <<"preset", p>>
  BY <1>1, <1>4, <1>8
<1> QED BY <1>5, <1>6, <1>7, <1>8

\* A text that was composed holds layers that begin with those of the presets:
\* all of them and the floor, or those down to the first that replaces.
LEMMA TextIsComposed ==
  ASSUME NEW s \in StackRecords, ~s.override,
         ResolveTemplateContent(s).kind = "text"
  PROVE  LET order == SortedPresetIds(s)
             n == Cardinality(InForce(s))
         IN  \E m \in 0..n, l \in Nat \ {0} : \E layers :
               /\ Holds(ResolveTemplateContent(s).text, layers, 1, l)
               /\ \A i \in 1..m : layers[i] = PresetLayer(s, order[i])
               /\ \A i \in 1..m : i < l => layers[i].strategy # "replace"
               /\ \/ l = m /\ layers[m].strategy = "replace"
                  \/ l = m + 1 /\ m = n /\ \A p : layers[l].id # <<"preset", p>>
<1> DEFINE o == SortedPresetIds(s)
           S == InForce(s)
           n == Cardinality(S)
           L == PresetLayers(s)
           floor == Floor(s)
           content == ResolveTemplateContent(s)
           Good(layers, k, l) ==
             /\ Holds(content.text, layers, 1, l)
             /\ \A i \in 1..k : layers[i] = PresetLayer(s, o[i])
             /\ \A i \in 1..k : i < l => layers[i].strategy # "replace"
             /\ \/ l = k /\ layers[k].strategy = "replace"
                \/ l = k + 1 /\ k = n /\ \A p : layers[l].id # <<"preset", p>>
<1>0. SUFFICES \E k \in 0..n, l \in Nat \ {0} : \E layers : Good(layers, k, l)
  OBVIOUS
<1>1. /\ n \in Nat /\ o \in [1..n -> S]
      /\ \A i, j \in 1..n : i < j <=> Above(s, o[i], o[j])
  BY PresetOrder, InForceForms
<1>2. PICK m \in 0..n :
        /\ DOMAIN L = 1..m /\ Len(L) = m
        /\ \A i \in 1..m : L[i] = PresetLayer(s, o[i])
        /\ \A i \in 1..(m - 1) : ~Ends(L[i])
        /\ \/ m = n /\ \A i \in 1..n : ~Ends(PresetLayer(s, o[i]))
           \/ m > 0 /\ Ends(L[m])
        /\ L \in Seq({PresetLayer(s, p) : p \in S})
  BY PresetLayersWalk, Zenon
<1>3. \A i \in 1..m :
        /\ L[i].is \in {"layer", "nothing", "error"}
        /\ L[i].is = "layer" => L[i].id = <<"preset", o[i]>> /\ L[i].strategy \in Strategies
        /\ L[i].is # "layer" => L[i].strategy = "none"
  <2> SUFFICES ASSUME NEW i \in 1..m
               PROVE  /\ L[i].is \in {"layer", "nothing", "error"}
                      /\ L[i].is = "layer" => L[i].id = <<"preset", o[i]>>
                                                /\ L[i].strategy \in Strategies
                      /\ L[i].is # "layer" => L[i].strategy = "none"
    OBVIOUS
  <2>1. i \in 1..n
    BY <1>1
  <2>2. o[i] \in S
    BY <2>1, <1>1
  <2>3. L[i] = PresetLayer(s, o[i])
    BY <1>2
  <2> HIDE DEF o, L
  <2> QED BY <2>2, <2>3, LayerForms DEF S
<1>4. \A i, j \in 1..m : i # j => o[i] # o[j]
  <2> SUFFICES ASSUME NEW i \in 1..m, NEW j \in 1..m, i # j, o[i] = o[j] PROVE FALSE
    OBVIOUS
  <2>1. i \in 1..n /\ j \in 1..n /\ (i < j \/ j < i) /\ ~(j < j)
    BY <1>1
  <2> HIDE DEF o, n
  <2> QED BY <2>1, <1>1
<1>5. L # <<>> <=> m > 0
  <2> HIDE DEF L, n
  <2> QED BY <1>1, <1>2
<1>6. Last(L) = L[m]
  BY <1>2 DEF Last
<1>7. /\ floor.is \in {"layer", "nothing", "error"}
      /\ floor.is = "layer" =>
           floor.strategy = "replace" /\ \A p : floor.id # <<"preset", p>>
  BY FloorForms
<1>8. content = IF L # <<>> /\ Last(L).is = "error" THEN Failure
                ELSE IF L # <<>> /\ Last(L).strategy = "replace" THEN Compose(L)
                ELSE IF floor.is = "error" THEN Failure
                ELSE IF floor.is = "layer" THEN Compose(Append(L, floor))
                ELSE IF \A i \in DOMAIN L : L[i].is = "nothing" THEN NoTemplate ELSE Failure
  BY DEF ResolveTemplateContent
<1>9. Failure.kind = "error" /\ NoTemplate.kind = "none"
  BY DEF Failure, NoTemplate
<1>10. content.kind = "text"
  OBVIOUS
<1>11. \A i \in 1..m : ~Ends(L[i]) =>
         L[i].is = "nothing"
           \/ (L[i].is = "layer" /\ L[i].strategy \in {"prepend", "append", "wrap"})
  BY <1>3 DEF Ends, Strategies
<1> HIDE DEF o, S, n, L, floor, content
<1>12. CASE m > 0 /\ L[m].is # "error" /\ L[m].strategy = "replace"
  <2>1. content = Compose(L)
    BY <1>5, <1>6, <1>8, <1>12
  <2>2. m \in Nat \ {0} /\ m \in 1..m
    BY <1>1, <1>12
  <2>3. L[m].is = "layer"
    BY <1>3, <1>12, <2>2
  <2>4. \A i \in 1..(m - 1) : i \in 1..m /\ ~Ends(L[i])
    BY <1>2, <1>1
  <2>5. \A i, j \in 1..m : Real(L, i) /\ Real(L, j) /\ i # j => L[i].id # L[j].id
    BY <1>3, <1>4 DEF Real
  <2>6. Composable(L, m)
    BY <1>2, <1>11, <1>12, <2>3, <2>4, <2>5 DEF Composable
  <2>7. Holds(content.text, L, 1, m)
    BY <1>10, <2>1, <2>2, <2>6, ComposeHolds DEF Composed1
  <2>8. \A i \in 1..m : i < m => L[i].strategy # "replace"
    <3>1. \A i \in 1..m : i < m => i \in 1..(m - 1)
      BY <1>1
    <3>2. \A i \in 1..m : L[i].is # "layer" => L[i].strategy # "replace"
      BY <1>3
    <3> QED BY <3>1, <3>2, <2>4 DEF Ends
  <2>9. Good(L, m, m)
    BY <1>2, <1>12, <2>7, <2>8
  <2> HIDE DEF Good
  <2> QED BY <1>2, <2>2, <2>9
<1>13. CASE ~(m > 0 /\ L[m].is # "error" /\ L[m].strategy = "replace")
  <2>1. ~(L # <<>> /\ Last(L).is = "error") /\ content.kind = "text"
    BY <1>8, <1>9, <1>10
  <2>2. ~(m > 0 /\ L[m].is = "error") /\ ~(m > 0 /\ L[m].strategy = "replace")
    BY <2>1, <1>5, <1>6, <1>13
  <2>3. floor.is = "layer" /\ content = Compose(Append(L, floor))
    BY <1>5, <1>6, <1>7, <1>8, <1>9, <2>1, <2>2
  <2>4. ~(m > 0 /\ Ends(L[m]))
    BY <2>2 DEF Ends
  <2>5. m = n /\ \A i \in 1..m : ~Ends(L[i])
    <3>1. m = n /\ \A i \in 1..n : ~Ends(PresetLayer(s, o[i]))
      BY <1>2, <2>4
    <3> QED BY <3>1, <1>2
  <2> DEFINE M == Append(L, floor)
             l == m + 1
  <2>6. /\ DOMAIN M = 1..l /\ Len(M) = l /\ M[l] = floor
        /\ \A i \in 1..m : M[i] = L[i]
    <3> DEFINE T == {PresetLayer(s, p) : p \in S}
    <3>1. L \in Seq(T) /\ Len(L) = m /\ m \in Nat
      BY <1>1, <1>2
    <3> HIDE DEF T
    <3>2. L \in Seq(T \cup {floor}) /\ floor \in T \cup {floor}
      BY <3>1
    <3> QED BY <3>1, <3>2
  <2>7. l \in Nat \ {0} /\ l \in 1..l /\ \A i \in 1..l : i = l \/ i \in 1..m
    BY <1>1
  <2>8. \A i \in 1..(l - 1) : i \in 1..m
    BY <1>1
  <2> HIDE DEF M, l
  <2>9. \A i, j \in 1..l : Real(M, i) /\ Real(M, j) /\ i # j => M[i].id # M[j].id
    <3>1. \A i \in 1..m : Real(M, i) => M[i].id = <<"preset", o[i]>>
      BY <1>3, <2>6 DEF Real
    <3>2. \A p : M[l].id # <<"preset", p>>
      BY <1>7, <2>3, <2>6
    <3>3. \A i, j \in 1..m : i # j => <<"preset", o[i]>> # <<"preset", o[j]>>
      BY <1>4
    <3>4. ASSUME NEW i \in 1..m, Real(M, i) PROVE M[i].id # M[l].id
      BY <3>1, <3>2, <3>4
    <3>5. ASSUME NEW i \in 1..m, NEW j \in 1..m, Real(M, i), Real(M, j), i # j
          PROVE  M[i].id # M[j].id
      BY <3>1, <3>3, <3>5
    <3> QED BY <2>7, <3>4, <3>5
  <2>10. Composable(M, l)
    BY <1>7, <1>11, <2>3, <2>5, <2>6, <2>8, <2>9 DEF Composable
  <2>11. Holds(content.text, M, 1, l)
    BY <1>10, <2>3, <2>7, <2>10, ComposeHolds DEF Composed1, M
  <2>12. \A i \in 1..m : M[i].strategy # "replace"
    <3>1. \A i \in 1..m : L[i].is # "layer" => L[i].strategy # "replace"
      BY <1>3
    <3> QED BY <3>1, <2>5, <2>6 DEF Ends
  <2>13. \A p : M[l].id # <<"preset", p>>
    BY <1>7, <2>3, <2>6
  <2>14. \A i \in 1..m : M[i] = PresetLayer(s, o[i])
    BY <1>2, <2>6
  <2>15. Good(M, m, l)
    BY <2>5, <2>11, <2>12, <2>13, <2>14 DEF l
  <2> HIDE DEF Good
  <2> QED BY <1>2, <2>7, <2>15
<1> QED BY <1>12, <1>13

\* The second promise: which presets the text holds, and in which places.
LEMMA TextHoldsComposed ==
  ASSUME NEW s \in StackRecords, ~s.override,
         NEW content, content = ResolveTemplateContent(s), content.kind = "text"
  PROVE  LET At(p) == {i \in DOMAIN content.text : content.text[i] = <<"preset", p>>}
         IN  /\ \A p \in InForce(s) : p \in Composed(s) <=> At(p) # {}
             /\ \A p, q \in Composed(s) : Above(s, p, q) =>
                  \A j \in At(q) :
                    /\ PresetLayer(s, p).strategy \in {"prepend", "wrap"}
                         => \E i \in At(p) : i < j
                    /\ PresetLayer(s, p).strategy \in {"append", "wrap"}
                         => \E i \in At(p) : i > j
<1> DEFINE o == SortedPresetIds(s)
           S == InForce(s)
           n == Cardinality(S)
           text == content.text
           At(p) == {i \in DOMAIN text : text[i] = <<"preset", p>>}
<1>1. /\ n \in Nat /\ o \in [1..n -> S]
      /\ \A p \in S : \E i \in 1..n : o[i] = p
      /\ \A i, j \in 1..n : i < j <=> Above(s, o[i], o[j])
  BY PresetOrder, InForceForms
<1>2. PICK m \in 0..n, l \in Nat \ {0} : \E layers :
        /\ Holds(text, layers, 1, l)
        /\ \A i \in 1..m : layers[i] = PresetLayer(s, o[i])
        /\ \A i \in 1..m : i < l => layers[i].strategy # "replace"
        /\ \/ l = m /\ layers[m].strategy = "replace"
           \/ l = m + 1 /\ m = n /\ \A p : layers[l].id # <<"preset", p>>
  BY TextIsComposed
<1>3. PICK L :
        /\ Holds(text, L, 1, l)
        /\ \A i \in 1..m : L[i] = PresetLayer(s, o[i])
        /\ \A i \in 1..m : i < l => L[i].strategy # "replace"
        /\ \/ l = m /\ L[m].strategy = "replace"
           \/ l = m + 1 /\ m = n /\ \A p : L[l].id # <<"preset", p>>
  BY <1>2
<1>4. \A i \in 1..n : o[i] \in S
  BY <1>1
<1>5. \A i \in 1..m : i \in 1..n /\ i \in 1..l
  BY <1>1, <1>3
<1>6. \A i \in 1..m : Real(L, i) => L[i].id = <<"preset", o[i]>>
  <2> SUFFICES ASSUME NEW i \in 1..m, Real(L, i) PROVE L[i].id = <<"preset", o[i]>>
    OBVIOUS
  <2>1. o[i] \in S /\ L[i] = PresetLayer(s, o[i])
    BY <1>3, <1>4, <1>5
  <2> HIDE DEF o
  <2> QED BY <2>1, LayerForms DEF Real, S
<1> HIDE DEF o, S, n, text, At
<1>7. ASSUME NEW p \in Composed(s)
      PROVE  \E i \in 1..m : o[i] = p /\ Real(L, i)
  <2>1. /\ p \in S /\ PresetLayer(s, p).is = "layer"
        /\ \A q \in S : Above(s, q, p) => PresetLayer(s, q).strategy # "replace"
    BY DEF Composed, S
  <2>2. PICK i \in 1..n : o[i] = p
    BY <2>1, <1>1
  <2>3. i \in 1..m
    <3> SUFFICES ASSUME i \notin 1..m PROVE FALSE
      OBVIOUS
    <3>1. m < i /\ m # n
      BY <1>1, <2>2
    <3>2. l = m /\ L[m].strategy = "replace"
      BY <1>3, <3>1
    <3>3. m \in 1..m /\ m \in 1..n
      BY <1>1, <3>2
    <3>4. Above(s, o[m], p) /\ o[m] \in S
      BY <1>1, <1>4, <2>2, <3>1, <3>3
    <3> QED BY <1>3, <2>1, <3>2, <3>3, <3>4
  <2> QED BY <1>3, <2>1, <2>2, <2>3 DEF Real
<1>8. ASSUME NEW i \in 1..m, Real(L, i)
      PROVE  o[i] \in Composed(s)
  <2>1. o[i] \in S /\ PresetLayer(s, o[i]).is = "layer"
    BY <1>3, <1>4, <1>5, <1>8 DEF Real
  <2>2. ASSUME NEW q \in S, Above(s, q, o[i])
        PROVE  PresetLayer(s, q).strategy # "replace"
    <3>1. PICK j \in 1..n : o[j] = q
      BY <1>1
    <3>2. j < i
      BY <1>1, <1>5, <2>2, <3>1
    <3>3. j \in 1..m /\ j < l
      BY <1>3, <1>1, <3>1, <3>2
    <3> QED BY <1>3, <3>1, <3>3
  <2> QED BY <2>1, <2>2 DEF Composed, S
<1>9. /\ \A j \in 1..l : Real(L, j) => \E k \in DOMAIN text : text[k] = L[j].id
      /\ \A k \in DOMAIN text : \E j \in 1..l : Real(L, j) /\ text[k] = L[j].id
      /\ \A j, h \in 1..l : Real(L, j) /\ Real(L, h) /\ j < h =>
           \A k \in DOMAIN text : text[k] = L[h].id =>
             /\ L[j].strategy \in {"prepend", "wrap"}
                  => \E a \in DOMAIN text : a < k /\ text[a] = L[j].id
             /\ L[j].strategy \in {"append", "wrap"}
                  => \E a \in DOMAIN text : a > k /\ text[a] = L[j].id
  BY <1>3, Zenon DEF Holds
<1>10. ASSUME NEW p \in S, p \in Composed(s) PROVE At(p) # {}
  <2>1. PICK i \in 1..m : o[i] = p /\ Real(L, i)
    BY <1>7, <1>10
  <2>2. L[i].id = <<"preset", p>> /\ i \in 1..l
    BY <1>5, <1>6, <2>1
  <2>3. \E k \in DOMAIN text : text[k] = <<"preset", p>>
    BY <1>9, <2>1, <2>2
  <2> QED BY <2>3 DEF At
<1>11. ASSUME NEW p \in S, At(p) # {} PROVE p \in Composed(s)
  <2>1. PICK k \in DOMAIN text : text[k] = <<"preset", p>>
    BY <1>11 DEF At
  <2>2. PICK j \in 1..l : Real(L, j) /\ L[j].id = <<"preset", p>>
    BY <1>9, <2>1
  <2>3. j \in 1..m
    BY <1>3, <2>2
  <2>4. <<"preset", o[j]>> = <<"preset", p>>
    BY <1>6, <2>2, <2>3
  <2>5. o[j] = p
    BY <2>4
  <2> QED BY <1>8, <2>2, <2>3, <2>5
<1>12. ASSUME NEW p \in Composed(s), NEW q \in Composed(s), Above(s, p, q),
              NEW k \in At(q)
       PROVE  /\ PresetLayer(s, p).strategy \in {"prepend", "wrap"}
                   => \E a \in At(p) : a < k
              /\ PresetLayer(s, p).strategy \in {"append", "wrap"}
                   => \E a \in At(p) : a > k
  <2>1. PICK i \in 1..m : o[i] = p /\ Real(L, i)
    BY <1>7
  <2>2. PICK h \in 1..m : o[h] = q /\ Real(L, h)
    BY <1>7
  <2>3. i < h /\ i \in 1..l /\ h \in 1..l
    BY <1>1, <1>5, <1>12, <2>1, <2>2
  <2>4. L[i].id = <<"preset", p>> /\ L[h].id = <<"preset", q>>
    BY <1>6, <2>1, <2>2
  <2>5. L[i] = PresetLayer(s, p)
    BY <1>3, <2>1
  <2>6. k \in DOMAIN text /\ text[k] = L[h].id
    BY <2>4 DEF At
  <2>7. /\ L[i].strategy \in {"prepend", "wrap"}
             => \E a \in DOMAIN text : a < k /\ text[a] = L[i].id
        /\ L[i].strategy \in {"append", "wrap"}
             => \E a \in DOMAIN text : a > k /\ text[a] = L[i].id
    BY <1>9, <2>1, <2>2, <2>3, <2>6
  <2>8. \A a \in DOMAIN text : text[a] = L[i].id => a \in At(p)
    BY <2>4 DEF At
  <2> QED BY <2>5, <2>7, <2>8
<1>13. \A p \in S : p \in Composed(s) <=> At(p) # {}
  BY <1>10, <1>11
<1> QED BY <1>12, <1>13 DEF At, S, text

\* The first promise: with no manifest that names the template, the text is the
\* file whose path is given out.
LEMMA TextIsTheFile ==
  ASSUME NEW s \in StackRecords, s.yaml,
         \A p \in InForce(s) : s.presets[p].manifest \in {"none", "silent"}
  PROVE  ResolveTemplateContent(s) = ResolveTemplate(s)
<1> DEFINE o == SortedPresetIds(s)
           S == InForce(s)
           n == Cardinality(S)
           L == PresetLayers(s)
           floor == Floor(s)
           Given(p) == Conventional(s.presets[p])
           first == FirstOf(o, LAMBDA p : Conventional(s.presets[p]))
<1>1. n \in Nat /\ o \in [1..n -> S]
  BY PresetOrder, InForceForms
<1>2. PICK m \in 0..n :
        /\ DOMAIN L = 1..m /\ Len(L) = m
        /\ \A i \in 1..m : L[i] = PresetLayer(s, o[i])
        /\ \A i \in 1..(m - 1) : ~Ends(L[i])
        /\ \/ m = n /\ \A i \in 1..n : ~Ends(PresetLayer(s, o[i]))
           \/ m > 0 /\ Ends(L[m])
        /\ L \in Seq({PresetLayer(s, p) : p \in S})
  BY PresetLayersWalk, Zenon
<1>3. \A p \in S :
        PresetLayer(s, p) = IF Given(p) THEN Replacing(<<"preset", p>>) ELSE NoLayer
  BY DEF PresetLayer
<1>4. /\ \A id : Ends(Replacing(id)) /\ Replacing(id).is = "layer" /\ Replacing(id).id = id
                   /\ Replacing(id).strategy = "replace"
      /\ ~Ends(NoLayer) /\ NoLayer.is = "nothing" /\ NoLayer.strategy = "none"
  BY DEF Ends, Replacing, NoLayer, Layer
<1>5. \A i \in 1..m : i \in 1..n /\ o[i] \in S
  BY <1>1
<1>6. L # <<>> <=> m > 0
  <2> HIDE DEF L, n
  <2> QED BY <1>1, <1>2
<1>7. Last(L) = L[m] /\ DOMAIN o = 1..n
  BY <1>1, <1>2 DEF Last
<1>8. s.override => ResolveTemplateContent(s) = ResolveTemplate(s)
  BY DEF ResolveTemplateContent, ResolveTemplate
<1>9. ~s.override =>
        ResolveTemplateContent(s) =
          IF L # <<>> /\ Last(L).is = "error" THEN Failure
          ELSE IF L # <<>> /\ Last(L).strategy = "replace" THEN Compose(L)
          ELSE IF floor.is = "error" THEN Failure
          ELSE IF floor.is = "layer" THEN Compose(Append(L, floor))
          ELSE IF \A i \in DOMAIN L : L[i].is = "nothing" THEN NoTemplate ELSE Failure
  BY DEF ResolveTemplateContent
<1>10. ~s.override =>
         ResolveTemplate(s) =
           IF first # {} THEN Text(<<<<"preset", CHOOSE p \in first : TRUE>>>>)
           ELSE CASE floor.is = "error" -> Failure
                  [] floor.is = "layer" -> Text(<<floor.id>>)
                  [] floor.is = "nothing" -> NoTemplate
  BY DEF ResolveTemplate
<1>11. floor.is \in {"layer", "nothing", "error"}
  BY FloorForms
<1> DEFINE found == {i \in 1..n : Given(o[i])}
<1>12. first = IF found = {} THEN {} ELSE {o[Min(found)]}
  BY <1>7 DEF FirstOf
<1> HIDE DEF o, S, n, L, floor, first, Given
<1>13. CASE m > 0 /\ Ends(L[m])
  <2>1. m \in 1..m /\ m \in Nat \ {0}
    BY <1>1, <1>13
  <2>2. Given(o[m]) /\ L[m] = Replacing(<<"preset", o[m]>>)
    BY <1>2, <1>3, <1>4, <1>5, <1>13, <2>1
  <2>3. \A i \in 1..(m - 1) : i \in 1..m
    BY <1>1
  <2>4. ASSUME NEW i \in 1..(m - 1) PROVE ~Given(o[i]) /\ L[i].is = "nothing"
    <3>1. i \in 1..m /\ ~Ends(L[i])
      BY <1>2, <2>3
    <3>2. L[i] = IF Given(o[i]) THEN Replacing(<<"preset", o[i]>>) ELSE NoLayer
      BY <1>2, <1>3, <1>5, <3>1
    <3> QED BY <1>4, <3>1, <3>2
  <2>5. Min(found) = m
    <3>1. found \in SUBSET Nat /\ found \subseteq 1..n /\ m \in found
      BY <1>5, <2>1, <2>2
    <3>2. Min(found) \in found /\ Min(found) <= m
      BY <3>1, MinIsLeast
    <3>3. \A i \in found : ~(i \in 1..(m - 1))
      BY <2>4
    <3> HIDE DEF found
    <3>4. Min(found) \in 1..n /\ Min(found) <= m /\ Min(found) \notin 1..(m - 1)
      BY <3>1, <3>2, <3>3
    <3> DEFINE k == Min(found)
    <3> HIDE DEF k
    <3>5. k \in 1..n /\ k <= m /\ k \notin 1..(m - 1)
      BY <3>4 DEF k
    <3>6. k = m
      BY <1>1, <2>1, <3>5
    <3> QED BY <3>6 DEF k
  <2>6. first = {o[m]}
    BY <1>5, <1>12, <2>1, <2>2, <2>5
  <2>7. Compose(L) = Text(<<<<"preset", o[m]>>>>)
    <3>1. Compose(L) = Text(<<L[m].id>>)
      BY <1>2, <2>1, <2>4, ComposeAlone
    <3> QED BY <3>1, <2>2, <1>4
  <2>8. ~s.override => ResolveTemplateContent(s) = Compose(L)
    BY <1>4, <1>6, <1>7, <1>9, <1>13, <2>2
  <2>9. (CHOOSE p \in first : TRUE) = o[m]
    BY <2>6
  <2>10. ~s.override => ResolveTemplate(s) = Text(<<<<"preset", o[m]>>>>)
    BY <1>10, <2>6, <2>9
  <2> QED BY <1>8, <2>7, <2>8, <2>10
<1>14. CASE m = n /\ \A i \in 1..n : ~Ends(PresetLayer(s, o[i]))
  <2>1. \A i \in 1..m : ~Given(o[i]) /\ L[i] = NoLayer
    BY <1>2, <1>3, <1>4, <1>5, <1>14
  <2>2. first = {}
    BY <1>12, <1>14, <2>1
  <2>3. m > 0 => L[m] = NoLayer
    BY <1>1, <2>1
  <2>4. \A i \in DOMAIN L : L[i].is = "nothing"
    BY <1>2, <1>4, <2>1
  <2>5. ~s.override =>
          ResolveTemplateContent(s) =
            IF floor.is = "error" THEN Failure
            ELSE IF floor.is = "layer" THEN Compose(Append(L, floor)) ELSE NoTemplate
    BY <1>4, <1>6, <1>7, <1>9, <2>3, <2>4
  <2>6. Compose(Append(L, floor)) = Text(<<floor.id>>)
    <3> DEFINE M == Append(L, floor)
               T == {PresetLayer(s, p) : p \in S}
    <3>1. L \in Seq(T) /\ Len(L) = m /\ m \in Nat
      BY <1>1, <1>2
    <3> HIDE DEF T
    <3>2. L \in Seq(T \cup {floor}) /\ floor \in T \cup {floor}
      BY <3>1
    <3>3. /\ DOMAIN M = 1..(m + 1) /\ Len(M) = m + 1 /\ M[m + 1] = floor
          /\ \A i \in 1..m : M[i] = L[i]
      BY <3>1, <3>2
    <3>4. \A i \in 1..((m + 1) - 1) : i \in 1..m /\ i \in DOMAIN L
      BY <1>2, <3>1
    <3> HIDE DEF M
    <3>5. m + 1 \in Nat \ {0} /\ \A i \in 1..((m + 1) - 1) : M[i].is = "nothing"
      BY <2>4, <3>1, <3>3, <3>4
    <3>6. Compose(M) = Text(<<M[m + 1].id>>)
      BY <3>3, <3>5, ComposeAlone
    <3> QED BY <3>3, <3>6 DEF M
  <2>7. ~s.override => ResolveTemplate(s) =
          IF floor.is = "error" THEN Failure
          ELSE IF floor.is = "layer" THEN Text(<<floor.id>>) ELSE NoTemplate
    BY <1>10, <1>11, <2>2
  <2> QED BY <1>8, <2>5, <2>6, <2>7
<1> QED BY <1>2, <1>13, <1>14

\* resolve_template_content and resolve_template keep both promises for every
\* stack that can lie on the disk, whatever its presets, priorities, manifests and
\* registries are.
THEOREM TemplatesResolveAlways ==
  ASSUME NEW s \in StackRecords
  PROVE  TemplatesResolve(s)
<1>1. CASE s.override \/ ResolveTemplateContent(s).kind # "text"
  BY <1>1, TextIsTheFile, Zenon DEF TemplatesResolve
<1>2. CASE ~s.override /\ ResolveTemplateContent(s).kind = "text"
  <2> DEFINE content == ResolveTemplateContent(s)
             Place(p, c) == {i \in DOMAIN c.text : c.text[i] = <<"preset", p>>}
             Kept(c, d) ==
               /\ (\A p \in InForce(s) : s.presets[p].manifest \in {"none", "silent"}) /\ s.yaml
                    => c = ResolveTemplate(s)
               /\ c.kind = "text" /\ ~s.override =>
                    /\ \A p \in InForce(s) : p \in d <=> Place(p, c) # {}
                    /\ \A p, q \in d : Above(s, p, q) =>
                         \A j \in Place(q, c) :
                           /\ PresetLayer(s, p).strategy \in {"prepend", "wrap"}
                                => \E i \in Place(p, c) : i < j
                           /\ PresetLayer(s, p).strategy \in {"append", "wrap"}
                                => \E i \in Place(p, c) : i > j
  <2>1. Kept(content, Composed(s))
    BY <1>2, TextIsTheFile, TextHoldsComposed
  <2>2. TemplatesResolve(s) = \A c \in {content}, d \in {Composed(s)} : Kept(c, d)
    BY DEF TemplatesResolve
  <2> HIDE DEF Kept
  <2> QED BY <2>1, <2>2
<1> QED BY <1>1, <1>2

\* The template of every stack a project may have keeps both promises.
THEOREM StackResolvesAlways == Spec => []StackResolves
<1> DEFINE Known == stack \in Stacks \cup Surveyed
<1>1. Init => Known
  BY DEF Init
<1>2. Next => UNCHANGED stack
  <2>1. \A asked \in Asked, suffix \in ShortNames, allow, dry \in BOOLEAN :
          Create(asked, suffix, allow, dry) => UNCHANGED stack
    BY DEF Create
  <2>2. Mkdir \/ OpenSpec \/ WriteSpec \/ PersistOpens \/ PersistWrites \/ Created \/ Kill
          => UNCHANGED stack
    BY DEF Mkdir, OpenSpec, WriteSpec, PersistOpens, PersistWrites, Created, Kill
  <2>3. \A op, env, options : Work(op, env, options) => UNCHANGED stack
    BY DEF Work
  <2>4. SetupPlan \/ OpenPlan \/ WritePlan \/ SetupTasks \/ CheckPrerequisites => UNCHANGED stack
    BY DEF SetupPlan, OpenPlan, WritePlan, SetupTasks, CheckPrerequisites
  <2>5. Resolve \/ (\E env \in Env : PathsOnly(env)) => UNCHANGED stack
    BY DEF Resolve, PathsOnly
  <2>6. \A given, ph, status : Gate(given, ph, status) => UNCHANGED stack
    BY DEF Gate
  <2>7. \A n \in Names : MakeDirectory(n) \/ WriteDocument(n) => UNCHANGED stack
    BY DEF MakeDirectory, WriteDocument, ByHand
  <2> QED BY <2>1, <2>2, <2>3, <2>4, <2>5, <2>6, <2>7, Zenon DEF Next
<1>3. Known /\ [Next]_vars => Known'
  BY <1>2 DEF vars
<1>4. Known => StackResolves
  BY StacksAssumption, TemplatesResolveAlways DEF StackResolves
<1> QED BY <1>1, <1>3, <1>4, PTL DEF Spec
=============================================================================
