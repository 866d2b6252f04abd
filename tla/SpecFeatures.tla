---------------------------- MODULE SpecFeatures ----------------------------
(***************************************************************************)
(* The feature directories below specs/ and the commands that work on      *)
(* them: create_new_feature.py, setup_plan.py, setup_tasks.py,             *)
(* check_prerequisites.py and resolve_template.py of                       *)
(* src/.specify/scripts/python, and the gate ears_sdd.py.                  *)
(*                                                                         *)
(* One command runs at a time, and it may be killed at every step.  A file *)
(* is opened with truncation before it is written, so it is torn between   *)
(* the two and stays torn when the command dies there.  Between commands   *)
(* people write documents and make directories by hand.                    *)
(***************************************************************************)
EXTENDS TemplateStack, EarsGate

CONSTANTS
  Stacks,       \* the template stacks of the projects whose features are made
  Surveyed,     \* more stacks, whose templates are only resolved
  Policies,     \* their policies, each with what the production code says
  Documents,    \* the specifications people write, with their traceability
  ShortNames,   \* the names features are given
  EnvNames,     \* the features the environment may name before they are there
  MaxNumber,    \* the greatest feature number
  Days,         \* the dates, numbers themselves, of names given by the time
  MaxCommands,  \* bound on the commands of a behaviour
  MaxEdits      \* bound on what is done by hand

ASSUME EnvNamesAssumption ==
  EnvNames \subseteq [num : 0..MaxNumber, form : {"plain"}, suffix : ShortNames]
ASSUME StacksAssumption == Stacks \cup Surveyed \subseteq StackRecords
ASSUME BoundsAssumption ==
  {MaxNumber, MaxCommands, MaxEdits} \subseteq Nat /\ Days \subseteq 0..MaxNumber

VARIABLES
  stack,     \* the template layers of the project
  policy,    \* its policy
  dirs,      \* the feature directories
  spec,      \* feature to its spec.md
  plan,      \* feature to its plan.md
  tasks,     \* the features with a tasks.md
  trace,     \* feature to its traceability file
  active,    \* .specify/feature.json
  cmd,       \* the command that runs
  last,      \* how the last command ended
  wanted,    \* history: the features asked for since the last that was selected
  made,      \* history: the features a creation has made active
  commands, edits

files == <<dirs, spec, plan, tasks, trace>>
counters == <<commands, edits>>
vars == <<stack, policy, files, active, cmd, last, wanted, made, counters>>

\* A directory is named by a number or by the time, and by its suffix.  The
\* commands write a number with three digits or as many as it needs; by hand
\* one may be padded with more zeros.  A name by the time begins with the date.
Names == [num : 0..MaxNumber, form : {"plain", "padded"}, suffix : ShortNames]
           \cup [num : Days, form : {"time"}, suffix : ShortNames]

\* What a spec.md or a plan.md holds; of a plan nothing is read.
Absent == [is |-> "absent"]
Torn == [is |-> "torn"]
Empty == [is |-> "empty"]
Template == [is |-> "template"]
Written(d) == [is |-> "doc", doc |-> d]

NoTrace == [file |-> "absent", entries |-> <<>>]

NoFeature == [is |-> "absent"]
TornFeature == [is |-> "torn"]
Active(n) == [is |-> "names", name |-> n]

Idle == [op |-> "none"]
Nothing == [op |-> "none", ok |-> FALSE]

Init ==
  /\ policy \in Policies
  /\ dirs = {}
  /\ spec = [n \in Names |-> Absent]
  /\ plan = [n \in Names |-> Absent]
  /\ tasks = {}
  /\ trace = [n \in Names |-> NoTrace]
  /\ active = NoFeature
  /\ cmd = Idle /\ last = Nothing
  /\ wanted = {} /\ made = {}
  \* For a stack that is only surveyed the bounds are spent.
  /\ \/ stack \in Stacks /\ commands = 0 /\ edits = 0
     \/ stack \in Surveyed /\ commands = MaxCommands /\ edits = MaxEdits

(***************************************************************************)
(* The end of a command and the file that names the active feature.        *)
(***************************************************************************)

\* A command starts and ends in one step, or goes on as c.
Starts ==
  /\ cmd = Idle /\ commands < MaxCommands /\ commands' = commands + 1
AtOnce(result) == cmd' = Idle /\ last' = result
GoesOn(c) == cmd' = c /\ last' = Nothing

\* How a command ended: with zero or not, and on which features when that
\* was for the command itself to find.
Result(ok) == [op |-> "none", ok |-> ok]
On(name) == [op |-> "work", ok |-> TRUE, name |-> name]

\* The feature is selected: nothing asked for earlier counts any more.
Selects(n) == wanted' = {n}

\* A creation that comes as far as naming its feature has made it active.
Makes == made' = IF cmd.op = "create" THEN made \cup {cmd.name} ELSE made

\* persist_feature_json: the file is left alone when it says the same.
PersistOpens ==
  /\ cmd.op # "none" /\ cmd.at = "persist"
  /\ IF active = Active(cmd.name)
     THEN active' = active /\ cmd' = [cmd EXCEPT !.at = "persisted"] /\ Makes
     ELSE /\ active' = TornFeature /\ cmd' = [cmd EXCEPT !.at = "persisting"]
          /\ UNCHANGED made
  /\ UNCHANGED <<stack, policy, files, last, wanted, counters>>

PersistWrites ==
  /\ cmd.op # "none" /\ cmd.at = "persisting"
  /\ active' = Active(cmd.name)
  /\ cmd' = [cmd EXCEPT !.at = "persisted"]
  /\ Makes
  /\ UNCHANGED <<stack, policy, files, last, wanted, counters>>

\* resolve_template_content: no command changes the layers of a project.
Resolution == [s \in Stacks |-> ResolveTemplateContent(s)]

(***************************************************************************)
(* create_new_feature.py.                                                  *)
(***************************************************************************)

Largest(S) == CHOOSE m \in S : \A k \in S : k <= m

\* _get_highest_from_specs: zeros are stripped, and directories named by the
\* time do not count.
GetHighest(D) == Largest({0} \cup {d.num : d \in {e \in D : e.form # "time"}})

\* _spec_prefix_exists: the text of the number begins the name, which a padded
\* number does not and a date may.
PrefixExists(D, n) == \E d \in D : d.form # "padded" /\ d.num = n

Numbered(n, s) == [num |-> n, form |-> "plain", suffix |-> s]

\* Mutant: --allow-existing-branch is enough, the directory need not be there.
PrefixConflictAllowing(D, n, s, allow) == ~allow /\ PrefixExists(D, n)

\* _has_spec_prefix_conflict.
PrefixConflict(D, n, s, allow) ==
  ~(allow /\ Numbered(n, s) \in D) /\ PrefixExists(D, n)

\* The number the directory gets: the next one, the one asked for, or instead
\* of it the next that is free.  It may lie beyond the greatest number.
NumberFor(D, asked, s, allow) ==
  LET next == GetHighest(D) + 1
      free == {n \in next..(next + Cardinality(D)) : ~PrefixExists(D, n)}
  IN IF asked.by = "auto" THEN next
     ELSE IF PrefixConflict(D, asked.num, s, allow)
     THEN CHOOSE n \in free : \A m \in free : n <= m
     ELSE asked.num

\* The ways to ask for a number, and the day that it is.
Asked == {[by |-> "auto"]} \cup [by : {"time"}, num : Days]
           \cup [by : {"number"}, num : 0..MaxNumber]

NameFor(D, asked, s, allow) ==
  IF asked.by = "time" THEN [num |-> asked.num, form |-> "time", suffix |-> s]
  ELSE Numbered(NumberFor(D, asked, s, allow), s)

\* How the number came about.
WayOf(asked, name) ==
  IF asked.by = "auto" THEN "next" ELSE IF name.num = asked.num THEN "asked" ELSE "instead"

\* All that happens before the directory is made.
Create(asked, suffix, allow, dry) ==
  LET name == NameFor(dirs, asked, suffix, allow)
      content == Resolution[stack]
      needs == spec[name].is = "absent"
      refused == \/ name.num > MaxNumber
                 \/ ~dry /\ name \in dirs /\ ~allow
                 \/ ~dry /\ needs /\ content.kind = "error"
  IN /\ Starts
     /\ IF refused THEN AtOnce(Result(FALSE)) /\ UNCHANGED wanted
        ELSE IF dry THEN AtOnce(Result(TRUE)) /\ UNCHANGED wanted
        ELSE /\ GoesOn([op |-> "create", at |-> "mkdir", name |-> name,
                        way |-> WayOf(asked, name), needs |-> needs,
                        text |-> content.kind])
             /\ wanted' = wanted \cup {name}
     /\ UNCHANGED <<stack, policy, files, active, made, edits>>

\* Mutant: a directory that can be made is taken for a whole feature.
AfterMkdirPersisting(c) == "persist"

AfterMkdir(c) == IF c.needs THEN "open" ELSE "persist"

\* Mutant: the directory is left to the writing of the file.
MkdirLeft ==
  /\ cmd.op = "create" /\ cmd.at = "mkdir"
  /\ cmd' = [cmd EXCEPT !.at = AfterMkdir(cmd)]
  /\ UNCHANGED <<stack, policy, files, active, last, wanted, made, counters>>

Mkdir ==
  /\ cmd.op = "create" /\ cmd.at = "mkdir"
  /\ dirs' = dirs \cup {cmd.name}
  /\ cmd' = [cmd EXCEPT !.at = AfterMkdir(cmd)]
  /\ UNCHANGED <<stack, policy, spec, plan, tasks, trace, active, last, wanted,
                 made, counters>>

\* The template is opened for writing and written, or an empty file is touched.
OpenSpec ==
  /\ cmd.op = "create" /\ cmd.at = "open"
  /\ spec' = [spec EXCEPT ![cmd.name] = IF cmd.text = "text" THEN Torn ELSE Empty]
  /\ cmd' = [cmd EXCEPT !.at = IF cmd.text = "text" THEN "write" ELSE "persist"]
  /\ UNCHANGED <<stack, policy, dirs, plan, tasks, trace, active, last, wanted,
                 made, counters>>

WriteSpec ==
  /\ cmd.op = "create" /\ cmd.at = "write"
  /\ spec' = [spec EXCEPT ![cmd.name] = Template]
  /\ cmd' = [cmd EXCEPT !.at = "persist"]
  /\ UNCHANGED <<stack, policy, dirs, plan, tasks, trace, active, last, wanted,
                 made, counters>>

Created ==
  /\ cmd.op = "create" /\ cmd.at = "persisted"
  /\ AtOnce(Result(TRUE))
  /\ Selects(cmd.name)
  /\ UNCHANGED <<stack, policy, files, active, made, counters>>

(***************************************************************************)
(* The commands that work on a feature.                                    *)
(***************************************************************************)

\* get_feature_paths: the environment names a feature, or the file does.
FeatureOf(env) ==
  IF env # {} THEN env ELSE IF active.is = "names" THEN {active.name} ELSE {}

\* setup_plan.py, setup_tasks.py and check_prerequisites.py; a feature of the
\* environment is made active before anything is looked at.
Work(op, env, options) ==
  /\ Starts
  /\ IF FeatureOf(env) = {}
     THEN AtOnce(Result(FALSE)) /\ UNCHANGED wanted
     ELSE \E n \in FeatureOf(env) :
            /\ GoesOn([op |-> op, at |-> IF env = {} THEN "persisted" ELSE "persist",
                       name |-> n, selects |-> env # {}, options |-> options])
            /\ wanted' = wanted \cup env
  /\ UNCHANGED <<stack, policy, files, active, made, edits>>

\* check_prerequisites.py --paths-only shows names and looks at nothing.
PathsOnly(env) ==
  /\ Starts
  /\ AtOnce(Result(FeatureOf(env) # {}))
  /\ UNCHANGED <<stack, policy, files, active, wanted, made, edits>>

Succeeds ==
  /\ AtOnce(IF cmd.selects THEN Result(TRUE) ELSE On(cmd.name))
  /\ IF cmd.selects THEN Selects(cmd.name) ELSE UNCHANGED wanted

EndsWith(ok) ==
  IF ok THEN Succeeds ELSE AtOnce(Result(FALSE)) /\ UNCHANGED wanted

Doing(op) == cmd.op = op /\ cmd.at = "persisted"

\* Mutant: the template is copied whatever is there.
PlanIsThereNever(n) == FALSE

PlanIsThere(n) == plan[n].is # "absent"

\* setup_plan: the directory is made first, then the plan unless it is there.
SetupPlan ==
  /\ Doing("plan")
  /\ dirs' = dirs \cup {cmd.name}
  /\ cmd' = [cmd EXCEPT !.at = "open"]
  /\ UNCHANGED <<stack, policy, spec, plan, tasks, trace, active, last, wanted,
                 made, counters>>

OpenPlan ==
  /\ cmd.op = "plan" /\ cmd.at = "open"
  /\ LET content == Resolution[stack]
     IN IF PlanIsThere(cmd.name) \/ content.kind = "error"
        THEN EndsWith(PlanIsThere(cmd.name)) /\ plan' = plan
        ELSE IF content.kind = "none"
        THEN Succeeds /\ plan' = [plan EXCEPT ![cmd.name] = Empty]
        ELSE /\ plan' = [plan EXCEPT ![cmd.name] = Torn]
             /\ cmd' = [cmd EXCEPT !.at = "write"]
             /\ UNCHANGED <<last, wanted>>
  /\ UNCHANGED <<stack, policy, dirs, spec, tasks, trace, active, made, counters>>

WritePlan ==
  /\ cmd.op = "plan" /\ cmd.at = "write"
  /\ plan' = [plan EXCEPT ![cmd.name] = Template]
  /\ Succeeds
  /\ UNCHANGED <<stack, policy, dirs, spec, tasks, trace, active, made, counters>>

SetupTasks ==
  /\ Doing("tasks")
  /\ EndsWith(/\ PlanIsThere(cmd.name)
              /\ spec[cmd.name].is # "absent"
              /\ Resolution[stack].kind = "text")
  /\ UNCHANGED <<stack, policy, files, active, made, counters>>

\* The options of check_prerequisites: "tasks" and "template" require them.
CheckPrerequisites ==
  /\ Doing("check")
  /\ EndsWith(/\ cmd.name \in dirs
              /\ PlanIsThere(cmd.name)
              /\ "tasks" \in cmd.options => cmd.name \in tasks
              /\ "template" \in cmd.options
                   => Resolution[stack].kind = "text")
  /\ UNCHANGED <<stack, policy, files, active, made, counters>>

\* resolve_template.py.
Resolve ==
  /\ Starts
  /\ AtOnce(Result(Resolution[stack].kind = "text"))
  /\ UNCHANGED <<stack, policy, files, active, wanted, made, edits>>

(***************************************************************************)
(* The gate.                                                               *)
(***************************************************************************)

DocOf(n) ==
  CASE spec[n].is = "absent" -> [text |-> "absent", lines |-> <<>>]
    [] spec[n].is = "doc" -> spec[n].doc
    [] OTHER -> [text |-> "readable", lines |-> <<>>]

\* discover_specs: the feature given, or the active one if it has a
\* specification, or every specification there is.
DiscoverSpecs(given) ==
  IF given # {} THEN given
  ELSE IF active.is = "names" /\ spec[active.name].is # "absent"
  THEN {active.name} ELSE {n \in Names : spec[n].is # "absent"}

\* status shows the same and exits with zero.
Gate(given, phase, status) ==
  LET specs == DiscoverSpecs(given)
      found == GateFindings(phase, {[doc |-> DocOf(n), trace |-> trace[n]] : n \in specs},
                            policy, policy.production)
  IN /\ Starts
     /\ AtOnce(IF ~status /\ given = {} /\ found = {}
               THEN [op |-> "gate", ok |-> TRUE, specs |-> specs]
               ELSE Result(status \/ found = {}))
     /\ UNCHANGED <<stack, policy, files, active, wanted, made, edits>>

(***************************************************************************)
(* The environment.                                                        *)
(***************************************************************************)

\* The command is killed where it is.
Kill ==
  /\ cmd # Idle
  /\ AtOnce(Result(FALSE))
  /\ UNCHANGED <<stack, policy, files, active, wanted, made, counters>>

ByHand ==
  /\ cmd = Idle /\ edits < MaxEdits /\ edits' = edits + 1
  /\ last' = Nothing
  /\ UNCHANGED <<stack, policy, active, cmd, wanted, made, commands>>

MakeDirectory(n) ==
  /\ ByHand
  /\ n \notin dirs /\ dirs' = dirs \cup {n}
  /\ UNCHANGED <<spec, plan, tasks, trace>>

WriteDocument(n) ==
  /\ ByHand /\ n \in dirs
  /\ \/ /\ \E d \in Documents :
             /\ spec' = [spec EXCEPT ![n] = Written(d.doc)]
             /\ trace' = [trace EXCEPT ![n] = d.trace]
        /\ UNCHANGED <<plan, tasks>>
     \/ /\ plan' = [plan EXCEPT ![n] = Written(<<>>)]
        /\ UNCHANGED <<spec, tasks, trace>>
     \/ /\ tasks' = tasks \cup {n}
        /\ UNCHANGED <<spec, plan, trace>>
  /\ UNCHANGED dirs

Env == {{}} \cup {{n} : n \in dirs \cup EnvNames}

Next ==
  \/ \E asked \in Asked, suffix \in ShortNames, allow, dry \in BOOLEAN :
       Create(asked, suffix, allow, dry)
  \/ \E env \in Env, op \in {"plan", "tasks"} : Work(op, env, {})
  \/ \E env \in Env, options \in SUBSET {"tasks", "template"} :
       Work("check", env, options)
  \/ \E env \in Env : PathsOnly(env)
  \/ Resolve
  \/ \E given \in Env, i \in DOMAIN Phases, status \in BOOLEAN :
       Gate(given, Phases[i], status)
  \/ Mkdir \/ OpenSpec \/ WriteSpec \/ PersistOpens \/ PersistWrites \/ Created
  \/ SetupPlan \/ OpenPlan \/ WritePlan \/ SetupTasks \/ CheckPrerequisites
  \/ Kill
  \/ \E n \in Names : MakeDirectory(n) \/ WriteDocument(n)

Spec == Init /\ [][Next]_vars

(***************************************************************************)
(* Properties.                                                             *)
(***************************************************************************)

TypeOK ==
  /\ dirs \subseteq Names /\ tasks \subseteq dirs
  /\ \A n \in Names : spec[n].is \in {"absent", "torn", "empty", "template", "doc"}
  /\ \A n \in Names \ dirs : spec[n] = Absent /\ plan[n] = Absent
  /\ active.is \in {"absent", "torn", "names"}
  /\ cmd # Idle => last = Nothing
  /\ commands \in 0..MaxCommands /\ edits \in 0..MaxEdits

\* No command writes over a specification or a plan that is there, written by
\* people or copied from the template, whichever commands came before it and
\* wherever they were killed.
TextIsKept ==
  [][edits' = edits =>
       \A n \in Names : /\ spec[n].is \in {"doc", "template"} => spec'[n] = spec[n]
                        /\ plan[n].is \in {"doc", "template"} => plan'[n] = plan[n]]_vars

\* A creation does not give a directory the number of another, written by hand,
\* asked for, or left by a creation that died.  Two cases are not looked at: a
\* number asked for is not compared with one padded by hand, and the next number
\* not with the date that begins another name.
OneFeaturePerNumber ==
  [][cmd.op = "create" =>
       \A d \in dirs' \ dirs, e \in dirs :
         d.form # "time" /\ d.num = e.num =>
           \/ cmd.way = "asked" /\ e.form = "padded"
           \/ cmd.way = "next" /\ e.form = "time"]_vars

\* A command that is not told its feature works on the one selected last, or
\* on one that a later command, cut short, was about to select; and a gate that
\* is not told its feature passes on the active one alone once a creation made
\* it so.
SelectionIsKept ==
  /\ last.op = "work" => last.name \in wanted
  /\ last.op = "gate" /\ active.is = "names" /\ active.name \in made
       => last.specs = {active.name}

\* See TemplateStack: the text of a template is its layers in their order.  The
\* stack stays what it is, so it is looked at before the first command.
StackResolves ==
  cmd = Idle /\ last = Nothing /\ dirs = {} /\ active = NoFeature
    => TemplatesResolve(stack)
=============================================================================
