---------------------------- MODULE MemoryLimits ----------------------------
(***************************************************************************)
(* The workload limiter of the memory-limit service                        *)
(* (scripts/memory-limits/MemoryLimits.cs).  A scan takes one snapshot of  *)
(* the process list and then works on it entry by entry while processes    *)
(* start, exit and take over process identifiers; the service may be       *)
(* stopped, crash, recover its jobs by name or be removed.                 *)
(*                                                                         *)
(* A process is identified by its pid and creation time.  Job objects are  *)
(* the kernel's: a job lives while a handle or a member keeps it, a child  *)
(* is born into the jobs of its parent that do not let children break away.*)
(*                                                                         *)
(* Left out: an exception that ends a whole scan (a failed snapshot, a job *)
(* of more than 4096 processes), the service's own pid, status.json and    *)
(* the event log.                                                          *)
(***************************************************************************)
EXTENDS Integers, FiniteSets

CONSTANTS
    Pid,              \* process identifiers
    Exe,              \* kinds of executables in play, see Kind
    MaxBorn           \* bound on the number of processes ever started

Kind == {"tree",      \* in Executables
         "host",      \* in Executables and in ProcessOnlyExecutables
         "runtime",   \* in RuntimeExecutables, carrying a runtime marker
         "other"}

ASSUME ProcessAssumption ==
    /\ Pid \subseteq Nat \ {0} /\ IsFiniteSet(Pid) /\ Exe \subseteq Kind
    /\ MaxBorn \in Nat

VARIABLES
    proc,       \* environment: the process that holds each pid
    clock,      \* environment: creation time of the latest process
    member,     \* kernel: the managed jobs each pid is a member of
    kernel,     \* kernel: the limit of each job object, "absent" without one
    up,         \* the service process is running
    jobs,       \* jobs: the names it holds a handle of
    inspected,  \* inspected: creation time per pid, 0 without an entry
    errors,     \* errors: the pids with a recorded coverage error
    saved,      \* jobs.txt, without the names whose job object is gone for
                \* good: OpenJobObject fails on them and they never come back
    pc,         \* where Scan stands
    all,        \* the snapshot
    todoJobs,   \* jobs whose descendants are still to be retried
    todo,       \* entries still to be considered, parents first
    job, work,  \* the job being filled and the entries left for it
    kin,        \* history: each process and its true ancestors
    taken,      \* history: the other executable under which the running scan had
                \* listed the pid when its process started, or "none"
    crashed     \* history: the service has died without stopping

worldVars   == <<proc, clock, kin, taken>>
serviceVars == <<up, jobs, inspected, errors, saved>>
scanVars    == <<pc, all, todoJobs, todo, job, work>>
vars == <<proc, clock, member, kernel, up, jobs, inspected, errors, saved, pc,
          all, todoJobs, todo, job, work, kin, taken, crashed>>

Gone     == [parent |-> 0, born |-> 0, exe |-> "none"]
Unlisted == [parent |-> 0, exe |-> "none"]
JobName  == Pid \X (1..MaxBorn)
NoJob    == <<0, 0>>

Live(p)    == proc[p] # Gone
Id(p)      == <<p, proc[p].born>>
Members(j) == {p \in Pid : j \in member[p]}
Direct(e)  == e \in {"tree", "host"}
Scope(e)   == IF e \in {"host", "runtime"} THEN "process" ELSE "tree"

\* The job objects that remain when only the handles in held are open.
Surviving(held, m) ==
    [j \in JobName |->
        IF j \in held \/ \E p \in Pid : j \in m[p] THEN kernel[j] ELSE "absent"]

Present(names) == {j \in names : kernel'[j] # "absent"}

-----------------------------------------------------------------------------
(* Ancestry as the snapshot shows it: parent pids, however old. *)
Listed(p) == all[p] # Unlisted

Parents(S) == {q \in {all[r].parent : r \in S} \ {0} : Listed(q)}

Above(p) ==
    LET step[n \in 0..Cardinality(Pid)] ==
            IF n = 0 THEN Parents({p})
            ELSE LET nearer == step[n - 1] IN nearer \cup Parents(nearer)
    IN  step[Cardinality(Pid)]

Depth(p) == Cardinality(Above(p))

Descendant(p, root) ==
    /\ p # root
    /\ root \in {all[q].parent : q \in Above(p) \cup {p}}

-----------------------------------------------------------------------------
(* The world around the service. *)
Spawn(p, q, e) ==
    /\ ~Live(p) /\ clock < MaxBorn
    /\ q = 0 \/ (q \in Pid /\ Live(q))
    /\ clock' = clock + 1
    /\ proc' = [proc EXCEPT ![p] = [parent |-> q, born |-> clock + 1, exe |-> e]]
    /\ member' = [member EXCEPT ![p] =
                     IF q = 0 THEN {} ELSE {j \in member[q] : kernel[j] = "tree"}]
    /\ kin' = [kin EXCEPT ![p] =
                  {<<p, clock + 1>>} \cup (IF q = 0 THEN {} ELSE kin[q])]
    /\ taken' = [taken EXCEPT ![p] = IF all[p].exe = e THEN "none" ELSE all[p].exe]
    /\ UNCHANGED <<kernel, serviceVars, scanVars, crashed>>

Exit(p) ==
    /\ Live(p)
    /\ proc' = [proc EXCEPT ![p] = Gone]
    /\ member' = [member EXCEPT ![p] = {}]
    /\ kin' = [kin EXCEPT ![p] = {}]
    /\ taken' = [taken EXCEPT ![p] = "none"]
    /\ kernel' = Surviving(jobs, member')
    /\ saved' = Present(saved)
    /\ UNCHANGED <<clock, up, jobs, inspected, errors, scanVars, crashed>>

-----------------------------------------------------------------------------
(* Scan: the snapshot, the closing of empty jobs, the pruning of the tables. *)
BeginScan ==
    /\ up /\ pc = "idle"
    /\ pc' = "retry"
    /\ all' = [p \in Pid |-> [parent |-> proc[p].parent, exe |-> proc[p].exe]]
    /\ jobs' = {j \in jobs : Members(j) # {}}
    /\ kernel' = Surviving(jobs', member)
    /\ saved' = Present(saved)
    /\ inspected' = [p \in Pid |-> IF Live(p) THEN inspected[p] ELSE 0]
    /\ errors' = {p \in errors : Live(p)}
    /\ todoJobs' = {j \in jobs' : kernel[j] # "process"}
    /\ todo' = {p \in Pid : Live(p)}
    /\ UNCHANGED <<worldVars, member, up, job, work, crashed>>

\* Mutant: descendants are attached once, never retried.
RetryNothing(j) ==
    /\ up /\ pc = "retry" /\ work = {} /\ j \in todoJobs
    /\ todoJobs' = todoJobs \ {j}
    /\ job' = j
    /\ UNCHANGED <<worldVars, member, kernel, serviceVars, pc, all, todo, work,
                   crashed>>

\* The listed processes that look like descendants of a member of j.
RetryJob(j) ==
    /\ up /\ pc = "retry" /\ work = {} /\ j \in todoJobs
    /\ todoJobs' = todoJobs \ {j}
    /\ job' = j
    /\ work' = {p \in Pid : /\ Listed(p) /\ p \notin Members(j)
                            /\ \E m \in Members(j) : Descendant(p, m)}
    /\ UNCHANGED <<worldVars, member, kernel, serviceVars, pc, all, todo, crashed>>

Joins(p) == Live(p) /\ member' = [member EXCEPT ![p] = @ \cup {job}]
Fails(p) == errors' = errors \cup {p} /\ UNCHANGED member

\* OpenProcess fails, the process is critical, or it cannot be assigned.
RetryAttach(p) ==
    /\ up /\ pc = "retry" /\ p \in work
    /\ work' = work \ {p}
    /\ \/ Joins(p) /\ errors' = errors \ {p}
       \/ Fails(p)
    /\ UNCHANGED <<worldVars, kernel, up, jobs, inspected, saved, pc, all,
                   todoJobs, todo, job, crashed>>

RetryEnds ==
    /\ up /\ pc = "retry" /\ todoJobs = {} /\ work = {}
    /\ pc' = "roots" /\ job' = NoJob
    /\ UNCHANGED <<worldVars, member, kernel, serviceVars, all, todoJobs, todo,
                   work, crashed>>

(* One listed process.  The snapshot gives its executable, the handle that *)
(* is opened now its creation time and its jobs.                           *)
Inspect(p) == inspected' = [inspected EXCEPT ![p] = proc[p].born]

Ignored(p) ==
    /\ \/ all[p].exe = "other"
       \/ Live(p) /\ inspected[p] = proc[p].born
    /\ UNCHANGED <<member, kernel, jobs, inspected, errors, job, work>>

\* Mutant: a process that could not be limited is settled all the same.
UnlimitedSettled(p) ==
    /\ all[p].exe # "other" /\ Live(p)
    /\ Fails(p) /\ Inspect(p)
    /\ UNCHANGED <<kernel, jobs, job, work>>

Unlimited(p) ==
    /\ all[p].exe # "other"
    /\ Fails(p)
    /\ UNCHANGED <<kernel, jobs, inspected, job, work>>

Managed(p) ==
    /\ all[p].exe # "other" /\ Live(p) /\ inspected[p] # proc[p].born
    /\ member[p] \cap jobs # {}
    /\ Inspect(p) /\ errors' = errors \ {p}
    /\ UNCHANGED <<member, kernel, jobs, job, work>>

\* The command line of the pid has no marker, or the query for it fails.
NotTarget(p) ==
    /\ all[p].exe = "runtime" /\ Live(p) /\ inspected[p] # proc[p].born
    /\ member[p] \cap jobs = {}
    /\ Inspect(p)
    /\ UNCHANGED <<member, kernel, jobs, errors, job, work>>

\* Of a runtime the command line has a marker, whoever holds the pid by now.
Limited(p) ==
    /\ all[p].exe # "other"
    /\ Live(p) /\ inspected[p] # proc[p].born
    /\ member[p] \cap jobs = {}
    /\ job' = Id(p)
    /\ kernel' = [kernel EXCEPT ![Id(p)] = Scope(all[p].exe)]
    /\ member' = [member EXCEPT ![p] = @ \cup {Id(p)}]
    /\ jobs' = jobs \cup {Id(p)}
    /\ Inspect(p) /\ errors' = errors \ {p}
    /\ work' = IF Scope(all[p].exe) = "process" THEN {}
               ELSE {q \in Pid : Listed(q) /\ Descendant(q, p)}

Consider(p) ==
    /\ up /\ pc = "roots" /\ work = {} /\ p \in todo
    /\ \A q \in todo : Depth(p) <= Depth(q)
    /\ todo' = todo \ {p}
    /\ Ignored(p) \/ Unlimited(p) \/ Managed(p) \/ NotTarget(p) \/ Limited(p)
    /\ UNCHANGED <<worldVars, up, saved, pc, all, todoJobs, crashed>>

\* The children already present when their root was found.  One that is older
\* than the root, or cannot be asked whether it is a member, is passed over
\* without a word.
AttachChild(p) ==
    /\ up /\ pc = "roots" /\ p \in work
    /\ work' = work \ {p}
    /\ \/ Live(p) /\ UNCHANGED <<member, errors>>
       \/ Joins(p) /\ proc[p].born >= job[2] /\ UNCHANGED errors
       \/ Fails(p)
    /\ UNCHANGED <<worldVars, kernel, up, jobs, inspected, saved, pc, all,
                   todoJobs, todo, job, crashed>>

\* A child that cannot be asked for its creation time or its jobs ends the
\* loop over the children, and the error is the root's.
AttachAborts ==
    /\ up /\ pc = "roots" /\ work # {}
    /\ work' = {} /\ errors' = errors \cup {job[1]}
    /\ UNCHANGED <<worldVars, member, kernel, up, jobs, inspected, saved, pc, all,
                   todoJobs, todo, job, crashed>>

\* The status files are written after every tenth scan.
EndScan ==
    /\ up /\ pc = "roots" /\ todo = {} /\ work = {}
    /\ pc' = "idle" /\ all' = [p \in Pid |-> Unlisted] /\ job' = NoJob
    /\ saved' \in {saved, jobs}
    /\ UNCHANGED <<worldVars, member, kernel, up, jobs, inspected, errors,
                   todoJobs, todo, work, crashed>>

Scan ==
    \/ BeginScan \/ RetryEnds \/ AttachAborts \/ EndScan
    \/ \E j \in JobName : RetryJob(j)
    \/ \E p \in Pid : RetryAttach(p) \/ Consider(p) \/ AttachChild(p)

-----------------------------------------------------------------------------
(* The end of the process takes its handles and its tables away. *)
Down ==
    /\ up /\ up' = FALSE
    /\ jobs' = {} /\ kernel' = Surviving({}, member)
    /\ inspected' = [p \in Pid |-> 0] /\ errors' = {}
    /\ pc' = "idle" /\ all' = [p \in Pid |-> Unlisted]
    /\ todoJobs' = {} /\ todo' = {} /\ job' = NoJob /\ work' = {}
    /\ UNCHANGED <<worldVars, member>>

\* Mutant: stopping leaves the list of the tenth scan.
StopUnsaved == pc = "idle" /\ Down /\ saved' = Present(saved) /\ UNCHANGED crashed

Stop == pc = "idle" /\ Down /\ saved' = Present(jobs) /\ UNCHANGED crashed

\* jobs.txt is not replaced atomically: dying between two scans may cut it.
Crash ==
    /\ Down /\ crashed' = TRUE
    /\ \/ saved' = Present(saved)
       \/ pc = "idle" /\ \E cut \in SUBSET jobs : saved' = Present(cut)

\* Mutants: the scope is read off the limits the job still has, or the
\* executable is taken for the scope.
RecoveredFromLimits(j) == IF kernel[j] = "process" THEN "process" ELSE "tree"
RecoveredExe(j) == IF Live(j[1]) THEN proc[j[1]].exe ELSE "tree"

(* RecoverJobs: the scope follows the process that now holds the root's pid. *)
Recovered(j) ==
    IF Live(j[1]) THEN Scope(proc[j[1]].exe)
    ELSE IF kernel[j] = "process" THEN "process" ELSE "tree"

Start ==
    /\ ~up /\ up' = TRUE
    /\ jobs' = {j \in saved : kernel[j] # "absent"}
    /\ kernel' = [j \in JobName |-> IF j \in jobs' THEN Recovered(j) ELSE kernel[j]]
    /\ UNCHANGED <<worldVars, member, inspected, errors, saved, scanVars, crashed>>

\* MemoryLimits --release, run when the stopped service is removed.
Release ==
    /\ ~up
    /\ kernel' = [j \in JobName |->
                     IF j \in saved /\ kernel[j] # "absent" THEN "none" ELSE kernel[j]]
    /\ UNCHANGED <<worldVars, member, serviceVars, scanVars, crashed>>

Init ==
    /\ proc = [p \in Pid |-> Gone] /\ clock = 0
    /\ member = [p \in Pid |-> {}] /\ kernel = [j \in JobName |-> "absent"]
    /\ up = FALSE /\ jobs = {} /\ inspected = [p \in Pid |-> 0]
    /\ errors = {} /\ saved = {}
    /\ pc = "idle" /\ all = [p \in Pid |-> Unlisted]
    /\ todoJobs = {} /\ todo = {} /\ job = NoJob /\ work = {}
    /\ kin = [p \in Pid |-> {}] /\ taken = [p \in Pid |-> "none"]
    /\ crashed = FALSE

Next ==
    \/ \E p \in Pid, q \in Pid \cup {0}, e \in Exe : Spawn(p, q, e)
    \/ \E p \in Pid : Exit(p)
    \/ Scan \/ Stop \/ Crash \/ Start \/ Release

Spec == Init /\ [][Next]_vars /\ WF_vars(Scan) /\ WF_vars(Start)

-----------------------------------------------------------------------------
(* Type invariant: the tables name jobs and pids that can exist. *)
TypeOK ==
    /\ clock \in 0..MaxBorn
    /\ proc \in [Pid -> [parent : Pid \cup {0}, born : 1..clock, exe : Kind]
                        \cup {Gone}]
    /\ member \in [Pid -> SUBSET JobName]
    /\ kernel \in [JobName -> {"absent", "none", "tree", "process"}]
    /\ up \in BOOLEAN /\ crashed \in BOOLEAN
    /\ jobs \subseteq JobName /\ saved \subseteq JobName
    /\ inspected \in [Pid -> 0..clock] /\ errors \subseteq Pid
    /\ pc \in {"idle", "retry", "roots"}
    /\ all \in [Pid -> [parent : Pid \cup {0}, exe : Kind] \cup {Unlisted}]
    /\ todoJobs \subseteq JobName /\ todo \subseteq Pid
    /\ job \in JobName \cup {NoJob} /\ work \subseteq Pid
    /\ taken \in [Pid -> Kind \cup {"none"}]

\* A direct target that the service has settled ("inspected") is inside a job
\* it holds, even one that took over a pid between the snapshot and the handle.
\* Settling it loses coverage in one case only: the scan that was running when
\* it started had listed its pid as a runtime, whose command line then has no
\* marker (Scan, Target).
InspectedIsCovered ==
    \A p \in Pid : up /\ Live(p) /\ inspected[p] = proc[p].born
                      /\ Direct(proc[p].exe) /\ taken[p] # "runtime"
                   => member[p] \cap jobs # {}

\* A process is only limited by the budgets of its own ancestors, or its own
\* (docs/workload-memory.md:38, "Descendants share the root budget [...]
\* multiple independent roots have separate budgets").
StrangersStayOut == \A p \in Pid : member[p] \subseteq kin[p]

\* The scopes the budget of a living root may have.
RootScopes(p) == {Scope(e) : e \in {proc[p].exe, taken[p]} \ {"none"}}

\* While the root of a budget lives, the budget has the scope its executable
\* calls for, through crashes, partly written lists and recovery, until the
\* limits are released.  A root that took over a listed pid within the scan may
\* have the scope of the executable listed, and no other (Scan, RecoverJobs).
RootKeepsScope ==
    \A p \in Pid : Live(p) => kernel[Id(p)] \in {"absent", "none"} \cup RootScopes(p)

\* As long as the service has only been stopped, never crashed, jobs.txt of the
\* stopped service names every surviving budget: recovery and --release reach
\* them all (OnStop, SaveStatus, Main --release).
StoppedListIsComplete ==
    ~up /\ ~crashed => {j \in JobName : kernel[j] # "absent"} \subseteq saved

\* Coverage settles: while the service stays up, time and again every direct
\* target is inside a managed job and every child is inside the tree budget of
\* its living parent, even one that was there first, or an error reports it
\* ("never silently lose coverage errors", Scan).  Excepted is the target of
\* InspectedIsCovered that took over the pid of a listed runtime.
Uncovered(p) ==
    Direct(proc[p].exe) /\ taken[p] # "runtime" /\ member[p] \cap jobs = {}
Outside(p) ==
    \E q \in Pid : /\ Live(q) /\ proc[p].parent = q /\ Id(q) \in kin[p]
                   /\ \E j \in member[q] \cap jobs :
                         kernel[j] = "tree" /\ j \notin member[p]
Gap == \E p \in Pid : Live(p) /\ p \notin errors /\ (Uncovered(p) \/ Outside(p))
CoverageSettles == <>[]up => []<>~Gap
=============================================================================
