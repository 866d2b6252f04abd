------------------------- MODULE MemoryLimits_proofs --------------------------
(* The limiter forgets everything when its process ends, and finds its jobs *)
(* again by the names in jobs.txt.  The invariant says what its tables may  *)
(* name, that the kernel has no job of a process yet to start, and that as  *)
(* long as it never crashed no job exists that it neither holds nor lists.  *)
(* A pid that is taken over between the snapshot and the handle is what the *)
(* limiter cannot see: the history variable taken keeps under which         *)
(* executable the scan had listed it, and SnapshotInv says that the         *)
(* snapshot can be wrong about a process in no other way.                   *)
EXTENDS MemoryLimits, TLAPS

Existing == {j \in JobName : kernel[j] # "absent"}

\* What the tables say of the scan under way, and of a service that is down.
ScanInv ==
    /\ ~up => jobs = {} /\ inspected = [p \in Pid |-> 0] /\ work = {} /\ todo = {}
    /\ work # {} => job \in JobName
    /\ \A p \in todo : Listed(p)

\* No job is named after a process that has not started.
KernelInv == \A j \in Existing : j[2] <= clock

\* What a service that never crashed holds or has listed.
ListInv == ~crashed => Existing \subseteq IF up THEN jobs ELSE saved

\* The snapshot shows the executable of the process that holds the pid, or the
\* one it had listed when that process took the pid over.
SnapshotInv ==
    \A p \in Pid : Listed(p) /\ Live(p) => all[p].exe \in {proc[p].exe, taken[p]}

IInv ==
    /\ TypeOK /\ ScanInv /\ KernelInv /\ ListInv
    /\ SnapshotInv /\ InspectedIsCovered /\ RootKeepsScope

-----------------------------------------------------------------------------
(***************************************************************************)
(* The identity of a process and the kernel's jobs.                        *)
(***************************************************************************)

LEMMA LiveProcess ==
    ASSUME TypeOK, NEW p \in Pid, Live(p)
    PROVE  /\ proc[p] \in [parent : Pid \cup {0}, born : 1..clock, exe : Kind]
           /\ proc[p].born \in 1..clock /\ proc[p].exe \in Kind
           /\ clock \in Nat /\ clock <= MaxBorn
           /\ Id(p) \in JobName /\ Id(p)[1] = p /\ Id(p)[2] = proc[p].born
<1>1. proc[p] \in [parent : Pid \cup {0}, born : 1..clock, exe : Kind]
    BY DEF TypeOK, Live
<1>2. clock \in Nat /\ clock <= MaxBorn /\ MaxBorn \in Nat
    BY ProcessAssumption DEF TypeOK
<1>3. proc[p].born \in 1..clock /\ proc[p].born \in 1..MaxBorn
    BY <1>1, <1>2
<1> QED
    BY <1>1, <1>2, <1>3 DEF Id, JobName

\* Closing handles and losing members only ends jobs.
LEMMA SurvivingJobs ==
    ASSUME TypeOK, NEW held, NEW m, NEW k, k = Surviving(held, m)
    PROVE  /\ k \in [JobName -> {"absent", "none", "tree", "process"}]
           /\ \A j \in JobName :
                /\ k[j] \in {kernel[j], "absent"}
                /\ k[j] # "absent" => j \in held \/ \E p \in Pid : j \in m[p]
BY DEF TypeOK, Surviving

LEMMA ScopeIsKnown ==
    ASSUME NEW e PROVE Scope(e) \in {"process", "tree"}
BY DEF Scope

-----------------------------------------------------------------------------
(***************************************************************************)
(* The world.                                                              *)
(***************************************************************************)

LEMMA SpawnKeepsInv ==
    ASSUME IInv, NEW p \in Pid, NEW q \in Pid \cup {0}, NEW e \in Exe, Spawn(p, q, e)
    PROVE  IInv'
<1> DEFINE new == [parent |-> q, born |-> clock + 1, exe |-> e]
<1>1. /\ clock \in Nat /\ clock < MaxBorn /\ MaxBorn \in Nat /\ clock' = clock + 1
      /\ clock' \in 0..MaxBorn
      /\ proc' = [proc EXCEPT ![p] = new]
      /\ UNCHANGED <<kernel, up, jobs, inspected, errors, saved, pc, all, todoJobs,
                     todo, job, work, crashed>>
      /\ ~Live(p)
    BY ProcessAssumption DEF IInv, TypeOK, Spawn, serviceVars, scanVars
<1>2. new \in [parent : Pid \cup {0}, born : 1..clock', exe : Kind]
    BY <1>1, ProcessAssumption
<1> HIDE DEF new
<1>3. /\ proc'[p] = new /\ \A r \in Pid : r # p => proc'[r] = proc[r]
      /\ proc' \in [Pid -> [parent : Pid \cup {0}, born : 1..clock', exe : Kind] \cup {Gone}]
    <2>1. [parent : Pid \cup {0}, born : 1..clock, exe : Kind]
            \subseteq [parent : Pid \cup {0}, born : 1..clock', exe : Kind]
        BY <1>1
    <2>2. proc \in [Pid -> [parent : Pid \cup {0}, born : 1..clock', exe : Kind] \cup {Gone}]
        BY <2>1 DEF IInv, TypeOK
    <2> QED BY <1>1, <1>2, <2>2
<1>4. inspected \in [Pid -> 0..clock'] /\ inspected[p] <= clock
    BY <1>1 DEF IInv, TypeOK
<1>5. member' \in [Pid -> SUBSET JobName] /\ \A r \in Pid : r # p => member'[r] = member[r]
    BY DEF IInv, TypeOK, Spawn
<1>6. /\ taken' \in [Pid -> Kind \cup {"none"}] /\ taken'[p] \in {all[p].exe, "none"}
      /\ all[p].exe \in {e, taken'[p]}
      /\ \A r \in Pid : r # p => taken'[r] = taken[r]
    <2>1. /\ taken' = [taken EXCEPT ![p] = IF all[p].exe = e THEN "none" ELSE all[p].exe]
          /\ all[p].exe \in Kind \cup {"none"}
        BY DEF IInv, TypeOK, Spawn, Unlisted
    <2> QED BY <2>1 DEF IInv, TypeOK
<1>7. TypeOK'
    BY <1>1, <1>3, <1>4, <1>5, <1>6 DEF IInv, TypeOK
<1>8. KernelInv'
    <2>1. ASSUME NEW j \in JobName, kernel[j] # "absent" PROVE j[2] <= clock + 1
        BY <1>1, <2>1 DEF IInv, KernelInv, Existing, JobName
    <2> QED BY <1>1, <2>1 DEF KernelInv, Existing
<1>9. ScanInv' /\ ListInv'
    BY <1>1 DEF IInv, ScanInv, ListInv, Existing, Listed
<1>10. (SnapshotInv /\ InspectedIsCovered /\ RootKeepsScope)'
    <2>1. new.exe = e /\ new.born = clock + 1
        BY DEF new
    <2>2. SnapshotInv'
        BY <1>1, <1>3, <1>6, <2>1 DEF IInv, SnapshotInv, Listed, Live
    <2>3. InspectedIsCovered'
        <3>1. inspected'[p] # proc'[p].born
            BY <1>1, <1>3, <1>4, <2>1 DEF IInv, TypeOK
        <3> QED
            BY <1>1, <1>3, <1>5, <1>6, <3>1 DEF IInv, InspectedIsCovered, Live
    <2>4. RootKeepsScope'
        <3>1. kernel[<<p, clock + 1>>] = "absent"
            <4>1. <<p, clock + 1>> \in JobName /\ <<p, clock + 1>>[2] = clock + 1
                BY <1>1 DEF JobName
            <4> QED BY <1>1, <4>1 DEF IInv, KernelInv, Existing
        <3> QED
            BY <1>1, <1>3, <1>6, <2>1, <3>1 DEF IInv, RootKeepsScope, RootScopes, Live, Id
    <2> QED BY <2>2, <2>3, <2>4
<1> QED
    BY <1>7, <1>8, <1>9, <1>10 DEF IInv

LEMMA ExitKeepsInv ==
    ASSUME IInv, NEW p \in Pid, Exit(p)
    PROVE  IInv'
<1>1. /\ proc' = [proc EXCEPT ![p] = Gone] /\ member' = [member EXCEPT ![p] = {}]
      /\ kernel' = Surviving(jobs, member') /\ saved' = Present(saved)
      /\ taken' = [taken EXCEPT ![p] = "none"]
      /\ UNCHANGED <<clock, up, jobs, inspected, errors, pc, all, todoJobs, todo, job,
                     work, crashed>>
    BY DEF Exit, scanVars
<1>2. /\ kernel' \in [JobName -> {"absent", "none", "tree", "process"}]
      /\ \A j \in JobName : kernel'[j] \in {kernel[j], "absent"}
    BY <1>1, SurvivingJobs DEF IInv
<1>3. TypeOK'
    BY <1>1, <1>2 DEF IInv, TypeOK, Present
<1>4. Existing' \subseteq Existing
    BY <1>2 DEF Existing
<1>5. KernelInv' /\ ScanInv'
    BY <1>1, <1>4 DEF IInv, KernelInv, ScanInv, Listed
<1>6. ListInv'
    BY <1>1, <1>4 DEF IInv, ListInv, Present, Existing
<1>7. /\ \A r \in Pid : Live(r)' => /\ r # p /\ proc'[r] = proc[r] /\ taken'[r] = taken[r]
                                  /\ member'[r] = member[r]
      /\ \A r \in Pid : Live(r)' => Live(r)
    BY <1>1 DEF IInv, TypeOK, Live
<1>8. (SnapshotInv /\ InspectedIsCovered /\ RootKeepsScope)'
    <2>1. SnapshotInv' /\ InspectedIsCovered'
        BY <1>1, <1>7 DEF IInv, SnapshotInv, InspectedIsCovered, Listed
    <2>2. RootKeepsScope'
        <3>1. ASSUME NEW r \in Pid, Live(r)'
              PROVE  kernel'[Id(r)'] \in {"absent", "none"} \cup RootScopes(r)'
            <4>1. Live(r) /\ Id(r)' = Id(r) /\ Id(r) \in JobName
                BY <1>7, <3>1, LiveProcess DEF IInv, Id
            <4> QED BY <1>2, <1>7, <3>1, <4>1 DEF IInv, RootKeepsScope, RootScopes
        <3> QED BY <3>1 DEF RootKeepsScope
    <2> QED BY <2>1, <2>2
<1> QED
    BY <1>3, <1>5, <1>6, <1>8 DEF IInv

-----------------------------------------------------------------------------
(***************************************************************************)
(* The scan.                                                               *)
(***************************************************************************)

LEMMA BeginScanKeepsInv ==
    ASSUME IInv, BeginScan
    PROVE  IInv'
<1>1. /\ up /\ jobs' = {j \in jobs : Members(j) # {}}
      /\ kernel' = Surviving(jobs', member) /\ saved' = Present(saved)
      /\ inspected' = [p \in Pid |-> IF Live(p) THEN inspected[p] ELSE 0]
      /\ todo' = {p \in Pid : Live(p)}
      /\ all' = [p \in Pid |-> [parent |-> proc[p].parent, exe |-> proc[p].exe]]
      /\ todoJobs' = {j \in jobs' : kernel[j] # "process"} /\ pc' = "retry"
      /\ errors' = {p \in errors : Live(p)}
      /\ UNCHANGED <<proc, clock, kin, taken, member, up, job, work, crashed>>
    BY DEF BeginScan, worldVars
<1>2. /\ kernel' \in [JobName -> {"absent", "none", "tree", "process"}]
      /\ \A j \in JobName : /\ kernel'[j] \in {kernel[j], "absent"}
                            /\ kernel'[j] # "absent" => j \in jobs' \/ Members(j) # {}
    BY <1>1, SurvivingJobs DEF IInv, Members
<1>3. \A p \in Pid : /\ all'[p] \in [parent : Pid \cup {0}, exe : Kind] \cup {Unlisted}
                     /\ Live(p) => all'[p] # Unlisted /\ all'[p].exe = proc[p].exe
    <2>1. ASSUME NEW p \in Pid, Live(p)
          PROVE  /\ all'[p] \in [parent : Pid \cup {0}, exe : Kind]
                 /\ all'[p] # Unlisted /\ all'[p].exe = proc[p].exe
        <3>1. proc[p].parent \in Pid \cup {0} /\ proc[p].exe \in Kind
            BY <2>1, LiveProcess DEF IInv
        <3>2. proc[p].exe # "none"
            BY <3>1 DEF Kind
        <3>3. /\ all'[p] = [parent |-> proc[p].parent, exe |-> proc[p].exe]
              /\ all'[p] # Unlisted
            BY <1>1, <3>2 DEF Unlisted
        <3> QED BY <3>1, <3>3
    <2>2. ASSUME NEW p \in Pid, ~Live(p) PROVE all'[p] = Unlisted
        BY <1>1, <2>2 DEF Live, Gone, Unlisted
    <2> QED BY <2>1, <2>2
<1>4. TypeOK'
    <2>1. inspected' \in [Pid -> 0..clock]
        BY <1>1 DEF IInv, TypeOK
    <2>2. all' \in [Pid -> [parent : Pid \cup {0}, exe : Kind] \cup {Unlisted}]
        BY <1>1, <1>3
    <2> QED BY <1>1, <1>2, <2>1, <2>2 DEF IInv, TypeOK, Present
<1>5. Existing' \subseteq Existing
    BY <1>2 DEF Existing
<1>6. ScanInv'
    BY <1>1, <1>3 DEF IInv, ScanInv, Listed
<1>7. KernelInv' /\ ListInv'
    BY <1>1, <1>2, <1>5 DEF IInv, KernelInv, ListInv, Existing
<1>8. (SnapshotInv /\ InspectedIsCovered /\ RootKeepsScope)'
    <2>1. SnapshotInv'
        BY <1>1, <1>3 DEF SnapshotInv, Live
    <2>2. InspectedIsCovered'
        BY <1>1 DEF IInv, InspectedIsCovered, Live, Members
    <2>3. RootKeepsScope'
        <3>1. ASSUME NEW r \in Pid, Live(r)
              PROVE  kernel'[Id(r)] \in {"absent", "none"} \cup RootScopes(r)
            <4>1. Id(r) \in JobName
                BY <3>1, LiveProcess DEF IInv
            <4> QED BY <1>2, <3>1, <4>1 DEF IInv, RootKeepsScope
        <3> QED BY <1>1, <3>1 DEF RootKeepsScope, RootScopes, Live, Id
    <2> QED BY <2>1, <2>2, <2>3
<1> QED
    BY <1>4, <1>6, <1>7, <1>8 DEF IInv

\* Steps that change neither the world nor the kernel nor what is settled.
LEMMA BookkeepingKeepsInv ==
    ASSUME IInv, up, UNCHANGED <<proc, clock, kin, taken, member, kernel, up, jobs, inspected, crashed>>,
           TypeOK', ScanInv', all' = all \/ \A p \in Pid : all'[p] = Unlisted
    PROVE  IInv'
BY DEF IInv, KernelInv, ListInv, Existing, SnapshotInv, InspectedIsCovered, RootKeepsScope,
   RootScopes, Live, Listed, Id

\* A process joins the job being filled.
LEMMA JoiningKeepsInv ==
    ASSUME IInv, NEW p \in Pid, p \in work, Joins(p), errors' \subseteq errors,
           work' = work \ {p},
           UNCHANGED <<proc, clock, kin, taken, kernel, up, jobs, inspected, saved, pc, all,
                       todoJobs, todo, job, crashed>>
    PROVE  IInv'
<1>1. job \in JobName /\ member' = [member EXCEPT ![p] = @ \cup {job}]
    BY DEF IInv, ScanInv, Joins
<1>2. /\ member' \in [Pid -> SUBSET JobName]
      /\ \A q \in Pid : member[q] \subseteq member'[q]
    BY <1>1 DEF IInv, TypeOK
<1>3. TypeOK'
    BY <1>2 DEF IInv, TypeOK
<1> QED
    BY <1>1, <1>2, <1>3 DEF IInv, ScanInv, KernelInv, ListInv, Existing, SnapshotInv,
       InspectedIsCovered, RootKeepsScope, RootScopes, Live, Listed, Id

LEMMA AttachingKeepsInv ==
    ASSUME IInv, NEW p \in Pid, RetryAttach(p) \/ AttachChild(p)
    PROVE  IInv'
<1>1. /\ up /\ p \in work /\ work' = work \ {p}
      /\ UNCHANGED <<proc, clock, kin, taken, kernel, up, jobs, inspected, saved, pc, all,
                     todoJobs, todo, job, crashed>>
    BY DEF RetryAttach, AttachChild, worldVars
<1>2. CASE Joins(p) /\ errors' \subseteq errors
    BY <1>1, <1>2, JoiningKeepsInv
<1>3. CASE UNCHANGED member /\ errors' \subseteq errors \cup {p}
    <2>1. TypeOK' /\ ScanInv'
        BY <1>1, <1>3 DEF IInv, TypeOK, ScanInv, Listed
    <2> QED BY <1>1, <1>3, <2>1, BookkeepingKeepsInv
<1> QED
    BY <1>2, <1>3 DEF RetryAttach, AttachChild, Fails

LEMMA ProgressKeepsInv ==
    ASSUME IInv, (\E j \in JobName : RetryJob(j)) \/ RetryEnds \/ AttachAborts \/ EndScan
    PROVE  IInv'
<1>1. CASE \E j \in JobName : RetryJob(j)
    <2>1. TypeOK' /\ ScanInv'
        BY <1>1 DEF RetryJob, serviceVars, worldVars, IInv, TypeOK, ScanInv, Listed
    <2> QED BY <1>1, <2>1, BookkeepingKeepsInv DEF RetryJob, serviceVars, worldVars
<1>2. CASE RetryEnds
    <2>1. TypeOK' /\ ScanInv'
        BY <1>2 DEF RetryEnds, serviceVars, worldVars, IInv, TypeOK, ScanInv, Listed
    <2> QED BY <1>2, <2>1, BookkeepingKeepsInv DEF RetryEnds, serviceVars, worldVars
<1>3. CASE AttachAborts
    <2>1. job[1] \in Pid
        BY <1>3 DEF IInv, ScanInv, AttachAborts, JobName
    <2>2. TypeOK' /\ ScanInv'
        BY <1>3, <2>1 DEF AttachAborts, worldVars, IInv, TypeOK, ScanInv, Listed
    <2> QED BY <1>3, <2>2, BookkeepingKeepsInv DEF AttachAborts, worldVars
<1>4. CASE EndScan
    <2>1. TypeOK' /\ ScanInv'
        BY <1>4 DEF EndScan, worldVars, IInv, TypeOK, ScanInv, Listed
    <2>2. \A p \in Pid : all'[p] = Unlisted
        BY <1>4 DEF EndScan
    <2> QED BY <1>4, <2>1, <2>2, BookkeepingKeepsInv DEF EndScan, worldVars
<1> QED
    BY <1>1, <1>2, <1>3, <1>4

\* A listed process is settled, reported or limited.
LEMMA ConsiderKeepsInv ==
    ASSUME IInv, NEW p \in Pid, Consider(p)
    PROVE  IInv'
<1>1. /\ up /\ work = {} /\ p \in todo /\ Listed(p) /\ todo' = todo \ {p}
      /\ UNCHANGED <<proc, clock, kin, taken, up, saved, pc, all, todoJobs, crashed>>
    BY DEF IInv, ScanInv, Consider, worldVars
<1>2. CASE Ignored(p) \/ Unlimited(p)
    <2>1. UNCHANGED <<member, kernel, jobs, inspected, job, work>> /\ errors' \subseteq errors \cup {p}
        BY <1>2 DEF Ignored, Unlimited, Fails
    <2>2. TypeOK' /\ ScanInv'
        BY <1>1, <2>1 DEF IInv, TypeOK, ScanInv, Listed
    <2> QED BY <1>1, <2>1, <2>2, BookkeepingKeepsInv
<1>3. CASE Managed(p) \/ NotTarget(p)
    <2>1. /\ Live(p) /\ Inspect(p) /\ errors' \subseteq errors
          /\ UNCHANGED <<member, kernel, jobs, job, work>>
          /\ member[p] \cap jobs # {} \/ all[p].exe = "runtime"
        BY <1>3 DEF Managed, NotTarget
    <2>2. inspected' = [inspected EXCEPT ![p] = proc[p].born] /\ inspected' \in [Pid -> 0..clock]
        BY <2>1, LiveProcess DEF IInv, TypeOK, Inspect
    <2>3. TypeOK' /\ ScanInv'
        BY <1>1, <2>1, <2>2 DEF IInv, TypeOK, ScanInv, Listed
    <2>4. InspectedIsCovered'
        <3>1. member[p] \cap jobs # {} \/ ~Direct(proc[p].exe) \/ taken[p] = "runtime"
            BY <1>1, <2>1 DEF IInv, SnapshotInv, Direct
        <3> QED BY <1>1, <2>1, <2>2, <3>1 DEF IInv, TypeOK, InspectedIsCovered, Live
    <2> QED
        BY <1>1, <2>1, <2>3, <2>4 DEF IInv, KernelInv, ListInv, Existing, SnapshotInv,
           RootKeepsScope, RootScopes, Live, Listed, Id
<1>4. CASE Limited(p)
    <2>1. /\ Live(p) /\ job' = Id(p) /\ jobs' = jobs \cup {Id(p)}
          /\ kernel' = [kernel EXCEPT ![Id(p)] = Scope(all[p].exe)]
          /\ member' = [member EXCEPT ![p] = @ \cup {Id(p)}]
          /\ Inspect(p) /\ errors' \subseteq errors /\ work' \subseteq Pid
        BY <1>4 DEF Limited
    <2>2. Id(p) \in JobName /\ Id(p)[2] <= clock /\ proc[p].born \in 0..clock
        BY <2>1, LiveProcess DEF IInv
    <2>3. /\ kernel' \in [JobName -> {"absent", "none", "tree", "process"}]
          /\ kernel'[Id(p)] = Scope(all[p].exe)
          /\ \A j \in JobName : j # Id(p) => kernel'[j] = kernel[j]
        BY <2>1, <2>2, ScopeIsKnown DEF IInv, TypeOK
    <2>4. /\ member' \in [Pid -> SUBSET JobName] /\ Id(p) \in member'[p]
          /\ \A q \in Pid : member[q] \subseteq member'[q]
        BY <2>1, <2>2 DEF IInv, TypeOK
    <2>5. /\ inspected' \in [Pid -> 0..clock]
          /\ \A q \in Pid : q # p => inspected'[q] = inspected[q]
        BY <2>1, <2>2 DEF IInv, TypeOK, Inspect
    <2>6. TypeOK' /\ ScanInv'
        BY <1>1, <2>1, <2>2, <2>3, <2>4, <2>5 DEF IInv, TypeOK, ScanInv, Listed
    <2>7. KernelInv' /\ ListInv'
        BY <1>1, <2>1, <2>2, <2>3 DEF IInv, KernelInv, ListInv, Existing
    <2>8. (SnapshotInv /\ InspectedIsCovered /\ RootKeepsScope)'
        <3>1. Scope(all[p].exe) \in RootScopes(p)
            <4>1. all[p].exe \in {proc[p].exe, taken[p]} \ {"none"}
                BY <1>1, <2>1 DEF IInv, TypeOK, SnapshotInv, Listed, Unlisted, Kind
            <4> QED BY <4>1 DEF RootScopes
        <3>2. InspectedIsCovered'
            BY <1>1, <2>1, <2>4, <2>5 DEF IInv, InspectedIsCovered, Live
        <3>3. RootKeepsScope'
            <4>1. ASSUME NEW r \in Pid, Live(r)
                  PROVE  kernel'[Id(r)] \in {"absent", "none"} \cup RootScopes(r)
                <5>1. Id(r) \in JobName /\ Id(r)[1] = r
                    BY <4>1, LiveProcess DEF IInv
                <5>2. CASE r = p
                    BY <2>3, <3>1, <5>2
                <5>3. CASE r # p
                    <6>1. Id(r) # Id(p)
                        BY <2>1, <5>1, <5>3, LiveProcess DEF IInv
                    <6> QED BY <2>3, <4>1, <5>1, <6>1 DEF IInv, RootKeepsScope
                <5> QED BY <5>2, <5>3
            <4> QED BY <1>1, <4>1 DEF RootKeepsScope, RootScopes, Live, Id
        <3> QED BY <1>1, <3>2, <3>3 DEF IInv, SnapshotInv, Live, Listed
    <2> QED BY <2>6, <2>7, <2>8 DEF IInv
<1> QED
    BY <1>2, <1>3, <1>4 DEF Consider

-----------------------------------------------------------------------------
(***************************************************************************)
(* The life of the service.                                                *)
(***************************************************************************)

LEMMA DownKeepsInv ==
    ASSUME IInv, Stop \/ Crash
    PROVE  IInv'
<1>1. /\ up /\ ~up' /\ jobs' = {} /\ kernel' = Surviving({}, member)
      /\ inspected' = [p \in Pid |-> 0] /\ errors' = {}
      /\ pc' = "idle" /\ all' = [p \in Pid |-> Unlisted]
      /\ todoJobs' = {} /\ todo' = {} /\ job' = NoJob /\ work' = {}
      /\ UNCHANGED <<proc, clock, kin, taken, member>> /\ up' = FALSE
    BY DEF Stop, Crash, Down, worldVars
<1>2. /\ kernel' \in [JobName -> {"absent", "none", "tree", "process"}]
      /\ \A j \in JobName : kernel'[j] \in {kernel[j], "absent"}
    BY <1>1, SurvivingJobs DEF IInv
<1>3. saved' \subseteq JobName /\ crashed' \in BOOLEAN
    BY DEF IInv, TypeOK, Stop, Crash, Present
<1>4. TypeOK'
    <2>1. inspected' \in [Pid -> 0..clock]
        BY <1>1, ProcessAssumption DEF IInv, TypeOK
    <2> QED BY <1>1, <1>2, <1>3, <2>1 DEF IInv, TypeOK
<1>5. Existing' \subseteq Existing
    BY <1>2 DEF Existing
<1>6. ScanInv' /\ KernelInv'
    BY <1>1, <1>5 DEF IInv, ScanInv, KernelInv
<1>7. ListInv'
    BY <1>1, <1>5 DEF IInv, ListInv, Existing, Present, Stop, Crash
<1>8. (SnapshotInv /\ InspectedIsCovered /\ RootKeepsScope)'
    <2>1. SnapshotInv' /\ InspectedIsCovered'
        BY <1>1 DEF SnapshotInv, Listed, InspectedIsCovered
    <2>2. ASSUME NEW r \in Pid, Live(r)
          PROVE  kernel'[Id(r)] \in {"absent", "none"} \cup RootScopes(r)
        <3>1. Id(r) \in JobName
            BY <2>2, LiveProcess DEF IInv
        <3> QED BY <1>2, <2>2, <3>1 DEF IInv, RootKeepsScope
    <2> QED BY <1>1, <2>1, <2>2 DEF RootKeepsScope, RootScopes, Live, Id
<1> QED
    BY <1>4, <1>6, <1>7, <1>8 DEF IInv

LEMMA StartKeepsInv ==
    ASSUME IInv, Start
    PROVE  IInv'
<1>1. /\ ~up /\ up' = TRUE /\ jobs' = {j \in saved : kernel[j] # "absent"}
      /\ kernel' = [j \in JobName |-> IF j \in jobs' THEN Recovered(j) ELSE kernel[j]]
      /\ UNCHANGED <<proc, clock, kin, taken, member, inspected, errors, saved, pc, all, todoJobs,
                     todo, job, work, crashed>>
    BY DEF Start, worldVars, scanVars
<1>2. \A j : Recovered(j) \in {"tree", "process"}
    BY ScopeIsKnown DEF Recovered
<1>3. /\ kernel' \in [JobName -> {"absent", "none", "tree", "process"}]
      /\ Existing' = Existing
    BY <1>1, <1>2 DEF IInv, TypeOK, Existing
<1>4. TypeOK'
    BY <1>1, <1>3 DEF IInv, TypeOK
<1>5. ScanInv' /\ KernelInv' /\ ListInv'
    BY <1>1, <1>3 DEF IInv, ScanInv, KernelInv, ListInv, Listed, Existing
<1>6. (SnapshotInv /\ InspectedIsCovered /\ RootKeepsScope)'
    <2>1. InspectedIsCovered'
        <3>1. ASSUME NEW p \in Pid, Live(p) PROVE inspected[p] # proc[p].born
            BY <1>1, <3>1, LiveProcess DEF IInv, ScanInv
        <3> QED BY <1>1, <3>1 DEF InspectedIsCovered, Live
    <2>2. ASSUME NEW r \in Pid, Live(r)
          PROVE  kernel'[Id(r)] \in {"absent", "none"} \cup RootScopes(r)
        <3>1. Id(r) \in JobName /\ Id(r)[1] = r
            BY <2>2, LiveProcess DEF IInv
        <3>2. Recovered(Id(r)) = Scope(proc[r].exe) /\ Recovered(Id(r)) \in RootScopes(r)
            <4>1. proc[r].exe # "none"
                BY <2>2, LiveProcess DEF IInv, Kind
            <4> QED BY <2>2, <3>1, <4>1 DEF Recovered, RootScopes
        <3> QED BY <1>1, <2>2, <3>1, <3>2 DEF IInv, RootKeepsScope
    <2>3. RootKeepsScope'
        BY <1>1, <2>2 DEF RootKeepsScope, RootScopes, Live, Id
    <2>4. SnapshotInv'
        BY <1>1 DEF IInv, SnapshotInv, Listed, Live
    <2> QED BY <2>1, <2>3, <2>4
<1> QED
    BY <1>4, <1>5, <1>6 DEF IInv

LEMMA ReleaseKeepsInv ==
    ASSUME IInv, Release
    PROVE  IInv'
<1>1. /\ kernel' \in [JobName -> {"absent", "none", "tree", "process"}]
      /\ \A j \in JobName : kernel'[j] = kernel[j] \/ kernel'[j] = "none"
      /\ Existing' = Existing
    BY DEF Release, IInv, TypeOK, Existing
<1>2. UNCHANGED <<proc, clock, kin, taken, member, up, jobs, inspected, errors, saved, pc, all,
                  todoJobs, todo, job, work, crashed>>
    BY DEF Release, worldVars, serviceVars, scanVars
<1>3. TypeOK' /\ ScanInv' /\ KernelInv' /\ ListInv'
    BY <1>1, <1>2 DEF IInv, TypeOK, ScanInv, KernelInv, ListInv, Listed
<1>4. (SnapshotInv /\ InspectedIsCovered /\ RootKeepsScope)'
    <2>1. ASSUME NEW r \in Pid, Live(r)
          PROVE  kernel'[Id(r)] \in {"absent", "none"} \cup RootScopes(r)
        <3>1. Id(r) \in JobName
            BY <2>1, LiveProcess DEF IInv
        <3> QED BY <1>1, <2>1, <3>1 DEF IInv, RootKeepsScope
    <2> QED
        BY <1>2, <2>1 DEF IInv, SnapshotInv, InspectedIsCovered, RootKeepsScope, RootScopes, Live,
           Listed, Id
<1> QED
    BY <1>3, <1>4 DEF IInv

-----------------------------------------------------------------------------
(***************************************************************************)
(* The theorems.                                                           *)
(***************************************************************************)

LEMMA InitIsInv == Init => IInv
<1> SUFFICES ASSUME Init PROVE IInv
    OBVIOUS
<1>1. MaxBorn \in Nat
    BY ProcessAssumption
<1>2. TypeOK
    <2>1. clock = 0 /\ clock \in 0..MaxBorn
        BY <1>1 DEF Init
    <2>2. /\ proc \in [Pid -> [parent : Pid \cup {0}, born : 1..clock, exe : Kind] \cup {Gone}]
          /\ member \in [Pid -> SUBSET JobName] /\ inspected \in [Pid -> 0..clock]
          /\ kernel \in [JobName -> {"absent", "none", "tree", "process"}]
          /\ all \in [Pid -> [parent : Pid \cup {0}, exe : Kind] \cup {Unlisted}]
          /\ taken \in [Pid -> Kind \cup {"none"}]
        BY <2>1 DEF Init
    <2>3. /\ up \in BOOLEAN /\ crashed \in BOOLEAN /\ jobs \subseteq JobName
          /\ saved \subseteq JobName /\ errors \subseteq Pid /\ pc \in {"idle", "retry", "roots"}
          /\ todoJobs \subseteq JobName /\ todo \subseteq Pid
          /\ job \in JobName \cup {NoJob} /\ work \subseteq Pid
        BY DEF Init
    <2> QED BY <2>1, <2>2, <2>3 DEF TypeOK
<1>3. ScanInv /\ KernelInv /\ ListInv
    BY DEF Init, ScanInv, KernelInv, ListInv, Existing
<1>4. SnapshotInv /\ InspectedIsCovered /\ RootKeepsScope
    BY DEF Init, SnapshotInv, InspectedIsCovered, RootKeepsScope, Live
<1> QED
    BY <1>2, <1>3, <1>4 DEF IInv

LEMMA NextKeepsInv == IInv /\ [Next]_vars => IInv'
<1> SUFFICES ASSUME IInv, [Next]_vars PROVE IInv'
    OBVIOUS
<1>1. CASE \E p \in Pid, q \in Pid \cup {0}, e \in Exe : Spawn(p, q, e)
    BY <1>1, SpawnKeepsInv
<1>2. CASE \E p \in Pid : Exit(p)
    BY <1>2, ExitKeepsInv
<1>3. CASE Scan
    BY <1>3, BeginScanKeepsInv, ProgressKeepsInv, AttachingKeepsInv, ConsiderKeepsInv DEF Scan
<1>4. CASE Stop \/ Crash \/ Start \/ Release
    BY <1>4, DownKeepsInv, StartKeepsInv, ReleaseKeepsInv
<1>5. CASE UNCHANGED vars
    BY <1>5 DEF vars, IInv, TypeOK, ScanInv, KernelInv, ListInv, Existing, SnapshotInv,
       InspectedIsCovered, RootKeepsScope, RootScopes, Live, Listed, Id
<1> QED
    BY <1>1, <1>2, <1>3, <1>4, <1>5 DEF Next

\* The invariant of the limiter, for any processes and however the service is
\* started, stopped, crashed and removed.
THEOREM Invariance == Spec => []IInv
BY InitIsInv, NextKeepsInv, PTL DEF Spec

\* The tables name only jobs and pids that can exist (MemoryLimits.cs: jobs,
\* inspected, errors, jobs.txt).
THEOREM TypeCorrect == Spec => []TypeOK
<1>1. IInv => TypeOK
    BY DEF IInv
<1> QED
    BY <1>1, Invariance, PTL

\* A service that was only ever stopped names every surviving budget in
\* jobs.txt, so recovery and --release reach them all (OnStop, SaveStatus).
THEOREM StoppedListIsCompleteAlways == Spec => []StoppedListIsComplete
<1>1. IInv => StoppedListIsComplete
    BY DEF IInv, ListInv, Existing, StoppedListIsComplete
<1> QED
    BY <1>1, Invariance, PTL

\* A direct target the scan has settled is inside a job the service holds,
\* whatever pids are taken over while it runs; only a target on the pid of a
\* listed runtime can be settled outside (Scan, Target).
THEOREM InspectedIsCoveredAlways ==
    Spec => []InspectedIsCovered
<1>1. IInv => InspectedIsCovered
    BY DEF IInv
<1> QED
    BY <1>1, Invariance, PTL

\* The budget of a living root has the scope its executable calls for, or that
\* of the executable listed on the pid it took over, through crashes, cut lists
\* and recovery (Scan, RecoverJobs).
THEOREM RootKeepsScopeAlways ==
    Spec => []RootKeepsScope
<1>1. IInv => RootKeepsScope
    BY DEF IInv
<1> QED
    BY <1>1, Invariance, PTL
=============================================================================
