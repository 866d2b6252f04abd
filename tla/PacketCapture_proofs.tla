----------------------- MODULE PacketCapture_proofs ------------------------
(* The captures share one driver, so a statement about one capture needs   *)
(* to know where every script is.  The invariant says what the holder of   *)
(* the mutex has established at each place of Start and of Stop, and what  *)
(* the files promise while nobody holds it.                                *)
EXTENDS PacketCapture, TLAPS

\* Where a script holds the mutex.
Working == Starting \cup Stopping \cup {"leave"}

Exclusive == \A p \in Procs : proc[p].pc \in Working => mutex = p

\* What the files say about the driver, at every moment.
Sessions ==
    \A n \in Names :
        /\ (capture = n \/ session[n].status # "absent" \/ proc[n].pc # "unborn")
             => n \in dirs
        /\ session[n].status \in {"Stopped", "Completed"} => capture # n
        /\ session[n].status = "Completed" => n \in converted
        /\ (capture = n /\ proc[n].pc # "unborn") => session[n].owned \subseteq filters

StartPhase(p) ==
    LET n == proc[p].name
    IN /\ proc[p].pc \in Starting \ {"check"} =>
            n \in dirs /\ proc[n].pc = "unborn" /\ capture \notin Names \ {n}
       /\ proc[p].pc \in {"add", "snapshot", "start"} =>
            capture # n /\ session[n].status = "absent"
       /\ proc[p].pc \in {"start", "save", "launch"} =>
            proc[p].owned \subseteq filters
       /\ proc[p].pc \in {"save", "launch"} => capture = n
       /\ proc[p].pc = "launch" => session[n].owned \subseteq filters

StopPhase(p) ==
    LET n == proc[p].name
    IN /\ proc[p].pc \in Stopping \ {"read"} => n \in dirs
       /\ proc[p].pc = "stop" => capture = n
       /\ proc[p].pc \in {"mark", "complete"} => capture # n
       /\ (proc[p].pc = "convert" /\ proc[p].ok) => capture # n
       /\ (proc[p].pc = "finally" /\ proc[p].ok) => (capture # n /\ n \in converted)
       /\ proc[p].pc = "complete" => n \in converted

IInv ==
    /\ TypeOK /\ Exclusive /\ Sessions
    /\ \A p \in Procs : StartPhase(p) /\ StopPhase(p)

---------------------------------------------------------------------------
Places == Resting \cup Working \cup {"wait"}

\* What a step of p leaves of the processes.
Kept(p) ==
    /\ proc' \in [Procs -> Locals]
    /\ \A q \in Procs : q # p => proc'[q] = proc[q]
    /\ proc'[p].name = proc[p].name

LEMMA AtRestType ==
  ASSUME NEW pc \in Places
  PROVE  /\ AtRest(pc) \in Locals
         /\ AtRest(pc).pc = pc
BY Disjoint DEF AtRest, Locals, Statuses, NotRead, Places, Working

\* The two ways in which a script moves on.
LEMMA GotoKeeps ==
  ASSUME TypeOK, NEW p \in Procs, NEW pc \in Places, Goto(p, pc)
  PROVE  /\ Kept(p)
         /\ proc'[p] = [proc[p] EXCEPT !.pc = pc]
         /\ proc'[p].pc = pc
<1>1. proc[p] \in Locals
  BY DEF TypeOK
<1>2. [proc[p] EXCEPT !.pc = pc] \in Locals
  BY <1>1 DEF Locals, Places, Working
<1> QED
  BY <1>1, <1>2 DEF TypeOK, Goto, Kept, Locals

LEMMA ThrowKeeps ==
  ASSUME TypeOK, NEW p \in Procs, NEW pc \in Places, Throw(p, pc)
  PROVE  /\ Kept(p)
         /\ proc'[p] = [proc[p] EXCEPT !.pc = pc, !.ok = FALSE]
         /\ proc'[p].pc = pc /\ ~proc'[p].ok
<1>1. proc[p] \in Locals
  BY DEF TypeOK
<1>2. [proc[p] EXCEPT !.pc = pc, !.ok = FALSE] \in Locals
  BY <1>1 DEF Locals, Places, Working
<1>3. proc' = [proc EXCEPT ![p] = [proc[p] EXCEPT !.pc = pc, !.ok = FALSE]]
  BY DEF TypeOK, Throw
<1> QED
  BY <1>1, <1>2, <1>3 DEF TypeOK, Kept, Locals

LEMMA SetKeeps ==
  ASSUME TypeOK, NEW p \in Procs, NEW r \in Locals, r.name = proc[p].name,
         proc' = [proc EXCEPT ![p] = r]
  PROVE  Kept(p) /\ proc'[p] = r
BY DEF TypeOK, Kept

---------------------------------------------------------------------------
\* While one script works no other does.
LEMMA OthersRest ==
  ASSUME Exclusive, NEW p \in Procs, proc[p].pc \in Working
  PROVE  \A q \in Procs : q # p => proc[q].pc \notin Working
BY DEF Exclusive

\* A script at rest has established nothing.
LEMMA NothingAtRest ==
  ASSUME NEW q, proc'[q].pc \notin Working
  PROVE  StartPhase(q)' /\ StopPhase(q)'
BY DEF StartPhase, StopPhase, Working, Starting, Stopping

\* A step of the script that works needs to be looked at for this script only.
LEMMA OneWorks ==
  ASSUME IInv, NEW p \in Procs, proc[p].pc \in Working, Kept(p), mutex' = mutex,
         TypeOK', Sessions', StartPhase(p)', StopPhase(p)'
  PROVE  IInv'
<1>1. \A q \in Procs : q # p => proc'[q].pc \notin Working
  BY OthersRest DEF IInv, Kept
<1>2. Exclusive'
  BY <1>1 DEF IInv, Exclusive
<1>3. ASSUME NEW q \in Procs PROVE (StartPhase(q) /\ StopPhase(q))'
  <2>1. CASE q = p
    BY <2>1
  <2>2. CASE q # p
    BY <2>2, <1>1, NothingAtRest
  <2> QED
    BY <2>1, <2>2
<1> QED
  BY <1>2, <1>3 DEF IInv

\* Workers are born in LaunchWorker only.
LEMMA NoneIsBorn ==
  ASSUME NEW p \in Procs, Kept(p), proc[p].pc # "unborn", proc'[p].pc # "unborn"
  PROVE  \A n \in Names : proc'[n].pc = "unborn" <=> proc[n].pc = "unborn"
BY DEF Kept, Procs, Workers

\* An exception at any call leaves what the catch or finally block relies on.
LEMMA FailureKeepsInv ==
  ASSUME IInv, NEW p \in Procs, NEW pc, Fails(p, pc), proc[p].pc # "catch",
         \/ pc = "catch" /\ proc[p].pc \in Starting \ {"check"}
         \/ pc = "finally" /\ proc[p].pc \in Stopping \ {"read"}
         \/ pc = "leave" /\ proc[p].pc \in Working
  PROVE  IInv'
<1>1. proc[p].pc \in Working /\ pc \in Places
  BY DEF Working, Places, Starting, Stopping
<1>2. Kept(p) /\ proc'[p] = [proc[p] EXCEPT !.pc = pc, !.ok = FALSE]
  BY <1>1, ThrowKeeps DEF IInv, Fails
<1>3. proc[p] \in Locals
  BY DEF IInv, TypeOK
<1>4. proc'[p].pc = pc /\ proc'[p].ok = FALSE
  BY <1>2, <1>3 DEF Locals
<1>5. TypeOK'
  BY <1>2, Disjoint DEF IInv, TypeOK, Fails, Fault, driver, files, Kept
<1>6. Sessions'
  <2>1. \A n \in Names : proc'[n].pc = "unborn" <=> proc[n].pc = "unborn"
    BY <1>1, <1>2, <1>4, NoneIsBorn DEF Working, Starting, Stopping
  <2> QED
    BY <2>1 DEF IInv, Sessions, Fails, driver, files
<1>7. StartPhase(p)' /\ StopPhase(p)'
  <2>1. proc'[p].name \in Names /\ proc[p].name \in Procs
    BY <1>2, <1>3 DEF Kept, Locals, Procs, Workers
  <2>2. proc[p].pc \in Starting \ {"check"} => proc[p].name # p
    BY DEF IInv, StartPhase, Starting
  <2> QED
    BY <1>2, <1>4, <2>1, <2>2 DEF IInv, StartPhase, StopPhase, Fails, driver, files, Kept,
       Starting, Stopping
<1> QED
  BY <1>1, <1>2, <1>5, <1>6, <1>7, OneWorks DEF Fails

---------------------------------------------------------------------------
\* Start, call by call.
LEMMA StartKeepsInv ==
  ASSUME IInv, NEW p \in Procs,
         CheckIdle(p) \/ AddFilter(p) \/ Snapshot(p) \/ StartCapture(p)
           \/ SaveActive(p) \/ Catch(p)
  PROVE  IInv'
<1> DEFINE n == proc[p].name
<1>0. /\ proc[p] \in Locals /\ n \in Names /\ n \in Procs
      /\ (proc[p].pc \in Starting \ {"check"} => n # p)
      /\ StartPhase(p) /\ StopPhase(p) /\ TypeOK
  BY DEF IInv, TypeOK, Locals, Procs, Workers, StartPhase, Starting
<1>1. CASE CheckIdle(p)
  <2>1. proc[p].pc = "check" /\ mutex' = mutex
    BY <1>1 DEF CheckIdle, At
  <2>2. CASE n \in dirs \/ capture # Idle \/ filters # {}
    <3>1. Throw(p, "leave") /\ UNCHANGED <<driver, files, mutex, budget>>
      BY <1>1, <2>2 DEF CheckIdle, files
    <3>2. Kept(p) /\ proc'[p].pc = "leave"
      BY <1>0, <3>1, ThrowKeeps DEF Places, Working, Locals
    <3>3. TypeOK'
      BY <1>0, <3>1, <3>2 DEF TypeOK, driver, files, budget, Kept
    <3>4. Sessions'
      BY <2>1, <3>1, <3>2, NoneIsBorn DEF IInv, Sessions, driver, files
    <3>5. StartPhase(p)' /\ StopPhase(p)'
      BY <3>2 DEF StartPhase, StopPhase, Starting, Stopping
    <3> QED
      BY <2>1, <3>2, <3>3, <3>4, <3>5, OneWorks DEF Working, Starting
  <2>3. CASE n \notin dirs /\ capture = Idle /\ filters = {}
    <3>1. /\ Goto(p, "add") /\ dirs' = dirs \cup {n}
          /\ UNCHANGED <<driver, session, converted, mutex, budget>>
      BY <1>1, <2>3 DEF CheckIdle
    <3>2. Kept(p) /\ proc'[p].pc = "add"
      BY <1>0, <3>1, GotoKeeps DEF Places, Working, Starting, Locals
    <3>3. TypeOK'
      BY <1>0, <3>1, <3>2 DEF TypeOK, driver, budget, Kept
    <3>4. Sessions'
      BY <2>1, <3>1, <3>2, NoneIsBorn DEF IInv, Sessions, driver
    <3>5. proc[n].pc = "unborn" /\ session[n].status = "absent" /\ capture \notin Names
      BY <1>0, <2>3, Distinct DEF IInv, Sessions
    <3>6. proc'[n].pc = "unborn" /\ proc'[p].name = n
      BY <1>0, <2>1, <3>2, <3>5 DEF Kept
    <3>7. StartPhase(p)' /\ StopPhase(p)'
      BY <1>0, <3>1, <3>2, <3>5, <3>6 DEF StartPhase, StopPhase, Starting, Stopping, driver
    <3> QED
      BY <2>1, <3>1, <3>2, <3>3, <3>4, <3>7, OneWorks DEF Working, Starting
  <2> QED
    BY <2>2, <2>3
<1>2. CASE AddFilter(p)
  <2>1. proc[p].pc = "add" /\ mutex' = mutex /\ UNCHANGED files
    BY <1>2 DEF AddFilter, Fails, At, files
  <2>2. CASE Fails(p, "catch")
    BY <1>0, <2>1, <2>2, FailureKeepsInv DEF Starting
  <2>3. CASE Goto(p, "snapshot") /\ Works /\ UNCHANGED driver
    <3>1. Kept(p) /\ proc'[p].pc = "snapshot"
      BY <1>0, <2>3, GotoKeeps DEF Places, Working, Starting, Locals
    <3>2. TypeOK'
      BY <1>0, <2>1, <2>3, <3>1 DEF TypeOK, driver, files, budget, Works, Kept
    <3>3. Sessions'
      BY <2>1, <2>3, <3>1, NoneIsBorn DEF IInv, Sessions, driver, files
    <3>4. StartPhase(p)' /\ StopPhase(p)'
      BY <1>0, <2>1, <2>3, <3>1 DEF StartPhase, StopPhase, Starting, Stopping, driver, files,
         Kept
    <3> QED
      BY <2>1, <3>1, <3>2, <3>3, <3>4, OneWorks DEF Working, Starting
  <2>4. ASSUME NEW f \in proc[p].todo, filters' = filters \cup {f}, Works,
               UNCHANGED capture, proc' = [proc EXCEPT ![p].todo = @ \ {f}]
        PROVE  IInv'
    <3> DEFINE r == [proc[p] EXCEPT !.todo = @ \ {f}]
    <3>1. /\ r \in Locals /\ r.name = n /\ r.pc = "add"
          /\ proc' = [proc EXCEPT ![p] = r]
      BY <1>0, <2>1, <2>4 DEF Locals, TypeOK
    <3>2. Kept(p) /\ proc'[p].pc = "add"
      BY <1>0, <3>1, SetKeeps
    <3>3. TypeOK'
      BY <1>0, <2>1, <2>4, <3>2 DEF TypeOK, files, budget, Works, Kept, Locals
    <3>4. Sessions'
      BY <1>0, <2>1, <2>4, <3>2, NoneIsBorn DEF IInv, Sessions, files, StartPhase, Starting
    <3>5. StartPhase(p)' /\ StopPhase(p)'
      BY <1>0, <2>1, <2>4, <3>2 DEF StartPhase, StopPhase, Starting, Stopping, files, Kept
    <3> QED
      BY <2>1, <3>2, <3>3, <3>4, <3>5, OneWorks DEF Working, Starting
  <2> QED
    BY <1>2, <2>2, <2>3, <2>4 DEF AddFilter
<1>3. CASE Snapshot(p)
  <2>1. proc[p].pc = "snapshot" /\ mutex' = mutex
    BY <1>3 DEF Snapshot, Fails, At
  <2>2. CASE Fails(p, "catch")
    BY <1>0, <2>1, <2>2, FailureKeepsInv DEF Starting, Working
  <2>3. CASE /\ proc' = [proc EXCEPT ![p].pc = "start", ![p].owned = filters]
            /\ Works /\ UNCHANGED <<driver, files>>
    <3> DEFINE r == [proc[p] EXCEPT !.pc = "start", !.owned = filters]
    <3>0. r \in Locals /\ r.name = n /\ proc' = [proc EXCEPT ![p] = r]
      BY <1>0, <2>3 DEF TypeOK, Locals, Starting, Statuses
    <3>1. Kept(p) /\ proc'[p] = r
      BY <1>0, <3>0, SetKeeps
    <3>2. proc'[p].pc = "start" /\ proc'[p].owned = filters /\ proc'[p].ok = proc[p].ok
      BY <1>0, <3>1 DEF Locals
    <3>3. TypeOK'
      BY <1>0, <2>1, <2>3, <3>1 DEF TypeOK, driver, files, budget, Works, Kept
    <3>4. Sessions'
      BY <1>0, <2>1, <2>3, <3>1, <3>2, NoneIsBorn DEF IInv, Sessions, TypeOK, driver,
         files, StartPhase, StopPhase, Starting
    <3>5. StartPhase(p)' /\ StopPhase(p)'
      BY <1>0, <2>1, <2>3, <3>1, <3>2 DEF StartPhase, StopPhase, Starting, Stopping,
         driver, files, Kept, TypeOK
    <3> QED
      BY <2>1, <3>1, <3>3, <3>4, <3>5, OneWorks DEF Working, Starting
  <2> QED
    BY <1>3, <2>2, <2>3 DEF Snapshot
<1>4. CASE StartCapture(p)
  <2>1. proc[p].pc = "start" /\ mutex' = mutex
    BY <1>4 DEF StartCapture, Fails, At
  <2>2. CASE Fails(p, "catch")
    BY <1>0, <2>1, <2>2, FailureKeepsInv DEF Starting, Working
  <2>3. CASE /\ capture' = n
            /\ proc' = [proc EXCEPT ![p].pc = "save", ![p].started = TRUE]
            /\ Works /\ UNCHANGED <<filters, files>>
    <3> DEFINE r == [proc[p] EXCEPT !.pc = "save", !.started = TRUE]
    <3>0. r \in Locals /\ r.name = n /\ proc' = [proc EXCEPT ![p] = r]
      BY <1>0, <2>3 DEF TypeOK, Locals, Starting, Statuses
    <3>1. Kept(p) /\ proc'[p] = r
      BY <1>0, <3>0, SetKeeps
    <3>2. /\ proc'[p].pc = "save" /\ proc'[p].started = TRUE
          /\ proc'[p].owned = proc[p].owned /\ proc'[p].ok = proc[p].ok
      BY <1>0, <3>1 DEF Locals
    <3>3. TypeOK'
      BY <1>0, <2>1, <2>3, <3>1 DEF TypeOK, driver, files, budget, Works, Kept
    <3>4. Sessions'
      <4>1. \A m \in Names : proc'[m].pc = "unborn" <=> proc[m].pc = "unborn"
        BY <2>1, <3>1, <3>2, NoneIsBorn
      <4>2. n \in dirs /\ proc[n].pc = "unborn" /\ session[n].status = "absent"
        BY <1>0, <2>1 DEF StartPhase, Starting
      <4> QED
        BY <2>3, <4>1, <4>2 DEF IInv, Sessions, files
    <3>5. StartPhase(p)' /\ StopPhase(p)'
      BY <1>0, <2>1, <2>3, <3>1, <3>2 DEF StartPhase, StopPhase, Starting, Stopping,
         driver, files, Kept, TypeOK
    <3> QED
      BY <2>1, <3>1, <3>3, <3>4, <3>5, OneWorks DEF Working, Starting
  <2>4. CASE Throw(p, "catch") /\ Works /\ UNCHANGED <<driver, files, mutex>>
    <3>1. Kept(p) /\ proc'[p].pc = "catch"
      BY <1>0, <2>4, ThrowKeeps DEF Places, Working, Starting, Locals
    <3>2. TypeOK'
      BY <1>0, <2>4, <3>1 DEF TypeOK, driver, files, budget, Works, Kept
    <3>3. Sessions'
      BY <2>1, <2>4, <3>1, NoneIsBorn DEF IInv, Sessions, driver, files
    <3>4. StartPhase(p)' /\ StopPhase(p)'
      BY <1>0, <2>1, <2>4, <3>1 DEF StartPhase, StopPhase, Starting, Stopping, driver, files,
         Kept
    <3> QED
      BY <2>1, <2>4, <3>1, <3>2, <3>3, <3>4, OneWorks DEF Working, Starting
  <2> QED
    BY <1>4, <2>2, <2>3, <2>4 DEF StartCapture
<1>5. CASE SaveActive(p)
  <2>1. proc[p].pc = "save" /\ mutex' = mutex
    BY <1>5 DEF SaveActive, Fails, At
  <2>2. CASE Fails(p, "catch")
    BY <1>0, <2>1, <2>2, FailureKeepsInv DEF Starting, Working
  <2>3. CASE /\ session' = [session EXCEPT ![n] = [status |-> "Active", owned |-> proc[p].owned]]
            /\ Goto(p, "launch")
            /\ Works /\ UNCHANGED <<driver, dirs, converted>>
    <3>1. Kept(p) /\ proc'[p] = [proc[p] EXCEPT !.pc = "launch"]
      BY <1>0, <2>3, GotoKeeps DEF Places, Working, Starting
    <3>2. proc'[p].pc = "launch" /\ proc'[p].owned = proc[p].owned /\ proc'[p].ok = proc[p].ok
      BY <1>0, <3>1 DEF Locals
    <3>3. TypeOK'
      BY <1>0, <2>1, <2>3, <3>1 DEF TypeOK, driver, files, budget, Works, Kept, Session,
         Statuses, StartPhase
    <3>4. Sessions'
      BY <1>0, <2>1, <2>3, <3>1, <3>2, NoneIsBorn DEF IInv, Sessions, TypeOK, driver,
         files, StartPhase, StopPhase, Starting
    <3>5. StartPhase(p)' /\ StopPhase(p)'
      BY <1>0, <2>1, <2>3, <3>1, <3>2 DEF StartPhase, StopPhase, Starting, Stopping,
         driver, files, Kept, TypeOK
    <3> QED
      BY <2>1, <3>1, <3>3, <3>4, <3>5, OneWorks DEF Working, Starting
  <2> QED
    BY <1>5, <2>2, <2>3 DEF SaveActive
<1>6. CASE Catch(p)
  <2>1. /\ proc[p].pc = "catch" /\ mutex' = mutex /\ UNCHANGED files
        /\ capture' \in {capture, Idle} /\ filters' \in {filters, {}}
        /\ Goto(p, "leave") /\ (Works \/ Fault)
    BY <1>6 DEF Catch, At, files
  <2>2. Kept(p) /\ proc'[p].pc = "leave"
    BY <1>0, <2>1, GotoKeeps DEF Places, Working, Locals
  <2>3. TypeOK'
    BY <1>0, <2>1, <2>2, Disjoint DEF TypeOK, files, budget, Works, Fault, Kept
  <2>4. Sessions'
    <3>1. \A m \in Names : capture' = m => m = n /\ capture = n /\ proc[m].pc = "unborn"
      BY <1>0, <2>1, Distinct DEF StartPhase, Starting
    <3>2. \A m \in Names : proc'[m].pc = "unborn" <=> proc[m].pc = "unborn"
      BY <2>1, <2>2, NoneIsBorn
    <3> QED
      BY <2>1, <3>1, <3>2 DEF IInv, Sessions, files
  <2>5. StartPhase(p)' /\ StopPhase(p)'
    BY <2>2 DEF StartPhase, StopPhase, Starting, Stopping
  <2> QED
    BY <2>1, <2>2, <2>3, <2>4, <2>5, OneWorks DEF Working, Starting
<1> QED
  BY <1>1, <1>2, <1>3, <1>4, <1>5, <1>6

---------------------------------------------------------------------------
\* Stop, call by call.
LEMMA StopKeepsInv ==
  ASSUME IInv, NEW p \in Procs,
         ReadSession(p) \/ ProveOwnership(p) \/ StopCapture(p) \/ MarkStopped(p)
           \/ Convert(p) \/ Finally(p) \/ Complete(p)
  PROVE  IInv'
<1> DEFINE n == proc[p].name
<1>0. /\ proc[p] \in Locals /\ n \in Names /\ n \in Procs
      /\ StartPhase(p) /\ StopPhase(p) /\ TypeOK
  BY DEF IInv, TypeOK, Locals, Procs, Workers
<1>1. CASE ReadSession(p)
  <2>1. /\ proc[p].pc = "read" /\ mutex' = mutex
        /\ UNCHANGED <<driver, files, mutex, budget>>
    BY <1>1 DEF ReadSession, At
  <2>2. CASE Throw(p, "leave")
    <3>1. Kept(p) /\ proc'[p].pc = "leave" /\ ~proc'[p].ok
      BY <1>0, <2>2, ThrowKeeps DEF Places, Working, Stopping
    <3>2. TypeOK'
      BY <1>0, <2>1, <2>2, <3>1 DEF TypeOK, driver, files, budget, Works, Kept
    <3>3. Sessions'
      BY <2>1, <2>2, <3>1, NoneIsBorn DEF IInv, Sessions, driver, files
    <3>4. StartPhase(p)' /\ StopPhase(p)'
      BY <1>0, <2>1, <2>2, <3>1 DEF StartPhase, StopPhase, Starting, Stopping, driver, files,
         Kept, IInv, Sessions
    <3> QED
      BY <2>1, <2>2, <3>1, <3>2, <3>3, <3>4, OneWorks DEF Working, Stopping
  <2>3. CASE Goto(p, "leave")
    <3>1. Kept(p) /\ proc'[p].pc = "leave"
      BY <1>0, <2>3, GotoKeeps DEF Places, Working, Stopping
    <3>2. TypeOK'
      BY <1>0, <2>1, <2>3, <3>1 DEF TypeOK, driver, files, budget, Works, Kept
    <3>3. Sessions'
      BY <2>1, <2>3, <3>1, NoneIsBorn DEF IInv, Sessions, driver, files
    <3>4. StartPhase(p)' /\ StopPhase(p)'
      BY <1>0, <2>1, <2>3, <3>1 DEF StartPhase, StopPhase, Starting, Stopping, driver, files,
         Kept, IInv, Sessions
    <3> QED
      BY <2>1, <2>3, <3>1, <3>2, <3>3, <3>4, OneWorks DEF Working, Stopping
  <2>4. CASE /\ session[n].status \notin {"absent", "torn", "empty", "Completed"}
             /\ proc' = [proc EXCEPT ![p].status = session[n].status,
                  ![p].owned = session[n].owned,
                  ![p].pc = IF session[n].status = "Active" THEN "prove" ELSE "convert"]
    <3> DEFINE pc == IF session[n].status = "Active" THEN "prove" ELSE "convert"
               r == [proc[p] EXCEPT !.status = session[n].status,
                       !.owned = session[n].owned, !.pc = pc]
    <3>1. session[n].status \in {"Active", "Stopped"} /\ session[n].owned \in SUBSET Filters
      BY <1>0, <2>4 DEF TypeOK, Session, Statuses
    <3>2. r \in Locals /\ r.name = n /\ r.pc = pc /\ proc' = [proc EXCEPT ![p] = r]
      BY <1>0, <2>4, <3>1 DEF TypeOK, Locals, Stopping, Statuses
    <3>3. Kept(p) /\ proc'[p].pc = pc
      BY <1>0, <3>2, SetKeeps
    <3>4. TypeOK'
      BY <1>0, <2>1, <3>3 DEF TypeOK, driver, files, budget, Kept
    <3>5. Sessions'
      BY <2>1, <3>3, NoneIsBorn DEF IInv, Sessions, driver, files
    <3>6. n \in dirs /\ (session[n].status = "Stopped" => capture # n)
      BY <1>0, <2>4 DEF IInv, Sessions
    <3>7. StartPhase(p)' /\ StopPhase(p)'
      BY <2>1, <3>1, <3>3, <3>6 DEF StartPhase, StopPhase, Starting, Stopping, driver, files,
         Kept
    <3> QED
      BY <2>1, <3>3, <3>4, <3>5, <3>7, OneWorks DEF Working, Stopping
  <2>5. CASE Throw(p, "convert") /\ session[n].status = "empty"
    <3>1. /\ Kept(p) /\ proc'[p] = [proc[p] EXCEPT !.pc = "convert", !.ok = FALSE]
          /\ proc'[p].pc = "convert" /\ ~proc'[p].ok
      BY <1>0, <2>5, ThrowKeeps DEF Places, Working, Stopping
    <3>2. TypeOK'
      BY <1>0, <2>1, <3>1 DEF TypeOK, driver, files, budget, Kept
    <3>3. Sessions'
      BY <2>1, <3>1, NoneIsBorn DEF IInv, Sessions, driver, files
    <3>4. n \in dirs
      BY <1>0, <2>5 DEF IInv, Sessions
    <3>5. StartPhase(p)' /\ StopPhase(p)'
      BY <2>1, <3>1, <3>4 DEF StartPhase, StopPhase, Starting, Stopping, driver, files, Kept
    <3> QED
      BY <2>1, <3>1, <3>2, <3>3, <3>5, OneWorks DEF Working, Stopping
  <2> QED
    BY <1>1, <2>2, <2>3, <2>4, <2>5 DEF ReadSession
<1>2. CASE ProveOwnership(p)
  <2>1. proc[p].pc = "prove" /\ mutex' = mutex
    BY <1>2 DEF ProveOwnership, Fails, At
  <2>2. CASE Fails(p, "finally")
    BY <1>0, <2>1, <2>2, FailureKeepsInv DEF Stopping
  <2>3. CASE capture = n /\ Goto(p, "stop") /\ Works /\ UNCHANGED <<driver, files, mutex>>
    <3>1. Kept(p) /\ proc'[p].pc = "stop"
      BY <1>0, <2>3, GotoKeeps DEF Places, Working, Stopping
    <3>2. TypeOK'
      BY <1>0, <2>1, <2>3, <3>1 DEF TypeOK, driver, files, budget, Works, Kept
    <3>3. Sessions'
      BY <2>1, <2>3, <3>1, NoneIsBorn DEF IInv, Sessions, driver, files
    <3>4. StartPhase(p)' /\ StopPhase(p)'
      BY <1>0, <2>1, <2>3, <3>1 DEF StartPhase, StopPhase, Starting, Stopping, driver, files,
         Kept, IInv, Sessions
    <3> QED
      BY <2>1, <2>3, <3>1, <3>2, <3>3, <3>4, OneWorks DEF Working, Stopping
  <2>4. CASE Throw(p, "finally") /\ Works /\ UNCHANGED <<driver, files, mutex>>
    <3>1. Kept(p) /\ proc'[p].pc = "finally" /\ ~proc'[p].ok
      BY <1>0, <2>4, ThrowKeeps DEF Places, Working, Stopping
    <3>2. TypeOK'
      BY <1>0, <2>1, <2>4, <3>1 DEF TypeOK, driver, files, budget, Works, Kept
    <3>3. Sessions'
      BY <2>1, <2>4, <3>1, NoneIsBorn DEF IInv, Sessions, driver, files
    <3>4. StartPhase(p)' /\ StopPhase(p)'
      BY <1>0, <2>1, <2>4, <3>1 DEF StartPhase, StopPhase, Starting, Stopping, driver, files,
         Kept, IInv, Sessions
    <3> QED
      BY <2>1, <2>4, <3>1, <3>2, <3>3, <3>4, OneWorks DEF Working, Stopping
  <2> QED
    BY <1>2, <2>2, <2>3, <2>4 DEF ProveOwnership
<1>3. CASE StopCapture(p)
  <2>1. proc[p].pc = "stop" /\ mutex' = mutex
    BY <1>3 DEF StopCapture, Fails, At
  <2>2. CASE Fails(p, "finally")
    BY <1>0, <2>1, <2>2, FailureKeepsInv DEF Stopping
  <2>3. CASE capture' = Idle /\ Goto(p, "mark") /\ Works /\ UNCHANGED <<filters, files, mutex>>
    <3>1. Kept(p) /\ proc'[p].pc = "mark" /\ capture' \notin Names
      BY <1>0, <2>3, GotoKeeps, Distinct DEF Places, Working, Stopping
    <3>2. TypeOK'
      BY <1>0, <2>1, <2>3, <3>1 DEF TypeOK, files, budget, Works, Kept
    <3>3. Sessions'
      BY <2>1, <2>3, <3>1, NoneIsBorn DEF IInv, Sessions, files
    <3>4. StartPhase(p)' /\ StopPhase(p)'
      BY <1>0, <2>1, <2>3, <3>1 DEF StartPhase, StopPhase, Starting, Stopping, files, Kept
    <3> QED
      BY <2>1, <3>1, <3>2, <3>3, <3>4, OneWorks DEF Working, Stopping
  <2> QED
    BY <1>3, <2>2, <2>3 DEF StopCapture
<1>4. CASE MarkStopped(p)
  <2>1. proc[p].pc = "mark" /\ mutex' = mutex /\ UNCHANGED <<driver, dirs, converted>>
    BY <1>4 DEF MarkStopped, At, files
  <2>2. PICK pc \in {"convert", "finally"}, ok \in BOOLEAN :
          /\ proc' = [proc EXCEPT ![p].pc = pc, ![p].ok = ok, ![p].status = "Stopped"]
          /\ pc = "finally" => ok = FALSE
          /\ \/ session' = session
             \/ session' = [session EXCEPT ![n].status = "Stopped"]
    <3>1. CASE proc' = [proc EXCEPT ![p].pc = "convert", ![p].status = "Stopped"]
               /\ session' = [session EXCEPT ![n].status = "Stopped"]
      <4>1. proc' = [proc EXCEPT ![p].pc = "convert", ![p].ok = proc[p].ok,
                                 ![p].status = "Stopped"]
        BY <1>0, <3>1 DEF TypeOK, Locals
      <4>2. proc[p].ok \in BOOLEAN
        BY <1>0 DEF Locals
      <4> QED
        BY <3>1, <4>1, <4>2
    <3>2. CASE proc' = [proc EXCEPT ![p].pc = "finally", ![p].ok = FALSE,
                                    ![p].status = "Stopped"]
               /\ session' = session
      BY <3>2
    <3> QED
      BY <1>4, <3>1, <3>2 DEF MarkStopped, files
  <2> DEFINE r == [proc[p] EXCEPT !.pc = pc, !.ok = ok, !.status = "Stopped"]
  <2>3. r \in Locals /\ r.name = n /\ r.pc = pc /\ r.ok = ok
        /\ proc' = [proc EXCEPT ![p] = r]
    BY <1>0, <2>2 DEF TypeOK, Locals, Stopping, Statuses
  <2>4. Kept(p) /\ proc'[p].pc = pc /\ proc'[p].ok = ok
    BY <1>0, <2>3, SetKeeps
  <2>5. TypeOK'
    BY <1>0, <1>4, <2>1, <2>2, <2>4, Disjoint DEF TypeOK, driver, budget, Works, Fault, Kept,
       MarkStopped, Session, Statuses
  <2>6. capture # n /\ n \in dirs
    BY <1>0, <2>1 DEF StopPhase, Stopping
  <2>7. \A m \in Names : /\ session'[m].owned = session[m].owned
                         /\ m # n => session'[m] = session[m]
                         /\ \/ session'[m].status = session[m].status
                            \/ session'[m].status = "Stopped" /\ m = n
    BY <1>0, <2>2 DEF TypeOK, Session
  <2>8. Sessions'
    <3>1. \A m \in Names : proc'[m].pc = "unborn" <=> proc[m].pc = "unborn"
      BY <2>1, <2>2, <2>4, NoneIsBorn
    <3> QED
      BY <2>1, <2>6, <2>7, <3>1 DEF IInv, Sessions, driver
  <2>9. StartPhase(p)' /\ StopPhase(p)'
    BY <2>1, <2>2, <2>4, <2>6 DEF StartPhase, StopPhase, Starting, Stopping, driver, Kept
  <2> QED
    BY <2>1, <2>4, <2>5, <2>8, <2>9, OneWorks DEF Working, Stopping
<1>5. CASE Convert(p)
  <2>1. proc[p].pc = "convert" /\ mutex' = mutex
    BY <1>5 DEF Convert, Fails, At
  <2>2. CASE Fails(p, "finally")
    BY <1>0, <2>1, <2>2, FailureKeepsInv DEF Stopping
  <2>3. CASE /\ converted' = converted \cup {n} /\ Goto(p, "finally")
             /\ Works /\ UNCHANGED <<driver, dirs, session, mutex>>
    <3>1. /\ Kept(p) /\ proc'[p] = [proc[p] EXCEPT !.pc = "finally"]
          /\ proc'[p].pc = "finally"
      BY <1>0, <2>3, GotoKeeps DEF Places, Working, Stopping
    <3>5. proc'[p].ok = proc[p].ok /\ proc'[p].name = n
      BY <1>0, <3>1 DEF Locals
    <3>2. TypeOK'
      BY <1>0, <2>1, <2>3, <3>1 DEF TypeOK, driver, budget, Works, Kept
    <3>3. Sessions'
      BY <2>1, <2>3, <3>1, NoneIsBorn DEF IInv, Sessions, driver
    <3>4. StartPhase(p)' /\ StopPhase(p)'
      BY <1>0, <2>1, <2>3, <3>1, <3>5 DEF StartPhase, StopPhase, Starting, Stopping, driver
    <3> QED
      BY <2>1, <3>1, <3>2, <3>3, <3>4, OneWorks DEF Working, Stopping
  <2> QED
    BY <1>5, <2>2, <2>3 DEF Convert
<1>6. CASE Finally(p)
  <2>1. /\ proc[p].pc = "finally" /\ mutex' = mutex /\ UNCHANGED <<capture, files>>
        /\ filters' = filters \/ (filters' = {} /\ capture = Idle)
        /\ Works \/ Fault
    BY <1>6 DEF Finally, At
  <2> DEFINE pc == IF proc[p].ok THEN "complete" ELSE "leave"
  <2>2. /\ Kept(p) /\ proc'[p].pc = pc
    BY <1>0, <1>6, GotoKeeps DEF Finally, Places, Working, Stopping
  <2>3. TypeOK'
    BY <1>0, <2>1, <2>2, Disjoint DEF TypeOK, files, budget, Works, Fault, Kept
  <2>4. Sessions'
    BY <2>1, <2>2, NoneIsBorn, Distinct DEF IInv, Sessions, files
  <2>5. StartPhase(p)' /\ StopPhase(p)'
    BY <1>0, <2>1, <2>2 DEF StartPhase, StopPhase, Starting, Stopping, files, Kept
  <2> QED
    BY <2>1, <2>2, <2>3, <2>4, <2>5, OneWorks DEF Working, Stopping
<1>7. CASE Complete(p)
  <2>1. proc[p].pc = "complete" /\ mutex' = mutex
    BY <1>7 DEF Complete, Fails, At
  <2>2. CASE Fails(p, "leave")
    BY <1>0, <2>1, <2>2, FailureKeepsInv DEF Stopping, Working
  <2>3. CASE /\ session' = [session EXCEPT ![n].status = "Completed"] /\ Goto(p, "leave")
             /\ Works /\ UNCHANGED <<driver, dirs, converted, mutex>>
    <3>1. Kept(p) /\ proc'[p].pc = "leave"
      BY <1>0, <2>3, GotoKeeps DEF Places, Working, Stopping
    <3>2. TypeOK'
      BY <1>0, <2>1, <2>3, <3>1 DEF TypeOK, driver, budget, Works, Kept, Session, Statuses
    <3>3. \A m \in Names : /\ session'[m].owned = session[m].owned
                           /\ m # n => session'[m] = session[m]
                           /\ m = n => session'[m].status = "Completed"
      BY <1>0, <2>3 DEF TypeOK, Session
    <3>4. Sessions'
      <4>1. \A m \in Names : proc'[m].pc = "unborn" <=> proc[m].pc = "unborn"
        BY <2>1, <3>1, NoneIsBorn
      <4>2. capture # n /\ n \in dirs /\ n \in converted
        BY <1>0, <2>1 DEF StopPhase, Stopping
      <4> QED
        BY <2>3, <3>3, <4>1, <4>2 DEF IInv, Sessions, driver
    <3>5. StartPhase(p)' /\ StopPhase(p)'
      BY <3>1 DEF StartPhase, StopPhase, Starting, Stopping
    <3> QED
      BY <2>1, <3>1, <3>2, <3>4, <3>5, OneWorks DEF Working, Stopping
  <2> QED
    BY <1>7, <2>2, <2>3 DEF Complete
<1> QED
  BY <1>1, <1>2, <1>3, <1>4, <1>5, <1>6, <1>7

---------------------------------------------------------------------------
\* A process that does not work afterwards, whoever holds the mutex.
LEMMA RestKeepsInv ==
  ASSUME IInv, NEW p \in Procs, TypeOK',
         \A q \in Procs : q # p => proc'[q] = proc[q],
         proc'[p].pc \notin Working, proc'[p].pc # "unborn", proc[p].pc # "unborn",
         UNCHANGED <<driver, files>>, mutex' = mutex \/ mutex = p
  PROVE  IInv'
<1>1. Exclusive'
  BY DEF IInv, Exclusive
<1>2. \A m \in Names : proc'[m].pc = "unborn" <=> proc[m].pc = "unborn"
  BY DEF Procs, Workers
<1>3. Sessions'
  BY <1>2 DEF IInv, Sessions, driver, files
<1>4. ASSUME NEW q \in Procs PROVE (StartPhase(q) /\ StopPhase(q))'
  <2>1. CASE q = p
    BY <2>1, NothingAtRest
  <2>2. CASE q # p
    <3>1. proc[q] \in Locals
      BY DEF IInv, TypeOK
    <3>2. proc'[q] = proc[q] /\ proc[q].name \in Names
      BY <2>2, <3>1 DEF Locals
    <3> QED
      BY <1>2, <3>2 DEF IInv, StartPhase, StopPhase, driver, files
  <2> QED
    BY <2>1, <2>2
<1> QED
  BY <1>1, <1>3, <1>4 DEF IInv

LEMMA LeaveKeepsInv ==
  ASSUME IInv, NEW p \in Procs, Leave(p)
  PROVE  IInv'
<1> DEFINE pc == IF p \in Users THEN "idle" ELSE IF proc[p].ok THEN "gone" ELSE "failed"
<1>1. /\ proc[p].pc = "leave" /\ mutex' = Free /\ UNCHANGED <<driver, files, budget>>
      /\ proc' = [proc EXCEPT ![p] = AtRest(pc)]
  BY DEF Leave, At
<1>2. AtRest(pc) \in Locals /\ AtRest(pc).pc = pc
  BY AtRestType DEF Places, Resting
<1>3. TypeOK'
  BY <1>1, <1>2 DEF IInv, TypeOK, driver, files, budget
<1>4. proc'[p].pc = pc /\ \A q \in Procs : q # p => proc'[q] = proc[q]
  BY <1>1, <1>2 DEF IInv, TypeOK
<1>5. mutex = p
  BY <1>1 DEF IInv, Exclusive, Working
<1> QED
  BY <1>1, <1>3, <1>4, <1>5, RestKeepsInv DEF Working, Starting, Stopping

\* The one step that makes another process appear.
LEMMA LaunchKeepsInv ==
  ASSUME IInv, NEW p \in Procs, LaunchWorker(p)
  PROVE  IInv'
<1> DEFINE n == proc[p].name
<1>1. proc[p].pc = "launch" /\ mutex' = mutex
  BY DEF LaunchWorker, Fails, At
<1>2. CASE Fails(p, "catch")
  BY <1>1, <1>2, FailureKeepsInv DEF Starting
<1>3. CASE /\ proc' = [proc EXCEPT ![p].pc = "leave", ![n] = AtRest("asleep")]
           /\ Works /\ UNCHANGED <<driver, files, mutex>>
  <2>1. /\ proc[p] \in Locals /\ n \in Names /\ n \in Procs /\ n # p
        /\ n \in dirs /\ capture = n /\ session[n].owned \subseteq filters
    BY <1>1 DEF IInv, TypeOK, Locals, Procs, Workers, StartPhase, Starting
  <2>2. /\ [proc[p] EXCEPT !.pc = "leave"] \in Locals
        /\ [proc[p] EXCEPT !.pc = "leave"].pc = "leave"
    BY <2>1 DEF Locals
  <2>3. AtRest("asleep") \in Locals /\ AtRest("asleep").pc = "asleep"
    BY AtRestType DEF Places, Resting
  <2>4. /\ proc'[p] = [proc[p] EXCEPT !.pc = "leave"]
        /\ proc'[n] = AtRest("asleep")
        /\ \A q \in Procs : q \notin {p, n} => proc'[q] = proc[q]
        /\ proc' \in [Procs -> Locals]
    BY <1>3, <2>1, <2>2, <2>3 DEF IInv, TypeOK
  <2>5. TypeOK'
    BY <1>3, <2>4 DEF IInv, TypeOK, driver, files, budget, Works
  <2>6. \A q \in Procs : q # p => proc'[q].pc \notin Working
    <3>1. \A q \in Procs : q # p => proc[q].pc \notin Working
      BY <1>1, OthersRest DEF IInv, Working, Starting
    <3> QED
      BY <2>3, <2>4, <3>1 DEF Working, Starting, Stopping
  <2>7. Exclusive'
    BY <1>1, <2>6 DEF IInv, Exclusive, Working, Starting
  <2>8. Sessions'
    <3>1. \A m \in Names : m # n => (proc'[m].pc = "unborn" <=> proc[m].pc = "unborn")
      BY <1>1, <2>2, <2>4 DEF Procs, Workers
    <3> QED
      BY <1>3, <2>1, <3>1 DEF IInv, Sessions, driver, files
  <2>9. ASSUME NEW q \in Procs PROVE (StartPhase(q) /\ StopPhase(q))'
    <3>1. CASE q = p
      BY <2>2, <2>4, <3>1 DEF StartPhase, StopPhase, Starting, Stopping
    <3>2. CASE q # p
      BY <2>6, <3>2, NothingAtRest
    <3> QED
      BY <3>1, <3>2
  <2> QED
    BY <2>5, <2>7, <2>8, <2>9 DEF IInv
<1> QED
  BY <1>2, <1>3 DEF LaunchWorker

\* A script that dies at a write leaves at most a torn file, of a capture that
\* has no worker yet or that records no longer.
LEMMA CrashKeepsInv ==
  ASSUME IInv, NEW p \in Procs, Crash(p)
  PROVE  IInv'
<1> DEFINE n == proc[p].name
           pc == IF p \in Users THEN "idle" ELSE "failed"
<1>1. /\ proc[p].pc \notin Resting
      /\ proc' = [proc EXCEPT ![p] = AtRest(pc)]
      /\ mutex' = mutex \/ (mutex = p /\ mutex' = Free)
      /\ UNCHANGED <<driver, dirs, converted>>
  BY DEF Crash
<1>2. AtRest(pc) \in Locals /\ AtRest(pc).pc = pc
  BY AtRestType DEF Places, Resting
<1>3. /\ proc' \in [Procs -> Locals] /\ proc'[p].pc = pc
      /\ \A q \in Procs : q # p => proc'[q] = proc[q]
  BY <1>1, <1>2 DEF IInv, TypeOK
<1>4. TypeOK'
  BY <1>1, <1>3, Disjoint DEF IInv, TypeOK, Crash, driver, Session, NoSession
<1>5. proc'[p].pc \notin Working /\ proc'[p].pc # "unborn" /\ proc[p].pc # "unborn"
  BY <1>1, <1>3 DEF Working, Starting, Stopping, Resting
<1>6. CASE session' = session
  BY <1>1, <1>3, <1>4, <1>5, <1>6, RestKeepsInv DEF files
<1>7. CASE /\ proc[p].pc \in {"save", "mark", "complete"}
           /\ \E cut \in {"torn", "empty"} :
                session' = [session EXCEPT ![n] = [NoSession EXCEPT !.status = cut]]
  <2>1. n \in Names /\ n \in dirs /\ (capture # n \/ proc[n].pc = "unborn")
    BY <1>7 DEF IInv, TypeOK, Locals, StartPhase, StopPhase, Starting, Stopping
  <2>2. /\ session'[n].status \in {"torn", "empty"}
        /\ \A m \in Names : m # n => session'[m] = session[m]
    BY <1>7, <2>1 DEF IInv, TypeOK, NoSession
  <2>3. \A q \in Procs : proc'[q].pc \notin Working
    BY <1>3, <1>5, <1>7, OthersRest DEF IInv, Working, Starting, Stopping
  <2>4. Exclusive'
    BY <2>3 DEF Exclusive
  <2>5. Sessions'
    <3>1. \A m \in Names : proc'[m].pc = "unborn" <=> proc[m].pc = "unborn"
      BY <1>3, <1>5 DEF Procs, Workers
    <3> QED
      BY <1>1, <2>1, <2>2, <3>1 DEF IInv, Sessions, driver
  <2>6. \A q \in Procs : (StartPhase(q) /\ StopPhase(q))'
    BY <2>3, NothingAtRest
  <2> QED
    BY <1>4, <2>4, <2>5, <2>6 DEF IInv
<1> QED
  BY <1>6, <1>7 DEF Crash

\* Calls and workers that take the mutex have established nothing yet.
LEMMA ArrivalKeepsInv ==
  ASSUME IInv, NEW p \in Procs, NEW r \in Locals, r.pc \in {"check", "read"},
         proc' = [proc EXCEPT ![p] = r], Acquires(p), proc[p].pc \in {"idle", "wait"},
         UNCHANGED <<driver, files, budget>>
  PROVE  IInv'
<1>1. /\ proc'[p] = r /\ proc' \in [Procs -> Locals] /\ mutex' = p
      /\ \A q \in Procs : q # p => proc'[q] = proc[q]
  BY DEF IInv, TypeOK, Acquires
<1>2. TypeOK'
  BY <1>1 DEF IInv, TypeOK, driver, files, budget
<1>3. \A q \in Procs : q # p => proc'[q].pc \notin Working
  BY <1>1, Distinct DEF IInv, Exclusive, Acquires
<1>4. Exclusive'
  BY <1>1, <1>3 DEF Exclusive
<1>5. Sessions'
  <2>1. \A m \in Names : proc'[m].pc = "unborn" <=> proc[m].pc = "unborn"
    BY <1>1 DEF Procs, Workers
  <2> QED
    BY <2>1 DEF IInv, Sessions, driver, files
<1>6. ASSUME NEW q \in Procs PROVE (StartPhase(q) /\ StopPhase(q))'
  <2>1. CASE q = p
    BY <1>1, <2>1 DEF StartPhase, StopPhase, Starting, Stopping
  <2>2. CASE q # p
    BY <1>3, <2>2, NothingAtRest
  <2> QED
    BY <2>1, <2>2
<1> QED
  BY <1>2, <1>4, <1>5, <1>6 DEF IInv

LEMMA CallKeepsInv ==
  ASSUME IInv, NEW p \in Users, Call(p)
  PROVE  IInv'
<1>1. p \in Procs /\ proc[p].pc = "idle" /\ Acquires(p) /\ UNCHANGED <<driver, files, budget>>
  BY DEF Call, At, Procs
<1>2. PICK n \in Names :
        \/ \E ports \in SUBSET Ports :
             proc' = [proc EXCEPT ![p] = [AtRest("check") EXCEPT !.name = n,
                        !.todo = IF ports = {} THEN {} ELSE ports \cup Icmp]]
        \/ proc' = [proc EXCEPT ![p] = [AtRest("read") EXCEPT !.name = n]]
  BY DEF Call
<1>3. CASE proc' = [proc EXCEPT ![p] = [AtRest("read") EXCEPT !.name = n]]
  <2> DEFINE r == [AtRest("read") EXCEPT !.name = n]
  <2>1. r \in Locals /\ r.pc = "read"
    BY AtRestType DEF Places, Working, Stopping, Locals
  <2> QED
    BY <1>1, <1>3, <2>1, ArrivalKeepsInv
<1>4. ASSUME NEW ports \in SUBSET Ports,
             proc' = [proc EXCEPT ![p] = [AtRest("check") EXCEPT !.name = n,
                        !.todo = IF ports = {} THEN {} ELSE ports \cup Icmp]]
      PROVE  IInv'
  <2> DEFINE todo == IF ports = {} THEN {} ELSE ports \cup Icmp
             r == [AtRest("check") EXCEPT !.name = n, !.todo = todo]
  <2>1. todo \in SUBSET Filters
    BY DEF Filters
  <2>2. r \in Locals /\ r.pc = "check"
    <3>1. AtRest("check") \in Locals /\ AtRest("check").pc = "check"
      BY AtRestType DEF Places, Working, Starting
    <3> HIDE DEF todo
    <3> QED
      BY <2>1, <3>1 DEF Locals
  <2> QED
    BY <1>1, <1>4, <2>2, ArrivalKeepsInv
<1> QED
  BY <1>2, <1>3, <1>4

LEMMA WorkerKeepsInv ==
  ASSUME IInv, NEW n \in Workers, WorkerStep(n)
  PROVE  IInv'
<1>0. n \in Procs /\ n \in Names /\ proc[n] \in Locals /\ TypeOK
  BY DEF IInv, TypeOK, Procs, Workers
<1>1. CASE WorkerAcquires(n)
  <2> DEFINE r == [proc[n] EXCEPT !.pc = "read"]
  <2>1. /\ proc[n].pc = "wait" /\ Acquires(n) /\ UNCHANGED <<driver, files, budget>>
        /\ proc' = [proc EXCEPT ![n] = r]
    BY <1>0, <1>1 DEF WorkerAcquires, At, Goto
  <2>2. r \in Locals /\ r.pc = "read"
    BY <1>0 DEF Locals, Stopping
  <2> QED
    BY <1>0, <2>1, <2>2, ArrivalKeepsInv
<1>2. ASSUME NEW pc \in {"failed", "gone"}, Goto(n, pc), proc[n].pc \in {"asleep", "wait"},
             UNCHANGED <<driver, files, mutex, budget>>
      PROVE  IInv'
  <2>1. Kept(n) /\ proc'[n].pc = pc
    BY <1>0, <1>2, GotoKeeps DEF Places, Resting
  <2>2. TypeOK'
    BY <1>0, <1>2, <2>1 DEF TypeOK, driver, files, budget, Kept
  <2> QED
    BY <1>0, <1>2, <2>1, <2>2, RestKeepsInv DEF Kept, Working, Starting, Stopping
<1>3. ASSUME proc[n].pc = "asleep", UNCHANGED <<driver, files, mutex, budget>>,
             proc' = [proc EXCEPT ![n] = [AtRest("wait") EXCEPT !.name = n]]
      PROVE  IInv'
  <2> DEFINE r == [AtRest("wait") EXCEPT !.name = n]
  <2>1. r \in Locals /\ r.pc = "wait"
    BY <1>0, AtRestType DEF Places, Locals
  <2>2. /\ proc'[n].pc = "wait" /\ proc' \in [Procs -> Locals]
        /\ \A q \in Procs : q # n => proc'[q] = proc[q]
    BY <1>0, <1>3, <2>1 DEF TypeOK
  <2>3. TypeOK'
    BY <1>0, <1>3, <2>2 DEF TypeOK, driver, files, budget
  <2> QED
    BY <1>0, <1>3, <2>2, <2>3, RestKeepsInv DEF Working, Starting, Stopping
<1>4. CASE WorkerWakes(n)
  <2>1. proc[n].pc = "asleep" /\ UNCHANGED <<driver, files, mutex, budget>>
    BY <1>4 DEF WorkerWakes, At
  <2>2. \/ Goto(n, "failed") \/ Goto(n, "gone")
        \/ proc' = [proc EXCEPT ![n] = [AtRest("wait") EXCEPT !.name = n]]
    BY <1>4 DEF WorkerWakes
  <2> QED
    BY <1>2, <1>3, <2>1, <2>2
<1>5. CASE WorkerGivesUp(n)
  BY <1>2, <1>5 DEF WorkerGivesUp, At
<1> QED
  BY <1>1, <1>4, <1>5 DEF WorkerStep

LEMMA OthersKeepInv ==
  ASSUME IInv, ForeignCapture \/ ForeignFilter \/ UNCHANGED vars
  PROVE  IInv'
<1>1. UNCHANGED <<files, mutex, proc>> /\ filters \subseteq filters'
  BY DEF ForeignCapture, ForeignFilter, vars, driver
<1>2. \A n \in Names : capture' = n <=> capture = n
  BY Distinct DEF ForeignCapture, ForeignFilter, vars, driver
<1>3. TypeOK'
  BY <1>1, Disjoint DEF IInv, TypeOK, ForeignCapture, ForeignFilter, vars, driver, files,
     budget, Fault, Works, Filters
<1>4. Exclusive' /\ Sessions'
  BY <1>1, <1>2 DEF IInv, Exclusive, Sessions, files
<1>5. ASSUME NEW p \in Procs PROVE (StartPhase(p) /\ StopPhase(p))'
  <2>1. proc[p].name \in Names
    BY DEF IInv, TypeOK, Locals
  <2>2. StartPhase(p) /\ StopPhase(p)
    BY DEF IInv
  <2>3. \A n \in Names : capture' \in Names \ {n} => capture \in Names \ {n}
    BY <1>2
  <2> QED
    BY <1>1, <1>2, <2>1, <2>2, <2>3 DEF StartPhase, StopPhase, files
<1> QED
  BY <1>3, <1>4, <1>5 DEF IInv

---------------------------------------------------------------------------
LEMMA InitInv == Init => IInv
<1> SUFFICES ASSUME Init PROVE IInv
  OBVIOUS
<1>1. \A p \in Procs : /\ proc[p] \in Locals
                       /\ proc[p].pc \in {"idle", "unborn"}
                       /\ p \in Names => proc[p].pc = "unborn"
  <2> TAKE p \in Procs
  <2>1. CASE p \in Users
    BY <2>1, AtRestType, Disjoint DEF Init, Places, Resting
  <2>2. CASE p \notin Users
    BY <2>2, AtRestType DEF Init, Places, Resting
  <2> QED
    BY <2>1, <2>2
<1>2. TypeOK
  BY <1>1, Disjoint DEF Init, TypeOK, Session, NoSession
<1>3. Exclusive
  BY <1>1 DEF Exclusive, Working, Starting, Stopping
<1>4. Sessions
  BY <1>1, Distinct DEF Init, Sessions, NoSession, Procs, Workers
<1>5. \A p \in Procs : StartPhase(p) /\ StopPhase(p)
  BY <1>1 DEF StartPhase, StopPhase, Starting, Stopping
<1> QED
  BY <1>2, <1>3, <1>4, <1>5 DEF IInv

LEMMA NextInv ==
  ASSUME IInv, [Next]_vars
  PROVE  IInv'
<1>1. ASSUME NEW p \in Procs, Step(p) PROVE IInv'
  BY <1>1, LeaveKeepsInv, StartKeepsInv, LaunchKeepsInv, StopKeepsInv DEF Step
<1>2. ASSUME NEW p \in Procs, Crash(p) PROVE IInv'
  BY <1>2, CrashKeepsInv
<1>3. ASSUME NEW p \in Users, Call(p) PROVE IInv'
  BY <1>3, CallKeepsInv
<1>4. ASSUME NEW n \in Workers, WorkerStep(n) PROVE IInv'
  BY <1>4, WorkerKeepsInv
<1>5. CASE ForeignCapture \/ ForeignFilter \/ UNCHANGED vars
  BY <1>5, OthersKeepInv
<1> QED
  BY <1>1, <1>2, <1>3, <1>4, <1>5 DEF Next

\* The invariant holds, whatever other tools do.
THEOREM Invariance ==
  Spec => []IInv
<1>1. Init => IInv
  BY InitInv
<1>2. IInv /\ [Next]_vars => IInv'
  BY NextInv
<1> QED
  BY <1>1, <1>2, PTL DEF Spec

\* Every place and every file keeps to what the scripts can write.
THEOREM TypeCorrectness ==
  Spec => []TypeOK
<1>1. IInv => TypeOK
  BY DEF IInv
<1> QED
  BY <1>1, Invariance, PTL

\* While a capture whose Start ended well records, nobody takes its filters.
THEOREM FiltersAreKept ==
  Spec => []RecordsWithItsFilters
<1>1. IInv => RecordsWithItsFilters
  BY DEF IInv, Sessions, RecordsWithItsFilters
<1> QED
  BY <1>1, Invariance, PTL

\* A completed session has its PCAPNG and records no longer.
THEOREM CompletionIsEarned ==
  Spec => []CompletedIsConverted
<1>1. IInv => CompletedIsConverted
  BY DEF IInv, Sessions, CompletedIsConverted
<1> QED
  BY <1>1, Invariance, PTL

\* No script ends a capture it was not called for: pktmon stop is reached only
\* while the proof of ownership is still valid, for the mutex keeps every other
\* script out in between.
THEOREM OwnershipIsRespected ==
  Spec => OnlyItsOwnCapture
<1> DEFINE Ours == (capture \in Names /\ capture' # capture) =>
                     \E p \in Procs : proc'[p] # proc[p] /\ proc[p].name = capture
           Theirs == (capture = Foreign /\ capture' # capture) => UNCHANGED proc
<1>1. ASSUME IInv, [Next]_vars PROVE Ours /\ Theirs
  <2>1. ASSUME NEW p \in Procs, Catch(p) PROVE Ours /\ Theirs
    <3>1. /\ proc[p].pc = "catch" /\ proc[p].name \in Names /\ Goto(p, "leave")
          /\ capture' # capture => capture = proc[p].name
      BY <1>1, <2>1 DEF Catch, At, IInv, TypeOK, Locals
    <3>2. proc'[p].pc = "leave"
      BY <1>1, <3>1, GotoKeeps DEF IInv, Places, Working
    <3> QED
      BY <3>1, <3>2, Distinct
  <2>2. ASSUME NEW p \in Procs, StopCapture(p) PROVE Ours /\ Theirs
    <3>1. capture = proc[p].name /\ proc[p].name \in Names /\ proc[p].pc = "stop"
      BY <1>1, <2>2 DEF StopCapture, At, IInv, TypeOK, Locals, StopPhase, Fails
    <3>2. Goto(p, "mark") \/ UNCHANGED capture
      BY <2>2 DEF StopCapture, Fails, driver
    <3>3. Goto(p, "mark") => proc'[p].pc = "mark"
      BY <1>1, GotoKeeps DEF IInv, Places, Working, Stopping
    <3> QED
      BY <3>1, <3>2, <3>3, Distinct
  <2>3. ASSUME NEW p \in Procs, StartCapture(p) PROVE Ours /\ Theirs
    <3>1. capture = Idle \/ UNCHANGED capture
      BY <2>3 DEF StartCapture, Fails, driver
    <3> QED
      BY <3>1, Distinct DEF Idle, Foreign
  <2>4. CASE ForeignCapture
    BY <2>4, Distinct DEF ForeignCapture, Idle, Foreign
  <2>5. CASE UNCHANGED capture
    BY <2>5
  <2>6. ASSUME NEW p \in Procs, Step(p) PROVE Ours /\ Theirs
    <3>1. Catch(p) \/ StopCapture(p) \/ StartCapture(p) \/ UNCHANGED capture
      BY <2>6 DEF Step, Leave, CheckIdle, AddFilter, Snapshot, SaveActive, LaunchWorker,
         ReadSession, ProveOwnership, MarkStopped, Convert, Finally, Complete, Fails, driver
    <3> QED
      BY <2>1, <2>2, <2>3, <2>5, <3>1
  <2>7. (\E p \in Procs : Step(p)) \/ ForeignCapture \/ UNCHANGED capture
    BY <1>1 DEF Next, Crash, Call, WorkerStep, WorkerWakes, WorkerAcquires, WorkerGivesUp,
       ForeignFilter, vars, driver
  <2> QED
    BY <2>4, <2>5, <2>6, <2>7
<1>2. IInv /\ [Next]_vars => [Ours /\ Theirs]_vars
  BY <1>1
<1> QED
  BY <1>2, Invariance, PTL DEF Spec, OnlyItsOwnCapture

---------------------------------------------------------------------------
(***************************************************************************)
(* What is left behind without a fault.  Between two scripts the filter    *)
(* list is empty or belongs to the capture that records; inside a script   *)
(* its holder knows whose filters they are until they are gone.            *)
(***************************************************************************)
Faultless == crashes = 0 /\ faults = 0

NoneStopped(S) == \A m \in S : session[m].status \notin {"Stopped", "torn", "empty"}

\* Nothing is left behind, and what records has written its filters down.
Quiet ==
    /\ capture = Idle => filters = {}
    /\ capture # Idle => session[capture].owned = filters
    /\ NoneStopped(Names)

\* A Stop that goes well, from pktmon stop to the last write.
Ending(p) ==
    \/ proc[p].pc \in {"mark", "convert", "complete"}
    \/ proc[p].pc = "finally" /\ proc[p].ok

Tidy(p) ==
    LET n == proc[p].name
    IN /\ proc[p].pc # "catch"
       /\ proc[p].pc \in {"check", "launch", "leave", "read", "prove", "stop"} => Quiet
       /\ proc[p].pc = "finally" /\ ~proc[p].ok => Quiet /\ proc[p].status = "Active"
       /\ proc[p].pc \in {"add", "snapshot", "start", "save", "mark"} => NoneStopped(Names)
       /\ proc[p].pc \in {"add", "snapshot", "start"} \/ Ending(p) => capture = Idle
       /\ proc[p].pc \in {"start", "save"} => proc[p].owned = filters
       /\ proc[p].pc \in {"prove", "stop"} =>
            proc[p].owned = session[n].owned /\ proc[p].status = "Active"
       /\ Ending(p) /\ proc[p].pc # "complete" => proc[p].owned = filters
       /\ Ending(p) /\ proc[p].pc # "mark" => NoneStopped(Names \ {n})
       /\ Ending(p) /\ proc[p].pc \in {"convert", "finally"} => proc[p].status = "Stopped"
       /\ proc[p].pc = "convert" => proc[p].ok
       /\ proc[p].pc = "complete" => filters = {}

NobodyWorks == \A p \in Procs : proc[p].pc \notin Working

TidyInv ==
    Faultless =>
        /\ capture # Foreign
        /\ NobodyWorks => Quiet
        /\ \A p \in Procs : Tidy(p)

\* A script that works decides alone: the others rest before and after.
LEMMA OneIsTidy ==
  ASSUME IInv, TidyInv, NEW p \in Procs, proc[p].pc \in Working, Kept(p),
         Faultless, Faultless' => /\ capture' # Foreign /\ Tidy(p)'
                                  /\ proc'[p].pc \notin Working => Quiet'
  PROVE  TidyInv'
<1>1. \A q \in Procs : q # p => proc'[q].pc \notin Working
  BY OthersRest DEF IInv, Kept
<1>2. \A q \in Procs : proc'[q].pc \notin Working => Tidy(q)'
  BY DEF Tidy, Ending, Working, Starting, Stopping
<1> QED
  BY <1>1, <1>2 DEF TidyInv, NobodyWorks

LEMMA NamesAreNames ==
  ASSUME NEW n \in Names
  PROVE  n # Idle /\ n # Foreign
BY Distinct, Zenon

\* A call that fails, a kill and another tool use up the budget.
LEMMA FaultIsSpent ==
  ASSUME IInv, Fault
  PROVE  ~Faultless'
BY DEF IInv, TypeOK, Fault, Faultless

LEMMA BudgetGrows ==
  ASSUME IInv, [Next]_vars, Faultless'
  PROVE  Faultless
<1>1. crashes \in Nat /\ faults \in Nat
  BY DEF IInv, TypeOK
<1>2. ASSUME NEW p \in Procs, Crash(p) PROVE FALSE
  BY <1>1, <1>2 DEF Crash, Faultless
<1>3. UNCHANGED budget \/ Fault => Faultless
  BY <1>1, FaultIsSpent DEF Faultless, budget
<1>4. ASSUME NEW p \in Procs, Step(p) PROVE Faultless
  BY <1>3, <1>4 DEF Step, Leave, CheckIdle, AddFilter, Snapshot, StartCapture, SaveActive,
     LaunchWorker, Catch, ReadSession, ProveOwnership, StopCapture, MarkStopped, Convert,
     Finally, Complete, Works, Fails
<1>5. ASSUME NEW p \in Users, Call(p) PROVE Faultless
  <2>1. UNCHANGED <<driver, files, budget>>
    BY <1>5, ZenonT(60) DEF Call
  <2> QED
    BY <1>3, <2>1
<1>6. ASSUME NEW n \in Workers, WorkerStep(n) PROVE Faultless
  BY <1>3, <1>6 DEF WorkerStep, WorkerWakes, WorkerAcquires, WorkerGivesUp
<1>7. CASE ForeignCapture \/ ForeignFilter \/ UNCHANGED vars
  BY <1>3, <1>7 DEF ForeignCapture, ForeignFilter, Works, vars
<1> QED
  BY <1>2, <1>4, <1>5, <1>6, <1>7 DEF Next

\* Start, call by call, as long as every call goes well: Catch is not reached.
LEMMA TidyStart ==
  ASSUME IInv, TidyInv, Faultless, Faultless', NEW p \in Procs,
         CheckIdle(p) \/ AddFilter(p) \/ Snapshot(p) \/ StartCapture(p)
           \/ SaveActive(p) \/ Catch(p)
  PROVE  TidyInv'
<1> DEFINE n == proc[p].name
<1>0. /\ proc[p] \in Locals /\ n \in Names /\ TypeOK /\ Tidy(p) /\ StartPhase(p)
      /\ capture # Foreign /\ ~Fault
  BY FaultIsSpent DEF IInv, TypeOK, Locals, TidyInv
<1>1. CASE CheckIdle(p)
  <2>1. proc[p].pc = "check" /\ UNCHANGED <<driver, session>>
    BY <1>1 DEF CheckIdle, At
  <2>2. CASE Throw(p, "leave")
    <3>1. Kept(p) /\ proc'[p].pc = "leave"
      <4>1. "leave" \in Places
        BY DEF Places, Working
      <4> QED
        BY <1>0, <2>2, <4>1, ThrowKeeps, Zenon
    <3>2. capture' # Foreign /\ Tidy(p)'
      BY <1>0, <2>1, <3>1 DEF Tidy, Ending, Quiet, NoneStopped, driver
    <3> QED
      BY <2>1, <3>1, <3>2, OneIsTidy DEF Working, Starting
  <2>3. CASE Goto(p, "add") /\ capture = Idle
    <3>1. Kept(p) /\ proc'[p].pc = "add"
      BY <1>0, <2>3, GotoKeeps DEF Places, Working, Starting
    <3>2. capture' # Foreign /\ Tidy(p)'
      BY <1>0, <2>1, <2>3, <3>1 DEF Tidy, Ending, Quiet, NoneStopped, driver
    <3> QED
      BY <2>1, <3>1, <3>2, OneIsTidy DEF Working, Starting
  <2> QED
    BY <1>1, <2>2, <2>3 DEF CheckIdle
<1>2. CASE AddFilter(p)
  <2>1. proc[p].pc = "add" /\ UNCHANGED files
    BY <1>2 DEF AddFilter, Fails, At, files
  <2>2. CASE Goto(p, "snapshot") /\ UNCHANGED driver
    <3>1. Kept(p) /\ proc'[p].pc = "snapshot"
      BY <1>0, <2>2, GotoKeeps DEF Places, Working, Starting
    <3>2. capture' # Foreign /\ Tidy(p)'
      BY <1>0, <2>1, <2>2, <3>1 DEF Tidy, Ending, NoneStopped, driver, files
    <3> QED
      BY <2>1, <3>1, <3>2, OneIsTidy DEF Working, Starting
  <2>3. ASSUME NEW f \in proc[p].todo, UNCHANGED capture,
               proc' = [proc EXCEPT ![p].todo = @ \ {f}]
        PROVE  TidyInv'
    <3> DEFINE r == [proc[p] EXCEPT !.todo = @ \ {f}]
    <3>1. /\ r \in Locals /\ r.name = n /\ r.pc = "add"
          /\ proc' = [proc EXCEPT ![p] = r]
      BY <1>0, <2>1, <2>3 DEF Locals, TypeOK
    <3>2. Kept(p) /\ proc'[p].pc = "add"
      BY <1>0, <3>1, SetKeeps
    <3>3. capture' # Foreign /\ Tidy(p)'
      BY <1>0, <2>1, <2>3, <3>2 DEF Tidy, Ending, NoneStopped, files
    <3> QED
      BY <2>1, <3>2, <3>3, OneIsTidy DEF Working, Starting
  <2> QED
    BY <1>0, <1>2, <2>2, <2>3 DEF AddFilter, Fails
<1>3. CASE Snapshot(p)
  <2>1. /\ proc[p].pc = "snapshot" /\ UNCHANGED <<driver, files>>
        /\ proc' = [proc EXCEPT ![p].pc = "start", ![p].owned = filters]
    BY <1>0, <1>3 DEF Snapshot, Fails, At
  <2> DEFINE r == [proc[p] EXCEPT !.pc = "start", !.owned = filters]
  <2>2. r \in Locals /\ r.name = n /\ proc' = [proc EXCEPT ![p] = r]
    BY <1>0, <2>1 DEF TypeOK, Locals, Starting, Statuses
  <2>3. Kept(p) /\ proc'[p] = r
    BY <1>0, <2>2, SetKeeps
  <2>4. proc'[p].pc = "start" /\ proc'[p].owned = filters
    BY <1>0, <2>3 DEF Locals
  <2>5. capture' # Foreign /\ Tidy(p)'
    BY <1>0, <2>1, <2>4 DEF Tidy, Ending, NoneStopped, driver, files
  <2> QED
    BY <2>1, <2>3, <2>4, <2>5, OneIsTidy DEF Working, Starting
<1>4. CASE StartCapture(p)
  <2>1. /\ proc[p].pc = "start" /\ capture = Idle /\ capture' = n
        /\ UNCHANGED <<filters, files>>
        /\ proc' = [proc EXCEPT ![p].pc = "save", ![p].started = TRUE]
    BY <1>0, <1>4 DEF StartCapture, Fails, At, Tidy
  <2> DEFINE r == [proc[p] EXCEPT !.pc = "save", !.started = TRUE]
  <2>2. r \in Locals /\ r.name = n /\ proc' = [proc EXCEPT ![p] = r]
    BY <1>0, <2>1 DEF TypeOK, Locals, Starting
  <2>3. Kept(p) /\ proc'[p] = r
    BY <1>0, <2>2, SetKeeps
  <2>4. proc'[p].pc = "save" /\ proc'[p].owned = proc[p].owned
    BY <1>0, <2>3 DEF Locals
  <2>5. proc[p].owned = filters /\ NoneStopped(Names) /\ n # Foreign
    BY <1>0, <2>1, NamesAreNames DEF Tidy
  <2>6. NoneStopped(Names)'
    BY <2>1, <2>5 DEF NoneStopped, files
  <2>7. capture' # Foreign /\ Tidy(p)'
    BY <2>1, <2>4, <2>5, <2>6 DEF Tidy, Ending
  <2> QED
    BY <1>0, <2>1, <2>3, <2>4, <2>7, OneIsTidy DEF Working, Starting
<1>5. CASE SaveActive(p)
  <2>1. /\ proc[p].pc = "save" /\ UNCHANGED driver /\ Goto(p, "launch")
        /\ session' = [session EXCEPT ![n] = [status |-> "Active", owned |-> proc[p].owned]]
    BY <1>0, <1>5 DEF SaveActive, Fails, At
  <2>2. Kept(p) /\ proc'[p].pc = "launch"
    BY <1>0, <2>1, GotoKeeps DEF Places, Working, Starting
  <2>3. capture = n /\ proc[p].owned = filters /\ NoneStopped(Names)
    BY <1>0, <2>1 DEF StartPhase, Tidy
  <2>4. /\ session'[n].status = "Active" /\ session'[n].owned = proc[p].owned
        /\ \A m \in Names : m # n => session'[m] = session[m]
    BY <1>0, <2>1 DEF TypeOK
  <2>5. Quiet'
    <3>1. capture' = n /\ filters' = filters /\ n # Idle
      BY <1>0, <2>1, <2>3, NamesAreNames DEF driver
    <3>2. NoneStopped(Names)'
      BY <2>3, <2>4 DEF NoneStopped
    <3> QED
      BY <2>3, <2>4, <3>1, <3>2 DEF Quiet
  <2>6. capture' # Foreign /\ Tidy(p)'
    BY <1>0, <2>1, <2>2, <2>5 DEF Tidy, Ending, driver
  <2> QED
    BY <2>1, <2>2, <2>6, OneIsTidy DEF Working, Starting
<1>6. ~Catch(p)
  BY <1>0 DEF Catch, At, Tidy
<1> QED
  BY <1>1, <1>2, <1>3, <1>4, <1>5, <1>6

\* The worker is born while its capture records.
LEMMA TidyLaunch ==
  ASSUME IInv, TidyInv, Faultless, Faultless', NEW p \in Procs, LaunchWorker(p)
  PROVE  TidyInv'
<1> DEFINE n == proc[p].name
<1>1. /\ proc[p].pc = "launch" /\ UNCHANGED <<driver, files>>
      /\ proc' = [proc EXCEPT ![p].pc = "leave", ![n] = AtRest("asleep")]
  BY FaultIsSpent DEF LaunchWorker, Fails, At
<1>2. Quiet' /\ capture' # Foreign
  BY <1>1 DEF TidyInv, Tidy, Quiet, NoneStopped, driver, files
<1>3. \A q \in Procs : proc'[q].pc \in Working => proc'[q].pc = "leave"
  <2>1. \A q \in Procs : q # p => proc[q].pc \notin Working
    BY <1>1, OthersRest DEF IInv, Working, Starting
  <2>2. AtRest("asleep").pc = "asleep"
    BY AtRestType DEF Places, Resting
  <2>3. n \in Procs /\ n # p
    BY <1>1 DEF IInv, TypeOK, Locals, Procs, Workers, StartPhase, Starting
  <2>4. \A q \in Procs : proc'[q].pc = IF q = n THEN "asleep" ELSE IF q = p THEN "leave" ELSE proc[q].pc
    BY <1>1, <2>2, <2>3 DEF IInv, TypeOK, Locals
  <2> QED
    BY <2>1, <2>4 DEF Working, Starting, Stopping
<1>4. \A q \in Procs : Tidy(q)'
  BY <1>2, <1>3 DEF Tidy, Ending, Working, Starting, Stopping
<1> QED
  BY <1>2, <1>4 DEF TidyInv
\* Nothing was thrown yet where a Stop can still end well.
Unspoilt == {"wait", "read", "prove", "stop", "mark"}
SoFarSoGood == \A p \in Procs : proc[p].pc \in Unspoilt => proc[p].ok

\* A move to a place where an exception may have been thrown, or one from an
\* unspoilt place to the next.
LEMMA MoveStaysGood ==
  ASSUME TypeOK, SoFarSoGood, NEW p \in Procs, NEW pc \in Places,
         \/ pc \notin Unspoilt /\ (Goto(p, pc) \/ Throw(p, pc))
         \/ proc[p].pc \in Unspoilt /\ Goto(p, pc)
  PROVE  SoFarSoGood'
<1>1. Kept(p) /\ proc'[p].pc = pc
  <2>1. Goto(p, pc) \/ Throw(p, pc)
    OBVIOUS
  <2> QED
    BY <2>1, GotoKeeps, ThrowKeeps, Zenon
<1>2. CASE pc \notin Unspoilt
  BY <1>1, <1>2 DEF SoFarSoGood, Kept
<1>3. CASE proc[p].pc \in Unspoilt /\ Goto(p, pc)
  <2>1. proc'[p] = [proc[p] EXCEPT !.pc = pc] /\ proc[p] \in Locals
    BY <1>3, GotoKeeps DEF TypeOK
  <2>2. proc'[p].ok = proc[p].ok
    BY <2>1 DEF Locals
  <2> QED
    BY <1>1, <1>3, <2>2 DEF SoFarSoGood, Kept
<1> QED
  BY <1>2, <1>3

LEMMA RecordStaysGood ==
  ASSUME TypeOK, SoFarSoGood, NEW p \in Procs, NEW r \in Locals,
         proc' = [proc EXCEPT ![p] = r], r.pc \in Unspoilt => r.ok
  PROVE  SoFarSoGood'
BY DEF TypeOK, SoFarSoGood

LEMMA StepStaysGood ==
  ASSUME IInv, SoFarSoGood, NEW p \in Procs, Step(p)
  PROVE  SoFarSoGood'
<1> DEFINE n == proc[p].name
<1>0. TypeOK /\ proc[p] \in Locals /\ n \in Procs
  BY DEF IInv, TypeOK, Locals, Procs, Workers
<1>1. ASSUME NEW pc \in Places \ Unspoilt, Goto(p, pc) \/ Throw(p, pc) PROVE SoFarSoGood'
  BY <1>0, <1>1, MoveStaysGood
<1>2. ASSUME NEW pc \in Unspoilt, Goto(p, pc), proc[p].pc \in Unspoilt PROVE SoFarSoGood'
  <2>1. pc \in Places
    BY DEF Unspoilt, Places, Working, Stopping
  <2> QED
    BY <1>0, <1>2, <2>1, MoveStaysGood
<1>3. {"add", "snapshot", "launch", "leave", "catch", "convert", "finally", "complete"}
        \subseteq Places \ Unspoilt
  BY DEF Unspoilt, Places, Working, Starting, Stopping
<1>4. CASE Leave(p)
  <2> DEFINE pc == IF p \in Users THEN "idle" ELSE IF proc[p].ok THEN "gone" ELSE "failed"
  <2>1. AtRest(pc) \in Locals /\ AtRest(pc).pc = pc
    BY AtRestType DEF Places, Resting
  <2>2. proc' = [proc EXCEPT ![p] = AtRest(pc)]
    BY <1>4 DEF Leave
  <2> QED
    BY <1>0, <2>1, <2>2, RecordStaysGood DEF Unspoilt
<1>5. CASE CheckIdle(p)
  <2>1. Throw(p, "leave") \/ Goto(p, "add")
    BY <1>5 DEF CheckIdle
  <2> QED
    BY <1>1, <1>3, <2>1
<1>6. CASE AddFilter(p)
  <2>1. ASSUME NEW f \in proc[p].todo, proc' = [proc EXCEPT ![p].todo = @ \ {f}],
               proc[p].pc = "add"
        PROVE  SoFarSoGood'
    <3> DEFINE r == [proc[p] EXCEPT !.todo = @ \ {f}]
    <3>1. r \in Locals /\ r.pc = "add" /\ proc' = [proc EXCEPT ![p] = r]
      BY <1>0, <2>1 DEF Locals, TypeOK
    <3> QED
      BY <1>0, <3>1, RecordStaysGood DEF Unspoilt
  <2> QED
    BY <1>1, <1>3, <1>6, <2>1 DEF AddFilter, Fails, At
<1>7. CASE Snapshot(p)
  <2>1. CASE proc' = [proc EXCEPT ![p].pc = "start", ![p].owned = filters]
    <3> DEFINE r == [proc[p] EXCEPT !.pc = "start", !.owned = filters]
    <3>1. r \in Locals /\ r.pc = "start" /\ proc' = [proc EXCEPT ![p] = r]
      BY <1>0, <2>1 DEF Locals, TypeOK, Starting
    <3> QED
      BY <1>0, <3>1, RecordStaysGood DEF Unspoilt
  <2> QED
    BY <1>1, <1>3, <1>7, <2>1 DEF Snapshot, Fails
<1>8. CASE StartCapture(p)
  <2>1. CASE proc' = [proc EXCEPT ![p].pc = "save", ![p].started = TRUE]
    <3> DEFINE r == [proc[p] EXCEPT !.pc = "save", !.started = TRUE]
    <3>1. r \in Locals /\ r.pc = "save" /\ proc' = [proc EXCEPT ![p] = r]
      BY <1>0, <2>1 DEF Locals, TypeOK, Starting
    <3> QED
      BY <1>0, <3>1, RecordStaysGood DEF Unspoilt
  <2> QED
    BY <1>1, <1>3, <1>8, <2>1 DEF StartCapture, Fails
<1>9. CASE SaveActive(p)
  BY <1>1, <1>3, <1>9 DEF SaveActive, Fails
<1>10. CASE LaunchWorker(p)
  <2>1. CASE proc' = [proc EXCEPT ![p].pc = "leave", ![n] = AtRest("asleep")]
    <3>1. AtRest("asleep").pc = "asleep"
      BY AtRestType DEF Places, Resting
    <3>2. \A q \in Procs : \/ proc'[q].pc \in {"leave", "asleep"}
                           \/ proc'[q] = proc[q]
      BY <1>0, <2>1, <3>1 DEF TypeOK, Locals
    <3> QED
      BY <3>2 DEF SoFarSoGood, Unspoilt
  <2> QED
    BY <1>1, <1>3, <1>10, <2>1 DEF LaunchWorker, Fails
<1>11. CASE Catch(p)
  BY <1>1, <1>3, <1>11 DEF Catch
<1>12. CASE ReadSession(p)
  <2> DEFINE s == session[n]
             pc == IF s.status = "Active" THEN "prove" ELSE "convert"
             r == [proc[p] EXCEPT !.status = s.status, !.owned = s.owned, !.pc = pc]
  <2>1. CASE proc' = [proc EXCEPT ![p].status = s.status, ![p].owned = s.owned, ![p].pc = pc]
             /\ s.status \notin {"absent", "torn", "empty", "Completed"} /\ proc[p].pc = "read"
    <3>1. s.status \in Statuses /\ s.owned \in SUBSET Filters
      BY <1>0, <2>1 DEF TypeOK, Locals, Session
    <3>2. r \in Locals /\ r.ok = proc[p].ok /\ proc' = [proc EXCEPT ![p] = r]
      BY <1>0, <2>1, <3>1 DEF TypeOK, Locals, Stopping
    <3>3. proc[p].ok
      BY <2>1 DEF SoFarSoGood, Unspoilt
    <3> QED
      BY <1>0, <3>2, <3>3, RecordStaysGood
  <2>2. Throw(p, "leave") \/ Goto(p, "leave") \/ Throw(p, "convert") => SoFarSoGood'
    BY <1>1, <1>3
  <2> QED
    BY <1>12, <2>1, <2>2 DEF ReadSession, At
<1>13. CASE ProveOwnership(p)
  <2>1. Throw(p, "finally") \/ (Goto(p, "stop") /\ proc[p].pc = "prove")
    BY <1>13 DEF ProveOwnership, Fails, At
  <2> QED
    BY <1>1, <1>2, <1>3, <2>1 DEF Unspoilt
<1>14. CASE StopCapture(p)
  <2>1. Throw(p, "finally") \/ (Goto(p, "mark") /\ proc[p].pc = "stop")
    BY <1>14 DEF StopCapture, Fails, At
  <2> QED
    BY <1>1, <1>2, <1>3, <2>1 DEF Unspoilt
<1>15. CASE MarkStopped(p)
  <2>1. CASE proc' = [proc EXCEPT ![p].pc = "convert", ![p].status = "Stopped"]
             /\ proc[p].pc = "mark"
    <3> DEFINE r == [proc[p] EXCEPT !.pc = "convert", !.status = "Stopped"]
    <3>1. r \in Locals /\ r.ok = proc[p].ok /\ proc' = [proc EXCEPT ![p] = r]
      BY <1>0, <2>1 DEF Locals, TypeOK, Stopping, Statuses
    <3> QED
      BY <1>0, <2>1, <3>1, RecordStaysGood DEF SoFarSoGood, Unspoilt
  <2>2. CASE proc' = [proc EXCEPT ![p].pc = "finally", ![p].ok = FALSE, ![p].status = "Stopped"]
    <3> DEFINE r == [proc[p] EXCEPT !.pc = "finally", !.ok = FALSE, !.status = "Stopped"]
    <3>1. r \in Locals /\ r.pc = "finally" /\ proc' = [proc EXCEPT ![p] = r]
      BY <1>0, <2>2 DEF Locals, TypeOK, Stopping, Statuses
    <3> QED
      BY <1>0, <3>1, RecordStaysGood DEF Unspoilt
  <2> QED
    BY <1>15, <2>1, <2>2 DEF MarkStopped, At
<1>16. CASE Convert(p) \/ Finally(p) \/ Complete(p)
  <2>1. \E pc \in {"finally", "complete", "leave"} : Goto(p, pc) \/ Throw(p, pc)
    BY <1>16 DEF Convert, Finally, Complete, Fails
  <2> QED
    BY <1>1, <1>3, <2>1
<1> QED
  BY <1>4, <1>5, <1>6, <1>7, <1>8, <1>9, <1>10, <1>11, <1>12, <1>13, <1>14, <1>15, <1>16
  DEF Step

\* A call has taken the mutex and knows nothing.
LEMMA CallArrives ==
  ASSUME TypeOK, NEW p \in Users, Call(p)
  PROVE  /\ p \in Procs /\ Acquires(p) /\ UNCHANGED <<driver, files>>
         /\ \A q \in Procs : q # p => proc'[q] = proc[q]
         /\ proc'[p].pc \in {"check", "read"} /\ proc'[p].ok
<1>1. p \in Procs /\ Acquires(p) /\ UNCHANGED <<driver, files, budget>>
  BY ZenonT(60) DEF Call, At, Procs
<1>2. PICK n \in Names :
        \/ \E ports \in SUBSET Ports :
             proc' = [proc EXCEPT ![p] = [AtRest("check") EXCEPT !.name = n,
                        !.todo = IF ports = {} THEN {} ELSE ports \cup Icmp]]
        \/ proc' = [proc EXCEPT ![p] = [AtRest("read") EXCEPT !.name = n]]
  BY ZenonT(60) DEF Call, At
<1>3. /\ AtRest("check") \in Locals /\ AtRest("check").pc = "check" /\ AtRest("check").ok
      /\ AtRest("read") \in Locals /\ AtRest("read").pc = "read" /\ AtRest("read").ok
  BY AtRestType DEF Places, Working, Starting, Stopping, AtRest
<1>4. \E r : proc' = [proc EXCEPT ![p] = r] /\ r.pc \in {"check", "read"} /\ r.ok
  <2>1. CASE proc' = [proc EXCEPT ![p] = [AtRest("read") EXCEPT !.name = n]]
    <3> DEFINE r == [AtRest("read") EXCEPT !.name = n]
    <3>1. r.pc = "read" /\ r.ok
      BY <1>3 DEF Locals
    <3> HIDE DEF r
    <3> QED
      BY <2>1, <3>1 DEF r
  <2>2. ASSUME NEW ports \in SUBSET Ports,
               proc' = [proc EXCEPT ![p] = [AtRest("check") EXCEPT !.name = n,
                          !.todo = IF ports = {} THEN {} ELSE ports \cup Icmp]]
        PROVE  \E r : proc' = [proc EXCEPT ![p] = r] /\ r.pc \in {"check", "read"} /\ r.ok
    <3> DEFINE todo == IF ports = {} THEN {} ELSE ports \cup Icmp
               r == [AtRest("check") EXCEPT !.name = n, !.todo = todo]
    <3>1. r.pc = "check" /\ r.ok
      BY <1>3 DEF Locals
    <3>2. proc' = [proc EXCEPT ![p] = r]
      BY <2>2
    <3> HIDE DEF r
    <3> QED
      BY <3>1, <3>2
  <2> QED
    BY <1>2, <2>1, <2>2, Zenon
<1> QED
  BY <1>1, <1>4 DEF TypeOK

LEMMA FreeMeansRest ==
  ASSUME IInv, mutex = Free
  PROVE  NobodyWorks
<1>1. Free \notin Procs
  BY Distinct, Zenon
<1>2. Exclusive
  BY DEF IInv
<1> QED
  BY <1>1, <1>2 DEF Exclusive, NobodyWorks

LEMMA NextStaysGood ==
  ASSUME IInv, SoFarSoGood, [Next]_vars
  PROVE  SoFarSoGood'
<1>0. TypeOK
  BY DEF IInv
<1>1. ASSUME NEW p \in Procs, Step(p) PROVE SoFarSoGood'
  BY <1>1, StepStaysGood
<1>2. ASSUME NEW p \in Procs, Crash(p) PROVE SoFarSoGood'
  <2> DEFINE pc == IF p \in Users THEN "idle" ELSE "failed"
  <2>1. AtRest(pc) \in Locals /\ AtRest(pc).pc = pc
    BY AtRestType DEF Places, Resting
  <2>2. proc' = [proc EXCEPT ![p] = AtRest(pc)]
    BY <1>2 DEF Crash
  <2> QED
    BY <1>0, <2>1, <2>2, RecordStaysGood DEF Unspoilt
<1>3. ASSUME NEW p \in Users, Call(p) PROVE SoFarSoGood'
  BY <1>0, <1>3, CallArrives DEF SoFarSoGood
<1>4. ASSUME NEW n \in Workers, WorkerStep(n) PROVE SoFarSoGood'
  <2>0. n \in Procs /\ n \in Names
    BY DEF Procs, Workers
  <2>1. ASSUME NEW pc \in {"failed", "gone"}, Goto(n, pc) PROVE SoFarSoGood'
    BY <1>0, <2>0, <2>1, MoveStaysGood DEF Places, Resting, Unspoilt
  <2>2. CASE proc' = [proc EXCEPT ![n] = [AtRest("wait") EXCEPT !.name = n]]
    <3> DEFINE r == [AtRest("wait") EXCEPT !.name = n]
    <3>1. AtRest("wait") \in Locals /\ AtRest("wait").ok
      BY AtRestType DEF Places, AtRest
    <3>2. r \in Locals /\ r.ok
      BY <2>0, <3>1 DEF Locals
    <3> QED
      BY <1>0, <2>0, <2>2, <3>2, RecordStaysGood
  <2>3. CASE WorkerAcquires(n)
    <3>1. "read" \in Places /\ Goto(n, "read") /\ proc[n].pc \in Unspoilt
      BY <2>3 DEF WorkerAcquires, At, Places, Working, Stopping, Unspoilt
    <3> QED
      BY <1>0, <2>0, <3>1, MoveStaysGood
  <2> QED
    BY <1>4, <2>1, <2>2, <2>3 DEF WorkerStep, WorkerWakes, WorkerGivesUp
<1>5. CASE ForeignCapture \/ ForeignFilter \/ UNCHANGED vars
  BY <1>5 DEF ForeignCapture, ForeignFilter, vars, SoFarSoGood
<1> QED
  BY <1>1, <1>2, <1>3, <1>4, <1>5 DEF Next

\* Stop, call by call: the filters are the session's until they are gone.
LEMMA TidyStop ==
  ASSUME IInv, SoFarSoGood, TidyInv, Faultless, Faultless', NEW p \in Procs,
         ReadSession(p) \/ ProveOwnership(p) \/ StopCapture(p) \/ MarkStopped(p)
           \/ Convert(p) \/ Finally(p) \/ Complete(p)
  PROVE  TidyInv'
<1> DEFINE n == proc[p].name
<1>0. /\ proc[p] \in Locals /\ n \in Names /\ TypeOK /\ Tidy(p) /\ StopPhase(p)
      /\ capture # Foreign /\ ~Fault
  BY FaultIsSpent DEF IInv, TypeOK, Locals, TidyInv
<1>1. ASSUME UNCHANGED <<capture, filters, session>> PROVE (Quiet <=> Quiet') /\ capture' # Foreign
  BY <1>0, <1>1 DEF Quiet, NoneStopped
<1>2. CASE ReadSession(p)
  <2>1. proc[p].pc = "read" /\ UNCHANGED <<capture, filters, session>>
    BY <1>2 DEF ReadSession, At, driver, files
  <2>2. Quiet
    BY <1>0, <2>1 DEF Tidy
  <2>3. CASE Throw(p, "leave") \/ Goto(p, "leave")
    <3>1. "leave" \in Places
      BY DEF Places, Working
    <3>2. Kept(p) /\ proc'[p].pc = "leave"
      BY <1>0, <2>3, <3>1, GotoKeeps, ThrowKeeps, Zenon
    <3>3. capture' # Foreign /\ Tidy(p)'
      BY <1>1, <2>1, <2>2, <3>2 DEF Tidy, Ending
    <3> QED
      BY <2>1, <3>2, <3>3, OneIsTidy DEF Working, Stopping
  <2>4. CASE /\ session[n].status \notin {"absent", "torn", "empty", "Completed"}
             /\ proc' = [proc EXCEPT ![p].status = session[n].status,
                  ![p].owned = session[n].owned,
                  ![p].pc = IF session[n].status = "Active" THEN "prove" ELSE "convert"]
    <3> DEFINE r == [proc[p] EXCEPT !.status = "Active", !.owned = session[n].owned,
                       !.pc = "prove"]
    <3>1. session[n].status = "Active" /\ session[n].owned \in SUBSET Filters
      BY <1>0, <2>2, <2>4 DEF TypeOK, Session, Statuses, Quiet, NoneStopped
    <3>2. r \in Locals /\ r.name = n /\ proc' = [proc EXCEPT ![p] = r]
      BY <1>0, <2>4, <3>1 DEF TypeOK, Locals, Stopping, Statuses
    <3>3. Kept(p) /\ proc'[p] = r
      BY <1>0, <3>2, SetKeeps
    <3>4. proc'[p].pc = "prove" /\ proc'[p].owned = session[n].owned /\ proc'[p].status = "Active"
      BY <1>0, <3>3 DEF Locals
    <3>5. capture' # Foreign /\ Tidy(p)'
      BY <1>1, <2>1, <2>2, <3>3, <3>4 DEF Tidy, Ending, Kept
    <3> QED
      BY <2>1, <3>3, <3>4, <3>5, OneIsTidy DEF Working, Stopping
  <2>5. session[n].status # "empty"
    BY <1>0, <2>2 DEF Quiet, NoneStopped
  <2> QED
    BY <1>2, <2>3, <2>4, <2>5 DEF ReadSession
<1>3. CASE ProveOwnership(p)
  <2>1. proc[p].pc = "prove" /\ UNCHANGED <<capture, filters, session>>
    BY <1>3 DEF ProveOwnership, Fails, At, driver, files
  <2>2. /\ Quiet /\ proc[p].owned = session[n].owned /\ proc[p].status = "Active"
    BY <1>0, <2>1 DEF Tidy
  <2>3. CASE Goto(p, "stop")
    <3>1. /\ Kept(p) /\ proc'[p] = [proc[p] EXCEPT !.pc = "stop"]
          /\ proc'[p].pc = "stop"
      BY <1>0, <2>3, GotoKeeps DEF Places, Working, Stopping
    <3>2. proc'[p].owned = session[n].owned /\ proc'[p].status = "Active"
      BY <1>0, <2>2, <3>1 DEF Locals
    <3>3. capture' # Foreign /\ Tidy(p)'
      BY <1>1, <2>1, <2>2, <3>1, <3>2 DEF Tidy, Ending, Kept
    <3> QED
      BY <2>1, <3>1, <3>3, OneIsTidy DEF Working, Stopping
  <2>4. CASE Throw(p, "finally")
    <3>1. /\ Kept(p) /\ proc'[p] = [proc[p] EXCEPT !.pc = "finally", !.ok = FALSE]
          /\ proc'[p].pc = "finally" /\ ~proc'[p].ok
      <4>1. "finally" \in Places
        BY DEF Places, Working, Stopping
      <4> QED
        BY <1>0, <2>4, <4>1, ThrowKeeps, Zenon
    <3>2. proc'[p].status = "Active"
      BY <1>0, <2>2, <3>1 DEF Locals
    <3>3. capture' # Foreign /\ Tidy(p)'
      BY <1>1, <2>1, <2>2, <3>1, <3>2 DEF Tidy, Ending, Kept
    <3> QED
      BY <2>1, <3>1, <3>3, OneIsTidy DEF Working, Stopping
  <2> QED
    BY <1>0, <1>3, <2>3, <2>4 DEF ProveOwnership, Fails
<1>4. CASE StopCapture(p)
  <2>1. /\ proc[p].pc = "stop" /\ capture' = Idle /\ Goto(p, "mark")
        /\ UNCHANGED <<filters, session>>
    BY <1>0, <1>4 DEF StopCapture, Fails, At, files
  <2>2. /\ Kept(p) /\ proc'[p] = [proc[p] EXCEPT !.pc = "mark"]
        /\ proc'[p].pc = "mark"
    BY <1>0, <2>1, GotoKeeps DEF Places, Working, Stopping
  <2>3. Quiet /\ capture = n /\ proc[p].owned = session[n].owned
    BY <1>0, <2>1 DEF Tidy, StopPhase
  <2>4. proc'[p].owned = filters /\ NoneStopped(Names)
    BY <1>0, <2>2, <2>3, NamesAreNames DEF Quiet, Locals
  <2>5. NoneStopped(Names)' /\ capture' # Foreign
    <3>1. Idle # Foreign
      BY DEF Idle, Foreign
    <3> QED
      BY <2>1, <2>4, <3>1 DEF NoneStopped
  <2>6. Tidy(p)'
    BY <2>1, <2>2, <2>4, <2>5 DEF Tidy, Ending
  <2> QED
    BY <2>1, <2>2, <2>5, <2>6, OneIsTidy DEF Working, Stopping
<1>5. CASE MarkStopped(p)
  <2>1. /\ proc[p].pc = "mark" /\ UNCHANGED <<capture, filters>>
        /\ session' = [session EXCEPT ![n].status = "Stopped"]
        /\ proc' = [proc EXCEPT ![p].pc = "convert", ![p].status = "Stopped"]
    BY <1>0, <1>5 DEF MarkStopped, At, driver
  <2> DEFINE r == [proc[p] EXCEPT !.pc = "convert", !.status = "Stopped"]
  <2>2. r \in Locals /\ r.name = n /\ proc' = [proc EXCEPT ![p] = r]
    BY <1>0, <2>1 DEF TypeOK, Locals, Stopping, Statuses
  <2>3. Kept(p) /\ proc'[p] = r
    BY <1>0, <2>2, SetKeeps
  <2>4. /\ proc'[p].pc = "convert" /\ proc'[p].owned = proc[p].owned
        /\ proc'[p].status = "Stopped" /\ proc'[p].name = n /\ proc'[p].ok = proc[p].ok
    BY <1>0, <2>3 DEF Locals
  <2>9. proc'[p].ok
    BY <2>1, <2>4 DEF SoFarSoGood, Unspoilt
  <2>5. capture = Idle /\ proc[p].owned = filters /\ NoneStopped(Names)
    BY <1>0, <2>1 DEF Tidy, Ending
  <2>6. NoneStopped(Names \ {n})'
    <3>1. \A m \in Names \ {n} : session'[m] = session[m]
      BY <1>0, <2>1 DEF TypeOK
    <3> QED
      BY <2>4, <2>5, <3>1 DEF NoneStopped
  <2>7. Tidy(p)'
    BY <2>1, <2>4, <2>5, <2>6, <2>9 DEF Tidy, Ending
  <2>8. capture' # Foreign
    BY <1>0, <2>1
  <2> QED
    BY <2>1, <2>3, <2>4, <2>7, <2>8, OneIsTidy DEF Working, Stopping
<1>6. CASE Convert(p)
  <2>1. /\ proc[p].pc = "convert" /\ Goto(p, "finally")
        /\ UNCHANGED <<capture, filters, session>>
    BY <1>0, <1>6 DEF Convert, Fails, At, driver
  <2>2. /\ Kept(p) /\ proc'[p] = [proc[p] EXCEPT !.pc = "finally"]
        /\ proc'[p].pc = "finally"
    BY <1>0, <2>1, GotoKeeps DEF Places, Working, Stopping
  <2>3. /\ proc'[p].owned = proc[p].owned /\ proc'[p].status = proc[p].status
        /\ proc'[p].ok = proc[p].ok /\ proc'[p].name = n
    BY <1>0, <2>2 DEF Locals
  <2>4. /\ capture = Idle /\ proc[p].owned = filters /\ proc[p].status = "Stopped"
        /\ NoneStopped(Names \ {n}) /\ proc[p].ok
    BY <1>0, <2>1 DEF Tidy, Ending
  <2>5. NoneStopped(Names \ {n})'
    BY <2>1, <2>3, <2>4 DEF NoneStopped
  <2>6. Tidy(p)'
    BY <2>1, <2>2, <2>3, <2>4, <2>5 DEF Tidy, Ending
  <2>7. capture' # Foreign
    BY <1>0, <2>1
  <2> QED
    BY <2>1, <2>2, <2>6, <2>7, OneIsTidy DEF Working, Stopping
<1>7. CASE Finally(p)
  <2> DEFINE pc == IF proc[p].ok THEN "complete" ELSE "leave"
  <2>1. /\ proc[p].pc = "finally" /\ Goto(p, pc)
        /\ UNCHANGED <<capture, session>>
        /\ filters' = IF /\ capture = Idle /\ proc[p].status # "Active"
                         /\ filters = proc[p].owned THEN {} ELSE filters
    BY <1>0, <1>7 DEF Finally, At, files
  <2>2. Kept(p) /\ proc'[p].pc = pc
    <3>1. pc \in Places
      BY DEF Places, Working, Stopping
    <3> QED
      BY <1>0, <2>1, <3>1, GotoKeeps
  <2>3. capture' # Foreign
    BY <1>0, <2>1
  <2>4. CASE proc[p].ok
    <3>1. /\ capture = Idle /\ proc[p].owned = filters /\ proc[p].status = "Stopped"
          /\ NoneStopped(Names \ {n})
      BY <1>0, <2>1, <2>4 DEF Tidy, Ending
    <3>2. filters' = {} /\ capture' = Idle /\ NoneStopped(Names \ {n})'
      BY <2>1, <2>2, <3>1 DEF NoneStopped, Kept
    <3>3. Tidy(p)'
      BY <2>2, <2>4, <3>2 DEF Tidy, Ending, Kept
    <3> QED
      BY <2>1, <2>2, <2>3, <2>4, <3>3, OneIsTidy DEF Working, Stopping
  <2>5. CASE ~proc[p].ok
    <3>1. Quiet /\ proc[p].status = "Active"
      BY <1>0, <2>1, <2>5 DEF Tidy
    <3>2. UNCHANGED <<capture, filters, session>>
      BY <2>1, <3>1
    <3>3. Tidy(p)'
      BY <1>1, <2>2, <2>5, <3>1, <3>2 DEF Tidy, Ending
    <3> QED
      BY <2>1, <2>2, <2>3, <2>5, <3>3, OneIsTidy DEF Working, Stopping
  <2> QED
    BY <2>4, <2>5
<1>8. CASE Complete(p)
  <2>1. /\ proc[p].pc = "complete" /\ Goto(p, "leave")
        /\ UNCHANGED <<capture, filters>>
        /\ session' = [session EXCEPT ![n].status = "Completed"]
    BY <1>0, <1>8 DEF Complete, Fails, At, driver
  <2>2. Kept(p) /\ proc'[p].pc = "leave"
    BY <1>0, <2>1, GotoKeeps DEF Places, Working, Stopping
  <2>3. capture = Idle /\ filters = {} /\ NoneStopped(Names \ {n})
    BY <1>0, <2>1 DEF Tidy, Ending
  <2>4. \A m \in Names : session'[m].status = IF m = n THEN "Completed" ELSE session[m].status
    BY <1>0, <2>1 DEF TypeOK, Session
  <2>5. NoneStopped(Names)'
    BY <2>3, <2>4 DEF NoneStopped
  <2>6. Quiet' /\ capture' # Foreign
    BY <1>0, <2>1, <2>3, <2>5 DEF Quiet
  <2>7. Tidy(p)'
    BY <2>2, <2>6 DEF Tidy, Ending
  <2> QED
    BY <2>1, <2>2, <2>6, <2>7, OneIsTidy DEF Working, Stopping
<1> QED
  BY <1>2, <1>3, <1>4, <1>5, <1>6, <1>7, <1>8


\* A step after which nobody works finds nothing to do.
LEMMA TidyRest ==
  ASSUME IInv, TidyInv, Faultless, NEW p \in Procs,
         \A q \in Procs : q # p => proc'[q] = proc[q],
         UNCHANGED <<driver, files>>, proc'[p].pc \notin Working,
         proc[p].pc = "leave" \/ proc[p].pc \notin Working
  PROVE  TidyInv'
<1>1. (Quiet <=> Quiet') /\ capture' # Foreign
  BY DEF TidyInv, Quiet, NoneStopped, driver, files
<1>2. NobodyWorks' => Quiet'
  <2>1. CASE proc[p].pc = "leave"
    BY <1>1, <2>1 DEF TidyInv, Tidy
  <2>2. CASE proc[p].pc \notin Working
    BY <1>1, <2>2 DEF TidyInv, NobodyWorks
  <2> QED
    BY <2>1, <2>2
<1>3. ASSUME NEW q \in Procs PROVE Tidy(q)'
  <2>1. CASE q = p
    BY <2>1 DEF Tidy, Ending, Working, Starting, Stopping
  <2>2. CASE q # p
    <3>1. Tidy(q) /\ proc'[q] = proc[q] /\ UNCHANGED <<capture, filters, session>>
      BY <2>2 DEF TidyInv, driver, files
    <3>2. \A S : NoneStopped(S)' <=> NoneStopped(S)
      BY <3>1 DEF NoneStopped
    <3> QED
      BY <1>1, <3>1, <3>2 DEF Tidy, Ending
  <2> QED
    BY <2>1, <2>2
<1> QED
  BY <1>1, <1>2, <1>3 DEF TidyInv

\* Who takes the mutex finds the quiet that nobody at work has left.
LEMMA TidyArrival ==
  ASSUME IInv, TidyInv, Faultless, NEW p \in Procs, Acquires(p),
         \A q \in Procs : q # p => proc'[q] = proc[q],
         UNCHANGED <<driver, files>>, proc'[p].pc \in {"check", "read"}
  PROVE  TidyInv'
<1>1. NobodyWorks
  BY FreeMeansRest DEF Acquires
<1>2. Quiet' /\ capture' # Foreign
  BY <1>1 DEF TidyInv, Quiet, NoneStopped, driver, files
<1>3. \A q \in Procs : q # p => proc'[q].pc \notin Working
  BY <1>1 DEF NobodyWorks
<1>4. ASSUME NEW q \in Procs PROVE Tidy(q)'
  BY <1>2, <1>3 DEF Tidy, Ending, Working, Starting, Stopping
<1> QED
  BY <1>2, <1>4 DEF TidyInv

LEMMA TidyNext ==
  ASSUME IInv, SoFarSoGood, TidyInv, [Next]_vars
  PROVE  TidyInv'
<1> SUFFICES ASSUME Faultless' PROVE TidyInv'
  BY DEF TidyInv
<1>0. Faultless /\ TypeOK /\ ~Fault
  BY BudgetGrows, FaultIsSpent DEF IInv
<1>1. ASSUME NEW p \in Procs, Leave(p) PROVE TidyInv'
  <2> DEFINE pc == IF p \in Users THEN "idle" ELSE IF proc[p].ok THEN "gone" ELSE "failed"
  <2>1. /\ proc[p].pc = "leave" /\ UNCHANGED <<driver, files>>
        /\ proc' = [proc EXCEPT ![p] = AtRest(pc)]
    BY <1>1 DEF Leave, At
  <2>2. AtRest(pc).pc = pc
    BY AtRestType DEF Places, Resting
  <2>3. proc'[p].pc = pc /\ \A q \in Procs : q # p => proc'[q] = proc[q]
    BY <1>0, <2>1, <2>2 DEF TypeOK
  <2>4. proc'[p].pc \notin Working
    BY <2>3 DEF Working, Starting, Stopping
  <2> QED
    BY <1>0, <2>1, <2>3, <2>4, TidyRest
<1>2. ASSUME NEW p \in Procs, Step(p) PROVE TidyInv'
  BY <1>0, <1>1, <1>2, TidyStart, TidyLaunch, TidyStop DEF Step
<1>3. ASSUME NEW p \in Procs, Crash(p) PROVE FALSE
  BY <1>3 DEF Crash, Faultless, IInv, TypeOK
<1>4. ASSUME NEW p \in Users, Call(p) PROVE TidyInv'
  BY <1>0, <1>4, CallArrives, TidyArrival
<1>5. ASSUME NEW n \in Workers, WorkerStep(n) PROVE TidyInv'
  <2>0. n \in Procs
    BY DEF Procs
  <2>1. CASE WorkerAcquires(n)
    <3>1. Acquires(n) /\ Goto(n, "read") /\ UNCHANGED <<driver, files>>
      BY <2>1 DEF WorkerAcquires
    <3>2. Kept(n) /\ proc'[n].pc = "read"
      BY <1>0, <2>0, <3>1, GotoKeeps DEF Places, Working, Stopping
    <3> QED
      BY <1>0, <2>0, <3>1, <3>2, TidyArrival DEF Kept
  <2>2. CASE WorkerWakes(n) \/ WorkerGivesUp(n)
    <3>1. /\ proc[n].pc \in {"asleep", "wait"} /\ UNCHANGED <<driver, files>>
          /\ \/ Goto(n, "failed") \/ Goto(n, "gone")
             \/ proc' = [proc EXCEPT ![n] = [AtRest("wait") EXCEPT !.name = n]]
      BY <2>2 DEF WorkerWakes, WorkerGivesUp, At
    <3>2. AtRest("wait") \in Locals /\ AtRest("wait").pc = "wait"
      BY AtRestType DEF Places
    <3>3. /\ proc'[n].pc \in {"failed", "gone", "wait"}
          /\ \A q \in Procs : q # n => proc'[q] = proc[q]
      BY <1>0, <2>0, <3>1, <3>2 DEF Goto, TypeOK, Locals
    <3> QED
      BY <1>0, <2>0, <3>1, <3>3, TidyRest DEF Working, Starting, Stopping
  <2> QED
    BY <1>5, <2>1, <2>2 DEF WorkerStep
<1>6. ~ForeignCapture /\ ~ForeignFilter
  BY <1>0 DEF ForeignCapture, ForeignFilter, TidyInv
<1>7. CASE UNCHANGED vars
  <2>1. UNCHANGED <<capture, filters, session, proc, budget>>
    BY <1>7 DEF vars, driver, files
  <2>2. \A S : NoneStopped(S)' <=> NoneStopped(S)
    BY <2>1 DEF NoneStopped
  <2>3. \A p \in Procs : Tidy(p)' <=> Tidy(p)
    BY <2>1, <2>2 DEF Tidy, Ending, Quiet
  <2> QED
    BY <1>0, <2>1, <2>2, <2>3 DEF TidyInv, NobodyWorks, Quiet
<1> QED
  BY <1>2, <1>3, <1>4, <1>5, <1>6, <1>7 DEF Next

\* Without a kill, a failed call or another tool, PktMon is left as it was
\* found: filters with nothing recorded always have one of these behind them.
THEOREM LeftoversAreExplained ==
  Spec => []LeftoversNeedAFault
<1> DEFINE Inv == IInv /\ SoFarSoGood /\ TidyInv
<1>1. Init => Inv
  <2> SUFFICES ASSUME Init PROVE Inv
    OBVIOUS
  <2>1. \A p \in Procs : proc[p].pc \in {"idle", "unborn"}
    BY AtRestType DEF Init, Places, Resting
  <2>2. SoFarSoGood
    BY <2>1 DEF SoFarSoGood, Unspoilt
  <2>3. TidyInv
    <3>1. Idle # Foreign
      BY DEF Idle, Foreign
    <3>2. Quiet /\ capture # Foreign
      BY <3>1 DEF Init, Quiet, NoneStopped, NoSession
    <3>3. \A p \in Procs : Tidy(p)
      BY <2>1 DEF Tidy, Ending
    <3> QED
      BY <3>2, <3>3 DEF TidyInv
  <2> QED
    BY <2>2, <2>3, InitInv
<1>2. Inv /\ [Next]_vars => Inv'
  BY NextInv, NextStaysGood, TidyNext
<1>3. Inv => LeftoversNeedAFault
  <2> SUFFICES ASSUME Inv, mutex = Free, capture = Idle, filters # {}
               PROVE  crashes + faults > 0
    BY DEF LeftoversNeedAFault
  <2>1. NobodyWorks
    BY FreeMeansRest
  <2>2. ~Faultless
    BY <2>1 DEF TidyInv, Quiet
  <2> QED
    BY <2>2 DEF Faultless, IInv, TypeOK
<1> QED
  BY <1>1, <1>2, <1>3, PTL DEF Spec

============================================================================
