--------------------------- MODULE PacketCapture ---------------------------
(* Invoke-PacketCapture.ps1 and its delayed worker                         *)
(* Stop-PacketCaptureAfterDelay.ps1: named captures that share the one     *)
(* capture and the one filter list of PktMon.  Every action of a process   *)
(* is one call of pktmon.exe, one write of session.json or one decision    *)
(* between them.  A crash may come between any two, and any call may fail; *)
(* both are bounded (MaxCrashes, MaxFaults).                               *)
(*                                                                         *)
(* Left out: Status, Counters and Plan, which change nothing; the checks   *)
(* of the arguments and of the rights (lines 22-72); StartedUtc, which     *)
(* tells two captures of one name apart only if somebody deletes the       *)
(* directory of the first.  The filters of a Start are added in any order. *)
EXTENDS FiniteSets, Naturals

CONSTANTS
    Names,          \* names of captures, each with a directory of its own
    Users,          \* shells in which Start and Stop are called
    Ports,          \* ports a capture can be limited to
    ForeignFilters, \* filters that other tools add to PktMon
    MaxCrashes, MaxFaults

Icmp == {"icmp-errors-v4", "icmp-errors-v6"}

ASSUME Disjoint ==
    /\ Names # {} /\ Users \cap Names = {}
    /\ Ports \cap (Icmp \cup ForeignFilters) = {}
    /\ ForeignFilters \cap Icmp = {}
    /\ MaxCrashes \in Nat /\ MaxFaults \in Nat

\* The delayed worker of a capture is named after it: a name is used once.
Workers == Names
Procs == Users \cup Workers
Filters == Ports \cup Icmp \cup ForeignFilters
NotRead == {"not read"}    \* $null in $ownedFilters
Free == "free"
Idle == "not running"
Foreign == "of another tool"

ASSUME Distinct ==
    /\ Free \notin Procs /\ Idle \notin Names /\ Foreign \notin Names
    /\ "not read" \notin Filters

VARIABLES
    capture,   \* whose capture PktMon records, if any
    filters,   \* the filter list of PktMon
    dirs,      \* names whose capture directory exists
    session,   \* session.json of each name
    converted, \* names with a capture.pcapng
    mutex,     \* who holds Global\PowerShellWorkstationPktMon
    proc,      \* where each process is, with its local variables
    crashes,   \* scripts killed so far
    faults     \* calls that failed, captures and filters of other tools so far

driver == <<capture, filters>>
files == <<dirs, session, converted>>
budget == <<crashes, faults>>
vars == <<driver, files, mutex, proc, budget>>

Statuses == {"Active", "Stopped", "Completed"}
\* A file cut off within its first line is "torn", one without a byte "empty".
Session == [status : Statuses \cup {"absent", "torn", "empty"}, owned : SUBSET Filters]
NoSession == [status |-> "absent", owned |-> {}]

Resting == {"idle", "unborn", "asleep", "gone", "failed"}
Starting == {"check", "add", "snapshot", "start", "save", "launch", "catch"}
Stopping == {"read", "prove", "stop", "mark", "convert", "finally", "complete"}
\* `todo` is what $capturePorts still asks for, `ok` that nothing was thrown.
AtRest(pc) == [pc |-> pc, name |-> CHOOSE n \in Names : TRUE,
               todo |-> {}, owned |-> NotRead, started |-> FALSE,
               status |-> "Active", ok |-> TRUE]
Locals == [pc : Resting \cup Starting \cup Stopping \cup {"wait", "leave"},
           name : Names, todo : SUBSET Filters,
           owned : (SUBSET Filters) \cup {NotRead}, started : BOOLEAN,
           status : Statuses, ok : BOOLEAN]

Init ==
    /\ capture = Idle /\ filters = {}
    /\ dirs = {} /\ converted = {} /\ session = [n \in Names |-> NoSession]
    /\ mutex = Free
    /\ proc = [p \in Procs |-> AtRest(IF p \in Users THEN "idle" ELSE "unborn")]
    /\ crashes = 0 /\ faults = 0

---------------------------------------------------------------------------
At(p, pc) == proc[p].pc = pc
Goto(p, pc) == proc' = [proc EXCEPT ![p].pc = pc]
\* Throwing inside a try block: its catch or finally is next.
Throw(p, pc) == proc' = [proc EXCEPT ![p].pc = pc, ![p].ok = FALSE]
Fault == faults < MaxFaults /\ faults' = faults + 1 /\ UNCHANGED crashes
Works == UNCHANGED budget
\* A call that fails changes nothing; the script throws.
Fails(p, pc) == Fault /\ Throw(p, pc) /\ UNCHANGED <<driver, files, mutex>>

\* The mutex, which the calls of a user and of a worker take first.
Acquires(p) == mutex = Free /\ mutex' = p

\* A user calls Start or Stop.  A call that waits for the mutex has read
\* nothing yet, and one that waits in vain for thirty seconds did nothing.
Call(p) ==
    /\ p \in Users /\ At(p, "idle")
    /\ Acquires(p)
    /\ \E n \in Names :
         \/ \E ports \in SUBSET Ports :
              proc' = [proc EXCEPT ![p] = [AtRest("check") EXCEPT !.name = n,
                         !.todo = IF ports = {} THEN {} ELSE ports \cup Icmp]]
         \/ proc' = [proc EXCEPT ![p] = [AtRest("read") EXCEPT !.name = n]]
    /\ UNCHANGED <<driver, files, budget>>

\* Mutant: the worker returns unless the session is completed.
WorkerWakesInverted(n) ==
    /\ At(n, "asleep")
    /\ IF session[n].status = "Completed"
       THEN proc' = [proc EXCEPT ![n] = [AtRest("wait") EXCEPT !.name = n]]
       ELSE Goto(n, "gone")
    /\ UNCHANGED <<driver, files, mutex, budget>>

\* The worker wakes at its deadline, reads the file once more, without the
\* mutex, and calls Stop; an empty file is not of its session (line 9).
WorkerWakes(n) ==
    /\ At(n, "asleep")
    /\ CASE session[n].status = "torn" -> Goto(n, "failed")
         [] session[n].status \in {"empty", "Completed"} -> Goto(n, "gone")
         [] OTHER -> proc' = [proc EXCEPT ![n] = [AtRest("wait") EXCEPT !.name = n]]
    /\ UNCHANGED <<driver, files, mutex, budget>>

WorkerAcquires(n) ==
    /\ At(n, "wait")
    /\ Acquires(n) /\ Goto(n, "read")
    /\ UNCHANGED <<driver, files, budget>>

\* Thirty seconds behind somebody else.
WorkerGivesUp(n) ==
    /\ At(n, "wait") /\ mutex # Free
    /\ Goto(n, "failed")
    /\ UNCHANGED <<driver, files, mutex, budget>>

Leave(p) ==
    /\ At(p, "leave")
    /\ mutex' = Free
    /\ proc' = [proc EXCEPT ![p] = AtRest(IF p \in Users THEN "idle"
                                          ELSE IF proc[p].ok THEN "gone" ELSE "failed")]
    /\ UNCHANGED <<driver, files, budget>>

---------------------------------------------------------------------------
\* Start.
CheckIdle(p) ==
    /\ At(p, "check")
    /\ IF proc[p].name \in dirs \/ capture # Idle \/ filters # {}
       THEN Throw(p, "leave") /\ UNCHANGED dirs
       ELSE Goto(p, "add") /\ dirs' = dirs \cup {proc[p].name}
    /\ UNCHANGED <<driver, session, converted, mutex, budget>>

AddFilter(p) ==
    /\ At(p, "add")
    /\ \/ /\ proc[p].todo = {} /\ Goto(p, "snapshot")
          /\ Works /\ UNCHANGED driver
       \/ \E f \in proc[p].todo :
            /\ (f \in Icmp => proc[p].todo \subseteq Icmp)
            /\ filters' = filters \cup {f}
            /\ proc' = [proc EXCEPT ![p].todo = @ \ {f}]
            /\ Works /\ UNCHANGED capture
       \/ proc[p].todo # {} /\ Fails(p, "catch")
    /\ UNCHANGED <<files, mutex>>

Snapshot(p) ==
    /\ At(p, "snapshot")
    /\ \/ /\ proc' = [proc EXCEPT ![p].pc = "start", ![p].owned = filters]
          /\ Works /\ UNCHANGED <<driver, files, mutex>>
       \/ Fails(p, "catch")

\* pktmon start: refused while anything records.
StartCapture(p) ==
    /\ At(p, "start")
    /\ \/ /\ capture = Idle
          /\ capture' = proc[p].name
          /\ proc' = [proc EXCEPT ![p].pc = "save", ![p].started = TRUE]
          /\ Works /\ UNCHANGED <<filters, files, mutex>>
       \/ capture # Idle /\ Throw(p, "catch") /\ Works /\ UNCHANGED <<driver, files, mutex>>
       \/ Fails(p, "catch")

SaveActive(p) ==
    /\ At(p, "save")
    /\ \/ /\ session' = [session EXCEPT ![proc[p].name] =
                           [status |-> "Active", owned |-> proc[p].owned]]
          /\ Goto(p, "launch")
          /\ Works /\ UNCHANGED <<driver, dirs, converted, mutex>>
       \/ Fails(p, "catch")

LaunchWorker(p) ==
    /\ At(p, "launch")
    /\ \/ /\ proc' = [proc EXCEPT ![p].pc = "leave", ![proc[p].name] = AtRest("asleep")]
          /\ Works /\ UNCHANGED <<driver, files, mutex>>
       \/ Fails(p, "catch")

\* Two calls of pktmon whose exit codes nobody reads: each may be lost.
Catch(p) ==
    /\ At(p, "catch")
    /\ LET mine == proc[p].started /\ capture = proc[p].name
           own == filters = proc[p].owned
       IN \/ /\ capture' = IF mine THEN Idle ELSE capture
             /\ filters' = IF own THEN {} ELSE filters
             /\ Works
          \/ /\ mine /\ Fault
             /\ filters' = IF own THEN {} ELSE filters
             /\ UNCHANGED capture
          \/ /\ own /\ Fault
             /\ capture' = IF mine THEN Idle ELSE capture
             /\ UNCHANGED filters
    /\ Goto(p, "leave")
    /\ UNCHANGED <<files, mutex>>

---------------------------------------------------------------------------
\* Mutant: a file that cannot be parsed counts as a session.
ReadAnySession(p) ==
    /\ At(p, "read")
    /\ LET s == session[proc[p].name] IN
       CASE s.status = "absent" -> Throw(p, "leave")
         [] s.status = "Completed" -> Goto(p, "leave")
         [] OTHER -> proc' = [proc EXCEPT ![p].status = s.status, ![p].owned = s.owned,
                        ![p].pc = IF s.status = "Active" THEN "prove" ELSE "convert"]
    /\ UNCHANGED <<driver, files, mutex, budget>>

\* Stop.  An empty file reads as $null, which is neither Active nor Completed
\* and owns no filter: the ETL is converted, but nothing can be written to it.
ReadSession(p) ==
    /\ At(p, "read")
    /\ LET s == session[proc[p].name] IN
       CASE s.status \in {"absent", "torn"} -> Throw(p, "leave")
         [] s.status = "empty" -> Throw(p, "convert")
         [] s.status = "Completed" -> Goto(p, "leave")
         [] OTHER -> proc' = [proc EXCEPT ![p].status = s.status, ![p].owned = s.owned,
                        ![p].pc = IF s.status = "Active" THEN "prove" ELSE "convert"]
    /\ UNCHANGED <<driver, files, mutex, budget>>

\* Mutant: any running capture is taken for the session's.
ProveActivity(p) ==
    /\ At(p, "prove")
    /\ IF capture # Idle THEN Goto(p, "stop") ELSE Throw(p, "finally")
    /\ Works /\ UNCHANGED <<driver, files, mutex>>

ProveOwnership(p) ==
    /\ At(p, "prove")
    /\ \/ /\ IF capture = proc[p].name THEN Goto(p, "stop") ELSE Throw(p, "finally")
          /\ Works /\ UNCHANGED <<driver, files, mutex>>
       \/ Fails(p, "finally")

StopCapture(p) ==
    /\ At(p, "stop")
    /\ \/ /\ capture' = Idle
          /\ Goto(p, "mark")
          /\ Works /\ UNCHANGED <<filters, files, mutex>>
       \/ Fails(p, "finally")

\* Mutant: only the file learns that the capture was stopped.
MarkFile(p) ==
    /\ At(p, "mark")
    /\ session' = [session EXCEPT ![proc[p].name].status = "Stopped"]
    /\ Goto(p, "convert")
    /\ Works /\ UNCHANGED <<driver, dirs, converted, mutex>>

\* $session.Status changes before the write that can fail.
MarkStopped(p) ==
    /\ At(p, "mark")
    /\ \/ /\ session' = [session EXCEPT ![proc[p].name].status = "Stopped"]
          /\ proc' = [proc EXCEPT ![p].pc = "convert", ![p].status = "Stopped"]
          /\ Works /\ UNCHANGED <<driver, dirs, converted, mutex>>
       \/ /\ Fault
          /\ proc' = [proc EXCEPT ![p].pc = "finally", ![p].ok = FALSE, ![p].status = "Stopped"]
          /\ UNCHANGED <<driver, files, mutex>>

\* Mutant: nobody looks whether the conversion succeeded.
ConvertUnchecked(p) ==
    /\ At(p, "convert")
    /\ Goto(p, "finally")
    /\ \/ converted' = converted \cup {proc[p].name} /\ Works
       \/ Fault /\ UNCHANGED converted
    /\ UNCHANGED <<driver, dirs, session, mutex>>

Convert(p) ==
    /\ At(p, "convert")
    /\ \/ /\ converted' = converted \cup {proc[p].name}
          /\ Goto(p, "finally")
          /\ Works /\ UNCHANGED <<driver, dirs, session, mutex>>
       \/ Fails(p, "finally")

\* Mutant: the filters go although something records.
FinallyAlways(p) ==
    /\ At(p, "finally")
    /\ filters' = IF proc[p].status # "Active" /\ filters = proc[p].owned
                  THEN {} ELSE filters
    /\ Works
    /\ Goto(p, IF proc[p].ok THEN "complete" ELSE "leave")
    /\ UNCHANGED <<capture, files, mutex>>

Finally(p) ==
    /\ At(p, "finally")
    /\ \/ /\ filters' = IF /\ capture = Idle
                           /\ proc[p].status # "Active"
                           /\ filters = proc[p].owned THEN {} ELSE filters
          /\ Works
       \/ Fault /\ UNCHANGED filters
    /\ Goto(p, IF proc[p].ok THEN "complete" ELSE "leave")
    /\ UNCHANGED <<capture, files, mutex>>

Complete(p) ==
    /\ At(p, "complete")
    /\ \/ /\ session' = [session EXCEPT ![proc[p].name].status = "Completed"]
          /\ Goto(p, "leave")
          /\ Works /\ UNCHANGED <<driver, dirs, converted, mutex>>
       \/ Fails(p, "leave")

---------------------------------------------------------------------------
\* The process is killed: Windows abandons its mutex and the next waiter gets
\* it; a session.json that was being written is left truncated or empty.
Crash(p) ==
    /\ crashes < MaxCrashes /\ crashes' = crashes + 1
    /\ proc[p].pc \notin Resting
    /\ \/ UNCHANGED session
       \/ /\ proc[p].pc \in {"save", "mark", "complete"}
          /\ \E cut \in {"torn", "empty"} :
               session' = [session EXCEPT ![proc[p].name] = [NoSession EXCEPT !.status = cut]]
    /\ mutex' = IF mutex = p THEN Free ELSE mutex
    /\ proc' = [proc EXCEPT ![p] = AtRest(IF p \in Users THEN "idle" ELSE "failed")]
    /\ UNCHANGED <<driver, dirs, converted, faults>>

\* Another tool records on its own or adds a filter; both count as faults.  It
\* does not stop a capture it did not start (the README names the gap).
ForeignCapture ==
    /\ \/ capture = Idle /\ capture' = Foreign /\ Fault
       \/ capture = Foreign /\ capture' = Idle /\ Works
    /\ UNCHANGED <<filters, files, mutex, proc>>

ForeignFilter ==
    /\ \E f \in ForeignFilters \ filters : filters' = filters \cup {f}
    /\ Fault
    /\ UNCHANGED <<capture, files, mutex, proc>>

Step(p) ==
    \/ Leave(p) \/ CheckIdle(p) \/ AddFilter(p) \/ Snapshot(p)
    \/ StartCapture(p) \/ SaveActive(p) \/ LaunchWorker(p) \/ Catch(p)
    \/ ReadSession(p) \/ ProveOwnership(p) \/ StopCapture(p) \/ MarkStopped(p)
    \/ Convert(p) \/ Finally(p) \/ Complete(p)

WorkerStep(n) == WorkerWakes(n) \/ WorkerAcquires(n) \/ WorkerGivesUp(n)

Next ==
    \/ \E p \in Procs : Step(p) \/ Crash(p)
    \/ \E p \in Users : Call(p)
    \/ \E n \in Workers : WorkerStep(n)
    \/ ForeignCapture \/ ForeignFilter

\* A script that runs goes on, and a sleeping worker wakes.
Spec ==
    /\ Init /\ [][Next]_vars
    /\ \A p \in Procs : WF_vars(Step(p))
    /\ \A n \in Workers : WF_vars(WorkerStep(n))

---------------------------------------------------------------------------
TypeOK ==
    /\ capture \in Names \cup {Idle, Foreign} /\ filters \subseteq Filters
    /\ dirs \subseteq Names /\ converted \subseteq Names
    /\ session \in [Names -> Session]
    /\ mutex \in Procs \cup {Free}
    /\ proc \in [Procs -> Locals]
    /\ crashes \in 0 .. MaxCrashes /\ faults \in 0 .. MaxFaults

\* A capture ends only at the hands of a script that was called for its name:
\* neither a late worker, nor a retried Stop of an older capture, nor the
\* clean-up of a failed Start ends the capture of somebody else.
OnlyItsOwnCapture ==
    [][/\ capture \in Names /\ capture' # capture =>
            \E p \in Procs : proc'[p] # proc[p] /\ proc[p].name = capture
       /\ capture = Foreign /\ capture' # capture => UNCHANGED proc]_vars

\* While a capture whose Start ended well records, the list holds the filters
\* it was started with: no other Stop takes them, although an older capture of
\* the same ports wrote down the same list and its Stop can be repeated.
RecordsWithItsFilters ==
    \A n \in Names :
        capture = n /\ proc[n].pc # "unborn" => session[n].owned \subseteq filters

\* A session is called Completed when there is a PCAPNG and PktMon no longer
\* writes the file it was made from; this is what makes Stop an early return.
CompletedIsConverted ==
    \A n \in Names : session[n].status = "Completed" => n \in converted /\ capture # n

\* Filters that are left behind with nothing recorded, which make every later
\* Start refuse, need a killed script, a call that failed or another tool that
\* recorded while they were to be removed or mixed its filters with them.
LeftoversNeedAFault ==
    mutex = Free /\ capture = Idle /\ filters # {} => crashes + faults > 0

\* "automatic stop in $Seconds seconds": a capture with a worker ends, or the
\* worker is known to have failed.
CaptureEnds ==
    \A n \in Names : proc[n].pc = "asleep" ~> (capture # n \/ proc[n].pc = "failed")

===========================================================================
