# A formal model of DataWorkStation

TLA+ specifications of the DataWorkStation repository, the TLC configurations
that check them on small instances, and TLAPS proofs of what matters most.

    tlc -workers 2 -config MCApplyGraphs.cfg MCApplyGraphs   # a run
    tlapm ApplyWorkstation_proofs.tla                        # a proof module

`PROJECT.json` lists the runs, the source lines each definition stands for, the
hazards of the code with the properties that cover them, the findings and the
theorems. Every property of a passing run comes with a mutant, an operator kept
beside the definition it alters (marked `Mutant:`), under which it fails.

## The system

DataWorkStation brings a Windows workstation into a declared state and keeps
tools for malware analysis, forensics and diagnosis on it.

| Component | State | Operations | Interactions |
|---|---|---|---|
| Planner and executor, `Apply-Workstation.ps1` with `config/workstation-modules.psd1` | selection, order, outcome of each module, failed stages, failures | validate the catalog, close the selection, order it, refuse or run it, report | starts one or more child processes per module and reads their exit codes |
| Resource scripts, `scripts/Set-*State.ps1` | machine state outside the repository, backups, markers | Test, Ensure, Reinitialize | children of the executor; drive installers, package managers and guests that may fail or do less than they report |
| Workload limiter, `scripts/memory-limits/MemoryLimits.cs` | handles of job objects, inspected pids, coverage errors, `jobs.txt` | scan, recover, save, stop, `--release` | shares one thread with the guard; kernel job objects outlive it |
| Early-OOM guard, `scripts/memory-limits/EarlyOom.cs` | pressure and action clocks, cleanup stamp on disk, audit log | sample, decide, clean, search, confirm, terminate | a tick before each scan; starts a helper process |
| Malware runners, `Invoke-MalwareContainerAnalysis.ps1`, `Invoke-BinaryDiffAnalysis.ps1`, `...SandboxRunner.ps1` | the state of a case in its manifest | prepare, start a container or sandbox, wait, judge its output | start `entrypoint.py` in the container and call `Read-MalwareEvidence.ps1` on what it left |
| Analysis in the container, `linux/malware-analysis/entrypoint.py` | tool processes, observations, the files under `/output` | run each tool under a deadline and bounds, export and match graphs, write the results | reads a sample nobody trusts; its files are read while it runs |
| Evidence ingestion, `evidence_ingest.py`, `Read-`/`Compare-MalwareEvidence.ps1` | canonical directories | load, validate, list, canonicalise, compare by git | reads files a guest wrote, and may be killed itself |
| Feature workflow, `.specify/scripts/python/*.py`, `ears_sdd.py` | `specs/` directories and documents, `.specify/feature.json`, preset and extension registries | create a feature, set up plan and tasks, check prerequisites, resolve templates, gate a phase | commands hand each other the active feature through one file; people write in between |
| Guest deploys, `linux/*.py` | packages, services and files of a WSL guest | the steps of a pyinfra deploy | called by the resource scripts, which inspect the guest after it |
| Recording sessions, `Invoke-PacketCapture.ps1` with `Stop-PacketCaptureAfterDelay.ps1`, `Invoke-DevEventLogSession.ps1` | a session file per name; PktMon's one capture and one filter list; event channels | start, stop, delayed stop | several invocations and the worker share the files, the driver and a mutex; other tools use the driver too |
| Debugger bridge, `WinDbgMcp.Core.ps1`, `Invoke-WinDbgMcp.ps1` | session records, owned processes | start, attach, stop | external debugger |
| Image verification and forensic candidates, `Invoke-EwfVerification.ps1`, `*-NativeForensicTool.ps1` | reports, candidates, activation pointers | verify, build, test, publish | external tools |
| Research environment, `Set-QuantResearchEnvironmentState.ps1`, `PyXll.Core.ps1` | generated environments beside user-owned files | stage, swap, repair | package manager |
| Updates and relocation, `Invoke-WorkstationUpdate.ps1`, `Complete-SourceRelocation.ps1` | step records, junctions | plan, apply, verify, roll back | scheduled tasks, the service |
| Hardening, `Set-HardeningState.ps1`, `ExploitProtectionState.Core.ps1`, `Set-FirewallState.ps1` | machine policy, captured baselines | test, apply, verify, roll back | the registry |
| Shell, editor, WSL, toolchain, profiler, cleanup and lighting scripts | files and packages | test and ensure | the executor or a user |

What is hard here: partial failure in a long run (executor), clocks that must
survive faults and restarts (guard), snapshots that are stale when used and
identifiers that are reused (limiter), kernel objects that outlive the process
that tracks them (limiter), scripts that repair a machine in any state and may be
cut off in the middle (resources), one driver shared with scripts that die and tools
that do not ask (captures), results that are written while others read them and
tools that hang, fail or lie (evidence), and commands that meet what a killed
one or a person left (features).

What makes each part correct, in short: the executor never applies a module
before what it stands on; the guard acts only on lasting pressure, rarely,
after announcing it, and does act in the end; the limiter leaves no target
unlimited without reporting it and limits nobody else; a resource script that
reports success leaves a compliant machine, repairs what any earlier run left and
loses no file of the user; a capture is stopped by
its own scripts only, keeps its filters while it records, and ends; an evidence
report that is accepted is of a finished run, is called complete only when it is, and
a run ends; two cases are compared only as wholes; a feature command keeps
the text that is there, gives no number twice (but for two cases named below) and
works on the feature selected.

## Modules

| Module | Models |
|---|---|
| `ModulePlanner` | from arguments and catalog to an order or a refusal, one action per loop iteration or check |
| `ApplyWorkstation` | extends it by the loop that invokes the modules |
| `StagedExecution` | the abstract promise: each module decided once, applied only on firm ground, skipped only for a failure |
| `CatalogRules` | what a catalog promises, and rules on its declarations under which it does |
| `WorkstationCatalog` | the 58 shipped modules, their stages, dependencies and defaults, the skip switches |
| `EarlyOom` | the guard, its environment, service crashes and restarts |
| `MemoryLimits` | the limiter, processes and job objects |
| `PacketCapture` | Start and Stop of named captures, the delayed worker, killed scripts, failing calls, other tools |
| `StateSteps` | the vocabulary of a resource script: facts, steps, conditions |
| `StateResource` | Test, Ensure and Reinitialize of a script on a machine, with failures, silent shortfalls and kills |
| `ScriptRules` | rules on the text of a script, read off its steps alone, under which its runs keep their promises |
| `HostScripts`, `ToolScripts`, `WorkbenchScripts`, `LinuxScripts`, `ForensicScripts` | 61 entries for 55 `Set-*State.ps1` scripts, as steps |
| `ContainerRun` | what both analyses share: the runner, its tool process, the files it writes, its death |
| `StaticAnalysis` | `run_analysis`: the tools of the inventory one after another |
| `BinaryDiff` | `run_binary_diff`: Ghidra and BinExport twice, BinDiff, the sidecar database |
| `EvidenceIngest` | the validator as operators: shape, schema, listing, hash reports |
| `EvidenceCase` | one case: either analysis, the host that waits, a reader |
| `EvidenceCompare` | the comparison of two cases with its four ingestions |
| `TemplateStack` | override, presets, extensions and core composed into the text of a template |
| `EarsGate` | the checks of the requirements gate as sets of findings |
| `SpecFeatures` | the feature commands, step by step, with people between them; extends the two above |
| `MCApplyGraphs`, `MCApplyCatalog`, `MCEarlyOom`, `MCMemoryLimits`, `MCPacketCapture`, `MCStateScripts`, `MCEvidenceCase`, `MCEvidenceCompare`, `MCSpecFeatures` | instances for TLC |
| `ApplyWorkstation_proofs`, `EarlyOom_proofs`, `MemoryLimits_proofs`, `PacketCapture_proofs`, `StateResource_proofs`, `EvidenceCase_proofs`, `EvidenceCompare_proofs`, `SpecFeatures_proofs` | proofs |

### Planner and executor

`phase` is the place in the script. `included` is the hash set of the closure
loop, whose single pass is `ClosePass`; `order` is the list being built, one
ready module per `OrderNext`. `status`, `failedStages`, `failures` and `before`
are the variables of the final loop; `cursor` and `step` say which call of which
module is under way. A child process is reduced to its answer: exit code 0,
another code, or an exception (`CallSucceeds`, `CallFails`, `CallThrows`).
Names are model values, and the sort key (order, name) of a module is a rank.
The number of calls of a module and the modules that stop at a failed call are
the constants `Steps` and `Chained`. Duplicate names in a catalog cannot be
expressed in a record indexed by names and are left out, as are the printed
plan and the case-insensitive comparison. A module whose runtime the script does not
know (line 147) is not `runnable`, and the catalog is refused.

`SoundPlan` has five parts: what is ordered was asked for or is needed, lacks nothing
and holds nothing skipped (`ClosureIsLeast`); dependencies come first; stages ascend; a
catalog refused as cyclic has a cycle among the selected modules; and a request refused
for a skipped module cannot be had without one (`ExclusionMeansNeed`).

A limit worth knowing: the planner accepts a stage gate that lies in the stage
it gates, but does not order it first (`Ready` looks at dependencies only). The
shipped catalog has its one gate, PowerShell7, in the first stage, so nothing
depends on it today; the gate theorem states the condition.

### Early-OOM guard

One action is one interval between two points where the world can be seen to
move: a system call, a write, an entry of the snapshot. A timestamp is an age
saturated at the duration it is compared with, which loses nothing the code can
observe and keeps the state space finite. The environment changes pressure,
processes and the health of system calls at any time; while `healthy` is false
every call that can fail may fail, in each way the code distinguishes. `Crash`
drops all memory and keeps the stamp; `Restart` reads it, or fails to.
Which processes are exempt is one fact per process (`weight` 0 is "not
eligible"), since only the eligibility at selection and at the last check
matters. The memory thresholds are one fact as well (`pressed`).

Not modelled: the state word and heartbeat of the log (only the writes whose
failure changes what is done), handle lifetimes beyond the held candidate, and
changes of the wall clock. The cooldown runs from the decision (line 200), so
two terminations may be closer than it when the helper ran before the first.

### Workload limiter

A process is a pid and a creation time; `MaxBorn` bounds how many are ever
started, and pids are fewer, so they are reused. `all` is the snapshot; the
entries of a scan are separate actions, and processes start and exit between
them. `member` and `kernel` are the kernel's: which jobs a process is in, which
limit a job has, and that a job vanishes with its last handle and member.
History variables hold true ancestry (`kin`), whether the service ever
crashed, and `taken`: the executable under which the running scan listed a process
that had the pid before the one that has it now.

A listed pid may change hands before its entry is reached, since the executable comes
from the snapshot and the creation time from the process opened later
(`MemoryLimits.cs:177` and `:182`). The properties say what that costs. A
target on the pid of a runtime that was listed is cached as "no target" and stays
uncovered: `InspectedIsCovered` and `CoverageSettles` except this one case
(`taken[p] = "runtime"`), and no other. A root may keep the scope of the executable that
was listed instead of its own (`RootScopes`). Only `memory_strangers` leaves takeovers
inside a scan out (`NoTakeover`), so that what it finds lies in the code alone.

Not modelled: exceptions that end a whole scan, the exclusion of the service
itself and of system pids, the status report and the event log.

### Packet captures

`capture` and `filters` are PktMon's; `session` is what each `session.json`
says, or that it is torn or empty; `proc` holds for each script its place and the local
variables that outlive a step. Every call of `pktmon.exe` and every write is an
action, so a script can be killed between any two (`Crash`: the mutex is
abandoned, which the next waiter takes as its own, and a file that was being
written is torn or empty). A torn file is an exception to who reads it; an empty one reads
as nothing, on which the worker returns without a word and a Stop goes on to its
conversion and fails after it. A failing call throws into the catch or finally block it
stands in; where the code ignores an exit code the call may be lost silently.
The worker of a capture is a process of its own: it reads the file without the
mutex, waits for the mutex at most thirty seconds and tries once. A user who
waits for the mutex has read nothing yet and is not a state.

Limits worth knowing: a filter that is left behind makes every later Start
refuse, and no action of the script removes it. That takes a killed script, a
failing call before the snapshot, or another tool that records at the moment of
the clean-up or adds a filter meanwhile; `LeftoversNeedAFault` says nothing else
does. And a filter another tool adds between the check of the list (line 90) and
the snapshot (line 110) is taken for the capture's own and removed by its Stop.

One assumption is made of other tools: none stops a capture it did not start. Without
it a Stop could take a capture begun between its look (line 160) and its own
`pktmon stop` (line 163) for the session's; PktMon offers no call that does both, and no
property here speaks of that gap.

Not modelled: Status, Counters and Plan, which change nothing, and a capture
directory deleted and created anew, which the comparison of `StartedUtc` is for.

### Resource scripts

A script is written down once, as data: the facts its Test inspects (`goal`) and
its steps in the order of the text. A fact is a name for something that holds on
the machine or not: "the package is installed", "the file has the declared
hash", "the user has a config file of another content". `Look` is a call of the
script's `Get-...State`; every later condition reads what it saw (`seen`), not
the machine (`have`), so state that is stale when used is in the model. `Write`
is a cmdlet, which throws when it fails; `Tool` is a program, which may exit 0
and have done less. `Missing`, `Given`, `Repair` and `In` are the conditions a
step stands under, `Verify` the throw after an inspection, `Report` the exit of
Test. `StateResource` runs the steps: `Change` succeeds, `FallShort` is exit code
0 with less than the whole effect, `Fail` an exception, a nonzero exit code or a
kill inside the step, after which any mode may be called again. Between runs the
machine is whatever the last run left; a behaviour starts from every combination
of facts (`Machines`) that the script's `rests` (f cannot hold without g) and
`apart` (facts that exclude each other) admit.

`needs` are the prerequisites a script asks for and does not make: rights, the
user's consent switches (`RemovalConfirmed`, `LicenseAccepted`), a tool of
another module, and things it refuses to touch (another repository's bucket, a
settings file that does not parse). `RepairIsComplete` then says these are all
the ways in which an undisturbed Ensure can fail. Some of them are limits worth
knowing: a cached installer or archive with a wrong hash is never replaced
(`ProfilingTools`, `DeveloperTools`); a bucket whose clone was cut off counts as
another repository's (`Scoop`); the daily user of the malware distribution is
made only right after its installation (`RootlessPodman`), so a run cut off there
cannot be repeated to success; another JDK in `JAVA_HOME` is written back.

Three sets name the scripts that promise less. `Trusting` scripts have no second
inspection, or leave a fact out of it, so a program that exits 0 too early is
believed. `Rewriting` scripts write their files over on every run, compliant or
not, so a kill can spoil a compliant machine until the next run. `Unreporting`
is the script of finding 3. All other scripts satisfy each property in full.

Scripts with Enable and Disable are two entries, one for each direction, and
Ensure stands for the direction; where a script has no Reinitialize it stands
for a second Ensure. `Set-WindowsTerminalState` and `Set-WslState` do not
inspect again but write with cmdlets only, which throw. Lists (packages,
profiles, exclusions, distributions) are represented by the one or two members
that behave differently. The product kinds of `Set-AiToolsState` are four entries.

The deploys of `linux/developer_docker.py`, `rootless_podman.py`,
`retire_rootless_docker.py` and `developer_tools.py` are spliced into the
scripts that call them (`DockerDeploy`, `PodmanDeploy`, `RetireDocker`,
`DaggerDeploy`), so a run may be cut off between any two operations of pyinfra. A
`daemon.json` that was cut off while it was put in place stops every later
deploy at its first line; `Parses` is among the needs of the script for that reason.

Not modelled: Plan modes, which change nothing; Restore and Remove of the
firewall script; `LaunchersOnly` and `RepairMachinePath` of the editor;
`RemoveSynapse`; the refresh of the process's own PATH (where it matters is
`Set-GoState.ps1:116`, which looks for `go.exe` right after winget: in a shell opened before
the installation Ensure may throw there, and succeeds in the next shell); the values `New-Item
-Force` resets in a registry key that exists; `Set-PowerShellProfile`,
`Set-NativeDevelopmentState` (it only tests) and the installer of the limiter.
`Set-QuantResearchEnvironmentState` and `Set-NativeForensicToolsState` swap
whole trees with a roll back.

### Analysis, evidence and comparison

`EvidenceCase` composes three processes. The runner (`ContainerRun` with
`StaticAnalysis` or `BinaryDiff`, chosen by `kind`) starts one tool at a time; a
tool returns with a state its exit and its output give (`CommandState`),
is killed at its deadline, cannot be started, or is not there. Then the files are
written in the order of the code, each torn before it is whole. The container may
die at every step. The host (`manifest`) waits for podman, gives up at its own
timeout without knowing whether the container ended, and has a run that
returned zero validated. The reader loads the summary and lists the files in two
steps, at any moment of the run.

A tool's two streams count as one file, present once it was started. A summary is what
the validator looks at: its status, the number of its values, its bytes and longest
text, the products it names. What a run extracts is one of `Extractions`: how many
files, their bytes, the text and the rows they add to summary and reports. `obs` is what the run says of its tools; the history `log` keeps the states
of all commands, so `CompleteIsEarned` compares the verdict with what happened.
The programs are external: Ghidra and BinDiff may leave no file, a cut one or a
database of another schema whatever they exit with. What is inside a
graph or a database is not modelled.

Limits worth knowing, all in the model. A finished static run is rejected by its own
validator when it extracted too much: an entry takes five values of the 4096
(`entrypoint.py:279` against `evidence_ingest.py:79`), its name bytes of the summary's
1 MiB (`:158`), its content bytes of the 4 GiB of all listed files (`:258-261`), it counts
among the files of a directory (`:251`), and what the validator prints of it among the
output the caller takes (`Read-MalwareEvidence.ps1:79-82`). `TooMuch` names these five
bounds, and `FinishedIsAccepted` says a finished run is refused for its amount and for
nothing else. The other files of a run are cut or capped one by one by the runner. Of a tool with two commands `partial` hides `failed`
(`entrypoint.py:424`), and neither `partial` nor `truncated` is a failure, so a
complete run may hold a command that was never started; `CompleteIsEarned` excuses
both, so it does not speak against the first. The sidecar's bound on
matches is seen in its state only. A validator that does not start, or a host whose disk
is full, is not in the model.

`EvidenceCompare` runs four ingestions, two to validate and two to write a
canonical directory, each of which may be refused or killed; the tree of a killed one
stays as it is, torn file included, which is why the script must not go on. A
guest that is open may write between any two steps, once. Only the case that is being
canonicalised is checked against lying around the destination
(`evidence_ingest.py:433`): for a destination inside the target the second
canonicalisation refuses, after the first has written there.

Not modelled: argument checks and the image digest, the sandbox backend, headless
dumps, `Export-`/`Import-MalwareCase.ps1`, the collection of host evidence and the
lines of canonical files; links and paths that leave a case count as invalid.

### Features, templates and the gate

`SpecFeatures` runs one command at a time, since the scripts take no lock and are
the tools of one person; what two at once would do (the same number, for
instance, against the comment at `create_new_feature.py:311`) is not in the model.
A command is killed at any step. A document is absent, torn, empty, the
template, or written by people (`Documents`), of which the gate reads what
`EarsGate` measures. `cmd` is the command with the locals that outlive a step;
`wanted` and `made` are histories for `SelectionIsKept`: which feature was asked for,
and which a creation has made active.

A directory is named by a number or by a date and time, and by its suffix (`Names`).
The commands write three digits, or as many as the number needs (`plain`); a person may have
padded one with more zeros (`padded`). The code looks for a number in two ways, and both are in
the model: `GetHighest` strips zeros and passes over names by the time
(`create_new_feature.py:207-211`), `PrefixExists` compares the text of the prefix with every
name (`:227-236`), so that it does not see a padded number and does see a date of the same
digits (`Days`). Two directories may therefore get one number in two ways, which
`OneFeaturePerNumber` names and excepts: an explicit `--number 1` beside `0001-x` gives
`001-y`; and the next number is not held against dates (`:311-318`). In every other case
the number is new. Prefixes of fewer digits than three, short names that begin with a
digit, and two creations by time on one day with one suffix are left out.

`TemplateStack` has two definitions of the same promise: the walk of the code
(`ResolveTemplateContent`, `ResolveTemplate`) and the order said without walking
(`TemplatesResolve`: which presets are in the text, and who stands outside whom).
`StackResolves` compares them for each stack, and `SpecFeatures_proofs` for all there
can be. The walk is written as the code walks, layer by layer from the one in force first
to the one that ends it (`Ends`), and the texts are put round each other from below
(`Compose`, a recursive function). A stack of `Surveyed` is only
resolved; the commands work on the three of `Stacks`.

Limits worth knowing: a plan or a specification that was cut off counts as there
for ever (`setup_plan.py:59`, `create_new_feature.py:387`), so `TextIsKept` speaks of
whole text; a feature named by the environment becomes the active one before
anything is looked at (`common.py:148`), hence "or on one that a later command, cut
short, was about to select"; a preset registry that cannot be read brings disabled
presets back (`common.py:230`); the path of a template and its text may come from
different files when a manifest names another one (`common.py:309`, `:446`).

Not modelled: how a name is made of a description and fitted to its length, the
search for the project root, the output as text or JSON, and the bundled gate
against `ears-sdd` 0.3.0 of the workflow, which takes `--all`.

## Runs

| Run | Instance | Shows |
|---|---|---|
| `apply_graphs` | every graph on three modules and two stages, with unknown names, cycles, late dependencies, same-stage gates; of known and unknown runtime; five requests; one module of two chained calls; 384,551 states | type invariant, a sound plan, verdict, chained calls, termination of planning, refinement of `StagedExecution` (which has the blocking by stages and dependencies) |
| `apply_catalog` | the shipped catalog; each module alone, All in each mode with each skip switch, all consent combinations | opt-ins stay out of All, every module can be planned |
| `apply_consent` | the same | a disagreement with the documentation, below |
| `early_oom` | two processes of two sizes; sustain 2, cooldown 3, cleanup cooldown 4, helper 2; 68,756 states | clocks, audit order, choice, and relief of lasting pressure |
| `memory_limits` | two pids, three processes, trees and runtimes, pids that change hands inside a scan; 875,132 states | coverage, scopes through recovery, the saved list, settling |
| `memory_strangers` | two pids, three processes, unrelated ones among them, none replaced inside a scan | a flaw, below |
| `packet_capture` | two names, two users, two workers, captures with and without a port; one killed script, one failing call or one act of another tool; 534,829 states | ownership of capture and filters, completed sessions, leftovers, the automatic stop |
| `state_scripts` | 61 scripts, each alone; three modes in any order; two faults; 694,616 states | honest success, complete repair, no spoiling of a compliant machine, copies of the user's files |
| `state_unreported` | the same without faults | a finding, below |
| `evidence_case` | an inventory of five tools, one of each shape; every subset of the three graph tools; seven extractions: none, one that fits, and one past each of the five bounds; 594,194 states | accepted is finished, complete is earned, finished is refused only for its amount, the run ends |
| `evidence_compare` | two cases with each kind of content, a guest open or not, the comparison outside or inside a case; 15,302 states | only whole trees are compared |
| `spec_features` | two names, numbers 0 and 1 in each form, one date; three commands of any kind with every option, one edit by hand; 8,192 stacks of two presets and two extensions; 1,477,240 states | selection, text and numbers survive; the text of a template is its layers in their order |

Bounds. Three modules are enough for a chain of two skips, a diamond's edge, and
a cycle that is or is not selected; two stages for an earlier and a later one.
Two candidates distinguish "largest" from "last"; a cooldown longer than the
sustain time and a cleanup cooldown longer than both keep the order of the
shipped durations. Two pids and three processes give a parent and a child, an
orphan whose parent's pid is taken over, and a root replaced by a stranger. Two
captures of the same ports write down the same filters, and one failure is what
it takes to stop the older one twice. One script per behaviour suffices since no
property relates two scripts. Two faults let a run fail in the repair of what a
failed run left, and every combination of facts is an initial state anyway, so
what longer histories lead to is covered. In `MCMemoryLimits` an action constraint
starts the first process under the least pid, which is sound since pids are
interchangeable.

An inventory of one tool of each shape suffices since tools meet only in the verdict
and in Rizin's log; 20 values stand for 4096, and each of the five bounds has an
extraction on either side of it. Four
documents give the gate a whole specification, one without its test, one without a
mapping and one that breaks a rule. Three commands let one be cut short, a second
start on what it left and a third on what was selected; one edit by hand gives a
number, a document or a directory no command made. A stack that is only surveyed
starts with its bounds spent, so it is resolved and no more. The two names of features
are interchangeable (`SYMMETRY`); no temporal property beyond step formulas is
checked there.

The proofs remove these bounds for every safety property the passing runs check. What
stays bounded is liveness, and what TLC evaluates of the shipped texts and of the
shipped catalog, which is finite and evaluated whole.

Deadlock is checked except where the system ends: a finished or refused run of
`Apply-Workstation.ps1`, an ended comparison, and the last command of the bounded
feature runs have no next step.

### Fairness

`ApplyWorkstation` is fair for the script's own steps and not for child
processes: a child may hang for ever and nothing in the script prevents it.
`EarlyOom` is fair for the guard (its thread runs in a loop, and every wait in
it has a timeout), for time, and for restarts (`sc.exe failure ... restart`,
`Set-WorkloadMemoryLimits.ps1:107`). Nothing is assumed of the environment: the
premise of `PressureIsRelieved` states what must last. `MemoryLimits` is fair for
scan steps and for the start of the service, for the same reasons. `PacketCapture`
is fair for scripts that run and workers that sleep, not for calls of users; each
fairness is weak, since a waiting worker either gets the mutex or gives up.
`EvidenceCase` is fair for the runner, which includes the deadline of
`process.wait`, for podman's return and for the validation after it. It assumes of
no tool that it ends, of the host's timeout nothing, and of no reader that he asks.

## What is proved

For every value of the constants, from the named assumptions beside them.

* `ApplyWorkstation_proofs`, the planner: `PlanInv` says, per phase, what the script
  has established so far. Its heart is the closure (everything included is in every
  closed set that holds the request, so the fixed point is the least one) and
  `Greedy`: a ready module left behind is never of an earlier stage than one
  already ordered. The second is needed because `StagesAscend` alone is not
  inductive: the next module chosen could be of an earlier stage unless no such
  module was waiting, which holds since a valid catalog has no dependency on a
  later stage. `PlanIsSound` carries the result to the whole script.
* `ApplyWorkstation_proofs`, the run: `Inv` adds what the loop keeps about the modules
  before, at and after `cursor`. That skips block like failures follows from an
  invariant that every skip has a failure at or below its stage, in the same
  failed stage set. Type correctness, blocking by dependencies and by stages, causes
  of skips, the verdict, the consents, the chained calls and the refinement of
  `StagedExecution` follow.
* `ApplyWorkstation_proofs`, the catalog: `CatalogIsSound` under two rules on the
  declarations (`CatalogRules`), which `apply_catalog` evaluates for the shipped one
  (`ShippedObeysTheRules`, an assumption of `MCApplyCatalog`). Under `StaysOut` the
  modules that do not come in by name only are closed under what they need, and the
  selection is the least such set. Under `Reachable` no refusal has a cause: `Causes`
  keeps the cause of each, and a cycle is none of the modules that passes over the
  catalog put in order (`Placed`; the declared order will not do, since
  `MalwareAnalysisTools` is declared before the `JavaToolchain` it needs).
* `EarlyOom_proofs`: `SustainClock` bounds the pressure age by the age of the
  last interruption, `StampClock` bounds the ages in memory and on disk by that of
  the last launch, `Announced` ties the place in the tick to the last record, and
  `SearchSoFar` says the candidate held is a maximum of the entries examined.
  The three action properties follow from them.
* `PacketCapture_proofs`: `IInv` joins mutual exclusion, what the files promise
  (`Sessions`) and what the holder of the mutex knows at each place
  (`StartPhase`, `StopPhase`). Neither half is inductive alone: that a stopped
  session does not record needs that its name is never started again, and that a
  Start finds its worker unborn needs the directory that the files speak of. The
  converse of `FiltersAreKept`, that a foreign filter stays, is false, as said above.
  `LeftoversAreExplained` needs two more: `TidyInv`, that as long as nothing has
  failed the list is empty or is that of the recording session whenever nobody
  works (`Quiet`), and inside a script belongs to the one at work; and
  `SoFarSoGood`, that a Stop which reaches its conversion has thrown nothing, for
  a failed one takes the same way out with other duties.
* `MemoryLimits_proofs`: that the list of a stopped service is complete is not
  inductive: `ListInv` says it of a running one as well, whose held jobs take the place
  of the list, and `KernelInv` that no job carries the name of a process not yet
  born, so a new process cannot inherit one. `InspectedIsCovered` and
  `RootKeepsScope` rest on `SnapshotInv`: what the snapshot says of a pid is the
  executable of the process that has it now, or the one kept in `taken`. All of them
  hold with pids that change hands inside a scan, from no hypothesis but the constants'.
* `StateResource_proofs` is about every catalog of well-formed scripts. `Known`
  holds of all of them: what was seen and spared since is so still, what a step
  settled holds, and what stands has its ground. From it follow, each under a rule
  on the texts that `ScriptRules` defines and `state_scripts` evaluates for the 61
  scripts (`TextsObeyTheRules`, an assumption of `MCStateScripts`): `HonestSuccess`
  under `HonestTexts` (every way out with exit code 0 is behind an inspection of the
  goal, or behind steps that make it),
  `CompliantStaysSo` under `GentleTexts` (Ensure leaves, or skips, before what takes
  the goal apart) and `UserItemsAreKept` under `KeepingTexts` (what replaces an item
  comes after its copy, moves it, or is barred to who has it). `RepairIsComplete`
  needs more than a rule on single steps, since whether a check passes depends on which
  of the conditions before it were met together: under `RepairTexts` every check passes
  when the text is followed once, without a fault, from each state of the machine
  (`Path`). The proof shows that a run in which nothing went wrong is on such a path
  (`OnPath`), and that between the steps of all runs a fact joined to its ground stands
  with it (`Stands`), so that the state the run began in is one the rule looked at. The
  bounds on runs and faults are gone, and a new script needs its text examined and
  no more.
* `EvidenceCase_proofs`: `RunInv` orders the files by the queue of those still to
  write, `StaticInv` and `DiffInv` say what every record stands for before the first
  file is opened; that a report is of a finished run follows since the summary
  comes after what it names. It assumes that the inventory lists each tool once, rizin
  before sqlite (`InventoryIsSorted`; `entrypoint.py:308,327` sort by tool) and that
  the validator's depth and string bounds admit a summary (`SummariesFit`). The other
  five bounds are arbitrary numbers: `FinishedIsAccepted` is proved of every extraction
  against each of them.
* `EvidenceCompare_proofs`: `TreesSoFar` says of each tree which files are
  pending, from the moment the first is listed, and that all others are as listed;
  `InStep` that the one ingestion in work is the one the comparison waits for.
* `SpecFeatures_proofs`: `Inv` says for each point a command may be at what is still
  true of what it saw (`CreationKnows`: between the look at the directories and the
  `mkdir` no other directory has the number, but for the two cases excepted; between the look at the document and its
  opening there is none). `SelectionIsKept`, `TextIsKept` and `OneFeaturePerNumber`
  follow for every number of names, documents, commands and edits. `StackResolves` is
  proved of every stack (`StackRecords`): the presets have an order by priority and
  place (`OrderExists`), the walk collects the first of it (`PresetLayersWalk`), and
  composing from the layer that ends the walk upwards keeps that each layer is there and
  the higher one outside (`ComposeHolds`).

Some theorems (blocking by dependencies and stages, causes of skips, consents, that
Enforce mode alone acts) state properties no run lists: they follow from the same
invariants.

Recursive functions (`Compose`, `Path`, `Placed`) are reasoned about although the
library's induction theorems take an operator as a parameter, which the provers cannot
instantiate: `NumbersByInduction` says the same of sets of numbers, and follows from the
well-foundedness of finite sets. By it a function exists that obeys the recursion, and
what holds of its first value and is handed on holds of all.

`SUBSET A \ B` and `UNION A \cup B` are read in one way by TLC and in the other by
tlapm, so both are written with parentheses, for the proofs to be about what is run.

Only model-checked: liveness (`PlanningEnds`, `PressureIsRelieved`,
`CoverageSettles`, `CaptureEnds`, `RunEnds`), which is out of reach of the prover, and
what is about one instance: that the shipped texts and the shipped catalog obey their
rules (`TextsObeyTheRules`, `ShippedObeysTheRules`).

## Findings

1. `apply_consent`: selecting Debloat waives `-ConfirmDestructive` for other
   destructive modules (`Apply-Workstation.ps1:635`).
2. `memory_strangers`: the retry loop of the limiter lacks the creation-time
   test of the first attachment (`MemoryLimits.cs:158` against `:210`).
3. `state_unreported`: `Set-MalwareAnalysisToolsState.ps1 -Mode Test` exits 0 on
   a machine without the tools (line 131 against `docs/sample-outputs.md:324`).

A remark without a run: `docs/workstation-modules.md:176` says a skipped dependency is
treated as satisfied; `Apply-Workstation.ps1:194` makes the plan fail.

## Plan

Modelled: planner, executor, guard, limiter, packet captures, resource scripts with
their guest deploys, the analyses in the container with their host and reader, the
comparison of cases, the feature commands with templates and gate. Proved: every safety
property a passing run checks. Worth adding, in this order:

1. Two feature commands at once, which the scripts do nothing against
   (`create_new_feature.py:311`), and what holds then.
2. The development event-log sessions, beside the captures.
3. The staged replacement of trees with a roll back, as one module for the five scripts
   that do it.

## Not modelled

* The development event-log sessions and the debugger bridge beyond its state
  script: saved and restored state of channels and processes owned by a session, close to what
  `PacketCapture` shows for a harder driver.
* Staged replacement of trees with a roll back: research environment,
  relocation, native forensic tools, workstation update, the installer of the limiter.
* Image verification, and the governance relations of `FeatureGovernance.Core.ps1`: one
  pass over external tools or declarations, without state that outlives it.
* Export and import of cases, the sandbox backend, headless dumps: archives and
  virtual machines whose behaviour is that of external programs.
* Profilers and report formatting, cleanup scripts, declarative configuration
  (Nix, WinGet), interactive shell commands, tests and workflows hold little control
  of their own.
