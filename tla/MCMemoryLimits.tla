---------------------------- MODULE MCMemoryLimits ----------------------------
(***************************************************************************)
(* Process identifiers few enough to be reused and processes enough to     *)
(* reuse them.  Nothing tells identifiers apart, so the first process may  *)
(* be taken to start under the least of them.                              *)
(***************************************************************************)
EXTENDS MemoryLimits

FirstPidIsLeast ==
    clock = 0 /\ clock' = 1 => \A p, q \in Pid : proc'[p] # Gone => p <= q

\* Of the search for strangers: no pid changes hands within a scan, so that
\* what is found lies in the code alone.
NoTakeover == \A p \in Pid : Listed(p) /\ ~Live(p) => proc'[p] = Gone
===============================================================================
