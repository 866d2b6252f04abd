------------------------------ MODULE MCEarlyOom ------------------------------
(***************************************************************************)
(* Two applications of two sizes.  One unit of time is about five seconds  *)
(* of the shipped policy (sustain 3 s, cooldown 15 s, helper 10 s); the    *)
(* fifteen minutes between cleanups shrink to four units, still longer     *)
(* than the intervention cooldown.                                         *)
(***************************************************************************)
EXTENDS EarlyOom
===============================================================================
