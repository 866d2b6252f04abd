-------------------------- MODULE MCPacketCapture --------------------------
(* Two captures, one of which a user may start and stop again and again    *)
(* while a second user does the same.                                      *)
EXTENDS PacketCapture, TLC

\* Users are interchangeable.  Names are not: AtRest picks one of them.
UserSymmetry == Permutations(Users)
===========================================================================
