------------------------- MODULE MCEvidenceCompare --------------------------
(***************************************************************************)
(* Every comparison of two cases of a few contents each, wherever the      *)
(* comparison's directory lies.                                            *)
(***************************************************************************)
EXTENDS EvidenceCompare

Holding(summary, sandbox, snapshot, handles) ==
  [summary |-> summary, host |-> "valid", sandbox |-> sandbox, snapshot |-> snapshot,
   handles |-> handles]

MCContents ==
  {Holding("valid", "valid", "valid", "valid"),
   Holding("valid", "valid", "absent", "valid"),
   Holding("valid", "valid", "valid", "invalid"),
   Holding("loose", "valid", "absent", "absent"),
   Holding("valid", "invalid", "absent", "absent"),
   Holding("torn", "valid", "valid", "absent")}

MCPlaces == Cases \cup {"outside"}
=============================================================================
