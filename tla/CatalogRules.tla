--------------------------- MODULE CatalogRules ----------------------------
(***************************************************************************)
(* What a catalog promises whoever uses it, and rules on its declarations, *)
(* read off the file alone, under which the planner keeps these promises.  *)
(* That the rules suffice is proved in ApplyWorkstation_proofs; that the   *)
(* shipped catalog obeys them is evaluated by TLC in MCApplyCatalog.       *)
(***************************************************************************)
EXTENDS ApplyWorkstation

CONSTANT ByNameOnly   \* modules that come in by name and never with All

\* docs/workstation-modules.md:142: All never brings in the removing modules or
\* the large opt-in ones, not even through the closure over dependencies.
AllLeavesOptInsOut ==
  request.all /\ request.names = {} => included \cap ByNameOnly = {}

\* Every module of the catalog can be planned, alone, with others or with All:
\* the closure of what was asked for meets no refusal.
EveryModuleCanBePlanned ==
  /\ request.plan /\ request.mode = "Ensure" /\ request.skip = {}
  /\ ~request.confirmRemoval /\ ~request.confirmDestructive
  => phase \notin Refusals

\* The catalog keeps both promises of its documentation: nothing large or
\* removing comes in with All, and nothing in it is out of reach.
CatalogIsSound == AllLeavesOptInsOut /\ EveryModuleCanBePlanned

---------------------------------------------------------------------------
\* What comes in by name only is no default, and nothing else needs it.
StaysOut(c) ==
  /\ c.default \cap ByNameOnly = {}
  /\ \A m \in c.modules \ ByNameOnly : Needs(c, m) \cap ByNameOnly = {}

\* The modules that n passes over the catalog can put in order, where each pass
\* takes the modules all of whose dependencies an earlier one has taken.
Placed(c, n) ==
  LET placed[k \in 0..n] ==
        IF k = 0 THEN {}
        ELSE LET earlier == placed[k - 1]
             IN  {m \in c.modules : c.deps[m] \subseteq earlier}
  IN placed[n]

\* The declarations pass validation, every module can be ensured, and no module
\* waits for itself.
Reachable(c) ==
  /\ ValidCatalog(c)
  /\ \A m \in c.modules : "Ensure" \in c.modes[m]
  /\ \E n \in 0..Cardinality(c.modules) : Placed(c, n) = c.modules

CatalogsObeyTheRules == \A c \in Catalogs : StaysOut(c) /\ Reachable(c)
=============================================================================
