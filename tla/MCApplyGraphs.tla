--------------------------- MODULE MCApplyGraphs ---------------------------
(***************************************************************************)
(* Every dependency graph on three modules in two stages, cycles, unknown  *)
(* names, late dependencies and same-stage gates included, run to the end  *)
(* with every outcome of every call.                                       *)
(***************************************************************************)
EXTENDS ApplyWorkstation, TLC

CONSTANTS a, b, c

MCName == {a, b, c}
MCStage == {0, 1}
MCRank == (a :> 1) @@ (b :> 2) @@ (c :> 3)

MCLinked ==
  {[modules |-> ms, runnable |-> MCName, stages |-> MCStage, stage |-> st, rank |-> MCRank,
    default |-> {a, b}, deps |-> dp, gate |-> (0 :> {}) @@ (1 :> g),
    modes |-> [m \in MCName |-> Mode], destructive |-> {}] :
     ms \in {{a, b}, MCName}, st \in [MCName -> MCStage],
     dp \in [MCName -> SUBSET MCName], g \in {{}, {a}, {c}}}

\* One module of an unknown runtime spoils the catalog, wanted or not.
MCCatalogs ==
  MCLinked \cup {[k EXCEPT !.runnable = MCName \ {c}] :
                    k \in {l \in MCLinked : \A m \in MCName : l.deps[m] = {}}}

Ask(all, names, skip) ==
  [mode |-> "Ensure", all |-> all, names |-> names, skip |-> skip,
   plan |-> FALSE, json |-> FALSE, confirmRemoval |-> FALSE,
   confirmDestructive |-> FALSE]

MCRequests ==
  {Ask(TRUE, {}, {}), Ask(FALSE, {c}, {}), Ask(TRUE, {c}, {}),
   Ask(TRUE, {}, {a}), Ask(FALSE, {b}, {a})}

MCSteps == (a :> 1) @@ (b :> 2) @@ (c :> 1)
=============================================================================
