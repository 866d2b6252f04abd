--------------------------- MODULE MCApplyCatalog --------------------------
(***************************************************************************)
(* The shipped catalog under the command lines a user types: the plan of   *)
(* every single module and of All with every -Skip... switch, and the full *)
(* run of the modules with consent switches or several calls.              *)
(***************************************************************************)
EXTENDS CatalogRules, WorkstationCatalog

MCStage == {0, 10, 20}
MCCatalogs == {Shipped}

Ask(mode, all, names, skip, plan) ==
  [mode |-> mode, all |-> all, names |-> names, skip |-> skip, plan |-> plan,
   json |-> FALSE, confirmRemoval |-> FALSE, confirmDestructive |-> FALSE]

PlanOne == {Ask("Ensure", FALSE, {m}, {}, TRUE) : m \in Modules}
PlanAll == {Ask(md, TRUE, {}, s, TRUE) :
              md \in Mode, s \in SkipSwitches \cup {{}}}
Mixed == {Ask("Ensure", FALSE, {"Git"}, {"Firewall"}, FALSE)}

Removals == {{"Debloat"}, {"LegacyDockerCleanup"},
             {"Debloat", "LegacyDockerCleanup"}, {"Git"}}
RunRemovals ==
  {[Ask(md, FALSE, ns, {}, FALSE) EXCEPT
      !.json = j, !.confirmRemoval = r, !.confirmDestructive = d] :
     md \in Mode, ns \in Removals, j, r, d \in BOOLEAN}
RunSeveralCalls ==
  {Ask(md, FALSE, ns, {}, FALSE) :
     md \in Mode, ns \in {{"QuantResearchEnvironment"}, {"WindowsTerminal"}}}

MCRequests == PlanOne \cup PlanAll \cup Mixed \cup RunRemovals \cup RunSeveralCalls

\* Debloat and LegacyDockerCleanup remove, the others are large.
MCByNameOnly ==
  {"Autopsy", "SleuthKitCli", "NativeForensicTools", "Debloat",
   "QuantResearchEnvironment", "LegacyDockerCleanup"}

\* What the proof of CatalogIsSound asks of a catalog, of the shipped one.
ASSUME ShippedObeysTheRules == CatalogsObeyTheRules
=============================================================================
