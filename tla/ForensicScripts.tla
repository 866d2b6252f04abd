--------------------------- MODULE ForensicScripts ---------------------------
(***************************************************************************)
(* The scripts that install forensic and malware analysis tools, most of   *)
(* them from downloads whose hash is declared.                             *)
(***************************************************************************)
EXTENDS StateSteps

\* Reinitialize removes the tree before it downloads the next one.
SleuthKit ==
  LET goal == {"Tree", "OnPath"}
      Install(s) == In(Changing, Missing({"Tree"}, s)) IN
  Script(goal, {},
    << Look, Report(goal),
       In({"Reinitialize"}, Breaking({"Tree"}, Write({}))),
       In({"Reinitialize"}, Look),
       Install(Fetch), Install(Sound),
       Install(Breaking({"Tree"}, Write({"Tree"}))),
       Missing({"OnPath"}, Write({"OnPath"})), Look, Verify(goal) >>)

\* The installer runs when version, program or managed files are wrong; a
\* missing private command alone does not call it.
Autopsy ==
  LET goal == {"Msi", "PrivateTools", "CaseRoot", "CaseExcluded",
               "ProcessExcluded", "DefenderService"}
      Install(s) == In(Changing, Missing({"Msi"}, s)) IN
  Resting({<<"Msi", "Entry">>, <<"PrivateTools", "Entry">>,
           <<"CaseExcluded", "CaseRoot">>, <<"ProcessExcluded", "Msi">>},
    Script(goal, {"Administrator", "DefenderService", "PrivateTools"},
      << Admin, Look, Report(goal),
         In({"Reinitialize"}, Given({"Entry"}, Breaking({"Entry"}, Tool({})))),
         In({"Reinitialize"}, Look),
         Install(Fetch), Install(Sound),
         Install(Tool({"Entry", "Msi", "PrivateTools"})), Look,
         Missing({"CaseRoot"}, Write({"CaseRoot"})),
         Missing({"CaseExcluded"}, Tool({"CaseExcluded"})),
         Missing({"ProcessExcluded"}, Tool({"ProcessExcluded"})),
         Look, Verify(goal) >>))

\* WinGet's packages are copied into the tool root. An archive tool found
\* elsewhere on PATH counts as installed here and not in the inspection.
\* Test inspects and exits 0.
MalwareAnalysisTools ==
  LET goal == {"Packages", "Archives"}
      Ensured(s) == In({"Ensure"}, Given({"NotOnPath"}, Missing({"Archives"}, s)))
      Again(s)   == In({"Reinitialize"}, s) IN
  Script(goal, {"NotOnPath"},
    << In(Changing, Tool({"WinGet"})), In(Changing, Need({"WinGet"})),
       In(Changing, Write({"Packages"})), Look,
       Ensured(Fetch), Ensured(Sound), Ensured(Write({"Archives"})),
       Again(Fetch), Again(Sound), Again(Write({"Archives"})),
       Look, Verify(goal) >>)

\* A lost release is copied back from the command, without a download.
MalwareHashes ==
  LET goal == {"Release", "Command", "OnPath", "SmokeInput"}
      Ensured(s) == In({"Ensure"}, Missing({"Release"}, Missing({"Command"}, s)))
      Again(s)   == In({"Reinitialize"}, s)
      Place      == Rewrite({"Release"}) IN
  Script(goal, {"SmokeInput"},
    << Look, Report(goal),
       In({"Ensure"}, Missing({"Release"}, Given({"Command"}, Place))),
       Ensured(Fetch), Ensured(Sound), Ensured(Place),
       Again(Fetch), Again(Sound), Again(Place),
       Repair({"Command"}, Rewrite({"Command"})), Write({"OnPath"}),
       Look, Verify(goal) >>)

\* The image carries the hashes of the inputs it was built from.
MalwareContainerImage ==
  Script({"Image"}, {"BuildInputs", "Distribution"},
    << Need({"BuildInputs"}), Need({"Distribution"}), Look, Report({"Image"}),
       Repair({"Image"}, Tool({"Image"})), Look, Verify({"Image"}) >>)
=============================================================================
