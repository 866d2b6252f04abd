-------------------------- MODULE WorkbenchScripts --------------------------
(***************************************************************************)
(* The scripts that set up terminals, editors, package managers and the    *)
(* programs a developer works in.                                          *)
(***************************************************************************)
EXTENDS StateSteps

\* A bucket whose clone was cut off has no origin: from then on it counts as
\* another repository's, and is not replaced. Shown for Extras.
Scoop ==
  LET goal == {"Command", "Git", "Policy", "OfficialRepo", "Main", "Extras"} IN
  Resting({<<"Extras", "NoOtherExtras">>},
    Script(goal, {"Git", "OfficialRepo", "NoOtherExtras"},
      << Look, Report(goal), Verify({"Git"}),
         Given({"Command"}, Verify({"OfficialRepo"})),
         Missing({"Policy"}, Write({"Policy"})),
         Missing({"Command"}, Tool({"Command", "Main"})),
         Need({"Command"}), Look, Verify({"OfficialRepo"}),
         Missing({"Main"}, Tool({"Main"})),
         Missing({"Extras"}, Need({"NoOtherExtras"})),
         Missing({"Extras"}, Breaking({"NoOtherExtras"},
           Tool({"NoOtherExtras", "Extras"}))),
         Look, Verify(goal) >>))

\* pyinfra, called when there is no CLI: the tap, the CLI of it, and a line in
\* the user's .bashrc that nothing inspects.
DaggerDeploy ==
  << Repair({"DaggerCli"}, Tool({"Tap"})),
     Repair({"DaggerCli"}, Tool({"DaggerCli", "DaggerEngine"})),
     Repair({"DaggerCli"}, Write({"ShellLine"})) >>

\* CodeQL stands for TTD too, Semgrep for rsync. An archive of the right name
\* is resumed and never replaced. The engine is not looked at before pyinfra,
\* and the packs, whose marker is written last, are not in the inspection.
DeveloperTools ==
  LET tools == {"CodeQL", "Semgrep", "DaggerCli", "DaggerEngine"}
      goal  == tools \cup {"Packs", "Tags"} IN
  Resting({<<"ArchiveSound", "Archive">>, <<"DaggerEngine", "DaggerCli">>},
    Script(goal, {"ArchiveSound", "DaggerEngine"},
      << Look, Report(goal),
         Missing({"CodeQL"}, Missing({"Archive"},
           Tool({"Archive", "ArchiveSound"}))),
         Missing({"CodeQL"}, Need({"ArchiveSound"})),
         Missing({"CodeQL"}, Write({"CodeQL"})),
         Repair({"Semgrep"}, Tool({"Semgrep"})) >>
        \o DaggerDeploy \o
      << Repair({"Tags"}, Write({"Tags"})), Look, Verify(tools),
         Repair({"Packs"}, Tool({})), Repair({"Packs"}, Write({"Packs"})) >>))

\* LicenseAccepted: -AcceptLicense was given.
Positron ==
  LET goal == {"Installed", "X64", "OnPath"}
      Install(s) == In(Changing, Repair({"Installed"}, s)) IN
  Script(goal, {"X64", "LicenseAccepted"},
    << Look, Report(goal), Install(Verify({"X64"})),
       Install(Need({"LicenseAccepted"})), Install(Fetch), Install(Sound),
       Install(Breaking({"Installed"}, Tool({"Installed"}))),
       In(Changing, Look), Given({"Installed"}, Write({"OnPath"})),
       Look, Verify(goal) >>)

\* The verified tree replaces the old one by two moves.
Quarto ==
  LET goal == {"Quarto", "TinyTex", "TinyTexPrivate", "QuantBase",
               "QuartoPython", "OnPath"} IN
  Script(goal, {"QuantBase", "TinyTexPrivate"},
    << Look, Report(goal), Verify({"QuantBase"}),
       Repair({"Quarto"}, Fetch), Repair({"Quarto"}, Sound),
       Repair({"Quarto"}, Breaking({"Quarto"}, Write({"Quarto"}))),
       Write({"OnPath"}), Write({"QuartoPython"}), Look,
       Missing({"TinyTex"}, Tool({"TinyTex"})), Look, Verify(goal) >>)

\* The Berg theme is one of the extensions. The machine's PATH is cleaned by
\* -RepairMachinePath only. settings.json is copied and rewritten every time.
DeveloperEditor ==
  LET goal == {"StableCode", "Launchers", "MachinePathClean", "Extensions",
               "FontInstalled", "Settings"} IN
  Keeping({<<"UserSettings", "SettingsCopy">>},
    Resting({<<"Settings", "Parses">>, <<"Launchers", "StableCode">>},
      Script(goal, {"Parses", "MachinePathClean", "FontInstalled"},
        << Need({"Parses"}), Look, Report(goal),
           Tool({"StableCode"}), Need({"StableCode"}), Write({"Launchers"}),
           Missing({"Extensions"}, Tool({"Extensions"})),
           Need({"FontInstalled"}),
           Given({"UserSettings"}, Write({"SettingsCopy"})),
           Breaking({"UserSettings", "Settings", "Parses"},
                    Write({"Parses", "Settings"})),
           Look, Verify(goal) >>)))

\* No inspection follows the write.
WindowsTerminal ==
  Keeping({<<"UserSettings", "SettingsCopy">>},
    Resting({<<"Policy", "Parses">>},
      Script({"Policy"}, {"Parses"},
        << Need({"Parses"}), Look, Report({"Policy"}), Rest({"Policy"}),
           Given({"UserSettings"}, Write({"SettingsCopy"})),
           Breaking({"UserSettings", "Policy", "Parses"},
                    Write({"Parses", "Policy"})) >>)))

\* Config: the theme in tui.json and the plugin in opencode.json, edited alike.
\* A file in the user's layout is written again even when it is right.
OpenCodeExtensions ==
  LET goal == {"Themes", "Release", "Assets", "Config"} IN
  Keeping({<<"UserConfig", "ConfigCopy">>},
    Apart({{"UserConfig", "OwnLayout"}},
    Resting({<<"Config", "Parses">>, <<"Assets", "Release">>},
      Script(goal, {"Parses"},
        << Need({"Parses"}), Look, Report(goal),
           Missing({"Themes"}, Fetch), Missing({"Themes"}, Sound),
           Missing({"Themes"}, Write({"Themes"})),
           Repair({"Release"}, Fetch), Repair({"Release"}, Sound),
           Repair({"Release"}, Breaking({"Release"}, Write({"Release"}))),
           Write({"Assets"}),
           Given({"UserConfig"}, Write({"ConfigCopy"})),
           Missing({"Config", "OwnLayout"},
             Breaking({"UserConfig", "OwnLayout", "Config", "Parses"},
                      Write({"Parses", "Config", "OwnLayout"}))),
           Look, Verify(goal) >>))))

\* Only the MSI makes the shortcut, and a present MSI is not installed again.
\* Fetching it and checking its hash are part of the step that installs it.
ContourTerminal ==
  LET goal == {"NoScoopCopy", "Msi", "Config", "Shortcut",
               "NoLegacyShortcut", "Graphics"} IN
  Keeping({<<"LegacyShortcut", "ShortcutCopy">>, <<"UserConfig", "ConfigCopy">>},
    Apart({{"LegacyShortcut", "NoLegacyShortcut"}, {"UserConfig", "Config"}},
      Script(goal, {"Scoop", "Shortcut", "Graphics"},
        << Look, Report(goal),
           Missing({"NoScoopCopy"}, Need({"Scoop"})),
           Missing({"NoScoopCopy"}, Tool({"NoScoopCopy"})),
           Missing({"NoScoopCopy"}, Look), Verify({"NoScoopCopy"}),
           Given({"LegacyShortcut"}, Write({"ShortcutCopy"})),
           Breaking({"LegacyShortcut"}, Write({"NoLegacyShortcut"})),
           In({"Reinitialize"}, Given({"Msi"},
             Breaking({"Msi", "Shortcut"}, Tool({})))),
           In({"Reinitialize"}, Look),
           Missing({"Msi"}, Tool({"Msi", "Shortcut"})),
           Missing({"Config"}, Given({"UserConfig"}, Write({"ConfigCopy"}))),
           Missing({"Config"}, Breaking({"UserConfig"}, Rewrite({"Config"}))),
           Look, Verify(goal) >>)))

\* The four kinds of product of Set-AiToolsState.ps1, each of one product.
AiOpenCodeDesktop ==
  LET goal == {"Payload", "Shortcut", "NoScoopCopy"} IN
  Script(goal, {"Scoop"},
    << Look, Report(goal),
       Missing(goal, Missing({"Download"}, Fetch)), Missing(goal, Sound),
       Missing({"Payload"}, Breaking({"Payload"}, Write({"Payload"}))),
       Missing(goal, Write({"Shortcut"})),
       Missing({"NoScoopCopy"}, Need({"Scoop"})),
       Missing({"NoScoopCopy"}, Tool({"NoScoopCopy"})), Look, Verify(goal) >>)

\* The former npm package owns the command that the new one publishes.
AiOpenCodeCli ==
  LET goal == {"Package", "NoScoopCopy"} IN
  Script(goal, {"Scoop"},
    << Look, Report(goal),
       Repair(goal, Breaking({"Package"}, Tool({}))),
       Repair(goal, Tool({"Package"})),
       Missing({"NoScoopCopy"}, Need({"Scoop"})),
       Missing({"NoScoopCopy"}, Tool({"NoScoopCopy"})), Look, Verify(goal) >>)

AiClaude ==
  Script({"Native"}, {},
    << Look, Report({"Native"}),
       Missing({"Native"}, Missing({"NoWinGetCopy"}, Tool({"NoWinGetCopy"}))),
       Repair({"Native"}, Tool({"Native"})), Look, Verify({"Native"}) >>)

\* Cursor's installer makes the aliases that the script takes away.
AiCursor ==
  LET goal == {"Target", "NoAliases", "Shim"}
      Install == Breaking({"NoAliases"}, Tool({"Target"})) IN
  Script(goal, {},
    << Look, Report(goal), Missing({"Target"}, Install),
       In({"Reinitialize"}, Given(goal, Install)),
       Repair({"Target", "NoAliases"}, Write({"NoAliases"})),
       Repair(goal, Need({"Target"})), Repair(goal, Rewrite({"Shim"})),
       Look, Verify(goal) >>)
=============================================================================
