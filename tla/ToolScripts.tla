---------------------------- MODULE ToolScripts -----------------------------
(***************************************************************************)
(* The scripts that install and configure Windows programs and toolchains. *)
(***************************************************************************)
EXTENDS StateSteps

\* winget configure, whatever was seen; then look and judge.
PackageOnly ==
  Script({"Package"}, {},
    << In(Changing, Tool({"Package"})), Look,
       Verify({"Package"}), Report({"Package"}) >>)

AudioSwitcher == PackageOnly

ProcessLasso == PackageOnly

Caffeine ==
  LET goal == {"Package", "RunKey", "StartupNotDisabled"}
      Settled(F) == In(Changing, Given({"Package"}, Write(F))) IN
  Resting({<<"RunKey", "Package">>}, Script(goal, {},
    << In(Changing, Tool({"Package"})), Look,
       Settled({"RunKey"}), Settled({"StartupNotDisabled"}),
       Look, Verify(goal), Report(goal) >>))

PoolMon ==
  Script({"Tags"}, {"poolmon.exe", "OfficialTags"},
    << Need({"poolmon.exe"}), Need({"OfficialTags"}),
       Look, Report({"Tags"}), Repair({"Tags"}, Write({"Tags"})) >>)

SublimeText ==
  LET goal == {"Installed", "OnPath"} IN
  Script(goal, {"Installed"},
    << Look, Verify({"Installed"}),
       In(Changing, Missing({"OnPath"}, Write({"OnPath"}))),
       In(Changing, Look), Verify(goal), Report(goal) >>)

\* Both PowerShells resolve the module from the shared tree.
Pester ==
  LET goal == {"Manifest", "Runtimes"} IN
  Script(goal, {"Runtimes", "Save-PSResource"},
    << Look, Report(goal),
       Missing(goal, Need({"Save-PSResource"})),
       Missing(goal, Tool({"Manifest"})),
       Look, Verify(goal) >>)

\* config.json is rewritten in place: cut off there, it no longer parses.
SkillOpt ==
  LET goal == {"Package", "Config"} IN
  Resting({<<"Config", "ConfigParses">>},
    Script(goal, {"uv.exe", "ConfigParses"},
      << Need({"uv.exe"}), Need({"ConfigParses"}), Look, Report(goal),
         Repair({"Package"}, Tool({"Package"})),
         Repair({"Config"},
                Breaking({"ConfigParses"}, Write({"ConfigParses", "Config"}))),
         Look, Verify(goal) >>))

\* The wheel is cached, downloaded again when its hash is not the declared one,
\* and checked before it is installed.
SpecDrivenDevelopment ==
  LET goal == {"Package", "SpecifyCli", "Command"} IN
  Script(goal, {"uv.exe"},
    << Need({"uv.exe"}), Look, Report(goal),
       Repair(goal, Missing({"Wheel"}, Tool({"Wheel"}))),
       Repair(goal, Need({"Wheel"})), Repair(goal, Tool(goal)),
       Look, Verify(goal) >>)

CMake ==
  LET goal == {"CMake", "Ninja", "Generator"} IN
  Script(goal, {},
    << Look, Report(goal), Tool({"CMake"}), Tool({"Ninja"}),
       Write({"Generator"}), Look, Verify(goal) >>)

MsvcBuildTools ==
  LET goal == {"BuildTools", "NoUserCC", "NoUserCXX"} IN
  Script(goal, {},
    << Look, Report(goal),
       Repair({"BuildTools"}, Tool({"BuildTools"})),
       Write({"NoUserCC"}), Write({"NoUserCXX"}), Look, Verify(goal) >>)

\* RUSTUP_TOOLCHAIN and CARGO_BUILD_TARGET are tested and never cleared.
RustToolchain ==
  LET goal == {"Rustup", "StableMsvc", "Homes", "OnPath", "NothingForced"} IN
  Resting({<<"StableMsvc", "Rustup">>}, Script(goal, {"NothingForced"},
    << Look, Report(goal),
       Repair({"Rustup"}, Tool({"Rustup"})),
       Write({"Homes"}), Write({"OnPath"}),
       Need({"Rustup"}), Tool({}), Tool({"StableMsvc"}),
       Look, Verify(goal) >>))

\* WinDbg keeps the feature in its settings file, which it writes when it ends.
WinDbgMcp ==
  LET goal == {"Version", "Proxy", "Feature"}
      Set(s) == In(Changing, Repair({"Feature"}, s)) IN
  Keeping({<<"Settings", "SettingsCopy">>},
    Resting({<<"Feature", "Settings">>},
      Script(goal, {"Version", "Proxy", "Settings", "WinDbgClosed"},
        << Look, Verify({"Version"}), Verify({"Proxy"}),
           Set(Need({"Settings"})), Set(Need({"WinDbgClosed"})),
           Set(Write({"SettingsCopy"})),
           Set(Breaking({"Settings"}, Write({"Settings", "Feature"}))),
           In(Changing, Look), Verify(goal), Report(goal) >>)))

\* The installer is downloaded only when no file has its name; a file with
\* another hash or signature stays, and stops every later run.
ProfilingTools ==
  LET goal == {"Wpt", "PySpy", "DotNetTrace", "Speedscope"}
      Wpt(s) == Missing({"Wpt"}, s) IN
  Resting({<<"InstallerSound", "Installer">>},
    Script(goal, {"UvAndDotNet", "Npm", "InstallerSound"},
      << Need({"UvAndDotNet"}), Look, Report(goal),
         Wpt(Missing({"Installer"}, Tool({"Installer", "InstallerSound"}))),
         Wpt(Need({"InstallerSound"})), Wpt(Tool({"Wpt"})),
         Repair({"PySpy"}, Tool({"PySpy"})),
         Missing({"DotNetTrace"}, Tool({"DotNetTrace"})),
         Repair({"Speedscope"}, Need({"Npm"})),
         Repair({"Speedscope"}, Tool({"Speedscope"})),
         Look, Verify(goal) >>))

\* The applets are copies of the package's binary. WinGet's verdict on the
\* package is not asked for again.
NativeTextTools ==
  LET goal == {"Package", "Applets"} IN
  Resting({<<"Applets", "Binary">>, <<"Package", "Binary">>}, Script(goal, {"OneBinary"},
    << Look,
       In(Changing, Missing({"Package"},
         Breaking({"Applets"}, Tool({"Package", "Binary"})))),
       Need({"OneBinary"}), Look, Report(goal), Verify({"Binary"}),
       Rewrite({"Applets"}), Look, Verify({"Applets"}) >>))

\* Package: WinGet's verdict, not asked for again. Recent: the go.exe of PATH
\* is new enough. Nothing clears a GOBIN or a GOROOT of the user's.
Go ==
  LET own  == {"Exe", "Recent", "GoPath", "OnPath", "Toolchain",
               "NothingForced"}
      goal == own \cup {"Package"} IN
  Resting({<<"Package", "Exe">>, <<"Recent", "Exe">>, <<"GoPath", "Exe">>},
    Script(goal, {"Recent", "NothingForced"},
      << Look, Report(goal),
         Repair({"Package"}, Tool({"Exe", "Recent", "Package"})),
         Need({"Exe"}), Repair({"GoPath"}, Write({"GoPath"})),
         Write({"OnPath"}), Tool({"Toolchain"}), Look, Verify(own) >>))

\* Another JDK that JAVA_HOME names is found first, and is written back.
Java ==
  LET goal == {"Jdk21", "NoOtherJdk", "JavaHome", "OnPath"}
      Install == Tool({"Jdk21"}) IN
  Resting({<<"JavaHome", "Jdk21">>, <<"JavaHome", "NoOtherJdk">>},
    Script(goal, {"NoOtherJdk"},
      << Look, Report(goal),
         In({"Ensure"}, Given({"NoOtherJdk"}, Missing({"Jdk21"}, Install))),
         In({"Reinitialize"}, Install),
         Given({"NoOtherJdk"}, Need({"Jdk21"})),
         Write({"JavaHome"}), Write({"OnPath"}), Look, Verify(goal) >>))

\* The default applications are the user's choice; the decoder is the GPU's. A
\* package WinGet lists is not installed again when its mpv.exe is missing.
Mpv ==
  LET goal == {"Package", "Exe", "Config", "Command", "Decoder",
               "Registration", "Defaults"} IN
  Keeping({<<"UserConfig", "ConfigCopy">>},
    Resting({<<"Exe", "Package">>, <<"Command", "Exe">>,
             <<"Registration", "Exe">>},
      Script(goal, {"Exe", "Decoder", "Defaults"},
        << Look, Report(goal),
           Repair({"Package"}, Tool({"Package", "Exe"})),
           Repair({"Config"}, Given({"UserConfig"}, Write({"ConfigCopy"}))),
           Repair({"Config"},
                  Breaking({"UserConfig", "Config"}, Write({"Config"}))),
           Need({"Exe"}), Repair({"Command"}, Rewrite({"Command"})),
           Missing({"Registration"}, Write({"Registration"})),
           Look, Verify(goal) >>)))
=============================================================================
