------------------------- MODULE WorkstationCatalog ------------------------
(***************************************************************************)
(* The catalog the repository ships, config/workstation-modules.psd1, and  *)
(* what the -Skip... switches of Apply-Workstation.ps1 stand for.          *)
(***************************************************************************)
EXTENDS Naturals, Sequences, TLC

\* All modules by (Order, Name).
Declared == <<
  "Sudo", "Git", "PowerShell7", "Go", "Packages", "PowerShellTesting", "Mpv",
  "NativeTextTools", "AudioSwitcher", "Caffeine", "ProcessLasso", "Scoop",
  "RazerRgb", "SublimeText", "TerminalFonts", "ContourTerminal",
  "WindowsTerminal", "WindowsFeatures", "Hardening", "ExploitProtection",
  "LinuxHomebrew", "LinuxAutomation", "AiNixOsWsl", "NixOsWsl",
  "SharedSshConfig", "DeveloperDocker", "RootlessPodman", "DeveloperTools",
  "AiTools", "DeveloperEditor", "OpenCodeExtensions", "SpecDrivenDevelopment",
  "MalwareHashes", "QuantResearchEnvironment", "ProfilingTools", "WinDbgMcp",
  "SleuthKitCli", "Autopsy", "NativeForensicTools", "MalwareAnalysisTools",
  "MalwareContainerImage", "LegacyDockerCleanup", "SkillOpt",
  "PowerShellProfile", "SafeChain", "FocusFollowsMouse", "DefenderExclusions",
  "SmartScreen", "WslMemory", "Pagefile", "EventLogs", "Firewall", "Debloat",
  "MsvcBuildTools", "CMake", "RustToolchain", "JavaToolchain",
  "NativeDevelopment" >>

Modules == {Declared[i] : i \in 1..Len(Declared)}

\* Stages Inbox, Core and Extended by their Order.
InboxModules == {"Sudo", "PowerShell7"}
CoreModules ==
  {"Git", "Go", "Packages", "PowerShellTesting", "Mpv", "NativeTextTools",
   "AudioSwitcher", "Caffeine", "ProcessLasso", "Scoop", "SublimeText",
   "TerminalFonts", "ContourTerminal", "WindowsTerminal", "PowerShellProfile"}

\* Default = $false
OptIn ==
  {"ProcessLasso", "RazerRgb", "SublimeText", "LinuxHomebrew",
   "LinuxAutomation", "AiNixOsWsl", "DeveloperDocker", "AiTools",
   "QuantResearchEnvironment", "WinDbgMcp", "SleuthKitCli", "Autopsy",
   "NativeForensicTools", "MalwareAnalysisTools", "MalwareContainerImage",
   "LegacyDockerCleanup", "Debloat", "MsvcBuildTools", "CMake",
   "RustToolchain", "JavaToolchain"}

\* Without Reinitialize in SupportedModes
NotReinitializable ==
  {"RazerRgb", "NativeForensicTools", "LegacyDockerCleanup", "Debloat"}

DependsOn(m) ==
  CASE m \in {"Packages", "PowerShellTesting", "RazerRgb", "TerminalFonts",
              "WindowsTerminal", "SleuthKitCli", "PowerShellProfile", "CMake",
              "JavaToolchain"} -> {"PowerShell7"}
    [] m \in {"WindowsFeatures", "Hardening", "ExploitProtection",
              "DefenderExclusions", "SmartScreen", "Pagefile", "EventLogs",
              "Firewall", "Debloat"} -> {"Sudo"}
    [] m \in {"LinuxHomebrew", "AiNixOsWsl", "NixOsWsl", "AiTools",
              "SpecDrivenDevelopment", "ProfilingTools", "WinDbgMcp",
              "SkillOpt"} -> {"Packages"}
    [] m = "Scoop" -> {"Git"}
    [] m = "ContourTerminal" -> {"Sudo", "PowerShell7", "TerminalFonts"}
    [] m = "LinuxAutomation" -> {"LinuxHomebrew"}
    [] m = "SharedSshConfig" -> {"NixOsWsl"}
    [] m = "DeveloperDocker" -> {"LinuxAutomation"}
    [] m = "DeveloperTools" -> {"DeveloperDocker", "Go"}
    [] m = "DeveloperEditor" -> {"PowerShell7", "TerminalFonts"}
    [] m = "QuantResearchEnvironment" -> {"Packages", "PowerShellProfile"}
    [] m = "Autopsy" ->
         {"Sudo", "PowerShell7", "PowerShellProfile", "SleuthKitCli"}
    [] m = "NativeForensicTools" -> {"PowerShell7", "PowerShellProfile"}
    [] m = "MalwareAnalysisTools" ->
         {"Packages", "WindowsFeatures", "ProfilingTools", "MalwareHashes",
          "JavaToolchain"}
    [] m \in {"MalwareContainerImage", "LegacyDockerCleanup"} ->
         {"RootlessPodman"}
    [] m = "SafeChain" -> {"PowerShellProfile"}
    [] m = "MsvcBuildTools" -> {"Sudo", "PowerShell7"}
    [] m = "RustToolchain" -> {"MsvcBuildTools", "PowerShell7"}
    [] m = "NativeDevelopment" ->
         {"MsvcBuildTools", "CMake", "RustToolchain", "JavaToolchain",
          "PowerShellProfile"}
    [] OTHER -> {}

Shipped ==
  [modules |-> Modules, runnable |-> Modules, stages |-> {0, 10, 20},
   stage |-> [m \in Modules |->
     IF m \in InboxModules THEN 0 ELSE IF m \in CoreModules THEN 10 ELSE 20],
   rank |-> [m \in Modules |-> CHOOSE i \in 1..Len(Declared) : Declared[i] = m],
   default |-> Modules \ OptIn,
   deps |-> [m \in Modules |-> DependsOn(m)],
   gate |-> (0 :> {}) @@ (10 :> {"PowerShell7"}) @@ (20 :> {"PowerShell7"}),
   modes |-> [m \in Modules |->
     IF m \in NotReinitializable THEN {"Test", "Ensure"}
     ELSE {"Test", "Ensure", "Reinitialize"}],
   destructive |-> {"LegacyDockerCleanup", "Debloat"}]

\* $excludedModules, one set per -Skip... switch.
SkipSwitches ==
  {{m} : m \in {"Packages", "WindowsFeatures", "Hardening",
                "ExploitProtection", "FocusFollowsMouse", "DeveloperTools",
                "SpecDrivenDevelopment", "ProfilingTools", "SkillOpt",
                "SafeChain", "Firewall", "DefenderExclusions", "SmartScreen",
                "EventLogs"}}
    \cup {{"NixOsWsl", "SharedSshConfig"}, {"WslMemory", "Pagefile"}}

\* Modules made of several checked calls, and the one that stops at the first
\* failed call outside Test mode.
CallsOf ==
  [m \in Modules |-> IF m = "QuantResearchEnvironment" THEN 3
                     ELSE IF m = "WindowsTerminal" THEN 2 ELSE 1]
ChainedModules == {"QuantResearchEnvironment"}
=============================================================================
