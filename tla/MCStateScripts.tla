--------------------------- MODULE MCStateScripts ---------------------------
\* The scripts of the catalog, each alone on a machine.
EXTENDS ScriptRules, HostScripts, ToolScripts, WorkbenchScripts,
        LinuxScripts, ForensicScripts

Scripts ==
  [WslMemory |-> WslMemory, Sudo |-> Sudo, Pagefile |-> Pagefile,
   SaveZoneOff |-> SaveZoneOff, SaveZoneOn |-> SaveZoneOn,
   SmartScreen |-> SmartScreen, DefenderExclusions |-> DefenderExclusions,
   DefenderOff |-> DefenderOff, DefenderOn |-> DefenderOn,
   ExploitProtection |-> ExploitProtection, EventLogs |-> EventLogs,
   TerminalFonts |-> TerminalFonts,
   FocusFollowsMouse |-> FocusFollowsMouse,
   WindowsFeatures |-> WindowsFeatures, RazerRgb |-> RazerRgb,
   ProfilingTools |-> ProfilingTools, NativeTextTools |-> NativeTextTools,
   Go |-> Go, Java |-> Java, Mpv |-> Mpv,
   DeveloperDocker |-> DeveloperDocker,
   SharedSshConfig |-> SharedSshConfig, AudioSwitcher |-> AudioSwitcher,
   ProcessLasso |-> ProcessLasso, Caffeine |-> Caffeine,
   PoolMon |-> PoolMon, SublimeText |-> SublimeText, Pester |-> Pester,
   SkillOpt |-> SkillOpt, SpecDrivenDevelopment |-> SpecDrivenDevelopment,
   CMake |-> CMake, MsvcBuildTools |-> MsvcBuildTools,
   RustToolchain |-> RustToolchain, WinDbgMcp |-> WinDbgMcp,
   SleuthKit |-> SleuthKit, Autopsy |-> Autopsy,
   MalwareAnalysisTools |-> MalwareAnalysisTools,
   MalwareHashes |-> MalwareHashes,
   MalwareContainerImage |-> MalwareContainerImage,
   LinuxHomebrew |-> LinuxHomebrew, LinuxAutomation |-> LinuxAutomation,
   SafeChain |-> SafeChain, NixOsWsl |-> NixOsWsl,
   AiNixOsWsl |-> AiNixOsWsl, RootlessPodman |-> RootlessPodman,
   Firewall |-> Firewall, FirewallSwitch |-> FirewallSwitch,
   Debloat |-> Debloat, Hardening |-> Hardening, Scoop |-> Scoop,
   DeveloperTools |-> DeveloperTools, Positron |-> Positron,
   Quarto |-> Quarto, DeveloperEditor |-> DeveloperEditor,
   WindowsTerminal |-> WindowsTerminal,
   OpenCodeExtensions |-> OpenCodeExtensions,
   ContourTerminal |-> ContourTerminal,
   AiOpenCodeDesktop |-> AiOpenCodeDesktop,
   AiOpenCodeCli |-> AiOpenCodeCli, AiClaude |-> AiClaude,
   AiCursor |-> AiCursor]

\* The scripts without a second inspection.
TrustingScripts == {"Sudo", "RazerRgb", "NativeTextTools", "Go"}

UnreportingScripts == {"MalwareAnalysisTools"}

\* The scripts that copy or write their files on every run.
RewritingScripts ==
  {"RazerRgb", "NativeTextTools", "DeveloperEditor", "OpenCodeExtensions",
   "AiNixOsWsl"}
-----------------------------------------------------------------------------
\* The texts of the catalog obey the rules under which their runs are proved
\* to keep their promises, for any number of faults.
ASSUME TextsObeyTheRules == HonestTexts /\ GentleTexts /\ KeepingTexts /\ RepairTexts
=============================================================================
