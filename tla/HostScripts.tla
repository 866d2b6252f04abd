---------------------------- MODULE HostScripts -----------------------------
(***************************************************************************)
(* The scripts that set Windows itself: memory, sudo, Defender, policies.  *)
(***************************************************************************)
EXTENDS StateSteps

\* .wslconfig
WslMemory ==
  Keeping({<<"UserConfig", "ConfigCopy">>}, Apart({{"Policy", "UserConfig"}},
    Script({"Policy"}, {},
      << Look, Report({"Policy"}), Rest({"Policy"}),
         Given({"UserConfig"}, Write({"ConfigCopy"})),
         Breaking({"UserConfig"}, Write({"Policy"})) >>)))

Sudo ==
  Script({"Inline"}, {"sudo.exe"},
    << Look, Report({"Inline"}), Rest({"Inline"}),
       Need({"sudo.exe"}), Tool({"Inline"}) >>)

Pagefile ==
  LET goal == {"NotAutomatic", "Sizes"} IN
  Script(goal, {"Administrator"},
    << Admin, Look, Report(goal), Rest(goal),
       Write({"NotAutomatic"}), Write({"Sizes"}) >>)

SaveZoneOff ==
  Script({"NotMarked"}, {},
    << Show, Write({"NotMarked"}), Look, Verify({"NotMarked"}) >>)

SaveZoneOn ==
  Apart({{"NotMarked", "Marked"}}, Script({"Marked"}, {},
    << Show, Breaking({"NotMarked"}, Write({"Marked"})),
       Look, Verify({"Marked"}) >>))

\* Ensure: the shell's reputation check on, at level Warn.
SmartScreen ==
  LET goal == {"Enabled", "Warn"} IN
  Script(goal, {"Administrator"},
    << Look, Report(goal), Admin, Rest(goal),
       Write({"Enabled"}), Write({"Warn"}), Look, Verify(goal) >>)

\* Two declared paths stand for the list.
DefenderExclusions ==
  LET paths == {"PathA", "PathB"}
      Remove(F) == In({"Reinitialize"}, Given(F, Breaking(F, Tool({})))) IN
  Script(paths \cup {"Preferences"}, {"Administrator", "PathsExist"},
    << Admin, Need({"PathsExist"}), Look, Report(paths \cup {"Preferences"}),
       Remove({"PathA"}), Remove({"PathB"}),
       Repair({"PathA"}, Tool({"PathA"})), Repair({"PathB"}, Tool({"PathB"})),
       Repair({"Preferences"}, Tool({"Preferences"})),
       Look, Verify(paths), Look, Verify({"Preferences"}) >>)

\* Tamper Protection blocks both directions; only Disable looks for it first.
DefenderOff ==
  LET goal == {"EngineOff", "CloudOff"} IN
  Script(goal, {"Administrator", "NotTampered"},
    << Show, Admin, Need({"NotTampered"}), Tool(goal), Look, Verify(goal) >>)

DefenderOn ==
  LET goal == {"EngineOn", "CloudOn"} IN
  Script(goal, {"Administrator"},
    << Show, Admin, Tool(goal), Look, Verify(goal) >>)

\* Reinitialize exports the complete policy before it changes anything; Ensure
\* does not. Neither sets a policy that is already as declared.
ExploitProtection ==
  Script({"Controls"}, {"CapturedPolicy", "Administrator"},
    << Need({"CapturedPolicy"}), In(Changing, Admin),
       Look, Report({"Controls"}),
       In({"Reinitialize"}, Write({"Snapshot"})),
       Done({"Controls"}), Tool({"Controls"}), Look, Verify({"Controls"}) >>)

\* A channel this Windows does not have is skipped, and counts as drift. The
\* exporter the task runs is copied in place and is not looked at.
EventLogs ==
  LET goal == {"AllChannels", "Channels", "Audit", "Logging", "Task"} IN
  Resting({<<"Channels", "AllChannels">>},
    Script(goal, {"Administrator", "AllChannels"},
      << Admin, Look, Report(goal), Rest(goal),
         Tool({"Channels"}), Tool({"Audit"}),
         Write({"Logging"}), Rewrite({"Exporter"}), Write({"Task"}), Look, Verify(goal) >>))

\* A font file of the declared name and another content is the user's.
TerminalFonts ==
  LET goal == {"Files", "Registry"} IN
  Keeping({<<"OtherFont", "FontCopy">>}, Apart({{"Files", "OtherFont"}},
    Script(goal, {},
      << Look, Report(goal), Rest(goal),
         Fetch, Sound,
         Given({"OtherFont"}, Write({"FontCopy"})),
         Breaking({"OtherFont", "Files"}, Write({"Files"})),
         Write({"Registry"}), Look, Verify(goal) >>)))

FocusFollowsMouse ==
  LET goal == {"Raise", "Delay", "Tracking"} IN
  Script(goal, {},
    << Look, Report(goal), Rest(goal), Write({"Raise"}), Write({"Delay"}),
       Write({"Tracking"}), Look, Verify(goal) >>)

\* Two features, B depends on A. A feature that waits for a restart is enough
\* for Ensure and not for Test.
WindowsFeatures ==
  LET goal == {"A", "B"}
      Enable(F) == Missing(F, Breaking({"Restarted"}, Write(F))) IN
  Resting({<<"B", "A">>}, Script(goal, {"Administrator"},
    << Admin, Look, Report(goal \cup {"Restarted"}),
       In({"Reinitialize"}, Write({"Snapshot"})),
       In(Changing, Enable({"A"})), In(Changing, Enable({"B"})),
       Look, Verify(goal) >>))

\* Ensure and Reinitialize are the same here. There is no second inspection.
RazerRgb ==
  LET goal == {"OpenRgb", "Helper", "HelperReceipt", "Startup",
               "StartupReceipt", "Files", "RunKey"}
      Built(exe, receipt, s) == In(Changing, Missing({exe, receipt}, s))
      Unpack(s) == In(Changing, Missing({"OpenRgb"}, s)) IN
  Resting({<<"ArchiveSound", "Archive">>}, Script(goal, {"ArchiveSound"},
    << Look, Report(goal),
       Built("Startup", "StartupReceipt", Tool({"Startup"})),
       Built("Startup", "StartupReceipt", Write({"StartupReceipt"})),
       Unpack(Missing({"Archive"}, Write({"Archive", "ArchiveSound"}))),
       Unpack(Need({"ArchiveSound"})), Unpack(Write({"OpenRgb"})),
       Built("Helper", "HelperReceipt", Tool({"Helper"})),
       Built("Helper", "HelperReceipt", Write({"HelperReceipt"})),
       Rewrite({"Files"}), Write({"RunKey"}), Tool({}) >>))

\* Every Ensure that finds drift exports the policy, removes the rules of the
\* group and makes them again. ExtraRule: a rule someone added to the group.
Firewall ==
  LET rules == {"Udp", "Interface", "External"}
      goal  == rules \cup {"Profiles", "NoExtraRule"} IN
  Keeping({<<"ExtraRule", "Backup">>}, Apart({{"ExtraRule", "NoExtraRule"}},
    Script(goal, {"Administrator"},
      << Look, Report(goal), In(Changing, Admin), Rest(goal),
         Tool({"Backup"}), Need({"Backup"}),
         Breaking(rules \cup {"ExtraRule"}, Write({"NoExtraRule"})),
         Write({"Profiles"}), Write({"Udp"}), Write({"Interface"}),
         Write({"External"}), Look, Verify(goal) >>)))

\* Enable, and Disable in its place: another policy may win within the 5 s.
FirewallSwitch ==
  Script({"Switched"}, {"Administrator"},
    << Show, Admin, Tool({"Switched"}), Look, Verify({"Switched"}) >>)

\* RemovalConfirmed: -ConfirmRemoval was given. NotProtected: no pattern of the
\* profile matches a protected package.
Debloat ==
  LET goal == {"Appx", "Provisioned", "Capabilities", "Features"} IN
  Script(goal, {"Administrator", "NotProtected", "RemovalConfirmed"},
    << Admin, Look, Need({"NotProtected"}), Report(goal), Done(goal),
       Need({"RemovalConfirmed"}), Write({"Snapshot"}),
       Missing({"Appx"}, Write({"Appx"})),
       Missing({"Provisioned"}, Write({"Provisioned"})),
       Missing({"Capabilities"}, Write({"Capabilities"})),
       Missing({"Features"}, Write({"Features"})), Look, Verify(goal) >>)

\* Only Reinitialize writes a snapshot first. The adapters to change are the
\* ones the first inspection found.
Hardening ==
  LET goal == {"Registry", "Features", "SmbClient", "SmbServer", "Netbios"} IN
  Script(goal, {"Administrator"},
    << Admin, Look, Report(goal), In({"Reinitialize"}, Write({"Snapshot"})),
       Write({"Registry"}), Write({"Features"}), Write({"SmbClient"}),
       Write({"SmbServer"}), Missing({"Netbios"}, Tool({"Netbios"})),
       Look, Verify(goal) >>)
=============================================================================
