---------------------------- MODULE LinuxScripts ----------------------------
(***************************************************************************)
(* The scripts that work inside WSL distributions.                         *)
(***************************************************************************)
EXTENDS StateSteps

\* DefaultUser: the distribution starts as the user config.json selects.
LinuxHomebrew ==
  Script({"Brew"}, {"DefaultUser"},
    << Look, Report({"Brew"}),
       Missing({"Brew"}, Tool({"Packages"})),
       Missing({"Brew"}, Need({"DefaultUser"})),
       Missing({"Brew"}, Tool({"Prefix"})),
       Missing({"Brew"}, Tool({"Brew"})),
       In({"Reinitialize"}, Tool({})),
       Look, Verify({"Brew"}) >>)

LinuxAutomation ==
  LET goal == {"Uv", "Pyinfra"} IN
  Script(goal, {"Homebrew"},
    << Look, Report(goal),
       Missing({"Uv"}, Need({"Homebrew"})), Missing({"Uv"}, Tool({"Uv"})),
       Repair({"Pyinfra"}, Tool({"Pyinfra"})),
       Look, Verify(goal) >>)

\* What pyinfra does, in its order, when the script calls it.  It reads
\* daemon.json when it starts: a file that is no JSON ends it.  Merging: the file
\* lacks the MTU, so the merged one is staged, validated with all the settings
\* that are not ours, and put in the place of the old after a copy of that was
\* made.  A daemon that was not restarted since keeps its old bridge, and the
\* script asks for the restart when it saw that.
DockerDeploy(goal) ==
  LET Run(s) == Repair(goal, s)
      Merging(s) == In(Changing, Missing({"Config"}, s)) IN
  << Run(Need({"Parses"})),
     Run(Tool({"Engine"})), Run(Tool({"Group"})),
     Merging(Write({"Candidate"})), Merging(Need({"OthersValid"})),
     Merging(Given({"OldConfig"}, Write({"OldCopy"}))),
     Merging(Breaking({"OldConfig", "Parses"}, Write({"Config", "Parses"}))),
     Merging(Breaking({"Candidate"}, Write({}))),
     Run(Tool({"Running"})),
     Repair({"Config", "DefaultBridge"}, Tool({"DefaultBridge"})),
     Run(Write({"Managed"})) >>

\* The restart ends the containers of others; the bridges of other projects are
\* theirs.
DeveloperDocker ==
  LET goal == {"Managed", "Engine", "Group", "Config", "Running", "DefaultBridge",
               "MtuFitsUplink", "CustomBridges"} IN
  Keeping({<<"OldConfig", "OldCopy">>}, Apart({{"OldConfig", "Config"}},
    Resting({<<"Running", "Engine">>, <<"DefaultBridge", "Running">>,
             <<"Config", "Parses">>, <<"OldConfig", "Parses">>},
      Script(goal, {"MtuFitsUplink", "CustomBridges", "Parses", "OthersValid"},
        << Look, Report(goal), Repair(goal, Verify({"MtuFitsUplink"})) >>
          \o DockerDeploy(goal) \o << Look, Verify(goal) >>))))

\* Two distributions stand for the list. A regular ~/.ssh/config is the user's
\* and is never replaced: there is no copy of it.
SharedSshConfig ==
  LET goal == {"WindowsConfig", "Mode600", "LinuxSsh", "LinkA", "LinkB"} IN
  Keeping({<<"RegularA", "NoCopy">>}, Apart({{"RegularA", "FreeA"}},
    Resting({<<"Mode600", "WindowsConfig">>, <<"LinkA", "FreeA">>,
             <<"LinkB", "FreeB">>},
      Script(goal, {"NotRestricted", "OpenSsh", "LinuxSsh", "FreeA", "FreeB"},
        << In({"Test"}, Need({"NotRestricted"})), Look, Report(goal),
           Missing({"WindowsConfig"}, Write({"WindowsConfig"})),
           Need({"OpenSsh"}), Tool({"Mode600"}), Need({"NotRestricted"}),
           Need({"FreeA"}), Breaking({"RegularA"}, Tool({"LinkA"})),
           Need({"LinuxSsh"}), Need({"FreeB"}), Tool({"LinkB"}),
           Need({"LinuxSsh"}), Look, Verify(goal) >>))))

\* The user's shells too take Safe-Chain's wrappers; Init stands for them and the
\* profiles. Unchanged: the script's note that Windows was in order. OtherBinary:
\* a file of another hash in its place; the one in Debian is moved away alike.
SafeChain ==
  LET goal == {"WinBinary", "WinInit", "LinBinary", "LinInit"} IN
  Keeping({<<"OtherBinary", "BinaryCopy">>}, Apart({{"OtherBinary", "WinBinary"}},
    Script(goal, {},
      << Look, Report(goal), In(Changing, Write({"Unchanged"})),
         Missing({"WinBinary"}, Given({"OtherBinary"},
           Move("OtherBinary", "BinaryCopy"))),
         Missing({"WinBinary"}, Fetch), Missing({"WinBinary"}, Sound),
         Missing({"WinBinary"},
           Breaking({"Unchanged"}, Tool({"WinBinary", "WinInit"}))),
         Look,
         Repair({"WinInit"}, Breaking({"Unchanged"}, Tool({"WinInit"}))),
         Look,
         Missing({"LinBinary"}, Fetch), Missing({"LinBinary"}, Sound),
         Missing({"LinBinary"}, Tool({"LinBinary", "LinInit"})),
         Given({"LinBinary"},
           Repair({"LinInit", "Unchanged"}, Tool({"LinInit"}))),
         Look, Verify(goal) >>)))

\* The sources are written over in place; the self-check compares them with
\* the generation that runs, so it fails until the new one is built and booted.
NixOsWsl ==
  LET goal == {"Distribution", "Sources", "SelfCheck"}
      Install(s) == In(Changing, Missing({"Distribution"}, s))
      Stream(s)  == In(Changing, s) IN
  Resting({<<"Sources", "Distribution">>, <<"SelfCheck", "Distribution">>},
    Script(goal, {"RepositorySources", "NotOther"},
      << Look, Report(goal), Need({"RepositorySources"}), Rest(goal),
         Install(Need({"NotOther"})),
         Install(Missing({"Download"}, Fetch)), Install(Sound),
         Install(Tool({"Distribution"})), Need({"Distribution"}),
         Stream(Missing({"Sources"},
           Breaking({"Sources", "SelfCheck"}, Tool({"Sources"})))),
         Stream(Given({"Sources"}, Breaking({"Sources"}, Tool({"Sources"})))),
         Tool({"SelfCheck"}), Look, Verify(goal) >>))

\* Every Ensure streams, builds and restarts. Test does not start a stopped
\* distribution.
AiNixOsWsl ==
  LET goal == {"Distribution", "Sources", "SelfCheck", "Running", "Nono"} IN
  Resting({<<f, "Distribution">> :
             f \in {"Sources", "SelfCheck", "Running", "Nono", "Brew"}},
    Script(goal, {"RepositorySources", "NotOther"},
      << Look, Report(goal), Need({"RepositorySources"}), Need({"NotOther"}),
         Missing({"Distribution"}, Tool({"Distribution"})),
         Missing({"Sources"},
           Breaking({"Sources", "SelfCheck"}, Tool({"Sources"}))),
         Given({"Sources"}, Breaking({"Sources"}, Tool({"Sources"}))),
         Breaking({"Running"}, Tool({"Running", "SelfCheck"})),
         Missing({"Brew"}, Tool({"Brew"})), Tool({"Nono"}),
         Look, Verify(goal) >>))

\* The packages, the subordinate ids, the service nobody may start, and podman
\* info, which makes the user's store and fails when it cannot.  A service that
\* could not be disabled is passed over.
PodmanDeploy ==
  << Tool({"Podman"}), Tool({"SubIds"}), Tool({"NoApi"}), Write({"Store"}) >>

\* The services, the packages, and the three files of the package source.
RetireDocker ==
  << Tool({"NoDockerService"}), Tool({"NoDocker"}),
     Write({"NoDockerSource"}) >>

\* The daily user is created only right after the distribution. Docker goes
\* when Podman has passed its gate, never before. Isolated: no sudo for the
\* user, no Docker Desktop.
RootlessPodman ==
  LET gate == {"Distribution", "User", "Dedicated", "Podman", "SubIds", "NoApi",
               "Store"}
      goal == gate \cup {"Boundary", "Isolated", "NoDockerService", "NoDocker",
                         "NoDockerSource"} IN
  Resting({<<f, "Distribution">> : f \in {"User", "Boundary", "Podman", "SubIds"}}
            \cup {<<"Store", "Podman">>, <<"Store", "SubIds">>},
    Script(goal, {"Dedicated", "Isolated", "User"},
      << Look, Report(goal),
         Missing({"Distribution"}, Tool({"Distribution"})),
         Missing({"Distribution"}, Tool({"User"})),
         Missing({"Boundary"}, Tool({"Boundary"})), Tool({}) >>
        \o PodmanDeploy \o << Look, Verify(gate) >>
        \o RetireDocker \o << Look, Verify(goal) >>))
=============================================================================
