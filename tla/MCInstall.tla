----------------------------- MODULE MCInstall -----------------------------
(* Instances of Install for TLC.                                           *)
EXTENDS Install, TLC

CONSTANTS x, y

Cmd(cmd, names, spec) ==
    [NoCommand EXCEPT !.cmd = cmd, !.name = names, !.spec = spec]
InstallMode(mode) == [NoCommand EXCEPT !.mode = mode]
FrozenInstall == [NoCommand EXCEPT !.mode = "Frozen", !.strict = TRUE]
Ci == [FrozenInstall EXCEPT !.cmd = "ci"]

\* Crashes: install, install frozen and add, with y to be added.
CrashSpec == x :> Caret(1) @@ y :> NoSpec
CrashCommand ==
    {NoCommand, FrozenInstall, Cmd("add", {y}, Caret(1)),
     Cmd("remove", {y}, NoSpec), Ci}
CrashEdit == {Caret(2)}

\* Updates: all that moves versions.
UpdateCommand ==
    {NoCommand, InstallMode("Fix"),
     [InstallMode("No") EXCEPT !.force = TRUE],
     Cmd("upgrade", {x, y}, NoSpec), Cmd("latest", {x, y}, NoSpec),
     Cmd("refresh", {}, NoSpec)}

\* All of it; x is optional and may fail to resolve.
AllCommand == CrashCommand \cup UpdateCommand
AllSection == x :> "optionalDependencies" @@ y :> "none"

=============================================================================
