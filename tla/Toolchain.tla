------------------------------ MODULE Toolchain ------------------------------
(***************************************************************************)
(* The Node version manager (snpm-core/src/node, `snpm node ...') and the  *)
(* snpm-switch shim, which picks the snpm that a project asks for.  Both   *)
(* keep versions side by side: a version is downloaded into a directory    *)
(* <version>.tmp, marked complete there and renamed into place.  Commands  *)
(* run beside each other without a lock, and may be killed anywhere.       *)
(*                                                                         *)
(* A larger version is newer.  A selector is its kind and the versions it  *)
(* stands for; an alias is a file that is named like a selector.           *)
(***************************************************************************)
EXTENDS Naturals, FiniteSets, Sequences

CONSTANTS
    Process,      \* command lines that run beside each other
    Node,         \* versions of Node, as numbers
    Snpm,         \* versions of snpm, as numbers apart from those of Node
    Lts,          \* the versions of Node that are LTS releases
    Spec,         \* selectors that are not versions, such as 20 and lts/iron
    Typed,        \* the selectors that users type
    Named,        \* the names that users give to aliases
    Tree,         \* the directories from a project up to the root
    SystemNode,   \* the version of the node on PATH, or NONE
    Bundled,      \* whether an snpm lies beside the shim
    NONE,         \* no directory, no alias, no version
    MaxCommands,  \* bound on commands
    MaxFaults     \* bound on failures and kills

MAX_ALIAS_DEPTH == 8

Version == Node \cup Snpm
Exact(v) == [kind |-> "exact", of |-> {v}]
Selector == Spec \cup {Exact(v) : v \in Node}
Default == [kind |-> "name", of |-> {}]
AliasName == {s \in Selector \cup {Default} : s.kind # "range"}
Reference == [snpm : BOOLEAN, version : Snpm \cup {NONE}]
Parts == {"bin", "lib", "marker"}

\* Every set of versions has a newest one.
ASSUME ToolchainAssumption ==
    /\ Node \subseteq Nat /\ Snpm \subseteq Nat /\ Node \cap Snpm = {} /\ Snpm # {}
    /\ \A S \in ((SUBSET Node) \cup (SUBSET Snpm)) \ {{}} : \E v \in S : \A w \in S : w <= v
    /\ Lts \subseteq Node /\ NONE \notin Node \cup Snpm /\ \A S \in SUBSET Parts : S # NONE
    /\ NONE \notin Reference /\ NONE \notin [ignore : BOOLEAN, version : Snpm \cup {NONE}]
    /\ Spec \subseteq [kind : {"partial", "range", "lts", "latest", "name"}, of : SUBSET Node] \ {Default}
    /\ Typed \subseteq Selector /\ Named \subseteq AliasName
    /\ Tree \subseteq Seq([file : Selector \cup {NONE}, engines : Selector \cup {NONE},
                           manager : Reference \cup {NONE}])
    /\ MaxCommands \in Nat /\ MaxFaults \in Nat

VARIABLES
    dir,       \* dir[v]: the parts in the directory of v, or NONE
    tmp,       \* tmp[v]: the parts in <v>.tmp, or NONE
    alias,     \* alias[s]: the version in the alias file named s, or NONE
    current,   \* the version in the `current' file, or NONE
    index,     \* the cached release index, or NONE if absent or torn
    released,  \* the versions of Node that are published
    job,       \* job[p]: the command of p and how far it is
    spoiled,   \* versions that two commands staged, or that a kill left half removed
    cut,       \* versions whose `current' pointer was left behind by a kill or a race
    begun,     \* how many commands there were
    faults     \* how many failures and kills there were

vars == <<dir, tmp, alias, current, index, released, job, spoiled, cut, begun, faults>>
disk == <<dir, tmp, spoiled, cut>>
names == <<alias, current>>
dist == <<index, released>>
counts == <<begun, faults>>

Idle == [op |-> "none", pc |-> "idle", spec |-> Default, v |-> NONE, then |-> << >>,
         demand |-> TRUE, tree |-> << >>, name |-> NONE, shim |-> NONE, ran |-> NONE, stale |-> FALSE]

Newest(S) == CHOOSE v \in S : \A w \in S : w <= v
Set(f, k, x) == [f EXCEPT ![k] = x]

\* Some versions are installed, of which one may be in use.
Init ==
    \E have \in SUBSET Node, used \in Node \cup {NONE} :
        /\ used \in have \cup {NONE}
        /\ dir = [v \in Version |-> IF v \in have THEN Parts ELSE NONE]
        /\ tmp = [v \in Version |-> NONE]
        /\ alias = [s \in AliasName |-> IF s = Default THEN used ELSE NONE]
        /\ current = used
        /\ released = Lts \cup have
        /\ index = NONE
        /\ job = [p \in Process |-> Idle]
        /\ spoiled = {} /\ cut = {}
        /\ begun = 0 /\ faults = 0

Goto(p, pc) == job' = [job EXCEPT ![p].pc = pc]
At(p, pc) == job[p].pc = pc
Ended(p) == job[p].pc \in {"idle", "ran"}
End(p) == job' = [job EXCEPT ![p] = Idle]
Fault == faults < MaxFaults /\ faults' = faults + 1 /\ UNCHANGED begun

-----------------------------------------------------------------------------
(* What is installed, and which version a selector means                   *)

\* Mutated form of IsInstalled: a directory is enough.
IsInstalledByDirectory(v) == dir[v] # NONE

\* is_version_installed, and the first test of install_version and ensure_version
IsInstalled(v) == dir[v] # NONE /\ {"marker", "bin"} \subseteq dir[v]

\* list_installed_versions
InstalledVersions == {v \in Node : dir[v] # NONE /\ "marker" \in dir[v]}

ReadAlias(s) == IF s \in AliasName THEN alias[s] ELSE NONE

\* The chain of aliases that resolve_with_depth follows, one after the other.
Chain(s) ==
    LET hop[n \in 0..MAX_ALIAS_DEPTH] ==
            IF n = 0 THEN s
            ELSE IF ReadAlias(hop[n - 1]) = NONE THEN hop[n - 1]
            ELSE Exact(ReadAlias(hop[n - 1]))
    IN hop

\* match_remote: what a selector means in an index, or NONE
MatchRemote(s, releases) ==
    LET named == CASE s.kind = "latest" -> releases
                   [] s.kind = "lts" -> releases \cap s.of \cap Lts
                   [] s.kind = "name" -> {}
                   [] OTHER -> releases \cap s.of
    IN IF named = {} THEN NONE ELSE Newest(named)

\* Mutated form of MatchPinOffline: exact versions and aliases only.
MatchPinOfflineExact(s) ==
    IF s.kind = "exact" THEN LET v == CHOOSE v \in s.of : TRUE IN
                             IF IsInstalled(v) THEN v ELSE NONE
    ELSE IF ReadAlias(s) # NONE /\ IsInstalled(ReadAlias(s)) THEN ReadAlias(s)
    ELSE NONE

\* newest_installed_matching: `latest' parses as any version, `lts/...' does not parse
NewestInstalledMatching(s) ==
    LET fit == CASE s.kind = "latest" -> InstalledVersions
                 [] s.kind \in {"lts", "name"} -> {}
                 [] OTHER -> InstalledVersions \cap s.of
    IN IF fit = {} THEN NONE ELSE Newest(fit)

\* match_pin_offline: the version that a script of a pinned project gets, or NONE
MatchPinOffline(s) ==
    IF s.kind = "exact" THEN LET v == CHOOSE v \in s.of : TRUE IN
                             IF IsInstalled(v) THEN v ELSE NONE
    ELSE IF ReadAlias(s) # NONE /\ IsInstalled(ReadAlias(s)) THEN ReadAlias(s)
    ELSE NewestInstalledMatching(s)

\* discover_pinned: a pin file of any ancestor comes before engines.node of all
Discover(tree) ==
    LET first(f) == LET at == {i \in DOMAIN tree : tree[i][f] # NONE} IN
                    IF at = {} THEN NONE ELSE tree[CHOOSE i \in at : \A j \in at : i <= j][f]
    IN IF first("file") # NONE THEN [spec |-> first("file"), engines |-> FALSE]
       ELSE IF first("engines") # NONE THEN [spec |-> first("engines"), engines |-> TRUE]
       ELSE NONE

\* resolve_default
ResolveDefault ==
    IF current # NONE /\ IsInstalled(current) THEN current
    ELSE IF alias[Default] # NONE /\ IsInstalled(alias[Default]) THEN alias[Default]
    ELSE NONE

\* active_for_project_offline
ActiveOffline(tree) ==
    IF Discover(tree) # NONE THEN MatchPinOffline(Discover(tree).spec) ELSE ResolveDefault

-----------------------------------------------------------------------------
(* Commands begin                                                          *)

Begin(p, command) ==
    /\ Ended(p) /\ begun < MaxCommands /\ begun' = begun + 1
    /\ job' = [job EXCEPT ![p] = command]
    /\ UNCHANGED <<disk, names, dist, faults>>

Resolving(op, s, then) == [Idle EXCEPT !.op = op, !.pc = "resolve", !.spec = s, !.then = then]

\* snpm node install
InstallCommand(p) ==
    \E s \in Typed, default \in BOOLEAN :
        Begin(p, Resolving("install", s, IF default THEN <<"default", "current">> ELSE << >>))

\* snpm node use: without a version the pin of the directory, then the default alias
UseCommand(p) ==
    \E s \in Typed \cup {NONE}, tree \in Tree, install, default \in BOOLEAN :
        LET picked == IF s # NONE THEN s
                      ELSE IF Discover(tree) # NONE THEN Discover(tree).spec
                      ELSE IF alias[Default] # NONE THEN Exact(alias[Default]) ELSE NONE
        IN /\ picked # NONE
           /\ Begin(p, [Resolving("use", picked, IF default THEN <<"current", "default">> ELSE <<"current">>)
                           EXCEPT !.demand = install])

\* snpm node default
DefaultCommand(p) ==
    \E s \in Typed, activate \in BOOLEAN :
        Begin(p, Resolving("install", s, IF activate THEN <<"default", "current">> ELSE <<"default">>))

\* snpm node alias: an exact target is taken as it is, without its own aliases
AliasCommand(p) ==
    \E name \in Named, s \in Typed :
        Begin(p, [Resolving("alias", s, <<"alias">>) EXCEPT
                      !.name = name,
                      !.v = IF s.kind = "exact" THEN CHOOSE v \in s.of : TRUE ELSE NONE,
                      !.pc = IF s.kind = "exact" THEN "then" ELSE "resolve"])

\* What the running commands know of aliases and versions is out of date.
Outdate(f) == [p \in Process |-> [f[p] EXCEPT !.stale = f[p].pc # "idle"]]

\* snpm node unalias
UnaliasCommand(p) ==
    \E name \in Named :
        /\ Ended(p) /\ begun < MaxCommands /\ begun' = begun + 1
        /\ alias[name] # NONE
        /\ alias' = Set(alias, name, NONE)
        /\ job' = Outdate(Set(job, p, Idle))
        /\ UNCHANGED <<disk, current, dist, faults>>

\* snpm node uninstall: an exact version, or the newest one installed that fits
UninstallCommand(p) ==
    \E s \in Typed :
        LET fit == IF s.kind = "exact" THEN s.of
                   ELSE IF s.kind = "partial" THEN InstalledVersions \cap s.of ELSE {}
        IN /\ fit # {}
           /\ Begin(p, [Idle EXCEPT !.op = "uninstall", !.pc = "remove", !.v = Newest(fit)])

\* system_node_satisfies
SystemNodeSatisfies(s) ==
    s.kind \notin {"lts", "name"} /\ SystemNode # NONE /\ SystemNode \in s.of

\* A script of a project: prepare_node_for_project.
RunCommand(p) ==
    \E tree \in Tree, install \in BOOLEAN :
        LET pin == Discover(tree)
            run == [Idle EXCEPT !.op = "run", !.tree = tree]
        IN Begin(p,
             IF \/ pin = NONE
                \/ MatchPinOffline(pin.spec) # NONE
                \/ pin.engines /\ SystemNodeSatisfies(pin.spec)
             THEN [run EXCEPT !.pc = "spawn"]
             ELSE [run EXCEPT !.pc = "resolve", !.spec = pin.spec, !.demand = install, !.then = <<"spawn">>])

-----------------------------------------------------------------------------
(* resolve_spec and the release index                                      *)

\* The cache counts for INDEX_TTL, and for longer if the network fails.
FetchIndex(releases) ==
    \/ index # NONE /\ releases = index /\ UNCHANGED <<index, counts>>
    \/ releases = released /\ index' = released /\ UNCHANGED counts
    \/ index = NONE /\ Fault /\ releases = {} /\ UNCHANGED index

\* resolve_spec; for `use' and scripts what is missing must be wanted
Resolve(p) ==
    LET last == Chain(job[p].spec)[MAX_ALIAS_DEPTH]
        arrive(v) ==
            IF v = NONE \/ (job[p].op \in {"use", "run"} /\ ~job[p].demand /\ ~IsInstalled(v))
            THEN End(p)
            ELSE job' = [job EXCEPT ![p].v = v, ![p].pc = IF job[p].op = "alias" THEN "then" ELSE "stage"]
    IN /\ At(p, "resolve")
       /\ UNCHANGED <<disk, names, released>>
       /\ IF ReadAlias(last) # NONE
          THEN End(p) /\ UNCHANGED <<index, counts>>
          ELSE IF last.kind = "exact"
          THEN arrive(CHOOSE v \in last.of : TRUE) /\ UNCHANGED <<index, counts>>
          ELSE \E releases \in SUBSET Node :
                   FetchIndex(releases) /\ arrive(MatchRemote(last, releases))

\* A new version of Node is published.
Publish ==
    /\ \E v \in Node \ released : released' = released \cup {v}
    /\ UNCHANGED <<disk, names, index, job, counts>>

-----------------------------------------------------------------------------
(* install_version, and ensure_version of the shim                         *)

\* Mutated form of TmpOf: versions that differ after the last dot share it.
TmpOfSeries(v) == CHOOSE w \in Version : (w \in Node) = (v \in Node)

\* The temporary directory of a version.
TmpOf(v) == v

\* What is on disk counts, or the temporary directory is made anew.
Stage(p) ==
    LET v == job[p].v
        staging == {q \in Process : job[q].v = v /\ job[q].pc \in
                       {"download", "unpack", "unpacked", "mark", "replace", "rename"}}
    IN /\ At(p, "stage")
       /\ IF IsInstalled(v)
          THEN Goto(p, "then") /\ UNCHANGED <<tmp, spoiled>>
          ELSE /\ tmp' = Set(tmp, TmpOf(v), IF v \in Node THEN {} ELSE NONE)
               /\ spoiled' = IF staging # {} THEN spoiled \cup {v} ELSE spoiled
               /\ Goto(p, "download")
       /\ UNCHANGED <<dir, cut, names, dist, counts>>

\* download and the checksum: an archive that does not match is not unpacked
Download(p) ==
    /\ At(p, "download") /\ job[p].v \in Node
    /\ \/ Goto(p, "unpack") /\ UNCHANGED <<tmp, counts>>
       \/ Fault /\ End(p) /\ UNCHANGED tmp
       \/ Fault /\ End(p) /\ tmp' = Set(tmp, TmpOf(job[p].v), NONE)
    /\ UNCHANGED <<dir, spoiled, cut, names, dist>>

\* download_version, verify_checksum: the shim makes no directory before it has
\* an archive that matches
DownloadVersion(p) ==
    /\ At(p, "download") /\ job[p].v \in Snpm
    /\ \/ Goto(p, "unpack") /\ UNCHANGED counts
       \/ Fault /\ End(p)
    /\ UNCHANGED <<disk, names, dist>>

\* The files are written one after the other; missing directories are made.
Unpack(p) ==
    LET t == TmpOf(job[p].v)
        have == IF tmp[t] = NONE THEN {} ELSE tmp[t]
    IN /\ \/ At(p, "unpack") /\ tmp' = Set(tmp, t, have \cup {"bin"}) /\ Goto(p, "unpacked") /\ UNCHANGED counts
          \/ At(p, "unpacked") /\ tmp' = Set(tmp, t, have \cup {"lib"}) /\ Goto(p, "mark") /\ UNCHANGED counts
          \/ At(p, "unpacked") /\ Fault /\ End(p) /\ UNCHANGED tmp
       /\ UNCHANGED <<dir, spoiled, cut, names, dist>>

\* The archive must have held the binary; .snpm_complete is written.
Mark(p) ==
    LET t == TmpOf(job[p].v) IN
    /\ At(p, "mark")
    /\ IF tmp[t] # NONE /\ "bin" \in tmp[t]
       THEN tmp' = Set(tmp, t, tmp[t] \cup {"marker"}) /\ Goto(p, "replace")
       ELSE /\ End(p)
            /\ IF job[p].v \in Node THEN tmp' = Set(tmp, t, NONE) ELSE UNCHANGED tmp
    /\ UNCHANGED <<dir, spoiled, cut, names, dist, counts>>

\* What was at the place of the version is removed, to which others may have
\* resolved if a kill had left its marker.
Replace(p) ==
    /\ At(p, "replace")
    /\ dir' = Set(dir, job[p].v, NONE)
    /\ job' = [(IF job[p].v \in InstalledVersions THEN Outdate(job) ELSE job)
                   EXCEPT ![p] = [job[p] EXCEPT !.pc = "rename"]]
    /\ UNCHANGED <<tmp, spoiled, cut, names, dist, counts>>

\* A rename fails if its source is gone or its destination is back.
Rename(p) ==
    LET v == job[p].v
        t == TmpOf(v)
    IN /\ At(p, "rename")
       /\ IF tmp[t] = NONE \/ dir[v] # NONE THEN End(p) /\ UNCHANGED <<dir, tmp>>
          ELSE dir' = Set(dir, v, tmp[t]) /\ tmp' = Set(tmp, t, NONE) /\ Goto(p, "then")
       /\ UNCHANGED <<spoiled, cut, names, dist, counts>>

\* What a command does once its version is there, one file after the other.
Then(p) ==
    LET j == job[p] IN
    /\ At(p, "then")
    /\ IF j.then = << >> THEN End(p) /\ UNCHANGED <<names, cut>>
       ELSE /\ CASE Head(j.then) = "current" -> current' = j.v /\ UNCHANGED alias
                 [] Head(j.then) = "default" -> alias' = Set(alias, Default, j.v) /\ UNCHANGED current
                 [] Head(j.then) = "alias" -> alias' = Set(alias, j.name, j.v) /\ UNCHANGED current
                 [] OTHER -> UNCHANGED names
            /\ cut' = IF Head(j.then) = "current" /\ j.stale THEN cut \cup {j.v} ELSE cut
            /\ job' = IF Head(j.then) = "alias" THEN Outdate(Set(job, p, [j EXCEPT !.then = Tail(j.then)]))
                      ELSE [job EXCEPT ![p].then = Tail(j.then),
                                       ![p].pc = IF Head(j.then) \in {"spawn", "exec"} THEN Head(j.then) ELSE "then"]
    /\ UNCHANGED <<dir, tmp, spoiled, dist, counts>>

\* The PATH of the script is built: node_bin_dir_for_subprocess.
Spawn(p) ==
    /\ At(p, "spawn")
    /\ job' = [job EXCEPT ![p].pc = "ran", ![p].ran = ActiveOffline(job[p].tree)]
    /\ UNCHANGED <<disk, names, dist, counts>>

-----------------------------------------------------------------------------
(* uninstall_version                                                       *)

RemoveVersion(p) ==
    /\ At(p, "remove")
    /\ dir' = Set(dir, job[p].v, NONE)
    /\ job' = [Outdate(job) EXCEPT ![p].pc = "uncurrent"]
    /\ UNCHANGED <<tmp, spoiled, cut, names, dist, counts>>

\* Mutated form of ClearCurrent: the pointer stays.
ClearCurrentNot(p) ==
    /\ At(p, "uncurrent") /\ Goto(p, "unalias")
    /\ UNCHANGED <<disk, names, dist, counts>>

\* Mutated form of ClearCurrent: the file is emptied, not removed.
ClearCurrentEmpty(p) ==
    /\ At(p, "uncurrent") /\ current' = 0 /\ Goto(p, "unalias")
    /\ UNCHANGED <<disk, alias, dist, counts>>

\* clear_current, if the version was in use
ClearCurrent(p) ==
    /\ At(p, "uncurrent")
    /\ current' = IF current = job[p].v THEN NONE ELSE current
    /\ Goto(p, "unalias")
    /\ UNCHANGED <<disk, alias, dist, counts>>

\* clear_matching_aliases
ClearAliases(p) ==
    /\ At(p, "unalias")
    /\ IF \E s \in AliasName : alias[s] = job[p].v
       THEN /\ \E s \in AliasName : alias[s] = job[p].v /\ alias' = Set(alias, s, NONE)
            /\ job' = Outdate(job)
       ELSE End(p) /\ UNCHANGED alias
    /\ UNCHANGED <<disk, current, dist, counts>>

-----------------------------------------------------------------------------
(* snpm-switch                                                             *)

\* Mutated form of SelectReference: the project comes before the command line.
SelectReferenceProject(reference, options) ==
    IF reference # NONE /\ ~options.ignore THEN reference
    ELSE IF options.version # NONE THEN [snpm |-> TRUE, version |-> options.version] ELSE NONE

\* select_package_manager_reference
SelectReference(reference, options) ==
    IF options.version # NONE THEN [snpm |-> TRUE, version |-> options.version]
    ELSE IF options.ignore THEN NONE ELSE reference

\* find_package_manager_from: the nearest manifest with a usable field
FindPackageManager(tree) ==
    LET at == {i \in DOMAIN tree : tree[i].manager # NONE} IN
    IF at = {} THEN NONE ELSE tree[CHOOSE i \in at : \A j \in at : i <= j].manager

\* parse_switch_options: the two flags exclude each other
Options == [ignore : BOOLEAN, version : Snpm \cup {NONE}] \ [ignore : {TRUE}, version : Snpm]

\* The version of snpm that a reference asks for, or else.
VersionOr(chosen, other) == IF chosen # NONE /\ chosen.snpm THEN chosen.version ELSE other

\* run and resolve_binary: without a reference to snpm the bundled one runs, or
\* the latest; --version and --help do not look at the project
SwitchCommand(p) ==
    \E tree \in Tree, options \in Options, meta \in BOOLEAN :
        LET seen == [options EXCEPT !.ignore = options.ignore \/ meta]
            v == VersionOr(SelectReference(FindPackageManager(tree), seen),
                           IF Bundled THEN NONE ELSE Newest(Snpm))
        IN Begin(p, [Idle EXCEPT !.op = "switch", !.tree = tree, !.shim = seen, !.v = v, !.then = <<"exec">>,
                                 !.pc = IF v # NONE THEN "stage" ELSE "exec"])

\* snpm switch cache: as many versions as are given, or the one of the project
CacheCommand(p) ==
    \E tree \in Tree, options \in Options :
        LET v == VersionOr(SelectReference(FindPackageManager(tree), options), Newest(Snpm))
        IN Begin(p, [Idle EXCEPT !.op = "switch", !.v = v, !.pc = IF v # NONE THEN "stage" ELSE "then"])

HasBinary(v) == IF dir[v] = NONE THEN FALSE ELSE "bin" \in dir[v]

\* The snpm that was chosen is started, if it is there; NONE is a binary that is
\* bundled with the shim or that the project names by its path.
Exec(p) ==
    LET v == job[p].v IN
    /\ At(p, "exec")
    /\ \/ /\ v # NONE => HasBinary(v)
          /\ job' = [job EXCEPT ![p].pc = "ran", ![p].ran = v] /\ UNCHANGED counts
       \/ v = NONE /\ Fault /\ End(p)
       \/ v # NONE /\ ~HasBinary(v) /\ End(p) /\ UNCHANGED counts
    /\ UNCHANGED <<disk, names, dist>>

\* snpm switch clear
ClearCache(p) ==
    /\ Ended(p) /\ begun < MaxCommands /\ begun' = begun + 1
    /\ dir' = [v \in Version |-> IF v \in Snpm THEN NONE ELSE dir[v]]
    /\ tmp' = [v \in Version |-> IF v \in Snpm THEN NONE ELSE tmp[v]]
    /\ spoiled' = spoiled \cup {job[q].v : q \in {q \in Process : ~Ended(q) /\ job[q].v \in Snpm}}
    /\ job' = Outdate(Set(job, p, Idle))
    /\ UNCHANGED <<cut, names, dist, faults>>

-----------------------------------------------------------------------------
\* A command is killed.  What it writes in place is cut off: the index is torn,
\* and of a directory that is being removed any part may stay.
Kill(p) ==
    LET v == job[p].v IN
    /\ ~Ended(p) /\ Fault
    /\ \/ /\ End(p) /\ UNCHANGED <<dir, index, spoiled>>
          /\ cut' = IF At(p, "uncurrent") THEN cut \cup {v} ELSE cut
       \/ At(p, "resolve") /\ End(p) /\ index' = NONE /\ UNCHANGED <<dir, spoiled, cut>>
       \/ /\ job[p].pc \in {"remove", "replace"} /\ dir[v] # NONE
          /\ \E kept \in SUBSET dir[v] :
                /\ dir' = Set(dir, v, kept)
                /\ spoiled' = IF {"marker", "bin"} \subseteq kept THEN spoiled \cup {v} ELSE spoiled
          /\ cut' = cut \cup {v} /\ job' = Outdate(Set(job, p, Idle)) /\ UNCHANGED index
    /\ UNCHANGED <<tmp, names, released>>

Step(p) ==
    \/ Resolve(p) \/ Stage(p) \/ Download(p) \/ DownloadVersion(p) \/ Unpack(p) \/ Mark(p) \/ Replace(p)
    \/ Rename(p) \/ Then(p) \/ Spawn(p) \/ Exec(p)
    \/ RemoveVersion(p) \/ ClearCurrent(p) \/ ClearAliases(p)

Command(p) ==
    \/ InstallCommand(p) \/ UseCommand(p) \/ DefaultCommand(p) \/ AliasCommand(p)
    \/ UnaliasCommand(p) \/ UninstallCommand(p) \/ RunCommand(p)
    \/ SwitchCommand(p) \/ CacheCommand(p) \/ ClearCache(p)

\* Every command was given and ended.
AllDone ==
    /\ begun = MaxCommands /\ \A p \in Process : Ended(p)
    /\ UNCHANGED vars

Next == (\E p \in Process : Command(p) \/ Step(p) \/ Kill(p)) \/ Publish \/ AllDone

ToolchainSpec == Init /\ [][Next]_vars

-----------------------------------------------------------------------------
(* Properties                                                              *)

Job == [op : {"none", "install", "use", "alias", "uninstall", "run", "switch"},
        pc : {"idle", "resolve", "stage", "download", "unpack", "unpacked",
              "mark", "replace", "rename", "then", "spawn", "exec", "ran", "remove", "uncurrent", "unalias"},
        spec : Selector \cup {Default}, v : Version \cup {NONE},
        then : Seq({"current", "default", "alias", "spawn", "exec"}),
        demand : BOOLEAN, tree : Tree \cup {<< >>}, name : AliasName \cup {NONE},
        shim : [ignore : BOOLEAN, version : Snpm \cup {NONE}] \cup {NONE}, ran : Version \cup {NONE}, stale : BOOLEAN]

\* Directories hold parts of an archive, pointers hold versions of Node, and
\* every command is at one of its steps.
TypeOK ==
    /\ dir \in [Version -> (SUBSET Parts) \cup {NONE}] /\ tmp \in [Version -> (SUBSET Parts) \cup {NONE}]
    /\ alias \in [AliasName -> Node \cup {NONE}] /\ current \in Node \cup {NONE}
    /\ index \in (SUBSET Node) \cup {NONE} /\ released \subseteq Node
    /\ job \in [Process -> Job]
    /\ spoiled \subseteq Version /\ cut \subseteq Version
    /\ begun \in 0..MaxCommands /\ faults \in 0..MaxFaults

\* install_version and ensure_version: a version that counts as installed has all
\* its files, although commands are killed at any step and versions that differ
\* are staged at the same time.
InstalledWhole ==
    \A v \in Version \ spoiled : dir[v] # NONE /\ {"marker", "bin"} \subseteq dir[v] => dir[v] = Parts

\* install_version, ensure_version: whatever a killed command left behind, a
\* command that goes on with a version finds all of it, unless it was removed or
\* staged twice meanwhile.
GoesOnWhole ==
    \A p \in Process :
        At(p, "then") /\ job[p].op # "alias" /\ job[p].v # NONE /\ ~job[p].stale =>
            job[p].v \in spoiled \/ dir[job[p].v] = Parts

\* uninstall_version, `use', `default': the current pointer names a version that
\* is installed, unless an uninstall is on its way to clear it, was killed, or ran
\* beside the command that set it.
CurrentHolds ==
    \/ current = NONE \/ IsInstalled(current) \/ current \in cut \cup spoiled
    \/ \E p \in Process : At(p, "uncurrent") /\ job[p].v = current

\* The pin of a script that runs, and whether an alias stands before a version.
PinOf(p) == Discover(job[p].tree)
Shadowed(s) ==
    \/ s.kind = "exact" /\ alias[s] # NONE
    \/ ReadAlias(s) # NONE /\ alias[Exact(ReadAlias(s))] # NONE
PinnedRun(p) == At(p, "ran") /\ job[p].op = "run" /\ ~job[p].stale /\ PinOf(p) # NONE

\* prepare_node_for_project, node_bin_dir_for_subprocess: the script of a pinned
\* project runs on a Node that its pin admits; only a range in engines.node may
\* leave it to the Node of the system, which the range then admits.  LTS
\* selectors, versions that are also names of aliases, and versions that were
\* staged twice at a time are left out.
PinRuns ==
    \A p \in Process :
        LET s == PinOf(p).spec IN
        PinnedRun(p) /\ s.kind # "lts" /\ ~Shadowed(s) /\ spoiled = {} =>
            \/ job[p].ran \in s.of
            \/ job[p].ran # NONE /\ (s.kind = "latest" \/ job[p].ran = ReadAlias(s))
            \/ job[p].ran = NONE /\ PinOf(p).engines /\ SystemNode \in s.of

\* select_package_manager_reference, find_package_manager_from: the shim runs the
\* snpm of the command line, else that of the nearest manifest that names one.
ShimRuns ==
    \A p \in Process :
        At(p, "ran") /\ job[p].op = "switch" =>
            LET t == job[p].tree
                named == {i \in DOMAIN t : t[i].manager # NONE}
            IN /\ job[p].shim.version # NONE => job[p].ran = job[p].shim.version
               /\ job[p].shim.version = NONE /\ ~job[p].shim.ignore =>
                     \A i \in named : (\A j \in named : i <= j) /\ t[i].manager.snpm =>
                                         job[p].ran = t[i].manager.version

\* Versions are whole where it matters: those that count as installed, and those that a
\* command goes on with (is_version_installed, install_version, ensure_version).
VersionsWhole == TypeOK /\ InstalledWhole /\ GoesOnWhole

\* What runs is what was asked for: the Node of the pin and the snpm of the manifest
\* (prepare_node_for_project, select_package_manager_reference).
RightOneRuns == PinRuns /\ ShimRuns

=============================================================================
