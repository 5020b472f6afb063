------------------------------ MODULE Install ------------------------------
(***************************************************************************)
(* One project and the snpm commands run in it, one after the other        *)
(* (snpm-core/src/operations/install/project_install and maintenance).     *)
(* Four records of what is installed are kept in different files and       *)
(* written at different moments of an install: the manifest, the lockfile, *)
(* the marker node_modules/.snpm-integrity and the install state.  The     *)
(* next command trusts them to decide how much of the work it may skip.    *)
(* A command may fail or be killed between any two of its steps.           *)
(*                                                                         *)
(* The direct dependencies are modelled, with the versions they resolve    *)
(* to; what lies below a direct dependency is abstracted to whether the    *)
(* resolved graph holds all of it (hollow).  A dependency is in one        *)
(* section of the manifest.  Versions are numbers and a caret range takes  *)
(* every version from its base.                                            *)
(***************************************************************************)
EXTENDS Naturals

CONSTANTS
    Name,        \* the packages that can be direct dependencies
    MaxVersion,  \* bound on the versions published of each
    Command,     \* the commands that are run, records of the set AnyCommand
    InitSpec,    \* InitSpec[n]: the spec of n in the first manifest
    InitSection, \* InitSection[n]: the section n is in
    EditSpec,    \* the specs a user may write into the manifest by hand
    MaxFaults    \* bound on failures, crashes and lost files

Version == 1 .. MaxVersion
Section == {"none", "dependencies", "devDependencies", "optionalDependencies"}

NoSpec == [kind |-> "none", base |-> 0]
Latest == [kind |-> "latest", base |-> 0]
Caret(v) == [kind |-> "caret", base |-> v]
Exact(v) == [kind |-> "exact", base |-> v]
Catalog(v) == [kind |-> "catalog", base |-> v]  \* "catalog:", standing for ^v
VersionSpec == {NoSpec, Latest}
            \cup [kind : {"caret", "exact", "catalog"}, base : Version]

Mode == {"Frozen", "Prefer", "No", "Fix"}
AnyCommand ==
    [cmd : {"install", "add", "remove", "upgrade", "latest", "refresh", "ci"},
     name : SUBSET Name,      \* the packages named on the command line
     spec : VersionSpec,            \* the spec given with them
     dev : BOOLEAN,           \* --save-dev
     mode : Mode, strict : BOOLEAN,
     includeDev : BOOLEAN, force : BOOLEAN]

ASSUME InstallAssumption ==
    /\ MaxVersion \in Nat \ {0}
    /\ Command \subseteq AnyCommand
    /\ InitSpec \in [Name -> VersionSpec]
    /\ InitSection \in [Name -> Section]
    /\ \A n \in Name : InitSection[n] = "none" <=> InitSpec[n] = NoSpec
    /\ EditSpec \subseteq VersionSpec \ {NoSpec}
    /\ MaxFaults \in Nat

VARIABLES
    published,  \* published[n]: the newest version of n in the registry
    manifest,   \* manifest[n]: its section and its spec
    lock,       \* snpm-lock.yaml
    state,      \* the install state file
    links,      \* links[n]: the version node_modules/n leads to, 0 if none
    marker,     \* node_modules/.snpm-integrity: the roots it was hashed from
    store,      \* the <<name, version>> the package store holds
    ran,        \* the <<name, version>> whose install scripts have run
    pc,         \* where the command in progress stands
    op,         \* the command, the graph it works with, and what it found
    faults      \* failures and crashes so far

vars == <<published, manifest, lock, state, links, marker, store, ran, pc,
          op, faults>>

\* A graph: the root dependencies, version 0 where there is none, and the
\* roots below which a package is missing from the graph
NoDep == [requested |-> NoSpec, version |-> 0]
Dep == [requested : VersionSpec, version : 0 .. MaxVersion]
Graph == [roots : [Name -> Dep], hollow : SUBSET Name]
EmptyGraph == [roots |-> [n \in Name |-> NoDep], hollow |-> {}]

NoLockDep == [requested |-> NoSpec, version |-> 0, optional |-> FALSE]
NoRoots == [n \in Name |-> NoLockDep]
NoLock == [kind |-> "absent", roots |-> NoRoots, hollow |-> {}]
TornLock == [kind |-> "torn", roots |-> NoRoots, hollow |-> {}]

NoRoot == [spec |-> NoSpec, optional |-> FALSE]
NoLayout == [n \in Name |-> [version |-> 0, section |-> "none"]]
NoState == [kind |-> "absent", current |-> FALSE, intact |-> FALSE,
            specs |-> [n \in Name |-> NoRoot], graph |-> EmptyGraph,
            layout |-> NoLayout]
NoMarker == [kind |-> "absent", roots |-> EmptyGraph.roots]

NoCommand == [cmd |-> "install", name |-> {}, spec |-> NoSpec, dev |-> FALSE,
              mode |-> "Prefer", strict |-> FALSE, includeDev |-> TRUE,
              force |-> FALSE]
Idle == [command |-> NoCommand, before |-> NoLock, scenario |-> "none",
         graph |-> EmptyGraph, hotState |-> FALSE, faulted |-> FALSE]

Init ==
    /\ published = [n \in Name |-> 1]
    /\ manifest = [n \in Name |->
                     [section |-> InitSection[n], spec |-> InitSpec[n]]]
    /\ lock = NoLock /\ state = NoState /\ marker = NoMarker
    /\ links = [n \in Name |-> 0]
    /\ store = {} /\ ran = {}
    /\ pc = "idle" /\ op = Idle
    /\ faults = 0

-----------------------------------------------------------------------------
(* Specs and ranges                                                        *)

\* apply_specs: a catalog reference becomes the range in the catalog.
ApplySpecs(man) ==
    [n \in Name |-> IF man[n].spec.kind = "catalog"
                    THEN [man[n] EXCEPT !.spec = Caret(man[n].spec.base)]
                    ELSE man[n]]

\* parse_range_set fails on a dist-tag, and the version must match.
Matches(spec, v) ==
    \/ spec.kind = "caret" /\ v >= spec.base
    \/ spec.kind = "exact" /\ v = spec.base

\* select_version: the newest version the spec admits, 0 if none
SelectVersion(n, spec) ==
    IF spec.kind = "exact"
    THEN IF spec.base <= published[n] THEN spec.base ELSE 0
    ELSE IF spec.base <= published[n] THEN published[n] ELSE 0

\* Mutant: the range starts after the version that is wanted.
RewriteSpecAfter(spec, wanted) == Caret(wanted + 1)

\* rewrite_spec_preserving_operator
RewriteSpec(spec, wanted) ==
    IF spec.kind = "exact" THEN Exact(wanted) ELSE Caret(wanted)

\* build_project_root_specs: required and optional in one function
BuildRootSpecs(man, includeDev) ==
    [n \in Name |->
        IF \/ man[n].section = "none"
           \/ man[n].section = "devDependencies" /\ ~includeDev
        THEN NoRoot
        ELSE [spec |-> man[n].spec,
              optional |-> man[n].section = "optionalDependencies"]]

\* collect_additions
Additions(c) ==
    [n \in Name |-> IF c.cmd = "add" /\ n \in c.name THEN c.spec ELSE NoSpec]
HasAdditions(c) == \E n \in Name : Additions(c)[n] # NoSpec

PlanSpecs(c) == BuildRootSpecs(ApplySpecs(manifest), c.includeDev)

\* merge_root_dependencies: what is asked for wins over the manifest.
RootDependencies(c) ==
    [n \in Name |-> IF Additions(c)[n] # NoSpec THEN Additions(c)[n]
                                                ELSE PlanSpecs(c)[n].spec]

-----------------------------------------------------------------------------
(* Lockfile, install state, layout                                         *)

\* lockfile::write: optional roots that did not resolve keep an entry.
LockOf(g, specs) ==
    [kind |-> "written",
     roots |-> [n \in Name |->
        IF g.roots[n].version # 0
        THEN [requested |-> g.roots[n].requested,
              version |-> g.roots[n].version, optional |-> specs[n].optional]
        ELSE IF specs[n].optional
        THEN [requested |-> specs[n].spec, version |-> 0, optional |-> TRUE]
        ELSE NoLockDep],
     hollow |-> g.hollow]

\* lockfile::to_graph
ToGraph(l) ==
    [roots |-> [n \in Name |->
        IF l.roots[n].version = 0 THEN NoDep
        ELSE [requested |-> l.roots[n].requested,
              version |-> l.roots[n].version]],
     hollow |-> l.hollow]

\* lockfile::root_specs_match
RootSpecsMatch(l, specs) ==
    \A n \in Name :
        /\ specs[n] = NoRoot <=> l.roots[n].requested = NoSpec
        /\ specs[n] # NoRoot =>
              /\ l.roots[n].requested = specs[n].spec
              /\ ~specs[n].optional =>
                    l.roots[n].version # 0 /\ ~l.roots[n].optional

\* filter_root_dependencies
LinkWanted(man, g, includeDev, n) ==
    /\ g.roots[n].version # 0
    /\ man[n].section # "none"
    /\ man[n].section = "devDependencies" => includeDev

\* build_project_layout_hash: the packages of the graph, and the section
\* through which a root is linked
LayoutHash(man, g, includeDev) ==
    [n \in Name |->
        [version |-> g.roots[n].version,
         section |-> IF LinkWanted(man, g, includeDev, n)
                     THEN man[n].section ELSE "none"]]

\* check_project_layout_from_install_state: it does not ask whether the
\* state belongs to the present lockfile.
LayoutValid(g) ==
    /\ state.kind = "written" /\ state.intact
    /\ state.layout = LayoutHash(manifest, g, TRUE)

\* compute_lockfile_hash, over the roots and the packages but no edges
CheckIntegrity(g) == marker.kind = "written" /\ marker.roots = g.roots

PackageIds(g) == {<<n, g.roots[n].version>> :
                     n \in {m \in Name : g.roots[m].version # 0}}

\* The state of node_modules that the install state captured is gone.
Touched == [state EXCEPT !.intact = FALSE]
-----------------------------------------------------------------------------
(* What the command decides                                                *)

\* Mutant: the lockfile is read and not compared with the manifest.
FrozenRefusesUnread(c) ==
    /\ c.mode = "Frozen"
    /\ c.strict \/ lock.kind # "absent"
    /\ HasAdditions(c) \/ lock.kind # "written"

\* Mutant: a lockfile that cannot be read is an error in every mode.
FrozenRefusesTorn(c) ==
    \/ lock.kind = "torn"
    \/ /\ c.mode = "Frozen"
       /\ c.strict \/ lock.kind # "absent"
       /\ \/ HasAdditions(c)
          \/ lock.kind # "written"
          \/ ~RootSpecsMatch(lock, PlanSpecs(c))

\* validate_frozen_lockfile
FrozenRefuses(c) ==
    /\ c.mode = "Frozen"
    /\ c.strict \/ lock.kind # "absent"
    /\ \/ HasAdditions(c)
       \/ lock.kind # "written"
       \/ ~RootSpecsMatch(lock, PlanSpecs(c))

ColdWith(g) == [scenario |-> "Cold", graph |-> g, hotState |-> FALSE]

\* Mutant: the marker alone allows the early exit.
DetectByMarker(c, g, layoutValid, fromState) ==
    IF ~c.force /\ CheckIntegrity(g)
    THEN [scenario |-> "Hot", graph |-> g, hotState |-> fromState]
    ELSE [scenario |-> IF PackageIds(g) \subseteq store THEN "WarmLinkOnly"
                                                     ELSE "WarmPartialCache",
          graph |-> g, hotState |-> FALSE]

\* detect_from_graph
DetectFromGraph(c, g, layoutValid, fromState) ==
    IF ~c.force /\ CheckIntegrity(g) /\ layoutValid
    THEN [scenario |-> "Hot", graph |-> g, hotState |-> fromState]
    ELSE [scenario |-> IF PackageIds(g) \subseteq store THEN "WarmLinkOnly"
                                                     ELSE "WarmPartialCache",
          graph |-> g, hotState |-> FALSE]

\* Mutant: the specs the install state was written for are not compared.
DetectInstallScenarioAnySpecs(c) ==
    IF lock.kind = "absent" THEN ColdWith(EmptyGraph)
    ELSE IF state.kind = "written" /\ state.current
    THEN DetectFromGraph(c, state.graph, LayoutValid(state.graph), TRUE)
    ELSE IF lock.kind = "torn" THEN ColdWith(EmptyGraph)
    ELSE IF ~RootSpecsMatch(lock, PlanSpecs(c)) THEN ColdWith(ToGraph(lock))
    ELSE DetectFromGraph(c, ToGraph(lock), LayoutValid(ToGraph(lock)), FALSE)

\* detect_install_scenario.  An install state that belongs to the present
\* lockfile stands in for it.
DetectInstallScenario(c) ==
    IF lock.kind = "absent" THEN ColdWith(EmptyGraph)
    ELSE IF state.kind = "written" /\ state.current
    THEN IF state.specs # PlanSpecs(c) THEN ColdWith(state.graph)
         ELSE DetectFromGraph(c, state.graph, LayoutValid(state.graph), TRUE)
    ELSE IF lock.kind = "torn" THEN ColdWith(EmptyGraph)
    ELSE IF ~RootSpecsMatch(lock, PlanSpecs(c)) THEN ColdWith(ToGraph(lock))
    ELSE DetectFromGraph(c, ToGraph(lock), LayoutValid(ToGraph(lock)), FALSE)

\* Mutant: an addition resolves everything anew.
ExplicitSeedOnlyFix(c) == IF c.mode = "Fix" THEN ToGraph(lock) ELSE EmptyGraph

\* explicit_lockfile_seed, read_existing_graph_seed
ExplicitSeed(c) ==
    IF c.mode = "Fix"
    THEN ToGraph(lock)
    ELSE IF HasAdditions(c) /\ c.mode # "No"
    THEN IF lock.kind # "absent" /\ state.kind = "written" /\ state.current
         THEN state.graph ELSE ToGraph(lock)
    ELSE EmptyGraph

\* resolve_install_state up to the match on the scenario
Decide(c) ==
    IF /\ c.includeDev /\ ~HasAdditions(c)
       /\ c.mode \notin {"No", "Fix"}
    THEN DetectInstallScenario(c)
    ELSE ColdWith(ExplicitSeed(c))

\* pinned_root_dependencies_for_fix
PlannedRootDependencies(c) ==
    [n \in Name |->
        IF /\ c.mode = "Fix"
           /\ PlanSpecs(c)[n] # NoRoot
           /\ lock.roots[n].requested = PlanSpecs(c)[n].spec
           /\ lock.roots[n].version # 0
           /\ ~PlanSpecs(c)[n].optional => ~lock.roots[n].optional
        THEN Exact(lock.roots[n].version)
        ELSE RootDependencies(c)[n]]

\* seeded_dependency_id, seeded_subgraph_complete: the seed's version is
\* taken over if the range admits it and everything below it is there.
Seeded(n, spec, seed) ==
    /\ seed.roots[n].version # 0
    /\ Matches(spec, seed.roots[n].version)
    /\ n \notin seed.hollow

\* resolve_package for a root
Resolve(n, spec, seed) ==
    IF Seeded(n, spec, seed) THEN seed.roots[n].version
                             ELSE SelectVersion(n, spec)

-----------------------------------------------------------------------------
(* The commands, up to the call of install                                 *)

Goto(label) == pc' = label

Begin(c) ==
    /\ pc = "idle"
    /\ op' = [Idle EXCEPT !.command = c, !.before = lock]
    /\ Goto("plan")
    /\ UNCHANGED <<published, store, ran, faults>>

\* install and add go straight to install.
BeginInstall(c) ==
    /\ c.cmd \in {"install", "add"}
    /\ Begin(c)
    /\ UNCHANGED <<manifest, lock, state, links, marker>>

\* remove: refused when frozen, and the manifest is written first.
BeginRemove(c) ==
    /\ c.cmd = "remove" /\ c.mode # "Frozen"
    /\ Begin(c)
    /\ manifest' = [n \in Name |->
          IF n \in c.name THEN [section |-> "none", spec |-> NoSpec]
                          ELSE manifest[n]]
    /\ UNCHANGED <<lock, state, links, marker>>

\* update_manifest_entry: catalog references are left alone.
Updatable(c, n) ==
    /\ n \in c.name
    /\ manifest[n].section # "none" /\ manifest[n].spec.kind # "catalog"
    /\ manifest[n].section = "devDependencies" => c.includeDev

UpdateManifest(S, wanted) ==
    manifest' = [n \in Name |->
        IF n \in S
        THEN [manifest[n] EXCEPT !.spec = RewriteSpec(@, wanted[n])]
        ELSE manifest[n]]

\* upgrade <packages>: only those of which outdated reports a version that
\* the lockfile does not have, and outdated leaves optional ones out.  With
\* nothing to do the command ends there.
BeginUpgrade(c) ==
    LET wanted == [n \in Name |-> SelectVersion(n, ApplySpecs(manifest)[n].spec)]
        Stale == {n \in Name :
                    /\ Updatable(c, n)
                    /\ manifest[n].section # "optionalDependencies"
                    /\ lock.roots[n].version # wanted[n]}
        Asked == {n \in Name : BuildRootSpecs(manifest, c.includeDev)[n] # NoRoot}
    IN  /\ c.cmd = "upgrade" /\ c.mode # "Frozen"
        /\ lock.kind # "torn"
        /\ \A n \in Asked : wanted[n] # 0
        /\ Stale # {}
        /\ Begin(c)
        /\ UpdateManifest(Stale, wanted)
        /\ UNCHANGED <<lock, state, links, marker>>

\* upgrade --latest
BeginUpgradeToLatest(c) ==
    /\ c.cmd = "latest" /\ c.mode # "Frozen"
    /\ Begin(c)
    /\ UpdateManifest({n \in Name : Updatable(c, n)}, published)
    /\ UNCHANGED <<lock, state, links, marker>>

\* upgrade without packages deletes the lockfile.
BeginRefresh(c) ==
    /\ c.cmd = "refresh"
    /\ Begin(c)
    /\ lock' = NoLock
    /\ state' = [state EXCEPT !.current = FALSE]
    /\ UNCHANGED <<manifest, links, marker>>

\* ci: needs a lockfile, and wipes node_modules.  The install state lies
\* beside the lockfile and stays.
BeginCi(c) ==
    /\ c.cmd = "ci" /\ lock.kind # "absent"
    /\ Begin(c)
    /\ links' = [n \in Name |-> 0]
    /\ marker' = NoMarker
    /\ state' = Touched
    /\ UNCHANGED <<manifest, lock>>

-----------------------------------------------------------------------------
(* install                                                                 *)

\* prepare_install_plan, validate_frozen_lockfile and the first half of
\* resolve_install_state: nothing is written.
Plan ==
    /\ pc = "plan"
    /\ IF FrozenRefuses(op.command)
       THEN Goto("failed") /\ UNCHANGED op
       ELSE LET d == Decide(op.command)
            IN  /\ op' = [op EXCEPT !.scenario = d.scenario,
                                    !.graph = d.graph,
                                    !.hotState = d.hotState]
                /\ Goto(CASE d.scenario = "Hot" -> "scripts"
                          [] d.scenario = "WarmLinkOnly" -> "link"
                          [] d.scenario = "WarmPartialCache" -> "download"
                          [] d.scenario = "Cold" -> "resolve")
    /\ UNCHANGED <<published, manifest, lock, state, links, marker, store,
                   ran, faults>>

\* materialize_missing_packages
Download ==
    /\ pc = "download"
    /\ store' = store \cup PackageIds(op.graph)
    /\ Goto("link")
    /\ UNCHANGED <<published, manifest, lock, state, links, marker, ran, op,
                   faults>>

\* Roots that no version fits
Unsatisfiable(c) ==
    {n \in Name : /\ PlannedRootDependencies(c)[n] # NoSpec
                  /\ Resolve(n, PlannedRootDependencies(c)[n], op.graph) = 0}
OptionalRoots(c) == {n \in Name : PlanSpecs(c)[n].optional}

\* resolve_cold_install with a seed: what a required root lacks fails the
\* install; an optional root is dropped when no version fits or its request
\* fails, and so is an optional package below a root, which may leave that
\* root's subgraph hollow.
ResolveCold(dropped, hollow) ==
    LET c == op.command
        Unresolved == Unsatisfiable(c) \cup dropped
        spec == PlannedRootDependencies(c)
        Fresh == {n \in Name : ~Seeded(n, spec[n], op.graph)}
        g == [roots |-> [n \in Name |->
                IF spec[n] = NoSpec \/ n \in Unresolved THEN NoDep
                ELSE [requested |-> spec[n],
                      version |-> Resolve(n, spec[n], op.graph)]],
              hollow |-> hollow]
    IN  /\ pc = "resolve"
        /\ dropped \subseteq OptionalRoots(c) \cap Fresh
        /\ Unsatisfiable(c) \subseteq OptionalRoots(c)
        /\ hollow \subseteq {n \in Fresh : g.roots[n].version # 0}
        /\ dropped \cup hollow # {} => faults < MaxFaults
        /\ op' = [op EXCEPT !.graph = g, !.faulted = @ \/ hollow # {}]
        /\ store' = store \cup PackageIds(g)
        /\ faults' = IF dropped \cup hollow # {} THEN faults + 1 ELSE faults
        /\ Goto(IF c.includeDev THEN "lock" ELSE "manifest")
        /\ UNCHANGED <<published, manifest, lock, state, links, marker, ran>>

ResolveFails ==
    /\ pc = "resolve"
    /\ ~ Unsatisfiable(op.command) \subseteq OptionalRoots(op.command)
    /\ Goto("failed")
    /\ UNCHANGED <<published, manifest, lock, state, links, marker, store,
                   ran, op, faults>>

\* Mutant: the install state is still taken for that of the new lockfile.
WriteLockfileUnnoticed ==
    /\ pc = "lock"
    /\ lock' = LockOf(op.graph, PlanSpecs(op.command))
    /\ Goto("manifest")
    /\ UNCHANGED <<published, manifest, state, links, marker, store, ran, op,
                   faults>>

\* lockfile::write: a new file, so a new length or time of modification,
\* and the install state no longer belongs to it.
WriteLockfile ==
    /\ pc = "lock"
    /\ lock' = LockOf(op.graph, PlanSpecs(op.command))
    /\ state' = [state EXCEPT !.current = FALSE]
    /\ Goto("manifest")
    /\ UNCHANGED <<published, manifest, links, marker, store, ran, op, faults>>

\* manifest_spec_for_dependency
ManifestSpec(requested, version) ==
    IF requested = Latest THEN Caret(version) ELSE requested

\* write_manifest: every package that was asked for and resolved
WriteManifest ==
    LET c == op.command
    IN  /\ pc = "manifest"
        /\ manifest' = [n \in Name |->
              IF Additions(c)[n] # NoSpec /\ op.graph.roots[n].version # 0
              THEN [section |-> IF c.dev THEN "devDependencies"
                                         ELSE "dependencies",
                    spec |-> ManifestSpec(Additions(c)[n],
                                          op.graph.roots[n].version)]
              ELSE manifest[n]]
        /\ Goto("link")
        /\ UNCHANGED <<published, lock, state, links, marker, store, ran, op,
                       faults>>

LinkTarget(n) ==
    IF LinkWanted(manifest, op.graph, op.command.includeDev, n)
    THEN op.graph.roots[n].version ELSE 0

\* Mutant: links of packages that left the manifest stay.
LinkPruneNothing ==
    /\ pc = "link"
    /\ Goto(IF op.graph.hollow # {} THEN "failed" ELSE "wire")
    /\ UNCHANGED <<published, manifest, lock, state, links, marker, store,
                   ran, op, faults>>

\* linker::link: populate_virtual_store finds every package of every edge or
\* fails before node_modules is touched; then prune_stale_root_entries.
LinkPrune ==
    /\ pc = "link"
    /\ IF op.graph.hollow # {}
       THEN Goto("failed") /\ UNCHANGED <<links, state>>
       ELSE /\ links' = [n \in Name |->
                           IF LinkTarget(n) = 0 THEN 0 ELSE links[n]]
            /\ state' = IF links' = links THEN state ELSE Touched
            /\ Goto("wire")
    /\ UNCHANGED <<published, manifest, lock, marker, store, ran, op, faults>>

\* link_root_dependencies: a wrong link is removed, then a new one is made.
LinkRoot(n) ==
    /\ pc = "wire"
    /\ LinkTarget(n) \notin {0, links[n]}
    /\ links' = [links EXCEPT ![n] = IF @ = 0 THEN LinkTarget(n) ELSE 0]
    /\ state' = Touched
    /\ UNCHANGED <<published, manifest, lock, marker, store, ran, pc, op,
                   faults>>

LinkDone ==
    /\ pc = "wire"
    /\ \A n \in Name : LinkTarget(n) \in {0, links[n]}
    /\ Goto("marker")
    /\ UNCHANGED <<published, manifest, lock, state, links, marker, store,
                   ran, op, faults>>

\* write_integrity_file
WriteIntegrity ==
    /\ pc = "marker"
    /\ marker' = [kind |-> "written", roots |-> op.graph.roots]
    /\ Goto("scripts")
    /\ UNCHANGED <<published, manifest, lock, state, links, store, ran, op,
                   faults>>

Linked == {<<n, links[n]>> : n \in {m \in Name : links[m] # 0}}

\* run_install_scripts: an early exit skips those of the dependencies.
RunInstallScripts ==
    /\ pc = "scripts"
    /\ ran' = IF op.scenario = "Hot" THEN ran ELSE ran \cup Linked
    /\ Goto("state")
    /\ UNCHANGED <<published, manifest, lock, state, links, marker, store, op,
                   faults>>

\* write_project_install_state, from the manifest as it is written and not
\* as apply_specs reads it
WriteInstallState ==
    LET c == op.command
    IN  /\ pc = "state"
        /\ state' = IF \/ op.scenario = "Hot" /\ op.hotState
                       \/ lock.kind = "absent"
                    THEN state
                    ELSE [kind |-> "written", current |-> TRUE, intact |-> TRUE,
                          specs |-> BuildRootSpecs(manifest, c.includeDev),
                          graph |-> op.graph,
                          layout |-> LayoutHash(manifest, op.graph,
                                                c.includeDev)]
        /\ Goto("done")
        /\ UNCHANGED <<published, manifest, lock, links, marker, store, ran,
                       op, faults>>

Return ==
    /\ pc \in {"done", "failed"}
    /\ Goto("idle")
    /\ op' = Idle
    /\ UNCHANGED <<published, manifest, lock, state, links, marker, store,
                   ran, faults>>

-----------------------------------------------------------------------------
(* Faults and the world outside                                            *)

Active == pc \notin {"idle", "done", "failed"}

\* A step fails or the process is killed.  The lockfile and the marker are
\* written in place and may be left torn; scripts may have run in part.
Crash ==
    /\ Active /\ faults < MaxFaults
    /\ faults' = faults + 1
    /\ op' = [op EXCEPT !.faulted = TRUE]
    /\ Goto("failed")
    /\ \/ lock' = lock /\ state' = state
       \/ /\ pc = "lock"
          /\ lock' = TornLock
          /\ state' = [state EXCEPT !.current = FALSE]
    /\ marker' \in IF pc = "marker" THEN {marker, NoMarker} ELSE {marker}
    /\ \E S \in SUBSET Linked :
          /\ S # {} => pc = "scripts" /\ op.scenario # "Hot"
          /\ ran' = ran \cup S
    /\ UNCHANGED <<published, manifest, links, store>>

\* Somebody deletes node_modules, or the store loses its packages.
LoseNodeModules ==
    /\ pc = "idle" /\ faults < MaxFaults
    /\ faults' = faults + 1
    /\ links' = [n \in Name |-> 0]
    /\ marker' = NoMarker
    /\ state' = Touched
    /\ UNCHANGED <<published, manifest, lock, store, ran, pc, op>>

LoseStore ==
    /\ pc = "idle" /\ faults < MaxFaults
    /\ faults' = faults + 1
    /\ store' = {}
    /\ UNCHANGED <<published, manifest, lock, state, links, marker, ran, pc,
                   op>>

Publish(n) ==
    /\ pc = "idle"
    /\ published[n] < MaxVersion
    /\ published' = [published EXCEPT ![n] = @ + 1]
    /\ UNCHANGED <<manifest, lock, state, links, marker, store, ran, pc, op,
                   faults>>

\* The user changes a spec in package.json.
Edit(n, spec) ==
    /\ pc = "idle" /\ manifest[n].section # "none"
    /\ manifest' = [manifest EXCEPT ![n].spec = spec]
    /\ UNCHANGED <<published, lock, state, links, marker, store, ran, pc, op,
                   faults>>

-----------------------------------------------------------------------------
Progress ==
    \/ Plan \/ Download
    \/ \E dropped, hollow \in SUBSET Name : ResolveCold(dropped, hollow)
    \/ ResolveFails
    \/ WriteLockfile \/ WriteManifest
    \/ LinkPrune \/ (\E n \in Name : LinkRoot(n)) \/ LinkDone
    \/ WriteIntegrity \/ RunInstallScripts \/ WriteInstallState
    \/ Return

Next ==
    \/ \E c \in Command :
          \/ BeginInstall(c) \/ BeginRemove(c)
          \/ BeginUpgrade(c) \/ BeginUpgradeToLatest(c) \/ BeginRefresh(c)
          \/ BeginCi(c)
    \/ Progress
    \/ Crash \/ LoseNodeModules \/ LoseStore
    \/ \E n \in Name :
          \/ Publish(n)
          \/ \E s \in EditSpec : Edit(n, s)

Spec == Init /\ [][Next]_vars

-----------------------------------------------------------------------------
(* Properties                                                              *)

LockDep == [requested : VersionSpec, version : 0 .. MaxVersion, optional : BOOLEAN]
RootSpec == [spec : VersionSpec, optional : BOOLEAN]
Layout == [Name -> [version : 0 .. MaxVersion, section : Section]]
LockType == [kind : {"absent", "torn", "written"}, roots : [Name -> LockDep],
             hollow : SUBSET Name]

\* The kinds of values the variables take.
TypeOK ==
    /\ published \in [Name -> Version]
    /\ manifest \in [Name -> [section : Section, spec : VersionSpec]]
    /\ lock \in LockType
    /\ state \in [kind : {"absent", "written"}, current : BOOLEAN,
                  intact : BOOLEAN, specs : [Name -> RootSpec],
                  graph : Graph, layout : Layout]
    /\ links \in [Name -> 0 .. MaxVersion]
    /\ marker \in [kind : {"absent", "written"}, roots : [Name -> Dep]]
    /\ store \subseteq Name \X Version
    /\ ran \subseteq Name \X Version
    /\ pc \in {"idle", "plan", "download", "resolve", "lock", "manifest",
               "link", "wire", "marker", "scripts", "state", "done", "failed"}
    /\ op \in [command : AnyCommand, before : LockType,
               scenario : {"none", "Hot", "WarmLinkOnly", "WarmPartialCache",
                           "Cold"},
               graph : Graph, hotState : BOOLEAN, faulted : BOOLEAN]
    /\ faults \in 0 .. MaxFaults

\* Whatever was skipped, and whatever an earlier command left behind when it
\* was killed, an install that reports success has linked exactly the
\* direct dependencies of the manifest, at the versions of its graph.
LinksMatch ==
    pc = "done" => \A n \in Name : links[n] = LinkTarget(n)

\* ... and the install scripts of everything that is linked have run, though
\* the marker that allows the early exit is written before they do.
ScriptsRun == pc = "done" => Linked \subseteq ran

\* A frozen install that finds a lockfile neither changes it nor installs
\* anything but the versions it names (upgrade without packages finds none:
\* it has deleted it).
FrozenInstallsLock ==
    (/\ pc = "done" /\ op.command.mode = "Frozen" /\ op.command.includeDev
     /\ op.command.cmd # "refresh" /\ op.before.kind = "written")
    => /\ lock = op.before
       /\ \A n \in Name :
            links[n] = IF manifest[n].section = "none" THEN 0
                       ELSE op.before.roots[n].version

\* A frozen install that passes validate_frozen_lockfile has no resolution
\* to do.
FrozenOffline ==
    (/\ op.command.mode = "Frozen" /\ op.command.includeDev
     /\ op.command.cmd # "refresh" /\ op.before.kind = "written")
    => op.scenario # "Cold"

\* A dependency whose spec is still the one the lockfile recorded stays at
\* the locked version through installs, removals and additions of others,
\* unless the command is one that asks for a new resolution.
PinsHold ==
    (/\ pc = "done" /\ op.command.includeDev /\ op.command.mode # "No"
     /\ op.command.cmd # "refresh" /\ op.before.kind = "written")
    => \A n \in Name \ op.command.name :
          LET spec == PlanSpecs(op.command)[n].spec
              old == op.before.roots[n]
          IN  (/\ old.requested = spec
               /\ Matches(spec, old.version) /\ n \notin op.before.hollow)
              => lock.roots[n].version = old.version

\* A plain install that meets no fault of its own is not refused for what
\* an earlier one left behind, a torn lockfile and half of a node_modules
\* included, as long as the lockfile it finds has no dangling edge; it fails
\* only if no version fits.
Recovers ==
    (pc = "failed" /\ op.command.mode = "Prefer" /\ ~op.faulted /\ op.before.hollow = {})
    => ~ Unsatisfiable(op.command) \subseteq OptionalRoots(op.command)

\* A lockfile as --fix-lockfile leaves it, with the ranges of the manifest where
\* it has the versions that it was pinned to.
Unpinned(l, specs) ==
    LET pinned(n) == specs[n] # NoRoot /\ l.roots[n].requested = Exact(l.roots[n].version)
                     /\ Matches(specs[n].spec, l.roots[n].version)
    IN [l EXCEPT !.roots = [n \in Name |->
           IF pinned(n) THEN [l.roots[n] EXCEPT !.requested = specs[n].spec] ELSE l.roots[n]]]

\* After an install the lockfile is one that a frozen install accepts, but for the
\* pins that --fix-lockfile writes in the place of ranges.
LockfileFits ==
    (pc = "done" /\ op.command.cmd = "install" /\ op.command.includeDev)
    => LET specs == PlanSpecs(op.command) IN RootSpecsMatch(Unpinned(lock, specs), specs)

\* An install that reports success has installed: the links are those of its graph and
\* their scripts have run, whatever it skipped (finalize_install, the early exit).
Installed == TypeOK /\ LinksMatch /\ ScriptsRun

\* A frozen install goes by the lockfile and by nothing else (validate_frozen_lockfile).
FrozenHolds == FrozenInstallsLock /\ FrozenOffline

=============================================================================
