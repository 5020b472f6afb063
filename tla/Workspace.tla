------------------------------ MODULE Workspace ------------------------------
(***************************************************************************)
(* A workspace: several projects with one lockfile                         *)
(* (snpm-core/src/operations/install/workspace, workspace, lazy).  The     *)
(* dependencies of all members are merged into one set of root specs, one  *)
(* version of each is resolved and every member is linked to it, members   *)
(* in parallel.  A member that depends on another member is linked to that *)
(* member's directory as long as its version satisfies the spec.           *)
(*                                                                         *)
(* The lockfile, the marker of the workspace, a marker in every member and *)
(* the install state are written at different moments, and an install may  *)
(* fail or be killed between any two.  `snpm run' in a member trusts them  *)
(* to decide whether it installs first, and then installs that member.     *)
(*                                                                         *)
(* Packages below the root dependencies are left to the resolver; a graph  *)
(* is the requested spec and the version of every root.  Version           *)
(* 10 * i + j stands for i.j.0.                                            *)
(***************************************************************************)
EXTENDS Integers, FiniteSets, Sequences, SequencesExt

CONSTANTS
    Order,        \* the members, in the order in which they were found
    External,     \* the packages that are no members
    Version,      \* versions of members and of packages
    InitManifest, \* InitManifest[m][n]: what m declares of n, a Dep
    InitVersion,  \* InitVersion[m]: the version of the member m
    Edit,         \* <<m, n, d>>: the user may come to declare d
    Catalog,      \* Catalog[n]: the spec that `catalog:' stands for
    Command,      \* the installs of the workspace, records of AnyCommand
    MaxRuns, MaxEdits, MaxFaults

Member == ToSet(Order)
Name == External \cup Member
NoSpec == [kind |-> "none", base |-> 0]
Spec(k, v) == [kind |-> k, base |-> v]
AnySpec == {NoSpec} \cup [kind : {"caret", "gte", "exact", "tag", "catalog", "workspace"},
                          base : Version \cup {0}]
NoDep == [section |-> "none", spec |-> NoSpec]
Dep == {NoDep} \cup [section : {"required", "dev", "optional"}, spec : AnySpec \ {NoSpec}]
AnyCommand == [mode : {"Frozen", "Prefer", "No", "Fix"}, strict : BOOLEAN,
               dev : BOOLEAN, force : BOOLEAN]
Default == [mode |-> "Prefer", strict |-> FALSE, dev |-> TRUE, force |-> FALSE]

ASSUME WorkspaceAssumption ==
    /\ Order \in Seq(Member) /\ External \cap Member = {}
    /\ Version \subseteq Nat \ {0} /\ IsFiniteSet(Version)
    /\ InitManifest \in [Member -> [Name -> Dep]] /\ InitVersion \in [Member -> Version]
    /\ Edit \subseteq Member \X Name \X Dep /\ Command \subseteq AnyCommand
    /\ Catalog \in [Name -> AnySpec]
    /\ MaxRuns \in Nat /\ MaxEdits \in Nat /\ MaxFaults \in Nat

VARIABLES
    manifest,   \* manifest[m][n]: the Dep that m declares of n
    version,    \* version[m]: the version in the manifest of m
    published,  \* the <<n, v>> that the registry has
    lock,       \* snpm-lock.yaml of the workspace
    state,      \* the install state of the workspace
    marker,     \* marker[m]: the graph of .snpm-integrity of m
    rootMarker, \* the same of the workspace
    links,      \* links[m][n]: what node_modules/n of m leads to
    store,      \* the <<n, v>> of the package store
    op,         \* the install that runs
    ran, edits, faults

vars == <<manifest, version, published, lock, state, marker, rootMarker, links,
          store, op, ran, edits, faults>>
inputs == <<manifest, version, published, edits>>
disk == <<lock, state, marker, rootMarker, links, store>>

NoTarget == [to |-> "nothing", v |-> 0]
Dir(m) == [to |-> "member", v |-> m]
Entry(v) == [to |-> "package", v |-> v]
NoRoot == [spec |-> NoSpec, v |-> 0]
NoGraph == [n \in Name |-> NoRoot]
NoRoots == [n \in Name |-> [spec |-> NoSpec, optional |-> FALSE, version |-> 0]]
NoLock == [kind |-> "absent", roots |-> NoRoots]
NoState == [kind |-> "absent", current |-> FALSE, intact |-> FALSE, specs |-> <<>>,
            graph |-> NoGraph, layout |-> <<>>]
NoMarker == [kind |-> "absent", graph |-> NoGraph]
Mark(g) == [kind |-> "written", graph |-> g]
Idle(result) == [phase |-> result, cmd |-> Default, scenario |-> "Cold",
                 seed |-> NoGraph, graph |-> NoGraph, todo |-> {}]

Init ==
    /\ manifest = InitManifest /\ version = InitVersion
    /\ published = {id \in Name \X Version : \A w \in Version : id[2] <= w}
    /\ lock = NoLock /\ state = NoState
    /\ marker = [m \in Member |-> NoMarker] /\ rootMarker = NoMarker
    /\ links = [m \in Member |-> [n \in Name |-> NoTarget]]
    /\ store = {} /\ op = Idle("idle")
    /\ ran = 0 /\ edits = 0 /\ faults = 0

-----------------------------------------------------------------------------
(* Ranges, and the specs of one member                                     *)

\* RangeSet::parse: a dist-tag is no range
IsRange(spec) == spec.kind \in {"caret", "gte", "exact"}

\* RangeSet::matches
Matches(spec, v) ==
    \/ spec.kind = "caret" /\ v >= spec.base /\ v \div 10 = spec.base \div 10
    \/ spec.kind = "gte" /\ v >= spec.base
    \/ spec.kind = "exact" /\ v = spec.base

\* resolve_catalog_spec
ResolveCatalogSpec(n, spec) == IF spec.kind = "catalog" THEN Catalog[n] ELSE spec

\* normalize_workspace_spec, with `workspace:*' as base 0
ValidateWorkspaceSpec(n, spec) == spec.base = 0 \/ Matches(Spec("caret", spec.base), version[n])

\* is_local_workspace_dependency
IsLocal(n, spec) ==
    n \in Member /\ (spec.kind = "workspace" \/ Matches(spec, version[n]))

\* apply_specs: what m asks the registry for
ApplySpecs(m, n) ==
    LET spec == ResolveCatalogSpec(n, manifest[m][n].spec) IN
    IF IsLocal(n, spec) THEN NoSpec ELSE spec

\* build_member_root_specs
MemberSpec(m, n, dev) ==
    IF manifest[m][n].section = "dev" /\ ~dev THEN NoSpec ELSE ApplySpecs(m, n)

\* apply_specs fails for a workspace: spec that the member does not satisfy,
\* and for a catalog: reference without an entry.
SpecError(m, n) ==
    LET declared == manifest[m][n].spec
        spec == ResolveCatalogSpec(n, declared)
    IN  \/ n \in Member /\ spec.kind = "workspace" /\ ~ValidateWorkspaceSpec(n, spec)
        \/ declared.kind = "catalog" /\ spec = NoSpec

-----------------------------------------------------------------------------
(* The specs of all members, merged                                        *)

Rank(spec) == CASE spec.kind = "exact" -> 3 [] spec.kind = "caret" -> 1 [] OTHER -> 0

\* choose_more_specific
ChooseMoreSpecific(old, new) ==
    IF new.base > old.base \/ (new.base = old.base /\ Rank(new) > Rank(old)) THEN new ELSE old

Merged(k, spec) == [kind |-> k, spec |-> spec]

\* Mutant: the range of the first member stays.
MergeFirst(old, new) == Merged("compatible", old)

\* merge_workspace_ranges: each range is tried on the lowest version of the other.
MergeRanges(old, new) ==
    LET oldTakes == Matches(old, new.base)
        newTakes == Matches(new, old.base)
    IN  CASE old = new -> Merged("compatible", old)
          [] old # new /\ ~(IsRange(old) /\ IsRange(new)) -> Merged("conflict", old)
          [] OTHER ->
                CASE oldTakes /\ newTakes -> Merged("compatible", ChooseMoreSpecific(old, new))
                  [] oldTakes /\ ~newTakes -> Merged("compatible", new)
                  [] ~oldTakes /\ newTakes -> Merged("compatible", old)
                  [] OTHER -> Merged("exclusive", ChooseMoreSpecific(old, new))

\* insert_workspace_root_dep
Insert(acc, spec) ==
    IF acc.spec = NoSpec THEN [acc EXCEPT !.spec = spec]
    ELSE LET r == MergeRanges(acc.spec, spec) IN
         [spec |-> r.spec, exclusive |-> acc.exclusive \/ r.kind = "exclusive",
          conflict |-> acc.conflict \/ r.kind = "conflict"]

NoneYet == LET none == [spec |-> NoSpec, exclusive |-> FALSE, conflict |-> FALSE]
           IN  [required |-> none, optional |-> none]

\* The spec of one member joins what was collected: an optional one joins the
\* required ones only if there are some already.
Join(acc, ask) ==
    LET optional == ask.optional /\ acc.required.spec = NoSpec IN
    CASE ask.spec = NoSpec -> acc
      [] ask.spec # NoSpec /\ optional -> [acc EXCEPT !.optional = Insert(@, ask.spec)]
      [] OTHER -> [acc EXCEPT !.required = Insert(@, ask.spec)]

\* collect_workspace_root_specs_with_overrides, for one name: member after member
Collect(asks) ==
    LET upTo[i \in 0 .. Len(asks)] == IF i = 0 THEN NoneYet ELSE Join(upTo[i - 1], asks[i])
    IN  upTo[Len(asks)]

Asks(n, dev) ==
    [i \in 1 .. Len(Order) |-> [spec |-> MemberSpec(Order[i], n, dev),
                                optional |-> manifest[Order[i]][n].section = "optional"]]

\* collect_workspace_root_specs
RootSpecs(dev) == [n \in Name |-> Collect(Asks(n, dev))]
CollectFails(dev) ==
    \/ \E m \in Member, n \in Name :
          SpecError(m, n) /\ (dev \/ manifest[m][n].section # "dev")
    \/ \E n \in Name : \E s \in {"required", "optional"} : RootSpecs(dev)[n][s].conflict

\* root_dependencies of prepare_workspace_install: the optional one replaces.
RootDependency(n, dev) ==
    LET r == RootSpecs(dev)[n] IN
    IF r.optional.spec # NoSpec THEN r.optional.spec ELSE r.required.spec

\* root_specs_hash
RootSpecsHash(dev) ==
    [n \in Name |-> <<RootSpecs(dev)[n].required.spec, RootSpecs(dev)[n].optional.spec>>]

-----------------------------------------------------------------------------
(* Lockfile, layout and markers                                            *)

\* lockfile::write
LockOf(g, dev) ==
    [kind |-> "written",
     roots |-> [n \in Name |->
        LET r == RootSpecs(dev)[n]
        IN  [spec |-> IF g[n].v = 0 THEN r.optional.spec ELSE g[n].spec,
             optional |-> r.optional.spec # NoSpec, version |-> g[n].v]]]

\* lockfile::to_graph
ToGraph(l) ==
    [n \in Name |-> IF l.roots[n].version = 0 THEN NoRoot
                    ELSE [spec |-> l.roots[n].spec, v |-> l.roots[n].version]]

\* lockfile::root_specs_match: entries are counted, then compared one by one.
RootSpecsMatch(l, dev) ==
    \A n \in Name :
        LET r == RootSpecs(dev)[n] IN
        /\ r.required.spec = NoSpec \/ r.optional.spec = NoSpec
        /\ RootDependency(n, dev) = l.roots[n].spec
        /\ r.required.spec # NoSpec => l.roots[n].version # 0 /\ ~l.roots[n].optional

\* collect_workspace_protocol_deps looks at the specs as they are written: a
\* catalog: reference is local to nobody.
LocalDeps(m) == {n \in Name : manifest[m][n].section # "none" /\ IsLocal(n, manifest[m][n].spec)}
Skipped(m, n, dev) ==
    manifest[m][n].section = "none" \/ (manifest[m][n].section = "dev" /\ ~dev)

\* link_external_deps, link_local_workspace_deps
ExternalTarget(n, g) == IF g[n].v = 0 THEN NoTarget ELSE Entry(g[n].v)
LocalTarget(n) == Dir(n)

\* link_project_dependencies: where node_modules/n of the member m leads
Target(m, n, g, dev) ==
    CASE Skipped(m, n, dev) -> NoTarget
      [] ~Skipped(m, n, dev) /\ n \in LocalDeps(m) -> LocalTarget(n)
      [] OTHER -> ExternalTarget(n, g)

\* build_workspace_layout_hash
LayoutHash(g, dev) ==
    <<g, [m \in Member |-> [n \in Name |->
            IF dev \/ manifest[m][n].section # "dev"
            THEN <<manifest[m][n].section, Target(m, n, g, dev)>> ELSE <<>>]]>>

\* check_workspace_layout_from_install_state
LayoutValid(g) ==
    state.kind = "written" /\ state.intact /\ state.layout = LayoutHash(g, TRUE)

\* fast_workspace_layout_valid: the directories and the links of the members
FastLayoutValid == state.intact /\ state.layout = LayoutHash(state.graph, TRUE)

PackageIds(g) == {<<n, g[n].v>> : n \in {x \in Name : g[x].v # 0}}
Touched == [state EXCEPT !.intact = FALSE]
StateIsCurrent == state.kind = "written" /\ state.current

-----------------------------------------------------------------------------
(* plan_workspace_install                                                  *)

Detected(scenario, g) == [scenario |-> scenario, seed |-> g]

\* Mutant: only the marker of the workspace is looked at.
DetectByMarker(c, g, layoutValid) ==
    IF ~c.force /\ rootMarker = Mark(g) THEN Detected("Hot", g)
    ELSE IF PackageIds(g) \subseteq store THEN Detected("WarmLinkOnly", g)
    ELSE Detected("WarmPartialCache", g)

\* detect_from_graph
DetectFromGraph(c, g, layoutValid) ==
    IF ~c.force /\ rootMarker = Mark(g) /\ layoutValid THEN Detected("Hot", g)
    ELSE IF PackageIds(g) \subseteq store THEN Detected("WarmLinkOnly", g)
    ELSE Detected("WarmPartialCache", g)

\* detect_workspace_scenario_early.  The state stands in for the lockfile.
DetectScenarioEarly(c) ==
    CASE c.mode \in {"No", "Fix"} \/ lock.kind = "absent" -> Detected("Cold", NoGraph)
      [] c.mode \notin {"No", "Fix"} /\ lock.kind # "absent" /\ StateIsCurrent ->
            IF state.specs = RootSpecsHash(c.dev)
            THEN DetectFromGraph(c, state.graph,
                                 LayoutValid(state.graph))
            ELSE Detected("Cold", state.graph)
      [] OTHER -> IF lock.kind = "torn" THEN Detected("Cold", NoGraph)
                  ELSE IF ~RootSpecsMatch(lock, c.dev) THEN Detected("Cold", ToGraph(lock))
                  ELSE DetectFromGraph(c, ToGraph(lock), LayoutValid(ToGraph(lock)))

\* prepare_workspace_install and validate_lockfile_matches_manifest.  Only a
\* lockfile that was read is compared, and it is not read when the state was.
Refuses(c) ==
    /\ c.mode = "Frozen"
    /\ \/ c.strict /\ lock.kind # "written" /\ ~StateIsCurrent
       \/ lock.kind = "written" /\ ~StateIsCurrent /\ ~RootSpecsMatch(lock, c.dev)

\* Fix reads the lockfile and seeds the resolution with it.
Decide(c) ==
    IF c.mode = "Fix" /\ lock.kind = "written" THEN Detected("Cold", ToGraph(lock))
    ELSE DetectScenarioEarly(c)

\* pinned_workspace_root_dependencies_for_fix
PlannedSpec(n, c) ==
    LET r == RootSpecs(c.dev)[n]
        l == lock.roots[n]
        Pinned(spec) == spec # NoSpec /\ l.spec = spec /\ l.version # 0
    IN  IF /\ c.mode = "Fix" /\ lock.kind = "written"
           /\ (Pinned(r.required.spec) /\ ~l.optional) \/ Pinned(r.optional.spec)
        THEN Spec("exact", l.version)
        ELSE RootDependency(n, c.dev)

-----------------------------------------------------------------------------
(* install_workspace                                                       *)

Ended == op.phase \in {"idle", "ok", "empty", "failed"}

\* load_workspace_graph: what is left to do before members can be linked
LoadGraph(scenario) ==
    CASE scenario = "Cold" -> "resolve"
      [] scenario = "WarmPartialCache" -> "fetch"
      [] scenario \in {"Hot", "WarmLinkOnly"} -> "link"

Start(c) ==
    /\ Ended /\ ran < MaxRuns
    /\ ran' = ran + 1
    /\ op' = IF CollectFails(c.dev) \/ Refuses(c) THEN [Idle("failed") EXCEPT !.cmd = c]
             ELSE IF \A n \in Name : RootDependency(n, c.dev) = NoSpec
             THEN [Idle("empty") EXCEPT !.cmd = c]
             ELSE LET d == Decide(c) IN
                  [Idle(LoadGraph(d.scenario)) EXCEPT
                            !.cmd = c, !.scenario = d.scenario, !.seed = d.seed,
                            !.graph = IF d.scenario = "Cold" THEN NoGraph ELSE d.seed,
                            !.todo = Member]
    /\ UNCHANGED <<inputs, disk, faults>>

\* Mutant: versions are looked for that were never published.
SelectAny(n, spec) ==
    LET admitted == {v \in Version : Matches(spec, v) \/ spec.kind = "tag"}
    IN  IF admitted = {} THEN 0 ELSE CHOOSE v \in admitted : \A w \in admitted : w <= v

\* select_version: the newest version that the spec admits
Select(n, spec) ==
    LET admitted == {v \in Version : <<n, v>> \in published /\ (Matches(spec, v) \/ spec.kind = "tag")}
    IN  IF admitted = {} THEN 0 ELSE CHOOSE v \in admitted : \A w \in admitted : w <= v

\* Mutant: the seed counts for nothing.
ResolveFresh(n, spec, seed) ==
    LET v == Select(n, spec) IN IF v = 0 THEN NoRoot ELSE [spec |-> spec, v |-> v]

\* resolve_with_optional_roots_with_seed, for one root
ResolveRoot(n, spec, seed) ==
    LET v == IF seed[n].v # 0 /\ Matches(spec, seed[n].v) THEN seed[n].v ELSE Select(n, spec)
    IN  IF v = 0 THEN NoRoot ELSE [spec |-> spec, v |-> v]

\* load_cold_graph: roots are resolved and their packages stored.  A required
\* root without a version fails the install, an optional one is left out.
Resolve ==
    LET g == [n \in Name |-> ResolveRoot(n, PlannedSpec(n, op.cmd), op.seed)]
        lost == {n \in Name : g[n] = NoRoot /\ PlannedSpec(n, op.cmd) # NoSpec
                                       /\ RootSpecs(op.cmd.dev)[n].optional.spec = NoSpec}
    IN  /\ op.phase = "resolve"
        /\ IF lost # {}
           THEN op' = [Idle("failed") EXCEPT !.cmd = op.cmd] /\ UNCHANGED store
           ELSE /\ op' = [op EXCEPT !.graph = g, !.phase = IF op.cmd.dev THEN "lock" ELSE "link"]
                /\ store' = store \cup PackageIds(g)
        /\ UNCHANGED <<inputs, lock, state, marker, rootMarker, links, ran, faults>>

\* load_warm_partial_graph: materialize_missing_packages
Fetch ==
    /\ op.phase = "fetch"
    /\ store' = store \cup PackageIds(op.graph)
    /\ op' = [op EXCEPT !.phase = "link"]
    /\ UNCHANGED <<inputs, lock, state, marker, rootMarker, links, ran, faults>>

WriteLock ==
    /\ op.phase = "lock"
    /\ lock' = LockOf(op.graph, op.cmd.dev)
    /\ state' = [state EXCEPT !.current = FALSE]
    /\ op' = [op EXCEPT !.phase = "link"]
    /\ UNCHANGED <<inputs, marker, rootMarker, links, store, ran, faults>>

Linked(m, g, dev) ==
    [n \in Name |-> IF Target(m, n, g, dev) = NoTarget THEN links[m][n]
                                                       ELSE Target(m, n, g, dev)]

\* link_project_dependencies of one member; the members are linked in
\* parallel.  Links that nothing asks for any more stay.
LinkMember(m) ==
    /\ op.phase = "link" /\ m \in op.todo
    /\ links' = [links EXCEPT ![m] = Linked(m, op.graph, op.cmd.dev)]
    /\ state' = IF links' = links THEN state ELSE Touched
    /\ op' = [op EXCEPT !.todo = @ \ {m},
                        !.phase = IF op.todo = {m} THEN "scripts" ELSE @]
    /\ UNCHANGED <<inputs, lock, marker, rootMarker, store, ran, faults>>

\* run_workspace_scripts, then write_workspace_integrity
WriteRootMarker ==
    /\ op.phase = "scripts"
    /\ rootMarker' = Mark(op.graph)
    /\ state' = Touched
    /\ op' = [op EXCEPT !.phase = "markers", !.todo = Member]
    /\ UNCHANGED <<inputs, lock, marker, links, store, ran, faults>>

\* write_project_integrity_files, one member after the other
WriteMarker ==
    /\ op.phase = "markers"
    /\ \E i \in DOMAIN Order :
          /\ op.todo = {Order[j] : j \in i .. Len(Order)}
          /\ marker' = [marker EXCEPT ![Order[i]] = Mark(op.graph)]
          /\ op' = [op EXCEPT !.todo = @ \ {Order[i]},
                              !.phase = IF i = Len(Order) THEN "state" ELSE @]
    /\ UNCHANGED <<inputs, lock, state, rootMarker, links, store, ran, faults>>

\* Mutant: the layout that is recorded leaves dev dependencies out.
RecordedWithoutDev(g, dev) == [layout |-> LayoutHash(g, FALSE), intact |-> TRUE]

\* LayoutSnapshot: the layout, and all that capture_workspace_checks finds on disk
Recorded(g, dev) == [layout |-> LayoutHash(g, dev), intact |-> TRUE]

\* write_workspace_install_state, if there is a lockfile
WriteState ==
    /\ op.phase = "state"
    /\ state' = IF lock.kind = "absent" THEN state
                ELSE LET r == Recorded(op.graph, op.cmd.dev) IN
                     [kind |-> "written", current |-> TRUE, intact |-> r.intact,
                      specs |-> RootSpecsHash(op.cmd.dev), graph |-> op.graph,
                      layout |-> r.layout]
    /\ op' = [op EXCEPT !.phase = "ok"]
    /\ UNCHANGED <<inputs, lock, marker, rootMarker, links, store, ran, faults>>

\* A step fails or the process is killed, in the middle of the lockfile too.
Cut ==
    /\ ~Ended /\ faults < MaxFaults
    /\ faults' = faults + 1
    /\ op' = [Idle("failed") EXCEPT !.cmd = op.cmd]
    /\ \/ UNCHANGED <<lock, state>>
       \/ /\ op.phase = "lock"
          /\ lock' = [NoLock EXCEPT !.kind = "torn"]
          /\ state' = [state EXCEPT !.current = FALSE]
    /\ UNCHANGED <<inputs, marker, rootMarker, links, store, ran>>

-----------------------------------------------------------------------------
(* Installs in one member, and what happens in between                     *)

\* install in the directory of the member m: the specs are those of the whole
\* workspace and the lockfile is the shared one, but only m is linked and
\* the install state of the workspace is not written.
InstallIn(m) ==
    LET fits == lock.kind = "written" /\ RootSpecsMatch(lock, TRUE)
        seed == IF lock.kind = "written" THEN ToGraph(lock) ELSE NoGraph
        g == IF fits THEN seed
             ELSE [n \in Name |-> ResolveRoot(n, RootDependency(n, TRUE), seed)]
    IN  /\ Ended /\ ran < MaxRuns /\ ~CollectFails(TRUE)
        /\ \A n \in Name : g[n] = NoRoot => RootSpecs(TRUE)[n].required.spec = NoSpec
        /\ ran' = ran + 1
        /\ store' = store \cup PackageIds(g)
        /\ lock' = IF fits THEN lock ELSE LockOf(g, TRUE)
        /\ links' = [links EXCEPT ![m] = Linked(m, g, TRUE)]
        /\ marker' = [marker EXCEPT ![m] = Mark(g)]
        /\ state' = [state EXCEPT !.current = @ /\ fits, !.intact = FALSE]
        /\ op' = Idle("idle")
        /\ UNCHANGED <<inputs, rootMarker, faults>>

Changed == edits < MaxEdits /\ edits' = edits + 1 /\ Ended /\ op' = Idle("idle")

EditManifest ==
    /\ Changed
    /\ \E e \in Edit : manifest[e[1]][e[2]] # e[3] /\ manifest' = [manifest EXCEPT ![e[1]][e[2]] = e[3]]
    /\ UNCHANGED <<version, published, disk, ran, faults>>

BumpVersion ==
    /\ Changed
    /\ \E m \in Member, v \in Version : v > version[m] /\ version' = [version EXCEPT ![m] = v]
    /\ UNCHANGED <<manifest, published, disk, ran, faults>>

Publish ==
    /\ Changed
    /\ \E id \in Name \X Version \ published : published' = published \cup {id}
    /\ UNCHANGED <<manifest, version, disk, ran, faults>>

\* The node_modules directory of a member is deleted.
LoseModules ==
    /\ Changed
    /\ \E m \in Member :
          /\ links' = [links EXCEPT ![m] = [n \in Name |-> NoTarget]]
          /\ marker' = [marker EXCEPT ![m] = NoMarker]
    /\ state' = Touched
    /\ UNCHANGED <<manifest, version, published, lock, rootMarker, store, ran, faults>>

\* A fresh clone of the repository, with its lockfile and nothing else.
Clone ==
    /\ Changed
    /\ links' = [m \in Member |-> [n \in Name |-> NoTarget]]
    /\ marker' = [m \in Member |-> NoMarker] /\ rootMarker' = NoMarker
    /\ state' = NoState /\ store' = {}
    /\ UNCHANGED <<manifest, version, published, lock, ran, faults>>

Next ==
    \/ \E c \in Command : Start(c)
    \/ Resolve \/ Fetch \/ WriteLock
    \/ \E m \in Member : LinkMember(m) \/ InstallIn(m)
    \/ WriteRootMarker \/ WriteMarker \/ WriteState
    \/ Cut
    \/ EditManifest \/ BumpVersion \/ Publish \/ LoseModules \/ Clone

WorkspaceSpec == Init /\ [][Next]_vars

-----------------------------------------------------------------------------
(* snpm run                                                                *)

\* Mutant: what lies in node_modules is not looked at.
IsFreshByMarker(m) ==
    /\ lock.kind # "absent" /\ marker[m].kind = "written" /\ ~CollectFails(TRUE)
    /\ IF StateIsCurrent
       THEN state.specs = RootSpecsHash(TRUE) /\ marker[m] = Mark(state.graph)
       ELSE /\ lock.kind = "written" /\ RootSpecsMatch(lock, TRUE)
            /\ marker[m] = Mark(ToGraph(lock))

\* check_staleness, negated
IsFresh(m) ==
    /\ lock.kind # "absent" /\ marker[m].kind = "written" /\ ~CollectFails(TRUE)
    /\ IF StateIsCurrent
       THEN /\ state.specs = RootSpecsHash(TRUE)
            /\ marker[m] = Mark(state.graph) /\ FastLayoutValid
       ELSE /\ lock.kind = "written" /\ RootSpecsMatch(lock, TRUE)
            /\ marker[m] = Mark(ToGraph(lock)) /\ LayoutValid(ToGraph(lock))

-----------------------------------------------------------------------------
(* Properties                                                              *)

\* Lockfile, state, markers and links hold graphs, and the command that runs is at one of
\* its steps.
TypeOK ==
    /\ manifest \in [Member -> [Name -> Dep]] /\ version \in [Member -> Version]
    /\ published \subseteq Name \X Version /\ store \subseteq published
    /\ lock.kind \in {"absent", "torn", "written"}
    /\ op.graph \in [Name -> [spec : AnySpec, v : Version \cup {0}]]
    /\ state.current => lock.kind # "absent"

\* One member may do without n and a later one may not: the specs are not merged, and
\* the optional one counts.
Unmerged(n, dev) ==
    RootSpecs(dev)[n].required.spec # NoSpec /\ RootSpecs(dev)[n].optional.spec # NoSpec

\* One version of n cannot be right for all members, or merging does not see to it:
\* ranges that exclude each other, of which install warns, and a lower bound, which
\* may replace a range that has an upper bound (merge_workspace_ranges compares only
\* the lowest versions).
Compromise(n, dev) ==
    \/ RootSpecs(dev)[n].required.exclusive \/ RootSpecs(dev)[n].optional.exclusive
    \/ \E m \in Member : MemberSpec(m, n, dev).kind = "gte"

\* What a member gets for a dependency it declares satisfies what it declares: the
\* directory of the other member, or a package, the same one for all.  A catalog:
\* reference to a member is the exception: apply_specs takes it for local, and
\* link_project_dependencies does not.
Satisfied(m, n, dev) ==
    LET d == manifest[m][n]
        spec == ResolveCatalogSpec(n, d.spec)
        got == links[m][n]
    IN  \/ d.section = "none" \/ (d.section = "dev" /\ ~dev)
        \/ got = Dir(n) /\ IsLocal(n, spec)
        \/ /\ got = Entry(op.graph[n].v) /\ op.graph[n] # NoRoot
           /\ Matches(spec, got.v) \/ spec.kind = "tag" \/ Compromise(n, dev) \/ Unmerged(n, dev)
        \/ op.graph[n] = NoRoot /\ (d.section = "optional" \/ Unmerged(n, dev))
        \/ d.spec.kind = "catalog" /\ IsLocal(n, spec)

\* When an install of the workspace ends well, all dependencies of all its
\* members are linked, and to something that satisfies them
\* (finalize_workspace_install, merge_workspace_ranges).
AllSatisfied ==
    op.phase = "ok" => \A m \in Member, n \in Name : Satisfied(m, n, op.cmd.dev)

\* An install that takes the members for linked already finds each of them
\* linked, whatever was edited, lost or cut off before
\* (detect_workspace_scenario_early, load_hot_graph).
HotSound ==
    op.phase = "link" /\ op.scenario = "Hot" =>
        \A m \in Member : links[m] = Linked(m, op.graph, op.cmd.dev)

\* After an install with dev dependencies ended well, a second one has
\* nothing to do, and no `snpm run' in a member installs again.
Settles ==
    op.phase = "ok" /\ op.cmd.dev =>
        DetectScenarioEarly(Default).scenario = "Hot" /\ \A m \in Member : IsFresh(m)

\* The versions of g are what the required or the optional specs ask for.
Fits(g, specs) ==
    \A n \in Name : g[n] # NoRoot =>
        \E spec \in {specs[n][1], specs[n][2]} : spec.kind = "tag" \/ Matches(spec, g[n].v)

\* `snpm run' in a member goes ahead without an install only if the member is
\* linked to the graph of the install state or the lockfile, and that graph
\* satisfies what all members declare now (check_staleness,
\* check_cached_install_state).
LazySound ==
    Ended => \A m \in Member : IsFresh(m) =>
        LET g == IF StateIsCurrent THEN state.graph ELSE ToGraph(lock) IN
        /\ links[m] = Linked(m, g, TRUE)
        /\ Fits(g, RootSpecsHash(TRUE))

PinStep ==
    op.phase = "lock" /\ op'.phase = "link" /\ op.cmd.mode # "No"
        /\ lock.kind = "written" /\ op.seed = ToGraph(lock) =>
    \A n \in Name :
        lock.roots[n].spec = RootDependency(n, op.cmd.dev) /\ lock.roots[n].version # 0
            /\ lock.roots[n].spec.kind # "tag"
        => lock'.roots[n].version = lock.roots[n].version

\* A lockfile that is written anew keeps the version of every dependency whose
\* merged spec did not change, unless the lockfile is to be ignored or the
\* install state stands in for it with other versions.
PinsKept == [][PinStep]_vars

\* What is skipped was done before: neither an install nor `snpm run' takes a member for
\* linked that is not, whatever was edited, lost or cut off (detect_from_graph,
\* check_staleness).
SkipsSound == TypeOK /\ HotSound /\ LazySound

=============================================================================
