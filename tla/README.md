# A TLA+ model of snpm

snpm is a package manager for Node.js projects, written in Rust. This
directory holds TLA+ modules that model its core, configurations with which
TLC checks them on small instances, and proofs that TLAPS checks for every
instance. Paths below are relative to `src/snpm-core/src` unless they start
with `src/`.

## 1. The system

A command such as `snpm install` reads the manifest, decides how much of the
last install is still good, resolves what is not into a graph of packages,
brings the packages into a store that all projects of a machine share, links
them into `node_modules`, runs install scripts, and records what it did.

| Part | State it keeps | Operations | Talks to |
|---|---|---|---|
| Package store (`store/`) | package directories, `.snpm_complete` markers, metadata files, blob cache, two semaphores per process | `ensure_package` and its callees | file system, registry; called by installs, often many at a time and from several processes |
| Store prune (`operations/store.rs`) | none | test for a marker, delete | the same directories, without a lock |
| Resolution engine (`resolve/`) | a shared map of packages, the seed graph | `resolve_package`, one concurrent call per dependency edge | registry metadata, prefetcher, store tasks |
| Registry metadata (`resolve/engine`) | a cache, locks made and dropped on demand, a semaphore, a queue | `fetch_registry_package`, `run_metadata_prefetcher` | metadata cache and HTTP |
| Project install (`operations/install`) | manifest, lockfile, integrity marker, install state, root links | install, add, remove, upgrade, ci | all of the above, linker, lifecycle |
| Virtual store (`linker/virtual_store.rs`) | entries of the machine and of each project, links between them, a state file per entry | `populate_virtual_store` | store, linker; entries are shared by all projects |
| Linker (`linker/`) | root links, launchers | `link` | virtual store, install |
| Lifecycle (`lifecycle/`, `operations/rebuild.rs`, `patch/`) | package directories with their marker, a local and a remote side-effects cache | `run_install_scripts`, patches, `rebuild` | install, policy; the caches are shared by projects and machines |
| Workspace install (`operations/install/workspace`), lazy installs (`operations/lazy`) | one lockfile and state for many manifests, a marker per member, links between members | install in all lockfile modes, the staleness test of `snpm run` | linker, lifecycle, resolver |
| Lockfile (`lockfile/`) | YAML file and binary sidecar | read, write, compare, build a graph | install |
| Foreign lockfiles (`lockfile/compat/`) | none | detect, read npm, yarn, pnpm and bun files | install |
| Reports (`operations/why`, `operations/audit`, ...) | none | walk the graph of the lockfile | lockfile, registry |
| Metadata cache and requests (`cache/`, `protocols/npm`, `http.rs`) | shards of records with ETag and time | load, conditional request, save, retry | registry; shared by all processes |
| Login, logout, credentials (`operations/auth`, `config/`) | `~/.snpmrc` | login (web, legacy, token), logout, choice of registry and header | registry; every request |
| Pack and publish (`operations/pack`, `operations/publish`) | a tarball in the project | collect, inspect, rewrite the manifest, upload | registry, workspace |
| Filters (`operations/run/filters.rs`) | none | select members of a workspace | recursive runs and publishes |
| Node manager (`node/`), `snpm-switch` | installed releases, `current`, aliases, a cached index | install, use, default, alias, uninstall, run | network |
| Everything else | settings, reports, output | mostly one sequential pass | |

`PROJECT.json` lists all parts with what is modelled of each.

What is hard about this code:

* *Concurrency inside one resolution.* All edges of a package are resolved at
  once (`join_all`). A call that finds another call's placeholder does not wait
  for it, so it can rely on a package that is later dropped.
* *Concurrency between processes.* The store has no lock. A marker file says
  that a package is complete, and everything else rests on the order of file
  operations.
* *Failure and restart.* Any command may be killed between two writes. Five
  files then disagree and the next command decides what to believe.
* *Staleness.* The install state stands in for the lockfile; cached metadata
  stands in for a directory scan; a blob stands in for a download.
* *Termination.* Permits, locks, queues and cyclic dependencies.

What makes each part correct:

* store: the marker means a whole, verified package; what a caller was given
  stays; every call returns.
* resolver: no package without its dependencies and no dangling edge in a
  finished graph, nothing that is not reachable, one download per package, an
  end.
* registry metadata: one request per packument, none for what is cached.
* install: a successful command leaves links, scripts and lockfile that agree
  with each other, whatever happened before; a frozen install installs the
  lockfile; pins hold.
* virtual store: an entry that is taken for ready is whole; a project that was
  installed keeps finding what was resolved for it while others install.
* lifecycle: scripts run after those of what they need; everything that may be
  built is built from the right source; a cache never holds anything else.
* workspace: every member is linked to what satisfies it; nothing that is not
  linked counts as linked; an install settles.
* foreign lockfiles: the graph that the other package manager installed, or an
  error. Reports: exactly what the graph says.
* registry: what is looked up is current or fresh enough; requests carry the
  credentials of the last login; what is published is what should be.
* toolchain: what counts as installed is whole, pointers lead somewhere, and a
  pinned project runs on what it pins.

## 2. Modules

| Module | Models | Checked by | Proved in |
|---|---|---|---|
| `Store` | `store/ensure.rs`, `fetch.rs`, `local.rs`, `integrity.rs`, `filesystem/copy.rs`, `metadata.rs`, `limits.rs`, `operations/store.rs` | `MCStore` | `StoreProofs` |
| `StoreSpec` | what the store promises (abstract) | as a property of `Store` | `StoreProofs` |
| `Resolver` | `resolve/package`, `resolve/engine` | `MCResolver` | `ResolverProofs` |
| `PackumentFetch` | `resolve/engine/context/registry.rs`, `run_metadata_prefetcher` | `MCPackumentFetch` | `ResolverProofs` |
| `VirtualStore` | `linker/virtual_store.rs`, `linker/fs` | `MCVirtualStore` | `VirtualStoreProofs` |
| `Install` | `operations/install/project_install`, `maintenance`, the commands of the CLI | `MCInstall` | `InstallProofs` |
| `Lifecycle` | `lifecycle/`, `patches.rs`, `operations/rebuild.rs` | `MCLifecycle` | `LifecycleProofs` |
| `Workspace` | `operations/install/workspace`, `operations/lazy` | `MCWorkspace` | `WorkspaceProofs` |
| `ForeignLockfile` | `lockfile/compat` | `MCForeignLockfile` | `InstallProofs` |
| `Queries` | `operations/why`, `operations/audit`; extends `ForeignLockfile` | `MCForeignLockfile` | |
| `Pack` | `operations/pack`, `operations/publish/rewrite.rs` (pure) | `MCRegistry` | `RegistryProofs` |
| `Filters` | `operations/run/filters.rs` (pure) | `MCRegistry` | `RegistryProofs` |
| `Lists` | helpers of the two: the first and last of some places of a sequence, and what stands at them | `MCRegistry` | `RegistryProofs` |
| `Registry` | `cache/`, `protocols/npm`, `http.rs`, `config/`, `operations/auth`, `operations/publish`; extends `Pack` and `Filters` | `MCRegistry` | `RegistryProofs` |
| `Toolchain` | `node/`, `snpm-switch` | `MCToolchain` | `ToolchainProofs` |

Two compositions are made with EXTENDS: `Queries` asks about the graph that an
import of `ForeignLockfile` has yielded, and a recursive publish of `Registry`
publishes the projects that `Filters` selects with the files that `Pack`
collects. Definitions whose comment says "mutated form" are what a plausible
bug would make of the next definition; no specification uses them, and
`PROJECT.json` names for every property one with which TLC finds it violated.

### Store

One action is one file-system call or one wait, because other tasks and other
processes can act between any two. `pc[t]` names the place of task `t` in
`ensure_package_with_offline` and its callees; `dirs`, `tree`, `marked` and
`shape` are what lies on disk for each package (directory, files, completeness
marker, metadata file), `blob` is the blob cache. Recursive deletion is one
step per entry. `Crash` stops a process at any step; its disk state stays and
its permits are free again, since they live in the process.

A package has the entries `File`, and a tarball is good or bad as a whole:
the digest that the code computes over the bytes tells exactly these two
apart. `Integrity` distinguishes a lockfile without integrity, with one the
code can check, and with an algorithm it does not know (`integrity.rs`).

`StoreSpec` is the promise: a package appears in one step, whole, and never
changes. `Store` implements it under `Exclusive`: no two downloading tasks
want the same package and no prune runs, which is how the tasks of one install
divide the store (see `OneTask` below).

### Resolver

`call[c][n]` is the state of the concurrent call that resolves dependency `n`
of package `c`; `entry` and `edges` are the shared map, `imported` the visited
set of a seed import, `fetched` the packuments at hand, `notified` how often a
package was handed to the store. What a request, a range, an override and a
packument lead to is the constant `Pick`. Futures of one `join_all` run on one
task, yet tokio's cooperative budget and every real wait let them interleave at
each `.await`; steps between two waits are one action.

### PackumentFetch

The calls of the resolver and the prefetcher's tasks fetch packuments through
one cache. `locks` is the map of locks made on demand, `mine` the reference a
fetch holds, so that the test on the reference count in
`cleanup_package_fetch_lock` can be expressed. Calls may start at any time (which
call starts which is the resolver's business), and the queue's order is left
open. Both only add behaviours.

### Install

One project, and commands one after the other. `manifest`, `lock`, `state`,
`links` and `marker` are the five records on disk, `op` is what the running
command holds in memory. Each write is an action of its own, in the order of
`project_install/mod.rs`: lockfile, manifest, links (prune, then remove and make
each), marker, scripts, install state. `Crash` stops a command at any of them;
the lockfile and the marker are written in place and may be torn.
`DetectInstallScenario`, `DetectFromGraph` and `Decide` are the decision
procedure of `utils/scenario.rs` and `project_install/state.rs`.

Below the direct dependencies the graph is abstracted to one bit per root,
whether a package is missing below it (`hollow`). Versions are numbers; a caret
range takes everything from its base, which keeps what matters here: that a
newer version can satisfy an old spec. The validity of the captured layout
(mtimes and link targets) is the bit `state.intact`, which every change of
`node_modules` clears.

### VirtualStore

`at[l]` is what lies at a location: one of the entries that all projects share,
named by package and hash (`Slot`), or the place of a package in a project's
own store, `<<project, package>>`. `dep[l]` are the links beside it, `gate[l]`
is the state file that lets an install skip them. rayon works on all packages
of an install at once, so that each has a program counter of its own; files are
linked, removed and renamed one at a time. The time of the directory, which the
state file records, is the bit `current`; links of scoped names lie one
directory below and leave it alone. The hash is a constant: what matters here
is which graphs agree on an entry. `raced` remembers the entries that two
installs were about at the same time.

### Lifecycle

`dir[d]` are the files of a package directory: its source, plain or patched,
what scripts have built and for which Node, and whether it is whole.
`hash_dir` tells contents apart, so that a key of the cache is the Node's major,
the package and its content. A run patches, walks `node_modules` package by package
(`inspect_package`: policy, lookup in the local, then in the remote cache,
restore), orders what is left into chunks (`topological_chunks`), and runs each
chunk on the threads of the pool; a job that ends well is saved. Copying into a
slot and restoring from one are two steps with a kill in between; entries of a
cache are also deleted. `placed` says in which chunk each job is: `Level` is the
round of `topological_chunks` in which a job has nothing left to wait for, and jobs
behind a cycle come last, together. `torn`, `spoiled` and `rerun` remember what
`EachBuilt` has to leave out: directories whose restore was cut off, slots that
were saved from one of those, and scripts that ran beside an older marker.

### Workspace

`manifest[m][n]` is what member `m` declares of `n`, and the merged specs of
`collect_workspace_root_deps` follow from it. `lock`, `state`, `rootMarker`,
`marker[m]` and `links[m]` are written in the order of `workspace/mod.rs` and
`finalize.rs`, each in a step; members are linked in any order. Version `10 * i + j` stands
for `i.j.0`, so that carets, lower bounds and exact versions can be merged
as `ranges.rs` does: `Collect` takes what the members ask for (`Asks`) in their
order and joins each to what it has (`Join`, `Insert`, `MergeRanges`), required and
optional specs apart. Manifests and versions of members are edited between
installs; directories and the store are lost; a fresh clone keeps only the
lockfile. `IsFresh(m)` is the test with which `snpm run` in a member decides, and
`InstallIn(m)` the install of that member alone that follows if it fails.

### ForeignLockfile and Queries

A lockfile is a record by its kind: packages by path (npm, bun), snapshots with
peers (pnpm), blocks by range (yarn). `Import` is one step, as the code runs it
in one pass; the readers are operators. Each reads a set of copies of packages and
a set of importers, with what each declares and finds, and `Lockfile` turns these
into one package per name and version and into the root. `Faithful`, `RootKept` and
`Imports` compare them with `Seen`, the reference: what Node would find at a place
on disk, which snapshots a reference is to, which block names a range.
`ForeignAssumption` says what a lockfile is that another package manager wrote; one
that is broken (a link to nothing, a package without a version) may be among them.
`Queries` then writes the lockfile and asks `why` or `audit`; `WhyAll` and
`AuditExact` compare the walks of the code with reachability.

### Registry, Pack and Filters

`proc[p]` is where a process is in its command; a request is sent in one step
and answered, or lost, in another. `shard` is the cache file that processes
read, change and overwrite whole; an ETag stands for the answer it came with.
`rc` are the lines of `~/.snpmrc`, `tokens` what the last login or logout left,
`server` and `history` what the registries have and had, `uploads` what snpm
has published. `clock` counts days, since freshness does. `disk` is the
workspace: manifests, files and ignore files. `crossed` remembers the names whose
record another process replaced while a lookup of the same name relied on the ETag
it had sent (section 4). What a world may be, the cache, the rc file, the workspace
and the commands of each process, is `IsWorld`; the runs and the proofs start
from there.

### Toolchain

A version directory, and its `<version>.tmp`, is the set of parts that are in it
(`bin`, `lib`, the marker), or absent. Processes run commands of the Node manager
or the shim side by side, one step per file operation. A selector is its kind and the
versions it stands for, so that ranges need no grammar; an alias is a file named
like a selector. `spoiled` and `cut` remember versions that two commands staged at a
time, or whose removal was cut off.

## 3. Runs

All runs deadlock-check unless the modelled computation ends by itself.

| Run | What is asked | Bounds, and why they suffice |
|---|---|---|
| `store_solo` | promise of the store within one install, with an offline reader, failures and crashes | 3 packages that differ in integrity and origin, 2 files (the least number for a partial tree), 1 permit of each kind (the most contention) |
| `store_shared` | what still holds when two installs and a prune share a package | 2 tasks of 2 processes, 1 package: interference is per package |
| `store_race` | *violation*: the marker on a partial tree | as above, without prune |
| `resolver` | cyclic graph, failing optional and required dependencies, import of the last graph while new edges lead into it | 7 packages of 6 names; the cycle has a required and an optional edge into it, one package fails at random and one version does not exist; the seed has a complete cyclic part, a shared part and a hole. `MaxNotified` = 3 is never reached |
| `packument_fetch` | single flight, prefetcher, termination | 3 calls and up to 2 prefetch tasks over 3 keys, 2 permits: two fetches that wait for one lock while a third holds the permits |
| `install` | all commands in any sequence, with edits, new versions and an optional dependency | 2 names, 2 versions, 1 fault (kill, torn file, dangling edge, lost directory) anywhere in any number of commands: one fault leaves a mixture of old and new records, and every command meets it |
| `virtual_store` | entries, links and state files with failures, kills and two installs at once | 2 projects, 2 graphs that differ in one version and in what is local, 2 installs, 1 fault: a package with 2 files can be partial, and the second install repairs, repeats or races the first |
| `lifecycle` | order, caches, rebuilds, patches | 2 projects, 3 packages of 2 names in a cycle, 2 Nodes, 2 threads, 3 runs, 1 fault: the first run saves, the second restores or races, the third meets what both left |
| `workspace` | members installed together and one by one | 2 members, one depending on the other, 1 package in 3 versions, 8 edits (other ranges, a lower bound, a dist-tag, a dependency that becomes optional, catalog and workspace specs), 3 runs, 2 edits, 1 fault: an edit before and after an install that was cut off |
| `toolchain` | version manager and shim beside each other | 2 processes, 2 Nodes (1 LTS), 1 snpm, 2 commands, 1 fault; any set of versions is installed at first |
| `lockfile_import` | readers, `why` and `audit` | packages a and b in versions 1 and 2, in trees up to two levels deep, workspaces with two members, peers, aliases and optional edges; 3 advisories; `MaxPaths` = 1, so that the cut is always reached |
| `registry` | lookups, logins, packs and publishes | 3 processes, 2 hosts, 3 names (2 scoped), 1 retry, 2 lost answers, 1 kill, 1 day: two writers and a reader of a shard, and one answer more lost than is retried. The worlds `Crossings` have two lookups of one name beside a release of it |

Properties that say one thing together are checked as one conjunction of named
parts, the type invariant of the module among them:

| Checked as | Parts |
|---|---|
| `MarkerSound` | `TypeOK`, `MarkedComplete`, `ShapeAccurate` |
| `VerifiedOnly` | `BlobVerified`, `OnlyVerifiedFiles` |
| `GraphComplete` | `TypeOK`, `ImportComplete`, `NoHollow` |
| `OneRequest` | `TypeOK`, `SingleFlight`, `NoRefetch` |
| `Installed` | `TypeOK`, `LinksMatch`, `ScriptsRun` |
| `FrozenHolds` | `FrozenInstallsLock`, `FrozenOffline` |
| `EntriesHold` | `TypeOK`, `SharedWhole`, `GateTrue` |
| `CacheSound` | `TypeOK`, `SlotsHold` |
| `SkipsSound` | `TypeOK`, `HotSound`, `LazySound` |
| `VersionsWhole` | `TypeOK`, `InstalledWhole`, `GoesOnWhole` |
| `RightOneRuns` | `PinRuns`, `ShimRuns` |
| `GraphKept` | `Whole`, `Faithful`, `RootKept` |
| `AuditRight` | `AuditExact`, `FixHelps` |
| `LookupRight` | `TypeOK`, `Current`, `FreshEnough` |
| `CredentialsHold` | `SessionHolds`, `ScopeBound` |
| `PublishedRight` | `NothingBlocked`, `Installable`, `PackedRight`, `FilterExact` |

For most parts `PROJECT.json` has a mutant of its own.

Fairness. `Store`: weak fairness of each task's own steps (a running thread or
blocking call makes progress) and strong fairness of acquiring a permit
(tokio's semaphores are first come, first served, so a waiter is not passed
over for ever). `Resolver` and `PackumentFetch`: weak fairness of each call's
next step, because tokio polls every woken task and requests end with an answer
or an error; the semaphore of `PackumentFetch` is fair as above. `Lifecycle`: weak
fairness of the steps of each project, since a thread of the pool goes on and a
script ends or fails. `Registry`: weak fairness of the steps of each process and of
its next command; requests have a timeout. The losses that retries and
polling can meet are bounded, and so are the polls of the code. `Install`,
`VirtualStore`, `Workspace` and `Toolchain` state no fairness and no
liveness: their steps run one after the other. What would be their liveness is
in `Recovers`, `Settles` and `GoesOnWhole`, which are safety properties.

## 4. What the runs show

Holding, in short: under one install at a time the store keeps its promise
through every crash; the blob cache and the package directories never hold
unverified bytes even when installs and prunes collide; a resolution never
yields a package without its dependencies, whatever fails in whatever order; an
edge can only dangle where the package it leads to was able to fail; packages
are downloaded once; packuments are requested once; every wait ends; an install
that succeeds has linked what it resolved and has run the scripts of everything
it linked, whatever was torn before; a shared entry of the virtual store that is
taken for ready is whole, and has the links its state file promises, after any
failure or kill, as long as no two installs fill it at the same time, and
races on one entry leave the others alone.

Further: scripts run after those of what they depend on, and after any one
failure or kill the next install has built what may be built; slots of the
side-effects cache hold nothing else than their key says; a workspace install
that ends well satisfies every member, and neither the hot path nor `snpm run`
takes for linked what is not; an import of a foreign lockfile is the graph that
was installed or an error; `why` and `audit` tell exactly of that graph; a
lookup is current or fresh enough although processes overwrite each other's
shard; a login holds; nothing that is private, blocked or not installable is
published; a version that counts as installed is whole, and a pinned project
runs on what it pins.

One disagreement between code and documentation is a run that ends in a
violation, with an entry under `findings`: `store_race`. The comment in
`store/fetch.rs` says that the marker check guards against concurrent extracts.
Two processes both find no marker, and the slower one clears the directory that
the faster one fills.

Where the properties stop. These exceptions are in the code, and the properties
or the runs are stated around them:

* `store prune` looks for the marker and deletes afterwards, so a package can be
  deleted under its user; `HeldIntact` is therefore stated and proved under
  `Exclusive`.
* `add` without a version, `add` of what was an optional dependency, and
  `--fix-lockfile` write a lockfile that does not match the manifest, and a plain
  install does not repair it (`LockfileFits`).
* `--production` and catalog specs do not reuse the lockfile: the first takes
  the cold path when there are dev dependencies, and the state it leaves stands in for
  the lockfile of the next frozen install; the second always takes it. The
  run `install` has neither. After `--fix-lockfile`, or `add` without a version, the
  lockfile records another spec than the manifest; if the manifest is then edited to
  that very spec, a frozen install takes the lockfile for matching while the install
  state has the specs of before, and it resolves. `FrozenHolds` is proved
  without these commands.
* A lockfile with a dangling edge is not resolved again, as the comment in
  `resolve/package/mod.rs` has it, but fails every install that follows;
  `Recovers` leaves it out.
* An entry of a project's own virtual store is filled in place. A kill leaves a
  part of it that the next install takes for the package; no property says that
  local entries are whole. A package that was shared and must no longer be stays
  a link into the store of all projects.
* Two installs that fill one shared entry can remove what the other has
  finished (`raced`).
* In a project's own virtual store the state file of an entry can be wrong about
  links of scoped names after a kill (`GateTrue` leaves them out).
* `EachBuilt` leaves out two versions of one package (one of their jobs is
  dropped), a directory whose restore was cut off, and one whose scripts ran
  beside an older marker; the marker does not name the Node it was built for. A
  directory whose restore was cut off may be saved, and then a slot lacks files
  in every project that restores it.
* A seed that names a dependency which its package does not declare any more is
  imported as it is, so that packages nobody asks for stay (`NoOrphans` is proved
  for seeds that fit).
* A frozen install of a workspace that finds an install state with other specs
  resolves instead of failing. `snpm run` does not look at overrides.
* A package that one member may do without and a later one needs has two specs
  that are not merged. The optional one is resolved for both, if it cannot be
  had it is left out for both, and the lockfile never matches (`Unmerged`).
* `ranges.rs` says of two ranges that it merges "The ranges overlap; the merged
  range satisfies both members" (line 77). It compares the lowest versions only: of
  `^1.0.0` and `>=1.1.0` it keeps the second, and the first member may be linked
  to 2.0.0. `Compromise` therefore names lower bounds beside the exclusive ranges.
* A `catalog:` reference to a member whose version fits is taken for local when the
  specs are collected and for external when members are linked, so that it is
  neither resolved nor linked. `Satisfied` leaves it out.
* On a 304 the packument that was read from the cache is saved again, and the headers
  that are on disk stay (`response.rs`, `write_record_update`). If another process has
  saved a newer answer of the same name in between, the older packument is then stored
  under the newer ETag, the next lookup is told by a 304 that it is current, and so
  it goes on until the registry changes. The comment says "304 means 'your cached
  version is current.'" (`protocols/npm/fetch/response.rs:24`). `Current` and
  `FreshEnough` leave out the names to which this has happened (`crossed`), and
  it is proved that nothing else makes them fail. The proof found this: the
  invariant was not inductive, and TLC confirmed the trace.
* Versions that two commands stage at the same time in one `<version>.tmp` may
  be installed in part; an uninstall that is killed leaves `current` behind; a
  pin such as `lts/iron` is not found among the installed versions.
* The reader of yarn files leaves out what no block answers; the one of npm files
  leaves out the dependencies of a workspace's own root project.
* `why --depth` does not show a longer way through a package that is itself a
  dependency of the root. `audit --ignore-cve` has no effect. In a workspace a
  name that is a dev dependency somewhere is one everywhere. The text after the
  last `<` of a range whose last part is no upper bound is not a fix.
* `pack` reports blocking findings and does not fail for them. A tarball that
  `pack` left behind is packed into the next. A recursive publish goes in the order
  of the workspace, not of the dependencies, and stops at the first failure.
  `logout` leaves `_auth` lines.

## 5. Proofs

The theorems hold for every number of processes, tasks, packages, names, members,
versions, commands, faults and files, under the named assumptions of the modules
(types of the constants; `FetchAssumption` also needs finitely many fetches,
because a reference count is compared, and `WorkspaceAssumption` finitely many
versions, because the newest is chosen). What a theorem needs beyond that is a
hypothesis in its statement:

| Hypothesis | Says | Needed by |
|---|---|---|
| `Exclusive` | no two downloading tasks want one package and no prune runs | `MarkedComplete`, `ShapeAccurate`, `HeldIntact`, refinement of `StoreSpec` |
| `SlotsAgree` | graphs that agree on the entry of a package agree on the entries of what it uses | `SharedWhole`, `GateTrue`, `SharedFinds` |
| `SeedFits` | the seed has no dependency that its package does not declare | `NoOrphans` |
| `NoProduction` | no command leaves dev dependencies out | `PinsHold`, `FrozenHolds`, `LockfileFits` |
| `RegistryAssumption` | the worlds are such as the program can meet: the rc file is a list of lines, cached records have the headers of their packument, commands name projects that exist | all theorems of `RegistryProofs` (an assumption on the constants, which TLC evaluates) |
| `ForeignAssumption` | lockfiles are such as the other package managers write them: paths are sequences of names, every snapshot of pnpm is of a listed package, a range of yarn is in one block, and ranges show what an alias stands for | `GraphKept`, `Imports` (an assumption on the constants, which TLC evaluates) |
| `SpecsRecorded` | no catalog specs, no `--fix-lockfile`, no `add` without a version | `FrozenHolds` |
| `FitCommands` | no `add` without a version, of an optional dependency or with `--fix-lockfile`, and no `--fix-lockfile` where a manifest may say "latest" (the exceptions of section 4) | `LockfileFits` |

* `StoreProofs`. `TypeOK` is inductive. `VInv` adds that the data a task holds
  and what it has staged passed verification, from which `BlobVerified` and
  `OnlyVerifiedFiles` follow without any condition. `EInv` adds, under
  `Exclusive`, who owns a directory that has no marker, that a task which is
  about to mark sees the whole tree, and that the marked tree does not change:
  `MarkedComplete`, `ShapeAccurate`, `HeldIntact` and the implementation of
  `StoreSpec` follow. Ownership is what makes it inductive: without it an
  arbitrary task could clear the tree between its last entry and its marker.
* `ResolverProofs`. `TreeInv` says that each placeholder is owned by exactly one
  call and that ownership is grounded (no set of live packages is owned only
  from within), so that when the calls of the project have returned, all have.
  `GraphInv` adds what an import has visited and that finished entries are full,
  which gives `ImportComplete` and `NoHollow`. `SoundInv(S)`, for a set `S` of
  packages that cannot fail, gives `EdgesHold` and `OneTask`.
* `ResolverProofs`, packuments: `LockInv` relates references, map and holders of a
  lock: two fetches of one key that hold a lock hold the same one, and a lock
  is dropped only when the packument is cached or nobody else refers to it.
  `PrefetchInv` accounts for each scheduled key.
* `VirtualStoreProofs`. `TypeOK` is inductive. The rest rests on the condition
  `SlotsAgree`, that graphs which agree on the entry of a package agree on the
  entries of what it uses; the theorems name it, and TLC evaluates it on the
  instance of the run. `SharedInv` says who may change an entry: two installs
  that are about one entry have raced on it and on all that it uses (`RaceInv`),
  so that the task of any other entry is alone there (lemma `SamePlace`) and
  what it found when it looked is still so when it acts. A copy through a link
  then only ever spoils raced entries, an entry is only cleared when it has no
  files, and `SharedWhole` follows. `GateInv` adds that the links a task has not
  to look at any more are right, and that whoever looks at links has found the
  state file out of date: a scoped link can change without touching the time,
  but never while a shared entry's state file is current. `GateTrue` follows.

  `FindInv` adds what each task has found (`Begun`, `Readied`, `LocalWired`,
  `Viewed`) and that the entries of a finished project are `Firm`, whole and linked
  to firm ones: who finds them later finds them ready and leaves them alone. From
  it `SharedFinds`.
* `ResolverProofs`, `NoOrphans`: `OrphanInv` says that an error is never forgotten
  (`ErrorShows`) and that, without one, every package in the map is reached: no
  set of packages that the project does not ask for is asked for only from within.
  Stated about sets, it needs no induction along paths.
* `InstallProofs`. The records on disk outlive the command that wrote them, so
  that the invariants say what each record implies by itself. `InstallInv`:
  an install state that is intact tells the truth about the links and the scripts
  (`StateTells`), which is what the early exit relies on; `Installed` follows.
  `RecoverInv`: neither the state nor the graph of a warm install has a hole that
  the lockfile has not. `PinsInv`: a state that stands in for the lockfile
  has its versions (`StateOfLock`), and until the lockfile is written the
  resolution is seeded with the one that was found (`LockAsFound`). `FrozenInv`
  adds that state and lockfile record the same specs (`StateSpecs`, `LockSpecs`), so that
  what passes `validate_frozen_lockfile` is not resolved. `FitInv` says the same
  without `SpecsRecorded`, of catalogs and pins too: a version in the lockfile is one
  that its spec admits (`LockAdmits`, which is why a pin still fits the range it was
  taken from), a state that stands in for the lockfile was written for specs that the
  lockfile fits (`StateFits`), and from the resolution to the manifest graph, plan and
  additions agree root by root (`RootPlanned`); `LockfileFits` follows.
* `InstallProofs`, imports: for any lockfile, of any depth and size. `FirstIsNearest`
  is the fact about trees: of the candidates for a dependency of a package at `p`, the
  first that is there is the nearest directory above `p` that has it, whatever
  lies elsewhere. `DependencyReferred` and `FirstIsSaid` say the like of references
  with peers and of ranges with and without protocol. So each reader finds what is
  `Seen` (`NpmSettles`, `BunSettles`, `PnpmSettles`, `YarnSettles`), and what is left is
  common to all four (`LockfileSettles`): variants that agree have the edges of each
  of them, and those who ask under one name get the package that each of them found,
  which is where aliases have to show in the ranges.
* `LifecycleProofs`. `CacheInv`: the key under which a package is saved is that of
  the source in its directory and of the Node of the run (`EntriesFit`), which no
  step of another project changes; `CacheSound` follows. `OrderInv`: chunks before
  the current one are done. That a producer is in an earlier chunk is a fact about graphs
  (`topological_chunks` for any graph): a job that is left over reaches, among the
  jobs that wait for each other, one that reaches the fewest, and that one lies
  on a cycle. `BuildInv`: what has to be built is built or still on the list of an
  install that has not failed (`BuiltOrLeft`); `EachBuilt` follows.
* `WorkspaceProofs`. `WorkspaceInv` says that every graph that is kept, in the
  lockfile, the state or the command, has published versions that its own specs admit
  (`Sound`), that the graph of the state answers the specs recorded with it and the one
  that is installed those of all members now (`Answers`), that links which the state
  records are there while nothing has touched them (`LaidOut`), and that markers and
  state are those of the install once they are written. Whether the early exits
  are right is then a comparison of specs and layouts: `HotSound`, `LazySound`,
  `Settles`. `AllSatisfied` needs in addition that the merged specs speak for each
  member: `CollectHolds` goes through the members one by one, the least one
  for which it failed being a contradiction, with `MergeAdmits` for two ranges. The
  recursive function in `Collect` is shown to have a solution in the same way
  (`CollectGrows`). `PinsKept` is an action property.
* `ToolchainProofs`. `WholeInv`: a version that no second command staged is staged
  by one, and its `<version>.tmp` holds what that one put there (`StagedAlone`), so that
  what is renamed into place is whole. `CurrentInv` adds where the pointer leads.
  `RunInv` follows the command that runs a script: what it looks for is the pin, and
  what it goes on with is admitted by it (`RunFollows`); the chain of aliases of
  `resolve_with_depth` is unrolled hop by hop. `ShimInv` does the same for the shim.
* `RegistryProofs`. `Typed` gives the shapes: where a process can be with which command,
  and that edits of the disk leave manifests alone. Three invariants rest on it. `Look`:
  a record whose name was not crossed has the ETag of its own packument, and was
  had by a registry on the day of its stamp or was there at first; a lookup that
  has sent an ETag, or was told that it holds, finds the record still in place
  (`LookJob`); the copies of the shard that are about to be written are as good as
  the shard. `Session`: what the lines of the rc file say of a host and of a scope
  (`Says`) is what the last login or logout left, where the last line that
  speaks of a host is followed through the filtering and appending of lines
  (`LastForKept`, `SaysAdd`). `Publishing`: what a process is about to upload is
  what its project would be packed with now (`ReadyIn`), since other processes only
  add and remove tarballs (`Quiet`) and versions are not raised meanwhile; the selection
  is exact for the workspace as it is. The recursive functions
  (`Chosen`, `Walk`, `RulesAlong`) are first shown to have a solution, then
  what they compute by the least counterexample: `ChosenEmbeds`, `WalkReaches` (a walk
  that still grows has found one more project each round, so as many rounds as
  there are projects close it) and `IgnoredAlong` (the last rule that matches is one
  of the nearest ignore file that says something).

The conjunctions of section 3 that consist of proved parts (`MarkerSound`,
`VerifiedOnly`, `GraphComplete`, `OneRequest`, `EntriesHold`, `SkipsSound` and the like)
are theorems of their own.

Only model-checked: the liveness properties (`EnsureEnds`, `Ends`), which need
fairness; and the properties of `Queries` (`WhyAll`, `AuditRight`), which is about
walks that are RECURSIVE operators, out of reach of the provers.

## 6. Not modelled, and the plan

Abstracted for good: bytes, formats, paths, wording, progress output, platform
differences in links and copies, the grammar of ranges. Two commands at the same
time in one project are not modelled: nothing in the code or the documentation
promises anything about them. A torn manifest is the user's to restore. Not
modelled because they keep no state and only parse or print: requests and
sources of a dependency, the check of peers, licenses, list, console, errors.
`dlx`, global packages and links are installs in a directory of their own.
Hoisting, launchers, the binary sidecar of the lockfile, the residency index, git
and `file:` packages, and making a patch are left out; nothing modelled
depends on them but for speed or convenience.

Plan, most important first:

1. An abstract specification of what an install promises (links of one graph that
   answers the manifests, in one step), implemented by `Install` and by `Workspace`
   through `InstallInv` and `WorkspaceInv`.
2. `ColdInstall`: composition of `Resolver` and `Store` through the store tasks
   of `resolve_cold_install`.
3. The hash that names a shared entry: in a dependency cycle it does not cover
   everything a package can reach, so that `Slot` may agree where the links do
   not.
