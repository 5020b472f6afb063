--------------------------- MODULE ForeignLockfile ---------------------------
(***************************************************************************)
(* Import of the lockfiles of other package managers                       *)
(* (snpm-core/src/lockfile/compat).  When there is no snpm-lock.yaml, the  *)
(* first of pnpm-lock.yaml, bun.lock, yarn.lock, npm-shrinkwrap.json and   *)
(* package-lock.json is turned into a lockfile of snpm: packages by name   *)
(* and version, each with one set of dependencies, and the dependencies of *)
(* the root.  The formats say in different ways which package a dependency *)
(* is: by its place in a tree (npm, bun), by a reference with the peers it *)
(* was resolved with (pnpm), or by the range that was asked for (yarn).    *)
(*                                                                         *)
(* A path is the sequence of the names of nested node_modules directories, *)
(* below a folder of the workspace or the root.  Ranges and versions are   *)
(* compared only, so they are opaque.                                      *)
(***************************************************************************)
EXTENDS Naturals, Sequences, FiniteSets

CONSTANTS
    Directory,   \* project directories: the lockfiles that lie in them, by kind
    NONE,        \* nothing there, or not resolved
    MEMBER,      \* a dependency is a member of the workspace
    ERROR        \* a package that cannot be named

VARIABLES
    found,    \* the lockfile that is imported, or NONE before the search
    answer    \* the lockfile it was turned into

importVars == <<found, answer>>

-----------------------------------------------------------------------------
(* What the formats share.  A reader finds copies of packages and the      *)
(* importers (the project, or the members of a workspace).  Each declares  *)
(* what it needs and what it may have, by name and range, and finds under  *)
(* each of these names a package, a member or nothing.                     *)

Empty == << >>

Unread == [is |-> "unread", root |-> Empty, packages |-> Empty]
Refused == [is |-> "refused", root |-> Empty, packages |-> Empty]

Copy(by, key, need, maybe, finds) ==
    [by |-> by, key |-> key, need |-> need, maybe |-> maybe, finds |-> finds]

Importer(by, need, maybe, finds) == Copy(by, Empty, need, maybe, finds)

Declared(need, maybe) == DOMAIN need \cup DOMAIN maybe

\* One of two declarations under a name: the first block counts.
Either(first, second) ==
    [d \in DOMAIN first \cup DOMAIN second |-> IF d \in DOMAIN first THEN first[d] ELSE second[d]]

\* Mutated form of Candidates: the search ends before the root.
CandidatesInner(base, d) ==
    [k \in 1..(IF base = Empty THEN 1 ELSE Len(base)) |-> Append(SubSeq(base, 1, Len(base) + 1 - k), d)]

\* The places where a dependency may lie, from the nearest to the root.
Candidates(base, d) ==
    [k \in 1..(Len(base) + 1) |-> Append(SubSeq(base, 1, Len(base) + 1 - k), d)]

\* The first candidate that means something.
FirstOf(candidates, meaning) ==
    LET hits == {k \in DOMAIN candidates : candidates[k] \in DOMAIN meaning} IN
    IF hits = {} THEN NONE
    ELSE meaning[candidates[CHOOSE k \in hits : \A j \in hits : k <= j]]

\* A dependency that is needed must be there, and be a package.
Lacks(c) == \E d \in DOMAIN c.need : c.finds[d] \in {NONE, MEMBER}

\* The edges of a package: what is optional and missing is left out.
Edges(c) ==
    [d \in DOMAIN c.need \cup {d \in DOMAIN c.maybe : c.finds[d] \notin {NONE, MEMBER}} |-> c.finds[d]]

\* Mutated form of VariantsAgree: only the names are compared.
VariantsNamedAlike(copies) ==
    \A c, e \in copies : c.key = e.key => DOMAIN Edges(c) = DOMAIN Edges(e)

\* Variants of one name and version must agree.
VariantsAgree(copies) == \A c, e \in copies : c.key = e.key => Edges(c) = Edges(e)

\* One package for all its copies
Collapse(copies) ==
    [k \in {c.key : c \in copies} |-> Edges(CHOOSE c \in copies : c.key = k)]

\* The root dependencies of an importer; members are left out.
Incoming(i) ==
    LET asks(block, optional) ==
            {[name |-> d, range |-> block[d], optional |-> optional, key |-> i.finds[d]] :
                d \in {d \in DOMAIN block : i.finds[d] # MEMBER}}
    IN asks(i.need, FALSE) \cup asks(i.maybe, TRUE)

\* What importers ask for under one name agrees: one range, one version, one alias.
Agree(of) ==
    \A x, y \in of :
        /\ x.range = y.range
        /\ NONE \notin {x.key, y.key} =>
               /\ x.key[2] = y.key[2]
               /\ x.name \in {x.key[1], y.key[1]} \/ x.key[1] = y.key[1]

\* The package behind a name of the root: an alias comes before the name itself.
RootKey(of) ==
    LET keys == {x.key : x \in of} \ {NONE}
        alias == {k \in keys : \A x \in of : k[1] # x.name}
    IN CHOOSE k \in (IF alias # {} THEN alias ELSE IF keys # {} THEN keys ELSE {NONE}) : TRUE

\* What is asked for under a name
Under(asks, n) == {x \in asks : x.name = n}

\* Mutated form of MergeRoot: optional for one, optional for all.
MergeRootAny(asks) ==
    [n \in {x.name : x \in asks} |->
        [range |-> (CHOOSE x \in Under(asks, n) : TRUE).range, key |-> RootKey(Under(asks, n)),
         optional |-> \E x \in Under(asks, n) : x.optional]]

\* merge_root_dependency: optional only if it is for all that ask
MergeRoot(asks) ==
    [n \in {x.name : x \in asks} |->
        [range |-> (CHOOSE x \in Under(asks, n) : TRUE).range, key |-> RootKey(Under(asks, n)),
         optional |-> \A x \in Under(asks, n) : x.optional]]

\* The lockfile of snpm: the root and the packages, or an error
Lockfile(importers, copies) ==
    LET asks == UNION {Incoming(i) : i \in importers} IN
    IF \/ \E c \in copies : Lacks(c)
       \/ ~VariantsAgree(copies)
       \/ \E x \in asks : x.key = NONE /\ ~x.optional
       \/ \E x \in asks : ~Agree(Under(asks, x.name))
    THEN Refused
    ELSE [is |-> "read", root |-> MergeRoot(asks), packages |-> Collapse(copies)]

-----------------------------------------------------------------------------
(* package-lock.json: tree[path] is an installed package or a link         *)

Folders(tree) == {p \in DOMAIN tree : p # Empty /\ tree[p].folder}

\* collect_workspace_member_paths
MemberPaths(tree) == IF tree[Empty].workspaces THEN Folders(tree) ELSE {}

\* collect_link_targets
LinkPaths(tree) == {p \in DOMAIN tree : tree[p].link # NONE}

\* collect_package_entries
PackagePaths(tree) == DOMAIN tree \ (LinkPaths(tree) \cup MemberPaths(tree) \cup {Empty})

\* resolve_package_name: an entry without a name is called by the link to it, or
\* by its place
NameAt(tree, p) ==
    LET links == {l[Len(l)] : l \in {l \in LinkPaths(tree) : tree[l].link = p}} IN
    IF tree[p].name # NONE THEN tree[p].name
    ELSE IF ~tree[p].folder \/ links = {} THEN p[Len(p)]
    ELSE IF Cardinality(links) = 1 THEN CHOOSE n \in links : TRUE ELSE ERROR

KeyAt(tree, p) == <<NameAt(tree, p), tree[p].version>>

\* Mutated form of InstalledAt: a member is taken for an installed package.
InstalledAtAll(tree) ==
    [p \in PackagePaths(tree) \cup LinkPaths(tree) |->
        KeyAt(tree, IF tree[p].link = NONE THEN p ELSE tree[p].link)]

\* build_install_path_map and the member links that resolve_dependency knows
InstalledAt(tree) ==
    [p \in PackagePaths(tree) \cup LinkPaths(tree) |->
        IF tree[p].link = NONE THEN KeyAt(tree, p)
        ELSE IF tree[p].link \in MemberPaths(tree) THEN MEMBER
        ELSE KeyAt(tree, tree[p].link)]

\* Links lead somewhere and packages have names and versions.
Broken(tree) ==
    \/ \E p \in LinkPaths(tree) : tree[p].link \notin PackagePaths(tree) \cup MemberPaths(tree)
    \/ \E p \in PackagePaths(tree) : NameAt(tree, p) = ERROR \/ tree[p].version = NONE

\* resolve_dependency, for all that the package at p depends on
NpmResolved(tree, p) ==
    [d \in Declared(tree[p].need, tree[p].maybe) |-> FirstOf(Candidates(p, d), InstalledAt(tree))]

\* build_packages
NpmPackages(tree) ==
    {Copy(p, KeyAt(tree, p), tree[p].need, tree[p].maybe, NpmResolved(tree, p)) : p \in PackagePaths(tree)}

\* build_root_from_entry and build_workspace_root: in a workspace the blocks of the
\* members are read, and not those of the root
NpmRoot(tree) ==
    {Importer(p, tree[p].need, tree[p].maybe, NpmResolved(tree, p)) :
        p \in IF tree[Empty].workspaces THEN MemberPaths(tree) ELSE {Empty}}

ReadNpm(tree) ==
    IF Broken(tree) THEN Refused ELSE Lockfile(NpmRoot(tree), NpmPackages(tree))

\* parse_v1_as_v2: nested dependencies become paths, what a package requires
\* becomes its dependencies; without a manifest all that lies on top is the root's
ParseV1(nested, manifest) ==
    LET top == {p \in DOMAIN nested : Len(p) = 1}
        wants(S) == [d \in {p[1] : p \in S} |-> nested[<<d>>].version]
        soft == {p \in top : nested[p].optional}
        entry(version, need, maybe) ==
            [version |-> version, need |-> need, maybe |-> maybe,
             name |-> NONE, link |-> NONE, folder |-> FALSE, workspaces |-> FALSE]
    IN [p \in DOMAIN nested \cup {Empty} |->
           IF p # Empty THEN entry(nested[p].version, nested[p].requires, Empty)
           ELSE IF manifest # NONE /\ Declared(manifest.need, manifest.maybe) # {}
           THEN entry(NONE, manifest.need, manifest.maybe)
           ELSE entry(NONE, wants(top \ soft), wants(soft))]

-----------------------------------------------------------------------------
(* bun.lock: like a tree, with the identity of each package                *)

BunKeys(f) == [p \in DOMAIN f.packages |-> f.packages[p].key]

\* build_packages with resolve_nested_bun
BunPackages(f) ==
    LET entry(p) == f.packages[p]
        resolved(p) == [d \in Declared(entry(p).need, entry(p).maybe) |-> FirstOf(Candidates(p, d), BunKeys(f))]
    IN {Copy(p, entry(p).key, entry(p).need, entry(p).maybe, resolved(p)) : p \in DOMAIN f.packages}

\* build_root with resolve_workspace_dep
BunRoot(f) ==
    LET block(w) == f.workspaces[w]
        find(w, d) == LET hit == FirstOf(<<Append(w, d), <<d>>>>, BunKeys(f)) IN
                      IF hit = NONE /\ d \in f.members THEN MEMBER ELSE hit
        resolved(w) == [d \in Declared(block(w).need, block(w).maybe) |-> find(w, d)]
    IN {Importer(w, block(w).need, block(w).maybe, resolved(w)) : w \in DOMAIN f.workspaces}

ReadBun(f) == Lockfile(BunRoot(f), BunPackages(f))

-----------------------------------------------------------------------------
(* pnpm-lock.yaml: snapshots by name, version and peers                    *)

\* collect_package_entries: without snapshots the packages count, with no edges
Snapshots(f) ==
    IF DOMAIN f.snapshots # {} THEN f.snapshots
    ELSE [s \in {[name |-> k[1], version |-> k[2], peers |-> NONE] : k \in f.packages} |->
             [need |-> Empty, maybe |-> Empty]]

SnapshotKey(s) == <<s.name, s.version>>

\* canonical_lookup_key and build_dep_path_map: a key with and without its peers
DepPaths(f) ==
    LET lookup(s) == IF SnapshotKey(s) \in f.packages THEN [s EXCEPT !.peers = NONE] ELSE s
        known == DOMAIN Snapshots(f) \cup {lookup(s) : s \in DOMAIN Snapshots(f)}
    IN [s \in known |-> SnapshotKey(s)]

\* resolve_dependency_key: the peers of a reference are dropped
DependencyKey(f, d, ref) ==
    LET s == [name |-> IF ref.name = NONE THEN d ELSE ref.name, version |-> ref.version, peers |-> NONE]
    IN IF s \in DOMAIN DepPaths(f) THEN DepPaths(f)[s] ELSE NONE

\* build_packages
PnpmPackages(f) ==
    LET shot(s) == Snapshots(f)[s]
        refs(s) == Either(shot(s).need, shot(s).maybe)
        resolved(s) == [d \in DOMAIN refs(s) |-> DependencyKey(f, d, refs(s)[d])]
    IN {Copy(s, SnapshotKey(s), shot(s).need, shot(s).maybe, resolved(s)) : s \in DOMAIN Snapshots(f)}

\* build_root
PnpmRoot(f) ==
    LET block(i) == f.importers[i]
        refs(i) == Either(block(i).need, block(i).maybe)
        resolved(i) == [d \in DOMAIN refs(i) |-> DependencyKey(f, d, refs(i)[d].ref)]
        ranges(b) == [d \in DOMAIN b |-> b[d].range]
    IN {Importer(i, ranges(block(i).need), ranges(block(i).maybe), resolved(i)) : i \in DOMAIN f.importers}

\* read and validate_importers
ReadPnpm(f) ==
    IF DOMAIN f.importers = {} THEN Refused ELSE Lockfile(PnpmRoot(f), PnpmPackages(f))

-----------------------------------------------------------------------------
(* yarn.lock: blocks, each headed by the specs that it answers             *)

SpecOf(d, range) == [name |-> d, range |-> range]

\* parse_classic_identity: the name behind an alias
Identity(spec) == IF spec.range.of = NONE THEN spec.name ELSE spec.range.of

\* The blocks of packages: those of the workspace itself are skipped.
Blocks(f) == {k \in DOMAIN f.blocks : ~f.blocks[k].workspace}

\* Of several blocks of one package the first counts.
Counts(f, k) == \A j \in Blocks(f) : f.blocks[j].key = f.blocks[k].key => k <= j

\* Which package answers a spec; a later block overrides an earlier one.
SpecKeys(f) ==
    LET answers(s) == {k \in Blocks(f) : s \in f.blocks[k].specs}
        last(s) == CHOOSE k \in answers(s) : \A j \in answers(s) : j <= k
    IN [s \in UNION {f.blocks[k].specs : k \in Blocks(f)} |-> f.blocks[last(s)].key]

\* classic_candidates and berry_candidates: berry also writes the protocol
SpecCandidates(f, d, range) ==
    IF f.berry /\ ~range.npm
    THEN <<SpecOf(d, range), SpecOf(d, [range |-> range.range, of |-> range.of, npm |-> TRUE])>>
    ELSE <<SpecOf(d, range)>>

\* resolve_dependencies_with
YarnResolved(f, ranges) ==
    [d \in DOMAIN ranges |-> FirstOf(SpecCandidates(f, d, ranges[d]), SpecKeys(f))]

\* The packages; a dependency that no block answers is left out.
YarnPackages(f) ==
    LET b(k) == f.blocks[k]
    IN {Copy(k, b(k).key, Empty, b(k).deps, YarnResolved(f, b(k).deps)) : k \in {k \in Blocks(f) : Counts(f, k)}}

\* load_manifest_root_specs and build_root_from_specs: the ranges of the manifest, where
\* what is optional is not required
YarnRoot(f) ==
    {Importer(Empty, [d \in DOMAIN f.need \ DOMAIN f.maybe |-> f.need[d]], f.maybe,
              YarnResolved(f, Either(f.maybe, f.need)))}

\* parse_classic_str and parse_berry_str: a block of classic is about one package,
\* and berry may name protocols that are not supported
NotUnderstood(f, k) ==
    IF f.berry THEN Counts(f, k) /\ ~f.blocks[k].supported
               ELSE \E s \in f.blocks[k].specs : Identity(s) # f.blocks[k].key[1]

ReadYarn(f) ==
    IF \E k \in Blocks(f) : NotUnderstood(f, k) THEN Refused ELSE Lockfile(YarnRoot(f), YarnPackages(f))

-----------------------------------------------------------------------------
(* The import                                                              *)

\* compatible_lockfile_candidates
Order == <<"pnpm-branch", "pnpm", "bun", "yarn", "shrinkwrap", "npm">>

\* detect_compatible_lockfile
Detect(dir) ==
    LET there == {k \in DOMAIN Order : Order[k] \in DOMAIN dir} IN
    IF there = {} THEN NONE ELSE dir[Order[CHOOSE k \in there : \A j \in there : k <= j]]

TreeOf(f) == IF f.format = "npm1" THEN ParseV1(f.nested, f.manifest) ELSE f.tree

\* read_compatible_lockfile
Read(f) ==
    CASE f.format \in {"npm", "npm1"} -> ReadNpm(TreeOf(f))
      [] f.format = "bun" -> ReadBun(f)
      [] f.format = "pnpm" -> ReadPnpm(f)
      [] f.format = "yarn" -> ReadYarn(f)

ImportInit == found \in {Detect(dir) : dir \in Directory} \ {NONE} /\ answer = Unread

Import == answer = Unread /\ answer' = Read(found) /\ UNCHANGED found

ImportNext == Import

ImportSpec == ImportInit /\ [][ImportNext]_importVars

-----------------------------------------------------------------------------
(* What the other package manager installed                                *)

\* The directories above p, p included, that have d.
Above(p, d, paths) ==
    {q \in paths : Len(q) <= Len(p) + 1 /\ q[Len(q)] = d
                    /\ SubSeq(q, 1, Len(q) - 1) = SubSeq(p, 1, Len(q) - 1)}

\* What lies in the nearest of them, as Node looks it up.
At(keys, p, d) ==
    LET above == Above(p, d, DOMAIN keys) IN
    IF above = {} THEN NONE ELSE keys[CHOOSE q \in above : \A r \in above : Len(r) <= Len(q)]

\* A copy or an importer that finds what is nearest
Looks(c, keys) ==
    Copy(c.by, c.key, c.need, c.maybe, [d \in Declared(c.need, c.maybe) |-> At(keys, c.by, d)])

Nearby(copies, keys) == {Looks(c, keys) : c \in copies}

\* In bun.lock a member lies on top, unless a package does.
BunPlaces(f) ==
    [p \in DOMAIN f.packages \cup {<<d>> : d \in f.members} |->
        IF p \in DOMAIN f.packages THEN f.packages[p].key ELSE MEMBER]

\* In pnpm-lock.yaml a reference is to a package of which there is a snapshot.
Referred(f, d, ref) ==
    LET key == <<IF ref.name = NONE THEN d ELSE ref.name, ref.version>>
    IN IF \E s \in DOMAIN Snapshots(f) : SnapshotKey(s) = key THEN key ELSE NONE

PnpmSeen(f) ==
    LET shot(s) == Snapshots(f)[s]
        block(i) == f.importers[i]
        ranges(b) == [d \in DOMAIN b |-> b[d].range]
    IN {Copy(s, SnapshotKey(s), shot(s).need, shot(s).maybe,
             [d \in Declared(shot(s).need, shot(s).maybe) |->
                 Referred(f, d, IF d \in DOMAIN shot(s).need THEN shot(s).need[d] ELSE shot(s).maybe[d])]) :
           s \in DOMAIN Snapshots(f)}
       \cup
       {Importer(i, ranges(block(i).need), ranges(block(i).maybe),
             [d \in Declared(block(i).need, block(i).maybe) |->
                 Referred(f, d, IF d \in DOMAIN block(i).need THEN block(i).need[d].ref ELSE block(i).maybe[d].ref)]) :
           i \in DOMAIN f.importers}

\* In yarn.lock a range is answered by a block that names it, with or without protocol.
Said(f, d, r) ==
    LET b == {k \in Blocks(f) : \E s \in f.blocks[k].specs :
                 s.name = d /\ s.range.of = r.of /\ s.range.range = r.range}
    IN IF b = {} THEN NONE ELSE f.blocks[CHOOSE k \in b : TRUE].key

YarnSeen(f) ==
    LET deps(k) == f.blocks[k].deps
        hard == [d \in DOMAIN f.need \ DOMAIN f.maybe |-> f.need[d]]
        said(ranges) == [d \in DOMAIN ranges |-> Said(f, d, ranges[d])]
    IN {Copy(k, f.blocks[k].key, Empty, deps(k), said(deps(k))) : k \in Blocks(f)}
       \cup {Importer(Empty, hard, f.maybe, said(Either(f.maybe, hard)))}

\* All copies of packages and all importers, with what they find.
Seen(f) ==
    CASE f.format \in {"npm", "npm1"} ->
            Nearby(NpmPackages(TreeOf(f)) \cup NpmRoot(TreeOf(f)), InstalledAt(TreeOf(f)))
      [] f.format = "bun" -> Nearby(BunPackages(f), BunKeys(f)) \cup Nearby(BunRoot(f), BunPlaces(f))
      [] f.format = "pnpm" -> PnpmSeen(f)
      [] f.format = "yarn" -> YarnSeen(f)

SeenCopies(f) == {c \in Seen(f) : c.key # Empty}

SeenImporters(f) == {i \in Seen(f) : i.key = Empty}

\* What importers look for, members left out.
SeenAsks(f) == UNION {Incoming(i) : i \in SeenImporters(f)}

\* What a copy has below it.
Finds(c) == {<<d, c.finds[d]>> : d \in {d \in Declared(c.need, c.maybe) : c.finds[d] \notin {NONE, MEMBER}}}

Imported == answer.is = "read"

-----------------------------------------------------------------------------
(* Lockfiles as the other package managers write them                      *)

\* A package is known by its name and version.
Package(key) == key = <<key[1], key[2]>> /\ key \notin {NONE, MEMBER}

TreeWritten(tree) ==
    /\ Empty \in DOMAIN tree /\ tree[Empty].link = NONE
    /\ \A p \in DOMAIN tree : p \in Seq(STRING) /\ Declared(tree[p].need, tree[p].maybe) \subseteq STRING
    /\ \A p \in PackagePaths(tree) : Package(KeyAt(tree, p))

BunWritten(f) ==
    /\ f.members \subseteq STRING
    /\ \A p \in DOMAIN f.packages :
           /\ p \in Seq(STRING) /\ p # Empty /\ Package(f.packages[p].key)
           /\ Declared(f.packages[p].need, f.packages[p].maybe) \subseteq STRING
    /\ \A w \in DOMAIN f.workspaces :
           /\ w \in Seq(STRING) /\ Len(w) <= 1
           /\ Declared(f.workspaces[w].need, f.workspaces[w].maybe) \subseteq STRING

\* Every snapshot is of a package that is listed, and no name is both needed and optional.
PnpmWritten(f) ==
    LET apart(b) == DOMAIN b.need \cap DOMAIN b.maybe = {}
    IN /\ \A s \in DOMAIN f.snapshots :
              /\ s = [name |-> s.name, version |-> s.version, peers |-> s.peers]
              /\ SnapshotKey(s) \in f.packages /\ apart(f.snapshots[s])
       /\ \A i \in DOMAIN f.importers : apart(f.importers[i])
       /\ \A k \in f.packages : Package(k)

IsRange(r) == r = [range |-> r.range, of |-> r.of, npm |-> r.npm] /\ r.npm \in BOOLEAN

\* A range is in one block, with its protocol in berry and without in classic, and
\* blocks of one package have the same dependencies.
YarnWritten(f) ==
    LET asked(ranges) == \A d \in DOMAIN ranges : IsRange(ranges[d]) /\ (ranges[d].npm => f.berry)
    IN /\ DOMAIN f.blocks = 1..Len(f.blocks) /\ Len(f.blocks) \in Nat /\ f.berry \in BOOLEAN
       /\ \A k \in Blocks(f) :
              /\ Package(f.blocks[k].key)
              /\ \A s \in f.blocks[k].specs :
                     /\ s = SpecOf(s.name, s.range) /\ IsRange(s.range) /\ s.range.npm = f.berry
                     /\ \A j \in Blocks(f) : \A t \in f.blocks[j].specs :
                            s = t => f.blocks[j].key = f.blocks[k].key
              /\ \A j \in Blocks(f) : f.blocks[j].key = f.blocks[k].key => f.blocks[j].deps = f.blocks[k].deps
       /\ asked(f.need) /\ asked(f.maybe) /\ \A k \in Blocks(f) : asked(f.blocks[k].deps)

\* A range says what package an alias stands for.
AliasesShow(f) ==
    \A x, y \in SeenAsks(f) :
        x.name = y.name /\ x.range = y.range /\ NONE \notin {x.key, y.key} => x.key[1] = y.key[1]

Written(f) ==
    \/ f.format \in {"npm", "npm1"} /\ TreeWritten(TreeOf(f))
    \/ f.format = "bun" /\ BunWritten(f)
    \/ f.format = "pnpm" /\ PnpmWritten(f)
    \/ f.format = "yarn" /\ YarnWritten(f)

\* Lockfiles that npm did not leave broken
Sound(f) == f.format \in {"npm", "npm1"} => ~Broken(TreeOf(f))

ASSUME ForeignAssumption ==
    /\ NONE # MEMBER
    /\ \A dir \in Directory : Detect(dir) # NONE =>
           Written(Detect(dir)) /\ (Sound(Detect(dir)) => AliasesShow(Detect(dir)))

-----------------------------------------------------------------------------
(* Properties                                                              *)

\* A lockfile is imported whole or refused: packages have edges to packages that are
\* there, and the dependencies of the root too (Lockfile in lockfile/types.rs).
Whole ==
    Imported =>
        LET there == DOMAIN answer.packages IN
        /\ \A k \in there : \A d \in DOMAIN answer.packages[k] : answer.packages[k][d] \in there
        /\ \A n \in DOMAIN answer.root :
               \/ answer.root[n].key \in there
               \/ answer.root[n].key = NONE /\ answer.root[n].optional

\* What is imported is the graph that the other package manager installed: every
\* copy of a package, wherever it lies and whatever peers it was resolved with,
\* finds under each of its dependencies what the one imported package says (but for
\* members of the workspace, which are no packages), and there are no other packages
\* and no other dependencies (build_packages of the readers: one set of dependencies stands
\* for all copies).
Faithful ==
    Imported =>
        /\ DOMAIN answer.packages = {c.key : c \in SeenCopies(found)}
        /\ \A c \in SeenCopies(found) :
               Finds(c) = {<<d, answer.packages[c.key][d]>> : d \in DOMAIN answer.packages[c.key]}

\* Every range that a project or a member asks for is in the root as it was
\* written, with the package that was installed for it, and is optional only if
\* all of them can do without (merge_root_dependency): lockfile matching and
\* production installs go by it.
RootKept ==
    Imported =>
        LET asks == SeenAsks(found) IN
        /\ DOMAIN answer.root = {x.name : x \in asks}
        /\ \A x \in asks :
               /\ answer.root[x.name].range = x.range
               /\ x.key # NONE => answer.root[x.name].key = x.key
               /\ answer.root[x.name].optional = \A y \in asks : y.name = x.name => y.optional

\* Something required is not there, copies of one package find different things, or
\* importers ask for different things under one name.
Contradicts(f) ==
    \/ \E c \in SeenCopies(f) : Lacks(c)
    \/ \E c, e \in SeenCopies(f) : c.key = e.key /\ Finds(c) # Finds(e)
    \/ \E x \in SeenAsks(f) : x.key = NONE /\ ~x.optional
    \/ \E x, y \in SeenAsks(f) :
           x.name = y.name /\ (x.range # y.range \/ (NONE \notin {x.key, y.key} /\ x.key # y.key))

\* A lockfile is refused only for what it says: something required that is not
\* there, copies of one package that find different things, importers that ask
\* for different things under one name, or an entry that is not understood (read of the
\* four readers).
Imports ==
    answer.is = "refused" =>
        \/ ~Sound(found)
        \/ found.format = "pnpm" /\ DOMAIN found.importers = {}
        \/ found.format = "yarn" /\ \E k \in Blocks(found) : NotUnderstood(found, k)
        \/ Contradicts(found)

\* An import keeps the graph that the other package manager installed, below the root and
\* at it (build_packages, build_root, merge_root_dependency of the four readers).
GraphKept == Whole /\ Faithful /\ RootKept

=============================================================================
