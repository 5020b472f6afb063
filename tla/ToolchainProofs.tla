--------------------------- MODULE ToolchainProofs ---------------------------
(***************************************************************************)
(* Proofs about Toolchain, for any number of processes, versions,          *)
(* selectors, projects, commands and kills.                                *)
(***************************************************************************)
EXTENDS Toolchain, WellFoundedInduction, TLAPS

-----------------------------------------------------------------------------
(* Types *)

PC == {"idle", "resolve", "stage", "download", "unpack", "unpacked", "mark", "replace", "rename",
       "then", "spawn", "exec", "ran", "remove", "uncurrent", "unalias"}
Dir == (SUBSET Parts) \cup {NONE}
After == {"current", "default", "alias", "spawn", "exec"}
Fetching == {"download", "unpack", "unpacked", "mark", "replace", "rename"}

-----------------------------------------------------------------------------
(* The inductive invariants *)

\* The shim's commands carry versions of snpm and end with its exec; all others
\* carry versions of Node.  What is staged is a version.
Apart(j) ==
    /\ j.op = "switch" => /\ j.v \in Snpm \cup {NONE} /\ j.then \in {<< >>, <<"exec">>}
                          /\ j.pc \in Fetching \cup {"stage", "then", "exec", "ran"}
    /\ j.op # "switch" => /\ j.v \in Node \cup {NONE} /\ j.pc # "exec"
                          /\ \A i \in DOMAIN j.then : j.then[i] # "exec"
    /\ j.op = "alias" => \A i \in DOMAIN j.then : j.then[i] = "alias"
    /\ j.pc \in Fetching \cup {"stage", "remove", "uncurrent", "unalias"} => j.v # NONE
    /\ j.pc = "then" /\ j.op # "switch" => j.v # NONE
OpsApart == \A p \in Process : Apart(job[p])

\* A version that was not spoiled is staged by one command, is not installed
\* meanwhile, and its <v>.tmp holds what that command put there.
Stages(p, v) == job[p].v = v /\ job[p].pc \in Fetching
StagedAs(pc, parts) ==
    CASE pc \in {"download", "unpack"} -> parts \in {{}, NONE}
      [] pc = "unpacked" -> parts = {"bin"}
      [] pc = "mark" -> parts = {"bin", "lib"}
      [] OTHER -> parts = Parts
StagedAlone ==
    \A p \in Process : \A v \in Version \ spoiled :
        Stages(p, v) =>
            /\ \A q \in Process : Stages(q, v) => q = p
            /\ ~IsInstalled(v)
            /\ StagedAs(job[p].pc, tmp[v])

\* The version of the shim is the one that the options and the project select.
ShimFor(tree, shim) ==
    VersionOr(SelectReference(FindPackageManager(tree), shim), IF Bundled THEN NONE ELSE Newest(Snpm))
Picks(j) ==
    j.op = "switch" =>
        \/ j.shim = NONE /\ j.then = << >> /\ j.pc \notin {"exec", "ran"}
        \/ /\ j.shim # NONE /\ j.tree \in Tree
           /\ j.v = ShimFor(j.tree, j.shim)
           /\ j.pc = "ran" => j.ran = j.v
SwitchPicks == \A p \in Process : Picks(job[p])

\* What match_pin_offline looks for, and the versions that a pin admits.
Fits(s) == CASE s.kind = "latest" -> InstalledVersions
             [] s.kind \in {"lts", "name"} -> {}
             [] OTHER -> InstalledVersions \cap s.of
Found(s) ==
    IF s.kind = "exact" THEN \A v \in s.of : IsInstalled(v)
    ELSE \/ ReadAlias(s) # NONE /\ IsInstalled(ReadAlias(s))
         \/ Fits(s) # {}
Admits(s, v) ==
    IF s.kind = "exact" THEN s.of = {v}
    ELSE \/ ReadAlias(s) = v
         \/ s.kind = "latest"
         \/ s.kind \in {"partial", "range"} /\ v \in s.of

\* The script of a pinned project that nothing overtook looks for the pin, then
\* installs a version that the pin admits, and is spawned when there is one.
Overtaken(p) ==
    LET s == PinOf(p).spec IN
    PinOf(p) = NONE \/ job[p].stale \/ s.kind = "lts" \/ Shadowed(s) \/ spoiled # {}
Follows(p) ==
    LET j == job[p]
        s == PinOf(p).spec
    IN j.op = "run" =>
        /\ j.tree \in Tree
        /\ j.pc = "resolve" => PinOf(p) # NONE /\ j.spec = s
        /\ ~Overtaken(p) =>
              /\ j.pc \in Fetching \cup {"stage", "then"} => j.v # NONE /\ Admits(s, j.v)
              /\ j.pc = "spawn" => Found(s) \/ (PinOf(p).engines /\ SystemNodeSatisfies(s))
RunFollows == \A p \in Process : Follows(p)

ShapeInv == TypeOK /\ OpsApart
WholeInv == ShapeInv /\ StagedAlone /\ InstalledWhole /\ GoesOnWhole
CurrentInv == WholeInv /\ CurrentHolds
RunInv == WholeInv /\ RunFollows /\ PinRuns
ShimInv == ShapeInv /\ SwitchPicks

LEMMA VersionTypes ==
    /\ Node \subseteq Version /\ Snpm \subseteq Version /\ NONE \notin Version
    /\ \A v \in Version : v \in Nat
    /\ \A v \in Node : v \notin Snpm
  BY ToolchainAssumption DEF Version

LEMMA NewestType ==
    ASSUME NEW S \in (SUBSET Node) \cup (SUBSET Snpm), S # {}
    PROVE  Newest(S) \in S
  BY ToolchainAssumption DEF Newest

LEMMA SelectorType ==
    ASSUME NEW s \in Selector \cup {Default}
    PROVE  /\ s.of \in SUBSET Node
           /\ s.kind = "exact" => /\ s \in AliasName
                                  /\ \E v \in Node : s = Exact(v)
                                  /\ (CHOOSE v \in s.of : TRUE) \in Node
                                  /\ s.of = {CHOOSE v \in s.of : TRUE}
<1>1. CASE s \in Spec
  BY <1>1, ToolchainAssumption
<1>2. CASE s = Default
  BY <1>2 DEF Default
<1>3. CASE \E v \in Node : s = Exact(v)
  <2>1. PICK v \in Node : s = Exact(v)
    BY <1>3
  <2>2. s.of = {v} /\ s.kind = "exact"
    BY <2>1 DEF Exact
  <2>3. (CHOOSE w \in s.of : TRUE) = v
    BY <2>2
  <2>4. s \in AliasName
    BY <2>1, <2>2 DEF AliasName, Selector
  <2> QED
    BY <2>1, <2>2, <2>3, <2>4
<1> QED
  BY <1>1, <1>2, <1>3 DEF Selector

LEMMA ExactType == \A v \in Node : Exact(v) \in Selector /\ Exact(v).kind = "exact" /\ Exact(v).of = {v}
  BY DEF Selector, Exact

LEMMA DefaultType == Default \in AliasName /\ Default.kind = "name" /\ Default \notin Selector
<1>1. Default.kind = "name"
  BY DEF Default
<1>2. \A v : Exact(v).kind = "exact"
  BY DEF Exact
<1> QED
  BY <1>1, <1>2, ToolchainAssumption DEF AliasName, Selector

LEMMA IdleType == Idle \in Job
<1>1. << >> \in Seq(After)
  OBVIOUS
<1> QED
  BY <1>1 DEF Idle, Job, After, Default

\* The first of some places of a sequence
LEMMA LeastIndex ==
    ASSUME NEW at, at \subseteq Nat, at # {}
    PROVE  \E i \in at : \A j \in at : i <= j
<1> DEFINE R == OpToRel(<, Nat)
<1>1. IsWellFoundedOn(R, Nat)
  BY NatLessThanWellFounded
<1>2. \A i, j \in Nat : i < j => <<i, j>> \in R
  BY DEF OpToRel
<1> HIDE DEF R
<1>3. \E i \in at : \A j \in at : ~ (<<j, i>> \in R)
  BY <1>1, WFMin
<1>4. PICK i \in at : \A j \in at : ~ (<<j, i>> \in R)
  BY <1>3
<1>5. ASSUME NEW j \in at PROVE i <= j
  <2>1. ~ (j < i)
    BY <1>2, <1>4, <1>5
  <2> QED
    BY <2>1
<1> QED
  BY <1>5

\* The files of a directory of a project
LEMMA TreeType ==
    ASSUME NEW tree \in Tree
    PROVE  /\ DOMAIN tree \subseteq Nat
           /\ \A i \in DOMAIN tree : /\ tree[i].file \in Selector \cup {NONE}
                                     /\ tree[i].engines \in Selector \cup {NONE}
                                     /\ tree[i].manager \in Reference \cup {NONE}
<1> DEFINE Files == [file : Selector \cup {NONE}, engines : Selector \cup {NONE},
                     manager : Reference \cup {NONE}]
<1>1. tree \in Seq(Files)
  BY ToolchainAssumption
<1> HIDE DEF Files
<1>2. DOMAIN tree \subseteq Nat /\ \A i \in DOMAIN tree : tree[i] \in Files
  BY <1>1
<1> QED
  BY <1>2 DEF Files

\* The pin that Discover finds
LEMMA DiscoverType ==
    ASSUME NEW tree \in Tree, Discover(tree) # NONE
    PROVE  Discover(tree).spec \in Selector /\ Discover(tree).engines \in BOOLEAN
<1> DEFINE first(f) == LET at == {i \in DOMAIN tree : tree[i][f] # NONE} IN
                       IF at = {} THEN NONE ELSE tree[CHOOSE i \in at : \A j \in at : i <= j][f]
<1>1. ASSUME NEW f \in {"file", "engines"}, first(f) # NONE PROVE first(f) \in Selector
  <2> DEFINE here == {i \in DOMAIN tree : tree[i][f] # NONE}
             least == CHOOSE i \in here : \A j \in here : i <= j
  <2>1. here # {} /\ first(f) = tree[least][f]
    BY <1>1
  <2>2. here \subseteq Nat
    BY TreeType
  <2>3. \E i \in here : \A j \in here : i <= j
    BY <2>1, <2>2, LeastIndex
  <2>4. least \in here
    BY <2>3
  <2>5. least \in DOMAIN tree /\ tree[least][f] # NONE
    BY <2>4
  <2>6. tree[least].file \in Selector \cup {NONE} /\ tree[least].engines \in Selector \cup {NONE}
    BY <2>5, TreeType
  <2> HIDE DEF least, first
  <2>7. CASE f = "file"
    BY <2>1, <2>5, <2>6, <2>7
  <2>8. CASE f = "engines"
    BY <2>1, <2>5, <2>6, <2>8
  <2> QED
    BY <2>7, <2>8
<1>2. Discover(tree) = IF first("file") # NONE THEN [spec |-> first("file"), engines |-> FALSE]
       ELSE IF first("engines") # NONE THEN [spec |-> first("engines"), engines |-> TRUE]
       ELSE NONE
  BY DEF Discover
<1> HIDE DEF first
<1>3. CASE first("file") # NONE
  <2>1. Discover(tree) = [spec |-> first("file"), engines |-> FALSE]
    BY <1>2, <1>3
  <2> QED
    BY <1>1, <1>3, <2>1
<1>4. CASE first("file") = NONE
  <2>1. Discover(tree) = [spec |-> first("engines"), engines |-> TRUE] /\ first("engines") # NONE
    BY <1>2, <1>4
  <2> QED
    BY <1>1, <2>1
<1> QED
  BY <1>3, <1>4

LEMMA FindPackageManagerType ==
    ASSUME NEW tree \in Tree
    PROVE  /\ FindPackageManager(tree) \in Reference \cup {NONE}
           /\ \A i \in DOMAIN tree :
                 (/\ tree[i].manager # NONE
                  /\ \A j \in DOMAIN tree : tree[j].manager # NONE => i <= j) =>
                     FindPackageManager(tree) = tree[i].manager
<1> DEFINE here == {i \in DOMAIN tree : tree[i].manager # NONE}
           least == CHOOSE i \in here : \A j \in here : i <= j
<1>1. here \subseteq Nat
  BY TreeType
<1>2. FindPackageManager(tree) = IF here = {} THEN NONE ELSE tree[least].manager
  BY DEF FindPackageManager
<1>3. ASSUME here # {} PROVE least \in here /\ \A j \in here : least <= j
  BY <1>1, <1>3, LeastIndex
<1>4. FindPackageManager(tree) \in Reference \cup {NONE}
  <2>1. CASE here = {}
    BY <1>2, <2>1
  <2>2. CASE here # {}
    <3>1. least \in DOMAIN tree
      BY <1>3, <2>2
    <3> HIDE DEF least
    <3> QED
      BY <1>2, <2>2, <3>1, TreeType
  <2> QED
    BY <2>1, <2>2
<1>5. ASSUME NEW i \in DOMAIN tree, tree[i].manager # NONE,
             \A j \in DOMAIN tree : tree[j].manager # NONE => i <= j
      PROVE  FindPackageManager(tree) = tree[i].manager
  <2>1. i \in here /\ here # {}
    BY <1>5
  <2>2. least \in here /\ least <= i /\ i <= least
    BY <1>3, <1>5, <2>1
  <2> HIDE DEF least
  <2>3. least = i
    BY <1>1, <2>1, <2>2
  <2> QED
    BY <1>2, <2>1, <2>3
<1> QED
  BY <1>4, <1>5

\* The version that a reference asks for is one of snpm.
LEMMA VersionOrType ==
    ASSUME NEW tree \in Tree, NEW options \in [ignore : BOOLEAN, version : Snpm \cup {NONE}],
           NEW other \in Snpm \cup {NONE}
    PROVE  VersionOr(SelectReference(FindPackageManager(tree), options), other) \in Snpm \cup {NONE}
<1> DEFINE chosen == SelectReference(FindPackageManager(tree), options)
<1>1. chosen \in Reference \cup {NONE}
  BY FindPackageManagerType DEF SelectReference, Reference
<1> HIDE DEF chosen
<1>2. VersionOr(chosen, other) \in Snpm \cup {NONE}
  BY <1>1 DEF VersionOr, Reference
<1> QED
  BY <1>2 DEF chosen

LEMMA NewestSnpm == Newest(Snpm) \in Snpm
  BY NewestType, ToolchainAssumption

-----------------------------------------------------------------------------
(* What a selector means *)

\* One alias is followed.
Follow(s) == IF ReadAlias(s) = NONE THEN s ELSE Exact(ReadAlias(s))

LEMMA FollowType ==
    ASSUME TypeOK, NEW s \in Selector \cup {Default}
    PROVE  /\ ReadAlias(s) \in Node \cup {NONE}
           /\ Follow(s) \in Selector \cup {Default}
<1>1. ReadAlias(s) \in Node \cup {NONE}
  BY DEF TypeOK, ReadAlias
<1> QED
  BY <1>1, ExactType DEF Follow

\* The chain that resolve_with_depth follows, hop by hop.
LEMMA ChainHops ==
    ASSUME NEW s
    PROVE  Chain(s)[8] = Follow(Follow(Follow(Follow(Follow(Follow(Follow(Follow(s))))))))
<1> DEFINE f1 == Follow(s)
           f2 == Follow(f1)
           f3 == Follow(f2)
           f4 == Follow(f3)
           f5 == Follow(f4)
           f6 == Follow(f5)
           f7 == Follow(f6)
           f8 == Follow(f7)
           F(h) == [n \in 0..MAX_ALIAS_DEPTH |->
                      IF n = 0 THEN s
                      ELSE IF ReadAlias(h[n - 1]) = NONE THEN h[n - 1]
                      ELSE Exact(ReadAlias(h[n - 1]))]
           W == [n \in 0..MAX_ALIAS_DEPTH |->
                    CASE n = 0 -> s [] n = 1 -> f1 [] n = 2 -> f2 [] n = 3 -> f3 [] n = 4 -> f4
                      [] n = 5 -> f5 [] n = 6 -> f6 [] n = 7 -> f7 [] n = 8 -> f8]
<1>1. Chain(s) = CHOOSE h : h = F(h)
  BY DEF Chain
<1>2. \A h, n : n \in 1..MAX_ALIAS_DEPTH => F(h)[n] = Follow(h[n - 1])
  BY DEF Follow, MAX_ALIAS_DEPTH
<1>3. \A h : F(h)[0] = s /\ DOMAIN F(h) = 0..MAX_ALIAS_DEPTH
  BY DEF MAX_ALIAS_DEPTH
<1>4. W = F(W)
  <2>1. W[0] = s /\ W[1] = f1 /\ W[2] = f2 /\ W[3] = f3 /\ W[4] = f4 /\ W[5] = f5 /\ W[6] = f6
        /\ W[7] = f7 /\ W[8] = f8
    BY DEF MAX_ALIAS_DEPTH
  <2>2. ASSUME NEW n \in 0..MAX_ALIAS_DEPTH PROVE W[n] = F(W)[n]
    <3>1. n = 0 \/ n = 1 \/ n = 2 \/ n = 3 \/ n = 4 \/ n = 5 \/ n = 6 \/ n = 7 \/ n = 8
      BY DEF MAX_ALIAS_DEPTH
    <3> HIDE DEF F, W
    <3>2. F(W)[0] = s /\ \A k \in 1..MAX_ALIAS_DEPTH : F(W)[k] = Follow(W[k - 1])
      BY ONLY <1>2, <1>3
    <3>3. /\ F(W)[1] = Follow(W[0]) /\ F(W)[2] = Follow(W[1]) /\ F(W)[3] = Follow(W[2])
          /\ F(W)[4] = Follow(W[3]) /\ F(W)[5] = Follow(W[4]) /\ F(W)[6] = Follow(W[5])
          /\ F(W)[7] = Follow(W[6]) /\ F(W)[8] = Follow(W[7])
      BY <3>2 DEF MAX_ALIAS_DEPTH
    <3> QED
      BY ONLY <2>1, <3>1, <3>2, <3>3
  <2> QED
    BY <2>2
<1>5. Chain(s) = F(Chain(s))
  <2>1. \E h : h = F(h)
    BY <1>4
  <2> HIDE DEF F, W
  <2>2. (CHOOSE h : h = F(h)) = F(CHOOSE h : h = F(h))
    BY <2>1, Zenon
  <2> QED
    BY <1>1, <2>2, Zenon
<1> DEFINE c == Chain(s)
<1>6. c[0] = s /\ \A n \in 1..MAX_ALIAS_DEPTH : c[n] = Follow(c[n - 1])
  <2>1. c[0] = F(c)[0] /\ \A n \in 1..MAX_ALIAS_DEPTH : c[n] = F(c)[n]
    BY <1>5
  <2> HIDE DEF c, F
  <2> QED
    BY <1>2, <1>3, <2>1
<1> HIDE DEF c
<1>7. c[1] = Follow(c[0]) /\ c[2] = Follow(c[1]) /\ c[3] = Follow(c[2]) /\ c[4] = Follow(c[3])
      /\ c[5] = Follow(c[4]) /\ c[6] = Follow(c[5]) /\ c[7] = Follow(c[6]) /\ c[8] = Follow(c[7])
  BY <1>6 DEF MAX_ALIAS_DEPTH
<1>8. c[8] = f8
  BY <1>6, <1>7
<1> QED
  BY <1>8 DEF c

LEMMA ChainType ==
    ASSUME TypeOK, NEW s \in Selector \cup {Default}
    PROVE  Chain(s)[MAX_ALIAS_DEPTH] \in Selector \cup {Default}
<1> DEFINE S == Selector \cup {Default}
<1>1. \A x \in S : Follow(x) \in S
  BY FollowType
<1> HIDE DEF S
<1>2. s \in S
  BY DEF S
<1>3. Follow(Follow(Follow(Follow(s)))) \in S
  BY <1>1, <1>2
<1>4. Follow(Follow(Follow(Follow(Follow(Follow(Follow(Follow(s)))))))) \in S
  BY <1>1, <1>3
<1> QED
  BY <1>4, ChainHops DEF S, MAX_ALIAS_DEPTH

\* An alias whose version is no alias itself ends the chain.
LEMMA ChainShort ==
    ASSUME NEW s, Follow(Follow(s)) = Follow(s)
    PROVE  Chain(s)[MAX_ALIAS_DEPTH] = Follow(s)
  BY ChainHops DEF MAX_ALIAS_DEPTH

LEMMA MatchRemoteType ==
    ASSUME NEW s \in Selector \cup {Default}, NEW releases \in SUBSET Node
    PROVE  /\ MatchRemote(s, releases) \in Node \cup {NONE}
           /\ MatchRemote(s, releases) # NONE /\ s.kind \notin {"exact", "lts", "latest"} =>
                 s.kind # "name" /\ MatchRemote(s, releases) \in s.of
<1> DEFINE named == CASE s.kind = "latest" -> releases
                   [] s.kind = "lts" -> releases \cap s.of \cap Lts
                   [] s.kind = "name" -> {}
                   [] OTHER -> releases \cap s.of
<1>1. MatchRemote(s, releases) = IF named = {} THEN NONE ELSE Newest(named)
  BY DEF MatchRemote
<1>2. named \in SUBSET Node
  OBVIOUS
<1>3. s.kind = "name" => named = {}
  OBVIOUS
<1>4. s.kind \notin {"lts", "latest"} => named \subseteq s.of
  OBVIOUS
<1> HIDE DEF named
<1>5. named # {} => Newest(named) \in named
  BY <1>2, NewestType
<1>6. Newest(named) \in Node \cup {NONE} \/ named = {}
  BY <1>2, <1>5
<1> QED
  BY <1>1, <1>2, <1>3, <1>4, <1>5, <1>6

LEMMA PinOfflineType ==
    ASSUME TypeOK, NEW s \in Selector
    PROVE  /\ MatchPinOffline(s) \in Node \cup {NONE}
           /\ MatchPinOffline(s) # NONE <=> Found(s)
           /\ MatchPinOffline(s) # NONE =>
                 \/ MatchPinOffline(s) \in s.of \/ s.kind = "latest" \/ MatchPinOffline(s) = ReadAlias(s)
<1>a. NONE \notin Node /\ InstalledVersions \subseteq Node
  BY ToolchainAssumption DEF InstalledVersions
<1>1. CASE s.kind = "exact"
  <2> DEFINE v == CHOOSE v \in s.of : TRUE
  <2>1. v \in Node /\ s.of = {v}
    BY <1>1, SelectorType
  <2>2. MatchPinOffline(s) = IF IsInstalled(v) THEN v ELSE NONE
    BY <1>1 DEF MatchPinOffline
  <2> HIDE DEF v
  <2>3. Found(s) <=> IsInstalled(v)
    BY <1>1, <2>1 DEF Found
  <2> QED
    BY <1>a, <2>1, <2>2, <2>3
<1>2. CASE s.kind # "exact"
  <2>1. ReadAlias(s) \in Node \cup {NONE}
    BY FollowType
  <2>2. NewestInstalledMatching(s) = IF Fits(s) = {} THEN NONE ELSE Newest(Fits(s))
    BY DEF NewestInstalledMatching, Fits
  <2>3. Fits(s) \in SUBSET Node
    BY <1>a DEF Fits
  <2>4. Fits(s) # {} => Newest(Fits(s)) \in Fits(s)
    BY <2>3, NewestType
  <2>5. \A v \in Fits(s) : v \in Node /\ (v \in s.of \/ s.kind = "latest")
    BY <1>a DEF Fits
  <2>6. MatchPinOffline(s) = IF ReadAlias(s) # NONE /\ IsInstalled(ReadAlias(s)) THEN ReadAlias(s)
                             ELSE NewestInstalledMatching(s)
    BY <1>2 DEF MatchPinOffline
  <2>7. Found(s) <=> (ReadAlias(s) # NONE /\ IsInstalled(ReadAlias(s))) \/ Fits(s) # {}
    BY <1>2 DEF Found
  <2>8. CASE ReadAlias(s) # NONE /\ IsInstalled(ReadAlias(s))
    BY <2>1, <2>6, <2>7, <2>8
  <2>9. CASE ~(ReadAlias(s) # NONE /\ IsInstalled(ReadAlias(s)))
    <3>1. CASE Fits(s) = {}
      BY <2>2, <2>6, <2>7, <2>9, <3>1
    <3>2. CASE Fits(s) # {}
      <4>1. MatchPinOffline(s) = Newest(Fits(s))
        BY <2>2, <2>6, <2>9, <3>2
      <4>2. Newest(Fits(s)) \in Node /\ (Newest(Fits(s)) \in s.of \/ s.kind = "latest")
        BY <2>4, <2>5, <3>2
      <4> QED
        BY <1>a, <2>7, <3>2, <4>1, <4>2
    <3> QED
      BY <3>1, <3>2
  <2> QED
    BY <2>8, <2>9
<1> QED
  BY <1>1, <1>2

LEMMA ActiveType ==
    ASSUME TypeOK, NEW tree \in Tree \cup {<< >>}
    PROVE  ActiveOffline(tree) \in Node \cup {NONE}
<1>1. ResolveDefault \in Node \cup {NONE}
  BY DefaultType DEF ResolveDefault, TypeOK
<1>2. CASE tree \in Tree
  BY <1>1, <1>2, DiscoverType, PinOfflineType DEF ActiveOffline
<1>3. CASE tree = << >>
  <2>1. \A f : {i \in DOMAIN tree : tree[i][f] # NONE} = {}
    BY <1>3
  <2>2. Discover(tree) = NONE
    BY <2>1 DEF Discover
  <2> QED
    BY <1>1, <2>2 DEF ActiveOffline
<1> QED
  BY <1>2, <1>3

-----------------------------------------------------------------------------
(* Steps change the job of one process; the others only get out of date. *)

Kept(q) ==
    /\ job'[q].op = job[q].op /\ job'[q].pc = job[q].pc /\ job'[q].spec = job[q].spec
    /\ job'[q].v = job[q].v /\ job'[q].then = job[q].then /\ job'[q].tree = job[q].tree
    /\ job'[q].shim = job[q].shim /\ job'[q].ran = job[q].ran
    /\ job[q].stale => job'[q].stale \/ job[q].pc = "idle"

LEMMA OutdateType ==
    ASSUME NEW f \in [Process -> Job]
    PROVE  /\ Outdate(f) \in [Process -> Job]
           /\ \A q \in Process : Outdate(f)[q] = [f[q] EXCEPT !.stale = f[q].pc # "idle"]
<1>1. \A q \in Process : Outdate(f)[q] = [f[q] EXCEPT !.stale = f[q].pc # "idle"]
  BY DEF Outdate
<1>2. \A j \in Job, b \in BOOLEAN : [j EXCEPT !.stale = b] \in Job
  BY DEF Job
<1>3. \A q \in Process : [f[q] EXCEPT !.stale = f[q].pc # "idle"] \in Job
  BY <1>2
<1> QED
  BY <1>1, <1>3 DEF Outdate

LEMMA JobPc == \A j \in Job, pc \in PC : [j EXCEPT !.pc = pc] \in Job
  BY DEF Job, PC

LEMMA GotoType ==
    ASSUME job \in [Process -> Job], NEW p \in Process, NEW pc \in PC, Goto(p, pc)
    PROVE  /\ job' \in [Process -> Job]
           /\ job'[p] = [job[p] EXCEPT !.pc = pc]
           /\ \A q \in Process \ {p} : job'[q] = job[q]
<1>1. [job[p] EXCEPT !.pc = pc] \in Job
  BY JobPc
<1>2. job' = [job EXCEPT ![p] = [job[p] EXCEPT !.pc = pc]]
  BY DEF Goto
<1> QED
  BY <1>1, <1>2

LEMMA EndType ==
    ASSUME job \in [Process -> Job], NEW p \in Process, End(p)
    PROVE  /\ job' \in [Process -> Job]
           /\ job'[p] = Idle
           /\ \A q \in Process \ {p} : job'[q] = job[q]
  BY IdleType DEF End

-----------------------------------------------------------------------------
(* How commands begin *)

\* The job of a command that begins: it is at its first step, and a script has
\* the pin of its project before it.
Starts(c) ==
    /\ c \in Job /\ Apart(c) /\ Picks(c) /\ ~c.stale
    /\ c.pc \in {"resolve", "stage", "then", "spawn", "exec", "remove"}
    /\ c.pc = "then" => c.op = "alias" \/ c.v = NONE
    /\ c.op = "run" =>
          LET pin == Discover(c.tree) IN
          /\ c.tree \in Tree
          /\ \/ c.pc = "resolve" /\ pin # NONE /\ c.spec = pin.spec
             \/ /\ c.pc = "spawn"
                /\ \/ pin = NONE \/ Found(pin.spec)
                   \/ pin.engines /\ SystemNodeSatisfies(pin.spec)

LEMMA ResolvingType ==
    ASSUME NEW op \in {"install", "use", "alias", "run"}, NEW s \in Selector \cup {Default},
           NEW then \in Seq(After)
    PROVE  LET c == Resolving(op, s, then) IN
           /\ c \in Job
           /\ c.op = op /\ c.pc = "resolve" /\ c.spec = s /\ c.v = NONE /\ c.then = then /\ ~c.stale
           /\ c.shim = NONE /\ c.ran = NONE
<1>1. Idle \in Job
  BY IdleType
<1> QED
  BY <1>1 DEF Job, After, Resolving, Idle

\* A command of the user's that first resolves a selector
LEMMA ResolvingStarts ==
    ASSUME NEW op \in {"install", "use", "alias"}, NEW s \in Selector \cup {Default},
           NEW then \in Seq(After),
           \A i \in DOMAIN then : then[i] # "exec",
           op = "alias" => \A i \in DOMAIN then : then[i] = "alias"
    PROVE  Starts(Resolving(op, s, then))
<1> DEFINE c == Resolving(op, s, then)
<1>1. /\ c \in Job
      /\ c.op = op /\ c.pc = "resolve" /\ c.spec = s /\ c.v = NONE /\ c.then = then /\ ~c.stale
  BY ResolvingType
<1> HIDE DEF c
<1>2. Apart(c) /\ Picks(c)
  BY <1>1 DEF Apart, Picks, Fetching
<1> QED
  BY <1>1, <1>2 DEF Starts, c

\* What follows a command once its version is there
Thens == {<< >>, <<"default", "current">>, <<"current", "default">>, <<"current">>, <<"default">>,
          <<"alias">>, <<"spawn">>, <<"exec">>}

LEMMA TupleTypes ==
    ASSUME NEW S, NEW a \in S, NEW b \in S
    PROVE  <<a>> \in Seq(S) /\ <<a, b>> \in Seq(S)
  OBVIOUS

LEMMA ThenTypes ==
    /\ \A t \in Thens : t \in Seq(After)
    /\ \A t \in Thens \ {<<"exec">>} : \A i \in DOMAIN t : t[i] # "exec"
    /\ \A i \in DOMAIN <<"alias">> : <<"alias">>[i] = "alias"
<1>1. \A t \in Thens : t \in Seq(After)
  <2>1. << >> \in Seq(After)
    OBVIOUS
  <2>2. \A a \in After : <<a>> \in Seq(After)
    BY TupleTypes
  <2>3. \A a, b \in After : <<a, b>> \in Seq(After)
    BY TupleTypes
  <2> QED
    BY <2>1, <2>2, <2>3, Zenon DEF Thens, After
<1>2. ASSUME NEW t \in Thens \ {<<"exec">>}, NEW i \in DOMAIN t PROVE t[i] # "exec"
  <2>1. CASE t = << >>
    BY <2>1
  <2>2. ASSUME NEW a \in {"alias", "spawn", "current", "default"}, t = <<a>> PROVE t[i] # "exec"
    BY <2>2
  <2>3. CASE t = <<"default", "current">>
    BY <2>3
  <2>4. CASE t = <<"current", "default">>
    BY <2>4
  <2> QED
    BY <2>1, <2>2, <2>3, <2>4 DEF Thens
<1>3. \A i \in DOMAIN <<"alias">> : <<"alias">>[i] = "alias"
  OBVIOUS
<1> QED
  BY <1>1, <1>2, <1>3

LEMMA InstallStarts ==
    ASSUME TypeOK, NEW p \in Process, InstallCommand(p) \/ DefaultCommand(p)
    PROVE  \E c : Begin(p, c) /\ Starts(c)
<1>1. PICK s \in Typed, then \in {<< >>, <<"default", "current">>, <<"default">>} :
          Begin(p, Resolving("install", s, then))
  BY DEF InstallCommand, DefaultCommand
<1>2. s \in Selector
  BY ToolchainAssumption
<1>3. then \in Seq(After) /\ \A i \in DOMAIN then : then[i] # "exec"
  <2>1. then \in Thens \ {<<"exec">>}
    BY DEF Thens
  <2> QED
    BY <2>1, ThenTypes
<1>4. Starts(Resolving("install", s, then))
  BY <1>2, <1>3, ResolvingStarts
<1> QED
  BY <1>1, <1>4

LEMMA UseStarts ==
    ASSUME TypeOK, NEW p \in Process, UseCommand(p)
    PROVE  \E c : Begin(p, c) /\ Starts(c)
<1>1. PICK s \in Typed \cup {NONE}, tree \in Tree, install \in BOOLEAN, default \in BOOLEAN :
        LET picked == IF s # NONE THEN s
                      ELSE IF Discover(tree) # NONE THEN Discover(tree).spec
                      ELSE IF alias[Default] # NONE THEN Exact(alias[Default]) ELSE NONE
        IN /\ picked # NONE
           /\ Begin(p, [Resolving("use", picked, IF default THEN <<"current", "default">> ELSE <<"current">>)
                           EXCEPT !.demand = install])
  BY DEF UseCommand
<1> DEFINE picked == IF s # NONE THEN s
                     ELSE IF Discover(tree) # NONE THEN Discover(tree).spec
                     ELSE IF alias[Default] # NONE THEN Exact(alias[Default]) ELSE NONE
           then == IF default THEN <<"current", "default">> ELSE <<"current">>
           r == Resolving("use", picked, then)
           c == [r EXCEPT !.demand = install]
<1>2. picked # NONE /\ Begin(p, c)
  BY <1>1
<1>3. picked \in Selector
  <2>1. s # NONE => s \in Selector
    BY ToolchainAssumption
  <2>2. Discover(tree) # NONE => Discover(tree).spec \in Selector
    BY DiscoverType
  <2>3. alias[Default] # NONE => Exact(alias[Default]) \in Selector
    BY DefaultType, ExactType DEF TypeOK
  <2> QED
    BY <1>2, <2>1, <2>2, <2>3
<1>4. then \in Seq(After) /\ \A i \in DOMAIN then : then[i] # "exec"
  <2>1. then \in Thens \ {<<"exec">>}
    BY DEF Thens
  <2> QED
    BY <2>1, ThenTypes
<1> HIDE DEF picked, then
<1>5. Starts(r) /\ r.op = "use"
  BY <1>3, <1>4, ResolvingStarts, ResolvingType
<1> HIDE DEF r
<1>6. /\ c \in Job /\ c.op = "use" /\ c.pc = r.pc /\ c.v = r.v /\ c.then = r.then /\ c.stale = r.stale
  BY <1>5 DEF Starts, Job
<1> HIDE DEF c
<1>7. Starts(c)
  BY <1>5, <1>6 DEF Starts, Apart, Picks
<1> QED
  BY <1>2, <1>7

LEMMA AliasStarts ==
    ASSUME TypeOK, NEW p \in Process, AliasCommand(p)
    PROVE  \E c : Begin(p, c) /\ Starts(c)
<1>1. PICK name \in Named, s \in Typed :
        Begin(p, [Resolving("alias", s, <<"alias">>) EXCEPT
                      !.name = name,
                      !.v = IF s.kind = "exact" THEN CHOOSE v \in s.of : TRUE ELSE NONE,
                      !.pc = IF s.kind = "exact" THEN "then" ELSE "resolve"])
  BY DEF AliasCommand
<1> DEFINE v == IF s.kind = "exact" THEN CHOOSE v \in s.of : TRUE ELSE NONE
           pc == IF s.kind = "exact" THEN "then" ELSE "resolve"
           r == Resolving("alias", s, <<"alias">>)
           c == [r EXCEPT !.name = name, !.v = v, !.pc = pc]
<1>2. s \in Selector /\ name \in AliasName
  BY ToolchainAssumption
<1>3. v \in Node \cup {NONE} /\ pc \in {"then", "resolve"} /\ (pc = "then" => v # NONE)
  BY <1>2, SelectorType, ToolchainAssumption
<1>4. Starts(r) /\ r.op = "alias"
  <2>1. <<"alias">> \in Thens \ {<<"exec">>}
    BY DEF Thens
  <2> QED
    BY <1>2, <2>1, ThenTypes, ResolvingStarts, ResolvingType
<1> HIDE DEF r, v, pc
<1>5. /\ c \in Job /\ c.op = "alias" /\ c.pc = pc /\ c.v = v /\ c.then = r.then /\ c.stale = r.stale
  BY <1>2, <1>3, <1>4 DEF Starts, Job, Version
<1>6. Begin(p, c)
  BY <1>1 DEF r, v, pc
<1> HIDE DEF c
<1>7. Starts(c)
  BY <1>3, <1>4, <1>5 DEF Starts, Apart, Picks, Fetching
<1> QED
  BY <1>6, <1>7

LEMMA UninstallStarts ==
    ASSUME TypeOK, NEW p \in Process, UninstallCommand(p)
    PROVE  \E c : Begin(p, c) /\ Starts(c)
<1>1. PICK s \in Typed :
        LET fit == IF s.kind = "exact" THEN s.of
                   ELSE IF s.kind = "partial" THEN InstalledVersions \cap s.of ELSE {}
        IN /\ fit # {}
           /\ Begin(p, [Idle EXCEPT !.op = "uninstall", !.pc = "remove", !.v = Newest(fit)])
  BY DEF UninstallCommand
<1> DEFINE fit == IF s.kind = "exact" THEN s.of
                  ELSE IF s.kind = "partial" THEN InstalledVersions \cap s.of ELSE {}
           c == [Idle EXCEPT !.op = "uninstall", !.pc = "remove", !.v = Newest(fit)]
<1>2. fit # {} /\ Begin(p, c)
  BY <1>1
<1>3. fit \in SUBSET Node
  BY ToolchainAssumption, SelectorType
<1> HIDE DEF fit
<1>4. Newest(fit) \in Node
  BY <1>2, <1>3, NewestType
<1>5. /\ c \in Job /\ c.op = "uninstall" /\ c.pc = "remove" /\ c.v = Newest(fit) /\ c.then = << >> /\ ~c.stale
  BY <1>4, IdleType DEF Job, After, Idle, Version
<1> HIDE DEF c
<1>6. Starts(c)
  BY <1>4, <1>5, ToolchainAssumption DEF Starts, Apart, Picks, Fetching
<1> QED
  BY <1>2, <1>6

LEMMA RunStarts ==
    ASSUME TypeOK, NEW p \in Process, RunCommand(p)
    PROVE  \E c : Begin(p, c) /\ Starts(c)
<1>1. PICK tree \in Tree, install \in BOOLEAN :
        LET pin == Discover(tree)
            run == [Idle EXCEPT !.op = "run", !.tree = tree]
        IN Begin(p,
             IF \/ pin = NONE
                \/ MatchPinOffline(pin.spec) # NONE
                \/ pin.engines /\ SystemNodeSatisfies(pin.spec)
             THEN [run EXCEPT !.pc = "spawn"]
             ELSE [run EXCEPT !.pc = "resolve", !.spec = pin.spec, !.demand = install, !.then = <<"spawn">>])
  BY DEF RunCommand
<1> DEFINE pin == Discover(tree)
           run == [Idle EXCEPT !.op = "run", !.tree = tree]
           on == \/ pin = NONE
                 \/ MatchPinOffline(pin.spec) # NONE
                 \/ pin.engines /\ SystemNodeSatisfies(pin.spec)
<1>2. pin # NONE => pin.spec \in Selector /\ (MatchPinOffline(pin.spec) # NONE <=> Found(pin.spec))
  BY DiscoverType, PinOfflineType
<1>3. CASE on
  <2> DEFINE c == [run EXCEPT !.pc = "spawn"]
  <2>1. Begin(p, c)
    BY <1>1, <1>3
  <2>2. /\ c \in Job /\ c.op = "run" /\ c.pc = "spawn" /\ c.v = NONE /\ c.then = << >> /\ ~c.stale
        /\ c.tree = tree
    BY IdleType DEF Job, After, Idle
  <2> HIDE DEF c
  <2>3. Starts(c)
    BY <1>2, <1>3, <2>2 DEF Starts, Apart, Picks, Fetching
  <2> QED
    BY <2>1, <2>3
<1>4. CASE ~on
  <2> DEFINE c == [run EXCEPT !.pc = "resolve", !.spec = pin.spec, !.demand = install, !.then = <<"spawn">>]
  <2>1. Begin(p, c)
    BY <1>1, <1>4
  <2>0. pin # NONE /\ pin.spec \in Selector
    BY <1>2, <1>4
  <2>a. <<"spawn">> \in Thens \ {<<"exec">>}
    BY DEF Thens
  <2>b. <<"spawn">> \in Seq(After) /\ \A i \in DOMAIN <<"spawn">> : <<"spawn">>[i] # "exec"
    BY <2>a, ThenTypes
  <2> HIDE DEF pin
  <2>2. /\ c \in Job /\ c.op = "run" /\ c.pc = "resolve" /\ c.v = NONE /\ c.then = <<"spawn">> /\ ~c.stale
        /\ c.tree = tree /\ c.spec = pin.spec
    BY <2>0, <2>b, IdleType DEF Job, After, Idle
  <2> HIDE DEF c
  <2>3. Apart(c) /\ Picks(c)
    BY <2>2, <2>b DEF Apart, Picks, Fetching
  <2>4. Starts(c)
    <3>1. Discover(c.tree) = pin
      BY <2>2 DEF pin
    <3> QED
      BY <2>0, <2>2, <2>3, <3>1 DEF Starts
  <2> QED
    BY <2>1, <2>4
<1> QED
  BY <1>3, <1>4

LEMMA SwitchStarts ==
    ASSUME TypeOK, NEW p \in Process, SwitchCommand(p)
    PROVE  \E c : Begin(p, c) /\ Starts(c)
<1>1. PICK tree \in Tree, options \in Options, meta \in BOOLEAN :
        LET seen == [options EXCEPT !.ignore = options.ignore \/ meta]
            v == VersionOr(SelectReference(FindPackageManager(tree), seen),
                           IF Bundled THEN NONE ELSE Newest(Snpm))
        IN Begin(p, [Idle EXCEPT !.op = "switch", !.tree = tree, !.shim = seen, !.v = v, !.then = <<"exec">>,
                                 !.pc = IF v # NONE THEN "stage" ELSE "exec"])
  BY DEF SwitchCommand
<1> DEFINE seen == [options EXCEPT !.ignore = options.ignore \/ meta]
           v == ShimFor(tree, seen)
           pc == IF v # NONE THEN "stage" ELSE "exec"
           c == [Idle EXCEPT !.op = "switch", !.tree = tree, !.shim = seen, !.v = v, !.then = <<"exec">>, !.pc = pc]
<1>2. Begin(p, c)
  BY <1>1 DEF ShimFor
<1>3. seen \in [ignore : BOOLEAN, version : Snpm \cup {NONE}]
  BY DEF Options
<1>4. v \in Snpm \cup {NONE}
  BY <1>3, NewestSnpm, VersionOrType DEF ShimFor
<1>4a. v # NONE => pc = "stage"
  OBVIOUS
<1>4b. v = NONE => pc = "exec"
  OBVIOUS
<1>4c. <<"exec">> \in Seq(After)
  BY ThenTypes DEF Thens
<1>s. v = ShimFor(tree, seen)
  OBVIOUS
<1> HIDE DEF seen, v, pc
<1>5. /\ c \in Job /\ c.op = "switch" /\ c.pc = pc /\ c.v = v /\ c.then = <<"exec">> /\ ~c.stale
      /\ c.tree = tree /\ c.shim = seen
  BY <1>3, <1>4, <1>4a, <1>4b, <1>4c, IdleType DEF Job, After, Idle, Version
<1> HIDE DEF c
<1>6. Apart(c)
  BY <1>4, <1>4a, <1>4b, <1>5 DEF Apart, Fetching
<1>7. seen # NONE
  BY <1>3, ToolchainAssumption
<1>8. Picks(c)
  BY <1>4a, <1>4b, <1>5, <1>7, <1>s DEF Picks
<1>9. Starts(c)
  BY <1>4a, <1>4b, <1>5, <1>6, <1>8 DEF Starts
<1> QED
  BY <1>2, <1>9

LEMMA CacheStarts ==
    ASSUME TypeOK, NEW p \in Process, CacheCommand(p)
    PROVE  \E c : Begin(p, c) /\ Starts(c)
<1>1. PICK tree \in Tree, options \in Options :
        LET v == VersionOr(SelectReference(FindPackageManager(tree), options), Newest(Snpm))
        IN Begin(p, [Idle EXCEPT !.op = "switch", !.v = v, !.pc = IF v # NONE THEN "stage" ELSE "then"])
  BY DEF CacheCommand
<1> DEFINE v == VersionOr(SelectReference(FindPackageManager(tree), options), Newest(Snpm))
           pc == IF v # NONE THEN "stage" ELSE "then"
           c == [Idle EXCEPT !.op = "switch", !.v = v, !.pc = pc]
<1>2. Begin(p, c)
  BY <1>1
<1>4. v \in Snpm \cup {NONE}
  BY NewestSnpm, VersionOrType DEF Options
<1>4a. v # NONE => pc = "stage"
  OBVIOUS
<1>4b. v = NONE => pc = "then"
  OBVIOUS
<1> HIDE DEF v, pc
<1>5. /\ c \in Job /\ c.op = "switch" /\ c.pc = pc /\ c.v = v /\ c.then = << >> /\ ~c.stale
      /\ c.shim = NONE
  BY <1>4, <1>4a, <1>4b, IdleType DEF Job, After, Idle, Version
<1> HIDE DEF c
<1>6. Apart(c)
  BY <1>4, <1>4a, <1>4b, <1>5 DEF Apart, Fetching
<1>8. Picks(c)
  BY <1>4a, <1>4b, <1>5 DEF Picks
<1>9. Starts(c)
  BY <1>4a, <1>4b, <1>5, <1>6, <1>8 DEF Starts
<1> QED
  BY <1>2, <1>9

LEMMA CommandStarts ==
    ASSUME TypeOK, NEW p \in Process, Command(p), ~UnaliasCommand(p), ~ClearCache(p)
    PROVE  \E c : Begin(p, c) /\ Starts(c)
  BY InstallStarts, UseStarts, AliasStarts, UninstallStarts, RunStarts, SwitchStarts, CacheStarts DEF Command

-----------------------------------------------------------------------------
(* What the steps do *)

\* The job of p changes, and those of the others at most get out of date.
JobStep(p) == job' \in [Process -> Job] /\ \A q \in Process \ {p} : Kept(q)

LEMMA SameKept ==
    ASSUME NEW q \in Process, job'[q] = job[q]
    PROVE  Kept(q)
  BY DEF Kept

LEMMA OutdatedKept ==
    ASSUME TypeOK, NEW f \in [Process -> Job], NEW q \in Process, f[q] = job[q],
           job'[q] = [f[q] EXCEPT !.stale = f[q].pc # "idle"]
    PROVE  Kept(q) /\ (job[q].pc # "idle" => job'[q].stale)
<1> DEFINE b == job[q].pc # "idle"
<1>1. job[q] \in Job /\ b \in BOOLEAN
  BY DEF TypeOK
<1>2. job'[q] = [job[q] EXCEPT !.stale = b]
  OBVIOUS
<1> HIDE DEF b
<1>3. /\ job'[q].op = job[q].op /\ job'[q].pc = job[q].pc /\ job'[q].spec = job[q].spec
      /\ job'[q].v = job[q].v /\ job'[q].then = job[q].then /\ job'[q].tree = job[q].tree
      /\ job'[q].shim = job[q].shim /\ job'[q].ran = job[q].ran /\ job'[q].stale = b
  BY <1>1, <1>2 DEF Job
<1> QED
  BY <1>3 DEF Kept, b

LEMMA ApartKept ==
    ASSUME OpsApart, NEW p \in Process, JobStep(p), Apart(job'[p])
    PROVE  OpsApart'
<1>1. ASSUME NEW q \in Process PROVE Apart(job'[q])
  <2>1. CASE q = p
    BY <2>1
  <2>2. CASE q # p
    <3>1. Kept(q) /\ Apart(job[q])
      BY <2>2 DEF JobStep, OpsApart
    <3> QED
      BY <3>1 DEF Kept, Apart
  <2> QED
    BY <2>1, <2>2
<1> QED
  BY <1>1 DEF OpsApart

LEMMA IdleApart == Apart(Idle) /\ Idle.pc = "idle" /\ ~Idle.stale /\ Idle.op = "none" /\ Idle.v = NONE /\ Picks(Idle)
<1>1. Idle.pc = "idle" /\ ~Idle.stale /\ Idle.op = "none" /\ Idle.v = NONE /\ Idle.then = << >>
  BY DEF Idle
<1> QED
  BY <1>1 DEF Apart, Picks, Fetching

LEMMA GotoStep ==
    ASSUME TypeOK, NEW p \in Process, NEW pc \in PC, Goto(p, pc)
    PROVE  /\ JobStep(p)
           /\ job'[p].op = job[p].op /\ job'[p].pc = pc /\ job'[p].spec = job[p].spec
           /\ job'[p].v = job[p].v /\ job'[p].then = job[p].then /\ job'[p].tree = job[p].tree
           /\ job'[p].shim = job[p].shim /\ job'[p].ran = job[p].ran /\ job'[p].stale = job[p].stale
           /\ \A q \in Process \ {p} : job'[q] = job[q]
<1>1. job \in [Process -> Job] /\ job[p] \in Job
  BY DEF TypeOK
<1>2. /\ job' \in [Process -> Job] /\ job'[p] = [job[p] EXCEPT !.pc = pc]
      /\ \A q \in Process \ {p} : job'[q] = job[q]
  BY <1>1, GotoType
<1>3. JobStep(p)
  BY <1>2, SameKept DEF JobStep
<1> QED
  BY <1>1, <1>2, <1>3 DEF Job

LEMMA EndStep ==
    ASSUME TypeOK, NEW p \in Process, End(p)
    PROVE  /\ JobStep(p) /\ job'[p] = Idle
           /\ \A q \in Process \ {p} : job'[q] = job[q]
<1>1. /\ job' \in [Process -> Job] /\ job'[p] = Idle
      /\ \A q \in Process \ {p} : job'[q] = job[q]
  BY EndType DEF TypeOK
<1> QED
  BY <1>1, SameKept DEF JobStep

LEMMA BeginStep ==
    ASSUME TypeOK, NEW p \in Process, NEW c, Begin(p, c), Starts(c)
    PROVE  /\ JobStep(p) /\ job'[p] = c
           /\ \A q \in Process \ {p} : job'[q] = job[q]
           /\ UNCHANGED <<disk, names, dist, faults>> /\ begun' \in 0..MaxCommands
           /\ job[p].pc \in {"idle", "ran"}
<1>1. /\ job' \in [Process -> Job] /\ job'[p] = c
      /\ \A q \in Process \ {p} : job'[q] = job[q]
  BY DEF TypeOK, Begin, Starts
<1>2. begun' \in 0..MaxCommands
  BY ToolchainAssumption DEF TypeOK, Begin
<1>3. JobStep(p)
  BY <1>1, SameKept DEF JobStep
<1> QED
  BY <1>1, <1>2, <1>3 DEF Begin, Ended

\* The versions to which resolve_spec comes; a selector that no second alias
\* shadows means what it says.
LEMMA ResolveMeans ==
    ASSUME TypeOK, NEW s \in Selector \cup {Default}, NEW v \in Node,
           LET last == Chain(s)[MAX_ALIAS_DEPTH] IN
           /\ ReadAlias(last) = NONE
           /\ \/ last.kind = "exact" /\ v = CHOOSE w \in last.of : TRUE
              \/ last.kind # "exact" /\ \E releases \in SUBSET Node : v = MatchRemote(last, releases)
    PROVE  s.kind # "lts" /\ ~Shadowed(s) => Admits(s, v)
<1> SUFFICES ASSUME s.kind # "lts", ~Shadowed(s) PROVE Admits(s, v)
  OBVIOUS
<1> DEFINE last == Chain(s)[MAX_ALIAS_DEPTH]
<1>0. v # NONE
  BY ToolchainAssumption
<1>1. CASE ReadAlias(s) = NONE
  <2>1. Follow(s) = s
    BY <1>1 DEF Follow
  <2>2. last = s
    BY <2>1, ChainShort
  <2>3. CASE s.kind = "exact"
    <3>1. v = CHOOSE w \in s.of : TRUE
      BY <2>2, <2>3
    <3>2. s.of = {v}
      BY <2>3, <3>1, SelectorType
    <3> QED
      BY <2>3, <3>2 DEF Admits
  <2>4. CASE s.kind # "exact"
    <3>1. PICK releases \in SUBSET Node : v = MatchRemote(s, releases)
      BY <2>2, <2>4
    <3>2. s.kind \in {"partial", "range", "lts", "latest", "name"}
      <4>1. s \in Spec \/ s = Default
        BY <2>4, ExactType DEF Selector
      <4> QED
        BY <4>1, DefaultType, ToolchainAssumption
    <3>3. s.kind = "latest" \/ (s.kind # "name" /\ v \in s.of)
      BY <1>0, <2>4, <3>1, MatchRemoteType
    <3> QED
      BY <2>4, <3>2, <3>3 DEF Admits
  <2> QED
    BY <2>3, <2>4
<1>2. CASE ReadAlias(s) # NONE
  <2> DEFINE e == Exact(ReadAlias(s))
  <2>1. ReadAlias(s) \in Node
    BY <1>2, FollowType
  <2>2. s.kind # "exact"
    <3>1. s.kind = "exact" => s \in AliasName
      BY SelectorType
    <3> QED
      BY <1>2, <3>1 DEF Shadowed, ReadAlias
  <2>3. e \in AliasName /\ e.kind = "exact" /\ e.of = {ReadAlias(s)} /\ e \in Selector
    BY <2>1, ExactType, SelectorType
  <2>4. alias[e] = NONE
    BY <1>2 DEF Shadowed
  <2>5. ReadAlias(e) = NONE
    BY <2>3, <2>4 DEF ReadAlias
  <2>6. Follow(s) = e
    BY <1>2 DEF Follow
  <2>7. Follow(e) = e
    BY <2>5 DEF Follow
  <2>8. last = e
    BY <2>6, <2>7, ChainShort
  <2>9. v = ReadAlias(s)
    BY <2>3, <2>8
  <2> QED
    BY <2>2, <2>9 DEF Admits
<1> QED
  BY <1>1, <1>2

LEMMA ResolveStep ==
    ASSUME TypeOK, OpsApart, NEW p \in Process, Resolve(p)
    PROVE  /\ JobStep(p) /\ UNCHANGED <<disk, names, released, begun>>
           /\ \A q \in Process \ {p} : job'[q] = job[q]
           /\ index' \in (SUBSET Node) \cup {NONE} /\ faults' \in 0..MaxFaults
           /\ job[p].pc = "resolve" /\ job[p].op # "switch"
           /\ \/ job'[p] = Idle
              \/ \E v \in Node :
                    /\ job'[p] = [job[p] EXCEPT !.v = v, !.pc = IF job[p].op = "alias" THEN "then" ELSE "stage"]
                    /\ job[p].spec.kind # "lts" /\ ~Shadowed(job[p].spec) => Admits(job[p].spec, v)
<1> DEFINE s == job[p].spec
           last == Chain(s)[MAX_ALIAS_DEPTH]
           pc == IF job[p].op = "alias" THEN "then" ELSE "stage"
           Arrived(v) == job' = [job EXCEPT ![p].v = v, ![p].pc = pc]
<1>0. /\ job \in [Process -> Job] /\ job[p] \in Job /\ s \in Selector \cup {Default}
      /\ faults \in 0..MaxFaults /\ index \in (SUBSET Node) \cup {NONE} /\ released \in SUBSET Node
  BY DEF TypeOK, Job
<1>1. job[p].pc = "resolve" /\ UNCHANGED <<disk, names, released>>
  BY DEF Resolve, At
<1>2. job[p].op # "switch"
  BY <1>1 DEF OpsApart, Apart, Fetching
<1>3. last \in Selector \cup {Default}
  BY <1>0, ChainType
<1>4. \/ End(p) /\ UNCHANGED <<index, counts>>
      \/ \E v \in Node \cup {NONE} :
            /\ End(p) \/ (v # NONE /\ Arrived(v))
            /\ ReadAlias(last) = NONE
            /\ \/ last.kind = "exact" /\ v = (CHOOSE w \in last.of : TRUE) /\ UNCHANGED <<index, counts>>
               \/ last.kind # "exact" /\ \E releases \in SUBSET Node :
                                             FetchIndex(releases) /\ v = MatchRemote(last, releases)
  <2>1. CASE ReadAlias(last) # NONE
    BY <2>1 DEF Resolve
  <2>2. CASE ReadAlias(last) = NONE /\ last.kind = "exact"
    <3>1. (CHOOSE w \in last.of : TRUE) \in Node
      BY <1>3, <2>2, SelectorType
    <3> HIDE DEF last
    <3> QED
      BY <2>2, <3>1 DEF Resolve, last
  <2>3. CASE ReadAlias(last) = NONE /\ last.kind # "exact"
    <3>1. PICK releases \in SUBSET Node :
              /\ FetchIndex(releases)
              /\ LET v == MatchRemote(last, releases) IN End(p) \/ (v # NONE /\ Arrived(v))
      BY <2>3 DEF Resolve
    <3>2. MatchRemote(last, releases) \in Node \cup {NONE}
      BY <1>3, MatchRemoteType
    <3> HIDE DEF last, Arrived
    <3> QED
      BY <2>3, <3>1, <3>2
  <2> QED
    BY <2>1, <2>2, <2>3
<1>5. index' \in (SUBSET Node) \cup {NONE} /\ faults' \in 0..MaxFaults /\ begun' = begun
  <2>1. CASE UNCHANGED <<index, counts>>
    BY <1>0, <2>1 DEF counts
  <2>2. CASE \E releases \in SUBSET Node : FetchIndex(releases)
    <3>1. \/ UNCHANGED <<index, counts>>
          \/ index' = released /\ UNCHANGED counts
          \/ Fault /\ UNCHANGED index
      BY <2>2 DEF FetchIndex
    <3>2. CASE index' = released /\ UNCHANGED counts
      BY <1>0, <1>1, <3>2 DEF counts
    <3>3. CASE Fault /\ UNCHANGED index
      BY <1>0, <3>3, ToolchainAssumption DEF Fault
    <3> QED
      BY <2>1, <3>1, <3>2, <3>3
  <2> HIDE DEF last, Arrived
  <2> QED
    BY <1>4, <2>1, <2>2
<1>6. CASE End(p)
  BY <1>1, <1>2, <1>5, <1>6, EndStep
<1>7. ASSUME NEW v \in Node, Arrived(v),
             ReadAlias(last) = NONE,
             \/ last.kind = "exact" /\ v = (CHOOSE w \in last.of : TRUE)
             \/ last.kind # "exact" /\ \E releases \in SUBSET Node : v = MatchRemote(last, releases)
      PROVE  /\ JobStep(p) /\ \A q \in Process \ {p} : job'[q] = job[q]
             /\ job'[p] = [job[p] EXCEPT !.v = v, !.pc = pc]
             /\ s.kind # "lts" /\ ~Shadowed(s) => Admits(s, v)
  <2>0. pc \in PC /\ v \in Version
    BY DEF PC, Version
  <2>1. [job[p] EXCEPT !.v = v, !.pc = pc] \in Job
    <3> HIDE DEF pc
    <3>1. \A j \in Job : [j EXCEPT !.v = v, !.pc = pc] \in Job
      BY <2>0 DEF Job, PC
    <3> QED
      BY <1>0, <3>1
  <2>2. job' = [job EXCEPT ![p] = [job[p] EXCEPT !.v = v, !.pc = pc]]
    BY <1>0, <1>7
  <2>3. /\ job' \in [Process -> Job] /\ \A q \in Process \ {p} : job'[q] = job[q]
        /\ job'[p] = [job[p] EXCEPT !.v = v, !.pc = pc]
    BY <1>0, <2>1, <2>2
  <2>4. JobStep(p)
    BY <2>3, SameKept DEF JobStep
  <2>5. s.kind # "lts" /\ ~Shadowed(s) => Admits(s, v)
    <3> HIDE DEF s
    <3> QED
      BY <1>0, <1>7, ResolveMeans
  <2> QED
    BY <2>3, <2>4, <2>5
<1> HIDE DEF last, Arrived
<1> QED
  BY <1>1, <1>2, <1>4, <1>5, <1>6, <1>7

\* All the others get out of date.
LEMMA OutdateStep ==
    ASSUME TypeOK, NEW p \in Process, NEW j \in Job, NEW f,
           f = [job EXCEPT ![p] = j],
           job' = Outdate(f)
    PROVE  /\ JobStep(p)
           /\ job'[p] = [j EXCEPT !.stale = j.pc # "idle"]
           /\ \A q \in Process \ {p} : job[q].pc # "idle" => job'[q].stale
<1>1. job \in [Process -> Job] /\ f \in [Process -> Job] /\ f[p] = j
      /\ \A q \in Process \ {p} : f[q] = job[q]
  BY DEF TypeOK
<1>2. job' \in [Process -> Job] /\ \A q \in Process : job'[q] = [f[q] EXCEPT !.stale = f[q].pc # "idle"]
  BY <1>1, OutdateType
<1>3. ASSUME NEW q \in Process \ {p}
      PROVE  Kept(q) /\ (job[q].pc # "idle" => job'[q].stale)
  BY <1>1, <1>2, OutdatedKept
<1> QED
  BY <1>1, <1>2, <1>3 DEF JobStep

LEMMA IdleStays ==
    ASSUME NEW b
    PROVE  LET c == [Idle EXCEPT !.stale = b] IN
           /\ c.op = "none" /\ c.pc = "idle" /\ c.v = NONE /\ c.then = << >> /\ Apart(c) /\ Picks(c)
<1> DEFINE c == [Idle EXCEPT !.stale = b]
<1>1. c.op = "none" /\ c.pc = "idle" /\ c.v = NONE /\ c.then = << >>
  BY DEF Idle
<1> HIDE DEF c
<1>2. Apart(c) /\ Picks(c)
  BY <1>1 DEF Apart, Picks, Fetching
<1> QED
  BY <1>1, <1>2 DEF c

\* Then: one thing after the other.
LEMMA ThenStep ==
    ASSUME TypeOK, OpsApart, NEW p \in Process, Then(p)
    PROVE  /\ JobStep(p) /\ job[p].pc = "then" /\ UNCHANGED <<dir, tmp, spoiled, dist, counts>>
           /\ \/ /\ job'[p] = Idle /\ UNCHANGED <<names, cut>>
                 /\ \A q \in Process \ {p} : job'[q] = job[q]
              \/ LET h == Head(job[p].then) IN
                 /\ job[p].then # << >> /\ h \in After
                 /\ job'[p].op = job[p].op /\ job'[p].v = job[p].v /\ job'[p].then = Tail(job[p].then)
                 /\ job'[p].tree = job[p].tree /\ job'[p].shim = job[p].shim /\ job'[p].spec = job[p].spec
                 /\ job'[p].pc = IF h \in {"spawn", "exec"} THEN h ELSE "then"
                 /\ job[p].stale => job'[p].stale
                 /\ h = "exec" <=> (job[p].op = "switch")
                 /\ current' = IF h = "current" THEN job[p].v ELSE current
                 /\ alias' = CASE h = "default" -> [alias EXCEPT ![Default] = job[p].v]
                               [] h = "alias" -> [alias EXCEPT ![job[p].name] = job[p].v]
                               [] OTHER -> alias
                 /\ cut' = IF h = "current" /\ job[p].stale THEN cut \cup {job[p].v} ELSE cut
                 /\ h = "alias" => /\ \A q \in Process \ {p} : job[q].pc # "idle" => job'[q].stale
                                   /\ job'[p].stale
                 /\ h # "alias" => \A q \in Process \ {p} : job'[q] = job[q]
<1> DEFINE j == job[p]
           h == Head(j.then)
<1>0. job \in [Process -> Job] /\ j \in Job /\ j.pc = "then" /\ UNCHANGED <<dir, tmp, spoiled, dist, counts>>
  BY DEF TypeOK, Then, At
<1>1. CASE j.then = << >>
  <2>1. End(p) /\ UNCHANGED <<names, cut>>
    BY <1>1 DEF Then
  <2> QED
    BY <1>0, <2>1, EndStep
<1>2. CASE j.then # << >>
  <2>1. /\ CASE h = "current" -> current' = j.v /\ UNCHANGED alias
             [] h = "default" -> alias' = Set(alias, Default, j.v) /\ UNCHANGED current
             [] h = "alias" -> alias' = Set(alias, j.name, j.v) /\ UNCHANGED current
             [] OTHER -> UNCHANGED names
        /\ cut' = IF h = "current" /\ j.stale THEN cut \cup {j.v} ELSE cut
        /\ job' = IF h = "alias" THEN Outdate(Set(job, p, [j EXCEPT !.then = Tail(j.then)]))
                  ELSE [job EXCEPT ![p].then = Tail(j.then),
                                   ![p].pc = IF h \in {"spawn", "exec"} THEN h ELSE "then"]
    BY <1>2 DEF Then
  <2>2. j.then \in Seq(After) /\ h \in After /\ Tail(j.then) \in Seq(After) /\ 1 \in DOMAIN j.then /\ h = j.then[1]
    <3>1. j.then \in Seq(After)
      BY <1>0 DEF Job, After
    <3> HIDE DEF j
    <3> QED
      BY <1>2, <3>1
  <2>3. h = "exec" <=> (j.op = "switch")
    <3>1. CASE j.op = "switch"
      <4>1. j.then = <<"exec">>
        BY <1>2, <3>1 DEF OpsApart, Apart
      <4> QED
        BY <3>1, <4>1
    <3>2. CASE j.op # "switch"
      BY <2>2, <3>2 DEF OpsApart, Apart
    <3> QED
      BY <3>1, <3>2
  <2> DEFINE pc == IF h \in {"spawn", "exec"} THEN h ELSE "then"
             t == Tail(j.then)
  <2>4. pc \in PC /\ (h = "alias" => pc = "then")
    BY DEF PC
  <2>5. alias' = CASE h = "default" -> [alias EXCEPT ![Default] = j.v]
                   [] h = "alias" -> [alias EXCEPT ![j.name] = j.v]
                   [] OTHER -> alias
    BY <2>1 DEF Set, names
  <2>6. current' = IF h = "current" THEN j.v ELSE current
    BY <2>1 DEF Set, names
  <2>7. cut' = IF h = "current" /\ j.stale THEN cut \cup {j.v} ELSE cut
    BY <2>1
  <2>8. JobStep(p) /\ job'[p].op = j.op /\ job'[p].v = j.v /\ job'[p].then = t
        /\ job'[p].tree = j.tree /\ job'[p].shim = j.shim /\ job'[p].spec = j.spec
        /\ job'[p].pc = pc /\ (j.stale => job'[p].stale)
        /\ (h = "alias" => (\A q \in Process \ {p} : job[q].pc # "idle" => job'[q].stale) /\ job'[p].stale)
        /\ (h # "alias" => \A q \in Process \ {p} : job'[q] = job[q])
    <3>1. CASE h = "alias"
      <4> DEFINE c == [j EXCEPT !.then = t]
      <4>1. job' = Outdate([job EXCEPT ![p] = c])
        BY <2>1, <3>1 DEF Set
      <4> HIDE DEF j, t
      <4>2. c \in Job /\ c.pc = "then" /\ c.op = j.op /\ c.v = j.v /\ c.then = t /\ c.tree = j.tree
            /\ c.shim = j.shim /\ c.spec = j.spec
        BY <1>0, <2>2 DEF Job, After, t
      <4> HIDE DEF c
      <4>3. /\ JobStep(p) /\ job'[p] = [c EXCEPT !.stale = c.pc # "idle"]
            /\ \A q \in Process \ {p} : job[q].pc # "idle" => job'[q].stale
        BY <4>1, <4>2, OutdateStep
      <4>4. job'[p] = [c EXCEPT !.stale = TRUE]
        <5>1. (c.pc # "idle") = TRUE
          BY <4>2
        <5> QED
          BY <4>3, <5>1
      <4>5. /\ job'[p].op = c.op /\ job'[p].v = c.v /\ job'[p].then = c.then /\ job'[p].tree = c.tree
            /\ job'[p].shim = c.shim /\ job'[p].spec = c.spec /\ job'[p].pc = c.pc /\ job'[p].stale = TRUE
        BY <4>2, <4>4 DEF Job
      <4> HIDE DEF h, pc
      <4> QED
        BY <2>4, <3>1, <4>2, <4>3, <4>5
    <3>2. CASE h # "alias"
      <4> DEFINE c == [j EXCEPT !.then = t, !.pc = pc]
      <4>1. job' = [job EXCEPT ![p] = c]
        BY <1>0, <2>1, <3>2
      <4>0. t \in Seq(After)
        BY <2>2
      <4> HIDE DEF j, t, pc
      <4>a. \A x \in Job : [x EXCEPT !.then = t, !.pc = pc] \in Job
        <5> SUFFICES ASSUME NEW x \in Job PROVE [x EXCEPT !.then = t, !.pc = pc] \in Job
          OBVIOUS
        <5>1. pc \in {"idle", "resolve", "stage", "download", "unpack", "unpacked", "mark", "replace",
                     "rename", "then", "spawn", "exec", "ran", "remove", "uncurrent", "unalias"}
          BY <2>4 DEF PC
        <5>2. t \in Seq({"current", "default", "alias", "spawn", "exec"})
          BY <4>0 DEF After
        <5> QED
          BY <5>1, <5>2 DEF Job
      <4>2. c \in Job /\ c.pc = pc /\ c.op = j.op /\ c.v = j.v /\ c.then = t /\ c.tree = j.tree
            /\ c.shim = j.shim /\ c.spec = j.spec /\ c.stale = j.stale
        BY <1>0, <4>a DEF Job
      <4> HIDE DEF c
      <4>3. job' \in [Process -> Job] /\ job'[p] = c /\ \A q \in Process \ {p} : job'[q] = job[q]
        BY <1>0, <4>1, <4>2
      <4>4. JobStep(p)
        BY <4>3, SameKept DEF JobStep
      <4> QED
        BY <3>2, <4>2, <4>3, <4>4
    <3> QED
      BY <3>1, <3>2
  <2> QED
    BY <1>0, <1>2, <2>2, <2>3, <2>5, <2>6, <2>7, <2>8
<1> QED
  BY <1>1, <1>2

LEMMA SpawnStep ==
    ASSUME TypeOK, OpsApart, NEW p \in Process, Spawn(p) \/ Exec(p)
    PROVE  /\ JobStep(p) /\ job[p].pc \in {"spawn", "exec"} /\ UNCHANGED <<disk, names, dist, begun>>
           /\ \A q \in Process \ {p} : job'[q] = job[q]
           /\ faults' \in 0..MaxFaults
           /\ \/ job'[p] = Idle
              \/ /\ job'[p].op = job[p].op /\ job'[p].v = job[p].v /\ job'[p].then = job[p].then
                 /\ job'[p].tree = job[p].tree /\ job'[p].shim = job[p].shim /\ job'[p].spec = job[p].spec
                 /\ job'[p].pc = "ran" /\ job'[p].stale = job[p].stale
                 /\ job'[p].ran = IF job[p].pc = "exec" THEN job[p].v ELSE ActiveOffline(job[p].tree)
<1> DEFINE j == job[p]
<1>0. job \in [Process -> Job] /\ j \in Job /\ faults \in 0..MaxFaults
  BY DEF TypeOK
<1>1. ASSUME NEW r \in Version \cup {NONE}, job' = [job EXCEPT ![p].pc = "ran", ![p].ran = r]
      PROVE  /\ JobStep(p) /\ \A q \in Process \ {p} : job'[q] = job[q]
             /\ job'[p].op = j.op /\ job'[p].v = j.v /\ job'[p].then = j.then
             /\ job'[p].tree = j.tree /\ job'[p].shim = j.shim /\ job'[p].spec = j.spec
             /\ job'[p].pc = "ran" /\ job'[p].stale = j.stale /\ job'[p].ran = r
  <2> DEFINE c == [j EXCEPT !.pc = "ran", !.ran = r]
  <2>1. job' = [job EXCEPT ![p] = c]
    BY <1>0, <1>1
  <2> HIDE DEF j
  <2>2. /\ c \in Job /\ c.op = j.op /\ c.v = j.v /\ c.then = j.then
        /\ c.tree = j.tree /\ c.shim = j.shim /\ c.spec = j.spec
        /\ c.pc = "ran" /\ c.stale = j.stale /\ c.ran = r
    BY <1>0 DEF Job
  <2> HIDE DEF c
  <2>3. job' \in [Process -> Job] /\ job'[p] = c /\ \A q \in Process \ {p} : job'[q] = job[q]
    BY <1>0, <2>1, <2>2
  <2> QED
    BY <2>2, <2>3, SameKept DEF JobStep
<1>2. CASE Spawn(p)
  <2>1. j.tree \in Tree \cup {<< >>}
    BY <1>0 DEF Job
  <2>2. ActiveOffline(j.tree) \in Version \cup {NONE}
    BY <2>1, ActiveType DEF Version
  <2>3. j.pc = "spawn" /\ job' = [job EXCEPT ![p].pc = "ran", ![p].ran = ActiveOffline(j.tree)]
        /\ UNCHANGED <<disk, names, dist, counts>>
    BY <1>2 DEF Spawn, At
  <2> QED
    BY <1>0, <1>1, <2>2, <2>3 DEF counts
<1>3. CASE Exec(p)
  <2>1. j.pc = "exec" /\ UNCHANGED <<disk, names, dist>>
    BY <1>3 DEF Exec, At
  <2>2. j.v \in Version \cup {NONE}
    BY <1>0 DEF Job
  <2>3. \/ job' = [job EXCEPT ![p].pc = "ran", ![p].ran = j.v] /\ UNCHANGED counts
        \/ End(p) /\ (Fault \/ UNCHANGED counts)
    BY <1>3 DEF Exec
  <2>4. begun' = begun /\ faults' \in 0..MaxFaults
    BY <1>0, <2>3, ToolchainAssumption DEF Fault, counts
  <2>5. CASE End(p)
    BY <2>1, <2>4, <2>5, EndStep
  <2>6. CASE job' = [job EXCEPT ![p].pc = "ran", ![p].ran = j.v]
    BY <1>1, <2>1, <2>2, <2>4, <2>6
  <2> QED
    BY <2>3, <2>5, <2>6
<1> QED
  BY <1>2, <1>3

LEMMA ReplaceStep ==
    ASSUME TypeOK, NEW p \in Process, Replace(p)
    PROVE  /\ JobStep(p) /\ job[p].pc = "replace"
           /\ job'[p] = [job[p] EXCEPT !.pc = "rename"]
           /\ job[p].v \in InstalledVersions =>
                 \A q \in Process \ {p} : job[q].pc # "idle" => job'[q].stale
           /\ UNCHANGED <<tmp, spoiled, cut, names, dist, counts>>
           /\ dir' = [dir EXCEPT ![job[p].v] = NONE]
<1> DEFINE c == [job[p] EXCEPT !.pc = "rename"]
<1>a. job \in [Process -> Job] /\ job[p] \in Job
  BY DEF TypeOK
<1>0. job \in [Process -> Job] /\ job[p] \in Job /\ c \in Job
  BY <1>a DEF Job
<1>1. job' = [(IF job[p].v \in InstalledVersions THEN Outdate(job) ELSE job) EXCEPT ![p] = c]
  BY DEF Replace
<1>2. /\ job[p].pc = "replace" /\ UNCHANGED <<tmp, spoiled, cut, names, dist, counts>>
      /\ dir' = [dir EXCEPT ![job[p].v] = NONE]
  BY DEF Replace, At, Set
<1> HIDE DEF c
<1>3. CASE job[p].v \in InstalledVersions
  <2>1. Outdate(job) \in [Process -> Job]
        /\ \A q \in Process : Outdate(job)[q] = [job[q] EXCEPT !.stale = job[q].pc # "idle"]
    BY <1>0, OutdateType
  <2>2. job' \in [Process -> Job] /\ job'[p] = c
        /\ \A q \in Process \ {p} : job'[q] = [job[q] EXCEPT !.stale = job[q].pc # "idle"]
    BY <1>0, <1>1, <1>3, <2>1
  <2>3. \A q \in Process \ {p} : Kept(q) /\ (job[q].pc # "idle" => job'[q].stale)
    BY <1>0, <2>2, OutdatedKept
  <2> QED
    BY <1>2, <2>2, <2>3 DEF JobStep, c
<1>4. CASE job[p].v \notin InstalledVersions
  <2>1. job' \in [Process -> Job] /\ job'[p] = c /\ \A q \in Process \ {p} : job'[q] = job[q]
    BY <1>0, <1>1, <1>4
  <2> QED
    BY <1>2, <1>4, <2>1, SameKept DEF JobStep, c
<1> QED
  BY <1>3, <1>4

LEMMA RemoveStep ==
    ASSUME TypeOK, NEW p \in Process, RemoveVersion(p)
    PROVE  /\ JobStep(p) /\ job[p].pc = "remove"
           /\ job'[p].op = job[p].op /\ job'[p].v = job[p].v /\ job'[p].then = job[p].then
           /\ job'[p].pc = "uncurrent" /\ job'[p].shim = job[p].shim /\ job'[p].tree = job[p].tree
           /\ \A q \in Process \ {p} : job[q].pc # "idle" => job'[q].stale
           /\ UNCHANGED <<tmp, spoiled, cut, names, dist, counts>>
           /\ dir' = [dir EXCEPT ![job[p].v] = NONE]
<1> DEFINE o == Outdate(job)
           c == [o[p] EXCEPT !.pc = "uncurrent"]
<1>0. job \in [Process -> Job] /\ job[p] \in Job
  BY DEF TypeOK
<1>1. o \in [Process -> Job] /\ \A q \in Process : o[q] = [job[q] EXCEPT !.stale = job[q].pc # "idle"]
  BY <1>0, OutdateType
<1>2. /\ job[p].pc = "remove" /\ UNCHANGED <<tmp, spoiled, cut, names, dist, counts>>
      /\ dir' = [dir EXCEPT ![job[p].v] = NONE] /\ job' = [o EXCEPT ![p].pc = "uncurrent"]
  BY DEF RemoveVersion, At, Set
<1> HIDE DEF o
<1>3. job' = [o EXCEPT ![p] = c]
  BY <1>1, <1>2
<1>4. o[p].op = job[p].op /\ o[p].v = job[p].v /\ o[p].then = job[p].then /\ o[p].shim = job[p].shim
      /\ o[p].tree = job[p].tree
  BY <1>0, <1>1 DEF Job
<1>b. o[p] \in Job
  BY <1>1
<1>5. c \in Job /\ c.pc = "uncurrent" /\ c.op = o[p].op /\ c.v = o[p].v /\ c.then = o[p].then
      /\ c.shim = o[p].shim /\ c.tree = o[p].tree
  BY <1>b DEF Job
<1> HIDE DEF c
<1>6. job' \in [Process -> Job] /\ job'[p] = c
      /\ \A q \in Process \ {p} : job'[q] = [job[q] EXCEPT !.stale = job[q].pc # "idle"]
  BY <1>1, <1>3, <1>5
<1>7. \A q \in Process \ {p} : Kept(q) /\ (job[q].pc # "idle" => job'[q].stale)
  BY <1>0, <1>6, OutdatedKept
<1> QED
  BY <1>2, <1>4, <1>5, <1>6, <1>7 DEF JobStep

\* uninstall_version once the directory is gone; unalias and the aliases of users
LEMMA ClearAliasesStep ==
    ASSUME TypeOK, NEW p \in Process, ClearAliases(p)
    PROVE  /\ JobStep(p) /\ job[p].pc = "unalias" /\ UNCHANGED <<disk, current, dist, counts>>
           /\ \/ /\ job'[p] = Idle /\ UNCHANGED alias
                 /\ \A q \in Process \ {p} : job'[q] = job[q]
              \/ /\ Kept(p) /\ \A q \in Process \ {p} : job[q].pc # "idle" => job'[q].stale
                 /\ \E s \in AliasName : alias' = [alias EXCEPT ![s] = NONE]
<1>0. job \in [Process -> Job] /\ job[p] \in Job
  BY DEF TypeOK
<1>1. job[p].pc = "unalias" /\ UNCHANGED <<disk, current, dist, counts>>
  BY DEF ClearAliases, At
<1>2. CASE End(p) /\ UNCHANGED alias
  BY <1>1, <1>2, EndStep
<1>3. CASE job' = Outdate(job) /\ \E s \in AliasName : alias' = [alias EXCEPT ![s] = NONE]
  <2>1. job' \in [Process -> Job] /\ \A q \in Process : job'[q] = [job[q] EXCEPT !.stale = job[q].pc # "idle"]
    BY <1>0, <1>3, OutdateType
  <2>2. \A q \in Process : Kept(q) /\ (job[q].pc # "idle" => job'[q].stale)
    BY <1>0, <2>1, OutdatedKept
  <2> QED
    BY <1>1, <1>3, <2>1, <2>2 DEF JobStep
<1> QED
  BY <1>2, <1>3 DEF ClearAliases, Set

LEMMA UnaliasStep ==
    ASSUME TypeOK, NEW p \in Process, UnaliasCommand(p)
    PROVE  /\ JobStep(p) /\ job'[p].op = "none" /\ job'[p].pc = "idle" /\ job'[p].v = NONE
           /\ Apart(job'[p]) /\ Picks(job'[p]) /\ job[p].pc \in {"idle", "ran"}
           /\ \A q \in Process \ {p} : job[q].pc # "idle" => job'[q].stale
           /\ UNCHANGED <<disk, current, dist, faults>> /\ begun' \in 0..MaxCommands
           /\ \E s \in AliasName : alias' = [alias EXCEPT ![s] = NONE]
<1>0. begun' \in 0..MaxCommands
  BY ToolchainAssumption DEF UnaliasCommand, TypeOK
<1>a. \E s \in AliasName : alias' = [alias EXCEPT ![s] = NONE]
  BY ToolchainAssumption DEF UnaliasCommand, Set
<1>1. /\ job' = Outdate([job EXCEPT ![p] = Idle]) /\ UNCHANGED <<disk, current, dist, faults>>
      /\ job[p].pc \in {"idle", "ran"}
  BY DEF UnaliasCommand, Set, Ended
<1>2. /\ JobStep(p) /\ job'[p] = [Idle EXCEPT !.stale = Idle.pc # "idle"]
      /\ \A q \in Process \ {p} : job[q].pc # "idle" => job'[q].stale
  BY <1>1, IdleType, OutdateStep
<1>3. /\ job'[p].op = "none" /\ job'[p].pc = "idle" /\ job'[p].v = NONE
      /\ Apart(job'[p]) /\ Picks(job'[p])
  <2> DEFINE b == Idle.pc # "idle"
  <2>1. job'[p] = [Idle EXCEPT !.stale = b]
    BY <1>2
  <2> HIDE DEF b
  <2> QED
    BY <2>1, IdleStays
<1> QED
  BY <1>0, <1>a, <1>1, <1>2, <1>3

LEMMA ClearCacheStep ==
    ASSUME TypeOK, NEW p \in Process, ClearCache(p)
    PROVE  /\ JobStep(p) /\ job'[p].op = "none" /\ job'[p].pc = "idle" /\ job'[p].v = NONE
           /\ Apart(job'[p]) /\ Picks(job'[p]) /\ job[p].pc \in {"idle", "ran"}
           /\ \A q \in Process \ {p} : job[q].pc # "idle" => job'[q].stale
           /\ UNCHANGED <<cut, names, dist, faults>> /\ begun' \in 0..MaxCommands
           /\ dir' = [v \in Version |-> IF v \in Snpm THEN NONE ELSE dir[v]]
           /\ tmp' = [v \in Version |-> IF v \in Snpm THEN NONE ELSE tmp[v]]
           /\ spoiled \subseteq spoiled' /\ spoiled' \subseteq Version
           /\ \A q \in Process : job[q].pc \notin {"idle", "ran"} /\ job[q].v \in Snpm => job[q].v \in spoiled'
<1>1. /\ job' = Outdate([job EXCEPT ![p] = Idle]) /\ UNCHANGED <<cut, names, dist, faults>>
      /\ job[p].pc \in {"idle", "ran"}
      /\ begun' \in 0..MaxCommands
      /\ dir' = [v \in Version |-> IF v \in Snpm THEN NONE ELSE dir[v]]
      /\ tmp' = [v \in Version |-> IF v \in Snpm THEN NONE ELSE tmp[v]]
      /\ spoiled' = spoiled \cup {job[q].v : q \in {q \in Process : ~Ended(q) /\ job[q].v \in Snpm}}
  BY ToolchainAssumption DEF ClearCache, Set, TypeOK, Ended
<1>2. /\ JobStep(p) /\ job'[p] = [Idle EXCEPT !.stale = Idle.pc # "idle"]
      /\ \A q \in Process \ {p} : job[q].pc # "idle" => job'[q].stale
  BY <1>1, IdleType, OutdateStep
<1>3. spoiled' \subseteq Version /\ spoiled \subseteq spoiled'
  BY <1>1 DEF TypeOK, Version
<1>4. \A q \in Process : job[q].pc \notin {"idle", "ran"} /\ job[q].v \in Snpm => job[q].v \in spoiled'
  BY <1>1 DEF Ended
<1> QED
  BY <1>1, <1>2, <1>3, <1>4, IdleStays

LEMMA KillStep ==
    ASSUME TypeOK, OpsApart, NEW p \in Process, Kill(p)
    PROVE  /\ JobStep(p) /\ job'[p].op = "none" /\ job'[p].pc = "idle" /\ job'[p].v = NONE
           /\ Apart(job'[p]) /\ Picks(job'[p])
           /\ UNCHANGED <<tmp, names, released, begun>> /\ faults' \in 0..MaxFaults
           /\ index' \in {index, NONE} /\ cut \subseteq cut'
           /\ job[p].pc = "uncurrent" => job[p].v \in cut'
           /\ \/ UNCHANGED <<dir, spoiled>> /\ cut' \subseteq cut \cup {job[p].v}
                 /\ (cut' # cut => job[p].pc = "uncurrent")
              \/ /\ job[p].pc \in {"remove", "replace"} /\ dir[job[p].v] # NONE
                 /\ cut' = cut \cup {job[p].v}
                 /\ \A q \in Process \ {p} : job[q].pc # "idle" => job'[q].stale
                 /\ \E kept \in SUBSET dir[job[p].v] :
                       /\ dir' = [dir EXCEPT ![job[p].v] = kept]
                       /\ spoiled' = IF {"marker", "bin"} \subseteq kept THEN spoiled \cup {job[p].v} ELSE spoiled
<1> DEFINE v == job[p].v
<1>0. UNCHANGED <<tmp, names, released, begun>> /\ faults' \in 0..MaxFaults
  BY ToolchainAssumption DEF Kill, Fault, TypeOK
<1>1. CASE End(p) /\ UNCHANGED <<dir, spoiled>> /\ index' \in {index, NONE}
           /\ cut' = IF job[p].pc = "uncurrent" THEN cut \cup {v} ELSE cut
  <2>1. JobStep(p) /\ job'[p] = Idle
    BY <1>1, EndStep
  <2> QED
    BY <1>0, <1>1, <2>1, IdleApart
<1>2. CASE /\ job[p].pc \in {"remove", "replace"} /\ dir[v] # NONE
           /\ \E kept \in SUBSET dir[v] :
                /\ dir' = [dir EXCEPT ![v] = kept]
                /\ spoiled' = IF {"marker", "bin"} \subseteq kept THEN spoiled \cup {v} ELSE spoiled
           /\ cut' = cut \cup {v} /\ job' = Outdate([job EXCEPT ![p] = Idle]) /\ UNCHANGED index
  <2>1. /\ JobStep(p) /\ job'[p] = [Idle EXCEPT !.stale = Idle.pc # "idle"]
        /\ \A q \in Process \ {p} : job[q].pc # "idle" => job'[q].stale
    BY <1>2, IdleType, OutdateStep
  <2>2. /\ job'[p].op = "none" /\ job'[p].pc = "idle" /\ job'[p].v = NONE
        /\ Apart(job'[p]) /\ Picks(job'[p])
    <3> DEFINE b == Idle.pc # "idle"
    <3>1. job'[p] = [Idle EXCEPT !.stale = b]
      BY <2>1
    <3> HIDE DEF b
    <3> QED
      BY <3>1, IdleStays
  <2>3. job[p].pc # "uncurrent"
    BY <1>2
  <2> HIDE DEF v
  <2> QED
    BY <1>0, <1>2, <2>1, <2>2, <2>3 DEF v
<1> QED
  BY <1>1, <1>2 DEF Kill, At, Set

-----------------------------------------------------------------------------
(* Types, and which command carries which version *)

LEMMA GotoApart ==
    ASSUME ShapeInv, NEW p \in Process, NEW pc \in Fetching \cup {"then", "uncurrent", "unalias"}, Goto(p, pc),
           job[p].v # NONE,
           job[p].op = "switch" => pc \in Fetching \cup {"then"}
    PROVE  job' \in [Process -> Job] /\ OpsApart'
<1>1. pc \in PC /\ pc # "exec"
  BY DEF PC, Fetching
<1>2. /\ JobStep(p) /\ job'[p].op = job[p].op /\ job'[p].pc = pc
      /\ job'[p].v = job[p].v /\ job'[p].then = job[p].then
  BY <1>1, GotoStep DEF ShapeInv
<1>3. Apart(job[p])
  BY DEF ShapeInv, OpsApart
<1>4. Apart(job'[p])
  BY <1>1, <1>2, <1>3 DEF Apart, Fetching
<1> QED
  BY <1>2, <1>4, ApartKept DEF ShapeInv, JobStep

LEMMA EndApart ==
    ASSUME ShapeInv, NEW p \in Process, End(p)
    PROVE  job' \in [Process -> Job] /\ OpsApart'
<1>1. JobStep(p) /\ job'[p] = Idle
  BY EndStep DEF ShapeInv
<1> QED
  BY <1>1, IdleApart, ApartKept DEF ShapeInv, JobStep

LEMMA ShapeStage ==
    ASSUME ShapeInv, NEW p \in Process,
           Stage(p) \/ Download(p) \/ DownloadVersion(p) \/ Unpack(p) \/ Mark(p) \/ Rename(p)
    PROVE  ShapeInv'
<1> DEFINE v == job[p].v
<1>0. /\ dir \in [Version -> Dir] /\ tmp \in [Version -> Dir] /\ job[p] \in Job /\ v \in Version \cup {NONE}
      /\ spoiled \subseteq Version /\ faults \in 0..MaxFaults
  BY DEF ShapeInv, TypeOK, Dir, Job
<1>1. v \in Version
  BY <1>0 DEF ShapeInv, OpsApart, Apart, Stage, Download, DownloadVersion, Unpack, Mark, Rename, At, Fetching
<1>2. /\ UNCHANGED <<names, dist, cut, begun>>
      /\ dir' \in [Version -> Dir] /\ tmp' \in [Version -> Dir] /\ spoiled' \subseteq Version
      /\ faults' \in 0..MaxFaults
      /\ job' \in [Process -> Job] /\ OpsApart'
  <2>1. CASE Stage(p)
    <3>1. \/ Goto(p, "then") /\ UNCHANGED <<tmp, spoiled>>
          \/ /\ tmp' = [tmp EXCEPT ![v] = IF v \in Node THEN {} ELSE NONE]
             /\ spoiled' \in {spoiled, spoiled \cup {v}}
             /\ Goto(p, "download")
      BY <2>1 DEF Stage, Set, TmpOf
    <3>2. UNCHANGED <<dir, cut, names, dist, counts>>
      BY <2>1 DEF Stage
    <3>3. job[p].op = "switch" => TRUE
      OBVIOUS
    <3>4. v # NONE
      BY <1>1, VersionTypes
    <3>5. job' \in [Process -> Job] /\ OpsApart'
      BY <3>1, <3>4, GotoApart DEF Fetching
    <3>6. tmp' \in [Version -> Dir] /\ spoiled' \subseteq Version
      BY <1>0, <1>1, <3>1 DEF Dir
    <3> QED
      BY <1>0, <3>2, <3>5, <3>6 DEF counts
  <2>2. CASE Download(p)
    <3>1. \/ Goto(p, "unpack") /\ UNCHANGED <<tmp, counts>>
          \/ Fault /\ End(p) /\ UNCHANGED tmp
          \/ Fault /\ End(p) /\ tmp' = [tmp EXCEPT ![v] = NONE]
      BY <2>2 DEF Download, Set, TmpOf
    <3>2. UNCHANGED <<dir, spoiled, cut, names, dist>>
      BY <2>2 DEF Download
    <3>3. job' \in [Process -> Job] /\ OpsApart'
      BY <1>1, <3>1, GotoApart, EndApart, VersionTypes DEF Fetching
    <3>4. tmp' \in [Version -> Dir]
      BY <1>0, <3>1 DEF Dir
    <3>5. faults' \in 0..MaxFaults /\ begun' = begun
      BY <1>0, <3>1, ToolchainAssumption DEF Fault, counts
    <3> QED
      BY <1>0, <3>2, <3>3, <3>4, <3>5
  <2>3. CASE DownloadVersion(p)
    <3>1. \/ Goto(p, "unpack") /\ UNCHANGED counts
          \/ Fault /\ End(p)
      BY <2>3 DEF DownloadVersion
    <3>2. UNCHANGED <<disk, names, dist>>
      BY <2>3 DEF DownloadVersion
    <3>3. job' \in [Process -> Job] /\ OpsApart'
      BY <1>1, <3>1, GotoApart, EndApart, VersionTypes DEF Fetching
    <3>5. faults' \in 0..MaxFaults /\ begun' = begun
      BY <1>0, <3>1, ToolchainAssumption DEF Fault, counts
    <3> QED
      BY <1>0, <3>2, <3>3, <3>5 DEF disk
  <2>4. CASE Unpack(p)
    <3>1. \/ /\ \E part \in {"bin", "lib"} :
                    tmp' = [tmp EXCEPT ![v] = (IF tmp[v] = NONE THEN {} ELSE tmp[v]) \cup {part}]
             /\ \E pc \in {"unpacked", "mark"} : Goto(p, pc)
             /\ UNCHANGED counts
          \/ Fault /\ End(p) /\ UNCHANGED tmp
      BY <2>4 DEF Unpack, Set, TmpOf
    <3>2. UNCHANGED <<dir, spoiled, cut, names, dist>>
      BY <2>4 DEF Unpack
    <3>3. job' \in [Process -> Job] /\ OpsApart'
      BY <1>1, <3>1, GotoApart, EndApart, VersionTypes DEF Fetching
    <3>4. tmp' \in [Version -> Dir]
      <4>1. CASE UNCHANGED tmp
        BY <1>0, <4>1
      <4>2. ASSUME NEW part \in {"bin", "lib"},
                   tmp' = [tmp EXCEPT ![v] = (IF tmp[v] = NONE THEN {} ELSE tmp[v]) \cup {part}]
            PROVE  tmp' \in [Version -> Dir]
        <5>1. ((IF tmp[v] = NONE THEN {} ELSE tmp[v]) \cup {part}) \in SUBSET Parts
          BY <1>0, <1>1 DEF Dir, Parts
        <5> QED
          BY <1>0, <4>2, <5>1 DEF Dir
      <4> QED
        BY <3>1, <4>1, <4>2
    <3>5. faults' \in 0..MaxFaults /\ begun' = begun
      BY <1>0, <3>1, ToolchainAssumption DEF Fault, counts
    <3> QED
      BY <1>0, <3>2, <3>3, <3>4, <3>5
  <2>5. CASE Mark(p)
    <3>1. \/ tmp[v] # NONE /\ tmp' = [tmp EXCEPT ![v] = tmp[v] \cup {"marker"}] /\ Goto(p, "replace")
          \/ End(p) /\ (UNCHANGED tmp \/ tmp' = [tmp EXCEPT ![v] = NONE])
      BY <2>5 DEF Mark, Set, TmpOf
    <3>2. UNCHANGED <<dir, spoiled, cut, names, dist, counts>>
      BY <2>5 DEF Mark
    <3>3. job' \in [Process -> Job] /\ OpsApart'
      BY <1>1, <3>1, GotoApart, EndApart, VersionTypes DEF Fetching
    <3>4. tmp' \in [Version -> Dir]
      <4>1. tmp[v] # NONE => (tmp[v] \cup {"marker"}) \in SUBSET Parts
        BY <1>0, <1>1 DEF Dir, Parts
      <4> QED
        BY <1>0, <3>1, <4>1 DEF Dir
    <3> QED
      BY <1>0, <3>2, <3>3, <3>4 DEF counts
  <2>6. CASE Rename(p)
    <3>1. \/ End(p) /\ UNCHANGED <<dir, tmp>>
          \/ dir' = [dir EXCEPT ![v] = tmp[v]] /\ tmp' = [tmp EXCEPT ![v] = NONE] /\ Goto(p, "then")
      BY <2>6 DEF Rename, Set, TmpOf
    <3>2. UNCHANGED <<spoiled, cut, names, dist, counts>>
      BY <2>6 DEF Rename
    <3>3. job' \in [Process -> Job] /\ OpsApart'
      BY <1>1, <3>1, GotoApart, EndApart, VersionTypes DEF Fetching
    <3>4. tmp' \in [Version -> Dir] /\ dir' \in [Version -> Dir]
      BY <1>0, <1>1, <3>1 DEF Dir
    <3> QED
      BY <1>0, <3>2, <3>3, <3>4 DEF counts
  <2> QED
    BY <2>1, <2>2, <2>3, <2>4, <2>5, <2>6
<1>3. TypeOK'
  BY <1>2 DEF ShapeInv, TypeOK, Dir, names, dist
<1> QED
  BY <1>2, <1>3 DEF ShapeInv

LEMMA ShapeNext ==
    ASSUME ShapeInv, [Next]_vars
    PROVE  ShapeInv'
<1> USE DEF ShapeInv
<1>0. /\ dir \in [Version -> Dir] /\ tmp \in [Version -> Dir] /\ job \in [Process -> Job]
      /\ spoiled \subseteq Version /\ faults \in 0..MaxFaults /\ begun \in 0..MaxCommands
      /\ alias \in [AliasName -> Node \cup {NONE}] /\ current \in Node \cup {NONE} /\ cut \subseteq Version
      /\ index \in (SUBSET Node) \cup {NONE} /\ released \subseteq Node
  BY DEF TypeOK, Dir
<1>1. CASE UNCHANGED vars
  BY <1>1 DEF TypeOK, OpsApart, vars
<1>2. ASSUME NEW p \in Process, NEW c, Begin(p, c), Starts(c)
      PROVE  ShapeInv'
  <2>1. JobStep(p) /\ job'[p] = c /\ UNCHANGED <<disk, names, dist, faults>> /\ begun' \in 0..MaxCommands
    BY <1>2, BeginStep
  <2>2. OpsApart'
    BY <1>2, <2>1, ApartKept DEF Starts
  <2> QED
    BY <1>0, <2>1, <2>2 DEF TypeOK, Dir, JobStep, disk, names, dist
<1>3. ASSUME NEW p \in Process, UnaliasCommand(p) PROVE ShapeInv'
  <2>1. PICK s \in AliasName : alias' = [alias EXCEPT ![s] = NONE]
    BY <1>3, UnaliasStep
  <2>2. alias' \in [AliasName -> Node \cup {NONE}]
    BY <1>0, <2>1
  <2>3. OpsApart'
    BY <1>3, UnaliasStep, ApartKept
  <2>4. JobStep(p) /\ UNCHANGED <<disk, current, dist, faults>> /\ begun' \in 0..MaxCommands
    BY <1>3, UnaliasStep
  <2> QED
    BY <1>0, <2>2, <2>3, <2>4 DEF TypeOK, Dir, JobStep, disk, dist
<1>4. ASSUME NEW p \in Process, ClearCache(p) PROVE ShapeInv'
  <2>1. OpsApart'
    BY <1>4, ClearCacheStep, ApartKept
  <2>2. /\ JobStep(p) /\ UNCHANGED <<cut, names, dist, faults>> /\ begun' \in 0..MaxCommands
        /\ dir' = [v \in Version |-> IF v \in Snpm THEN NONE ELSE dir[v]]
        /\ tmp' = [v \in Version |-> IF v \in Snpm THEN NONE ELSE tmp[v]]
        /\ spoiled' \subseteq Version
    BY <1>4, ClearCacheStep
  <2>3. dir' \in [Version -> Dir] /\ tmp' \in [Version -> Dir]
    BY <1>0, <2>2 DEF Dir
  <2> QED
    BY <1>0, <2>1, <2>2, <2>3 DEF TypeOK, Dir, JobStep, names, dist
<1>5. ASSUME NEW p \in Process, Resolve(p) PROVE ShapeInv'
  <2>1. /\ JobStep(p) /\ UNCHANGED <<disk, names, released, begun>>
        /\ index' \in (SUBSET Node) \cup {NONE} /\ faults' \in 0..MaxFaults
        /\ job[p].op # "switch"
        /\ \/ job'[p] = Idle
           \/ \E v \in Node : job'[p] = [job[p] EXCEPT !.v = v, !.pc = IF job[p].op = "alias" THEN "then" ELSE "stage"]
    BY <1>5, ResolveStep
  <2>2. Apart(job'[p])
    <3>1. CASE job'[p] = Idle
      BY <3>1, IdleApart
    <3>2. ASSUME NEW v \in Node, NEW pc \in {"then", "stage"}, job'[p] = [job[p] EXCEPT !.v = v, !.pc = pc]
          PROVE  Apart(job'[p])
      <4>1. job[p] \in Job /\ Apart(job[p])
        BY <1>0 DEF OpsApart
      <4>2. job'[p].op = job[p].op /\ job'[p].v = v /\ job'[p].pc = pc /\ job'[p].then = job[p].then
        BY <3>2, <4>1 DEF Job
      <4>3. v # NONE
        BY ToolchainAssumption
      <4> QED
        BY <2>1, <4>1, <4>2, <4>3 DEF Apart, Fetching
    <3> QED
      BY <2>1, <3>1, <3>2
  <2>3. OpsApart'
    BY <2>1, <2>2, ApartKept
  <2> QED
    BY <1>0, <2>1, <2>3 DEF TypeOK, Dir, JobStep, disk, names
<1>6. ASSUME NEW p \in Process, Replace(p) PROVE ShapeInv'
  <2>1. /\ JobStep(p) /\ job'[p] = [job[p] EXCEPT !.pc = "rename"] /\ job[p].pc = "replace"
        /\ UNCHANGED <<tmp, spoiled, cut, names, dist, counts>>
        /\ dir' = [dir EXCEPT ![job[p].v] = NONE]
    BY <1>6, ReplaceStep
  <2>2. job[p] \in Job /\ Apart(job[p])
    BY <1>0 DEF OpsApart
  <2>3. job'[p].op = job[p].op /\ job'[p].v = job[p].v /\ job'[p].pc = "rename" /\ job'[p].then = job[p].then
    BY <2>1, <2>2 DEF Job
  <2>4. Apart(job'[p])
    BY <2>1, <2>2, <2>3 DEF Apart, Fetching
  <2>5. OpsApart'
    BY <2>1, <2>4, ApartKept
  <2>6. dir' \in [Version -> Dir]
    BY <1>0, <2>1 DEF Dir
  <2> QED
    BY <1>0, <2>1, <2>5, <2>6 DEF TypeOK, Dir, JobStep, names, dist, counts
<1>7. ASSUME NEW p \in Process, Then(p) PROVE ShapeInv'
  <2>0. JobStep(p) /\ job[p].pc = "then" /\ UNCHANGED <<dir, tmp, spoiled, dist, counts>>
    BY <1>7, ThenStep
  <2>1. CASE job'[p] = Idle /\ UNCHANGED <<names, cut>>
    <3>1. OpsApart'
      BY <2>0, <2>1, IdleApart, ApartKept
    <3> QED
      BY <1>0, <2>0, <2>1, <3>1 DEF TypeOK, Dir, JobStep, names, dist, counts
  <2>2. CASE job[p].then # << >>
    <3> DEFINE h == Head(job[p].then)
    <3>1. job[p] \in Job /\ Apart(job[p]) /\ job[p].v \in Version \cup {NONE} /\ job[p].then \in Seq(After)
      BY <1>0 DEF OpsApart, Job, After
    <3>2. CASE ~(job'[p] = Idle /\ UNCHANGED <<names, cut>>)
      <4>1. /\ h \in After
            /\ job'[p].op = job[p].op /\ job'[p].v = job[p].v /\ job'[p].then = Tail(job[p].then)
            /\ job'[p].pc = IF h \in {"spawn", "exec"} THEN h ELSE "then"
            /\ h = "exec" <=> (job[p].op = "switch")
            /\ current' = IF h = "current" THEN job[p].v ELSE current
            /\ alias' = CASE h = "default" -> [alias EXCEPT ![Default] = job[p].v]
                          [] h = "alias" -> [alias EXCEPT ![job[p].name] = job[p].v]
                          [] OTHER -> alias
            /\ cut' = IF h = "current" /\ job[p].stale THEN cut \cup {job[p].v} ELSE cut
        BY <1>7, <3>2, ThenStep
      <4>2. h # "exec" => job[p].v \in Node \cup {NONE}
        BY <3>1, <4>1 DEF Apart
      <4>3. current' \in Node \cup {NONE} /\ alias' \in [AliasName -> Node \cup {NONE}]
        BY <1>0, <4>1, <4>2
      <4>4. cut' \subseteq Version
        <5>1. CASE h = "current" /\ job[p].stale
          <6>1. job[p].v # NONE
            BY <2>0, <3>1, <4>1, <5>1 DEF Apart
          <6> QED
            BY <1>0, <3>1, <4>1, <5>1, <6>1
        <5>2. CASE ~(h = "current" /\ job[p].stale)
          BY <1>0, <4>1, <5>2
        <5> QED
          BY <5>1, <5>2
      <4> DEFINE t == job[p].then
      <4>5. \A i \in DOMAIN Tail(t) : i + 1 \in DOMAIN t /\ Tail(t)[i] = t[i + 1]
        BY <2>2, <3>1
      <4>6. Apart(job'[p])
        <5>1. CASE job[p].op = "switch"
          <6>1. t = <<"exec">> /\ h = "exec"
            BY <2>2, <3>1, <4>1, <5>1 DEF Apart
          <6>2. Tail(t) = << >>
            BY <6>1
          <6> QED
            BY <3>1, <4>1, <5>1, <6>1, <6>2 DEF Apart, Fetching
        <5>2. CASE job[p].op # "switch"
          <6>1. h # "exec"
            BY <4>1, <5>2
          <6>2. \A i \in DOMAIN Tail(t) : Tail(t)[i] # "exec" /\ (job[p].op = "alias" => Tail(t)[i] = "alias")
            BY <3>1, <4>5, <5>2 DEF Apart
          <6>3. job'[p].pc \in {"spawn", "then"}
            BY <4>1, <6>1
          <6> HIDE DEF h
          <6> QED
            BY <2>0, <3>1, <4>1, <5>2, <6>2, <6>3 DEF Apart, Fetching
        <5> QED
          BY <5>1, <5>2
      <4>7. OpsApart'
        BY <2>0, <4>6, ApartKept
      <4> QED
        BY <1>0, <2>0, <4>3, <4>4, <4>7 DEF TypeOK, Dir, JobStep, dist, counts
    <3> QED
      BY <2>1, <3>2
  <2> QED
    BY <1>7, <2>1, <2>2, ThenStep
<1>8. ASSUME NEW p \in Process, Spawn(p) \/ Exec(p) PROVE ShapeInv'
  <2>1. /\ JobStep(p) /\ UNCHANGED <<disk, names, dist, begun>> /\ faults' \in 0..MaxFaults
        /\ \/ job'[p] = Idle
           \/ /\ job'[p].op = job[p].op /\ job'[p].v = job[p].v /\ job'[p].then = job[p].then
              /\ job'[p].pc = "ran"
    BY <1>8, SpawnStep
  <2>2. Apart(job[p])
    BY DEF OpsApart
  <2>3. Apart(job'[p])
    BY <2>1, <2>2, IdleApart DEF Apart, Fetching
  <2>4. OpsApart'
    BY <2>1, <2>3, ApartKept
  <2> QED
    BY <1>0, <2>1, <2>4 DEF TypeOK, Dir, JobStep, disk, names, dist
<1>9. ASSUME NEW p \in Process, RemoveVersion(p) PROVE ShapeInv'
  <2>1. /\ JobStep(p) /\ job'[p].pc = "uncurrent" /\ job[p].pc = "remove"
        /\ job'[p].op = job[p].op /\ job'[p].v = job[p].v /\ job'[p].then = job[p].then
        /\ UNCHANGED <<tmp, spoiled, cut, names, dist, counts>>
        /\ dir' = [dir EXCEPT ![job[p].v] = NONE]
    BY <1>9, RemoveStep
  <2>2. Apart(job[p])
    BY DEF OpsApart
  <2>4. Apart(job'[p])
    BY <2>1, <2>2 DEF Apart, Fetching
  <2>5. OpsApart'
    BY <2>1, <2>4, ApartKept
  <2>6. dir' \in [Version -> Dir]
    BY <1>0, <2>1 DEF Dir
  <2> QED
    BY <1>0, <2>1, <2>5, <2>6 DEF TypeOK, Dir, JobStep, names, dist, counts
<1>10. ASSUME NEW p \in Process, ClearCurrent(p) PROVE ShapeInv'
  <2>1. /\ job[p].pc = "uncurrent" /\ Goto(p, "unalias") /\ current' \in {current, NONE}
        /\ UNCHANGED <<disk, alias, dist, counts>>
    BY <1>10 DEF ClearCurrent, At
  <2>2. Apart(job[p])
    BY DEF OpsApart
  <2>3. job[p].v # NONE /\ job[p].op # "switch"
    BY <2>1, <2>2 DEF Apart, Fetching
  <2>4. job' \in [Process -> Job] /\ OpsApart'
    BY <2>1, <2>3, GotoApart
  <2> QED
    BY <1>0, <2>1, <2>4 DEF TypeOK, Dir, disk, dist, counts
<1>11. ASSUME NEW p \in Process, ClearAliases(p) PROVE ShapeInv'
  <2>1. JobStep(p) /\ UNCHANGED <<disk, current, dist, counts>>
    BY <1>11, ClearAliasesStep
  <2>2. alias' \in [AliasName -> Node \cup {NONE}]
    BY <1>0, <1>11, ClearAliasesStep
  <2>3. Apart(job'[p])
    <3>1. Apart(job[p])
      BY DEF OpsApart
    <3>2. job'[p] = Idle \/ Kept(p)
      BY <1>11, ClearAliasesStep
    <3>3. Kept(p) => Apart(job'[p])
      BY <3>1 DEF Kept, Apart
    <3> QED
      BY <3>2, <3>3, IdleApart
  <2>4. OpsApart'
    BY <2>1, <2>3, ApartKept
  <2> QED
    BY <1>0, <2>1, <2>2, <2>4 DEF TypeOK, Dir, JobStep, disk, dist, counts
<1>12. ASSUME NEW p \in Process, Kill(p) PROVE ShapeInv'
  <2>1. /\ JobStep(p) /\ Apart(job'[p]) /\ UNCHANGED <<tmp, names, released, begun>>
        /\ faults' \in 0..MaxFaults /\ index' \in {index, NONE}
    BY <1>12, KillStep
  <2>2. OpsApart'
    BY <2>1, ApartKept
  <2>3. dir' \in [Version -> Dir] /\ spoiled' \subseteq Version /\ cut' \subseteq Version
    <3>1. job[p].v \in Version \cup {NONE}
      BY <1>0 DEF Job
    <3>2. job[p].pc \in {"remove", "uncurrent", "replace"} => job[p].v \in Version
      BY <3>1 DEF OpsApart, Apart, Fetching
    <3>3. CASE UNCHANGED <<dir, spoiled>> /\ cut' \subseteq cut \cup {job[p].v}
               /\ (cut' # cut => job[p].pc = "uncurrent")
      BY <1>0, <3>2, <3>3
    <3>4. CASE /\ job[p].pc \in {"remove", "replace"} /\ dir[job[p].v] # NONE
               /\ cut' = cut \cup {job[p].v}
               /\ \E kept \in SUBSET dir[job[p].v] :
                     /\ dir' = [dir EXCEPT ![job[p].v] = kept]
                     /\ spoiled' = IF {"marker", "bin"} \subseteq kept THEN spoiled \cup {job[p].v} ELSE spoiled
      <4>1. PICK kept \in SUBSET dir[job[p].v] :
                     /\ dir' = [dir EXCEPT ![job[p].v] = kept]
                     /\ spoiled' = IF {"marker", "bin"} \subseteq kept THEN spoiled \cup {job[p].v} ELSE spoiled
        BY <3>4
      <4>2. kept \in SUBSET Parts
        BY <1>0, <3>2, <3>4 DEF Dir
      <4>3. dir' \in [Version -> Dir]
        BY <1>0, <4>1, <4>2 DEF Dir
      <4> QED
        BY <1>0, <3>2, <3>4, <4>1, <4>3
    <3> QED
      BY <1>12, <3>3, <3>4, KillStep
  <2> QED
    BY <1>0, <2>1, <2>2, <2>3 DEF TypeOK, Dir, JobStep, names
<1>13. CASE Publish
  BY <1>13 DEF Publish, TypeOK, OpsApart, disk, names, counts
<1>14. ASSUME NEW p \in Process, Command(p) PROVE ShapeInv'
  BY <1>2, <1>3, <1>4, <1>14, CommandStarts
<1>15. ASSUME NEW p \in Process, Step(p) PROVE ShapeInv'
  BY <1>5, <1>6, <1>7, <1>8, <1>9, <1>10, <1>11, <1>15, ShapeStage DEF Step
<1> QED
  BY <1>1, <1>12, <1>13, <1>14, <1>15 DEF Next, AllDone

LEMMA ShapeInit ==
    ASSUME Init
    PROVE  ShapeInv
<1>1. job = [p \in Process |-> Idle]
  BY DEF Init
<1>2. job \in [Process -> Job] /\ OpsApart
  BY <1>1, IdleType, IdleApart DEF OpsApart
<1>3. PICK have \in SUBSET Node, used \in Node \cup {NONE} :
      /\ dir = [v \in Version |-> IF v \in have THEN Parts ELSE NONE]
      /\ tmp = [v \in Version |-> NONE]
      /\ alias = [s \in AliasName |-> IF s = Default THEN used ELSE NONE]
      /\ current = used
      /\ released = Lts \cup have
  BY DEF Init
<1>4. /\ dir \in [Version -> (SUBSET Parts) \cup {NONE}] /\ tmp \in [Version -> (SUBSET Parts) \cup {NONE}]
      /\ alias \in [AliasName -> Node \cup {NONE}] /\ current \in Node \cup {NONE} /\ released \subseteq Node
  BY <1>3, ToolchainAssumption
<1>5. index = NONE /\ spoiled = {} /\ cut = {} /\ begun \in 0..MaxCommands /\ faults \in 0..MaxFaults
  BY ToolchainAssumption DEF Init
<1> QED
  BY <1>2, <1>4, <1>5 DEF ShapeInv, TypeOK

\* Directories and pointers have their types, and every command is at one of its
\* steps, in every reachable state.
THEOREM TypeCorrect == ToolchainSpec => []TypeOK
<1>1. Init => ShapeInv
  BY ShapeInit
<1>2. ShapeInv /\ [Next]_vars => ShapeInv'
  BY ShapeNext
<1>3. ShapeInv => TypeOK
  BY DEF ShapeInv
<1> QED
  BY <1>1, <1>2, <1>3, PTL DEF ToolchainSpec

-----------------------------------------------------------------------------
(* Versions are whole *)

LEMMA PartsFacts ==
    /\ NONE \notin SUBSET Parts /\ Parts # NONE /\ {"marker", "bin"} \subseteq Parts
    /\ {"bin", "lib"} \cup {"marker"} = Parts /\ {"bin"} \cup {"lib"} = {"bin", "lib"}
  BY ToolchainAssumption DEF Parts

\* Of what others do, a process that stages sees nothing.
LEMMA OthersStage ==
    ASSUME NEW p \in Process, JobStep(p), NEW q \in Process \ {p}, NEW v
    PROVE  /\ Stages(q, v)' <=> Stages(q, v)
           /\ job'[q].pc = job[q].pc /\ job'[q].v = job[q].v /\ job'[q].op = job[q].op
           /\ ~job'[q].stale /\ job[q].pc # "idle" => ~job[q].stale
<1>1. Kept(q)
  BY DEF JobStep
<1> QED
  BY <1>1 DEF Kept, Stages

\* A step that leaves the directories alone and after which p does not stage
LEMMA WholeQuiet ==
    ASSUME WholeInv, ShapeInv', NEW p \in Process, JobStep(p), UNCHANGED <<dir, tmp, spoiled>>,
           job'[p].pc \notin Fetching,
           job'[p].pc = "then" => \/ job'[p].op = "alias" \/ job'[p].v = NONE \/ job'[p].stale
                                  \/ job'[p].v \in spoiled \/ dir[job'[p].v] = Parts
    PROVE  WholeInv'
<1>1. StagedAlone'
  <2> SUFFICES ASSUME NEW q \in Process, NEW v \in Version \ spoiled, Stages(q, v)'
               PROVE  /\ \A r \in Process : Stages(r, v)' => r = q
                      /\ ~IsInstalled(v)'
                      /\ StagedAs(job'[q].pc, tmp'[v])
    BY DEF StagedAlone
  <2>1. q # p /\ \A r \in Process : Stages(r, v)' => r # p
    BY DEF Stages
  <2>2. Stages(q, v) /\ job'[q].pc = job[q].pc /\ \A r \in Process : Stages(r, v)' => Stages(r, v)
    BY <2>1, OthersStage
  <2> QED
    BY <2>2 DEF WholeInv, StagedAlone, IsInstalled
<1>2. InstalledWhole'
  BY DEF WholeInv, InstalledWhole
<1>3. GoesOnWhole'
  <2> SUFFICES ASSUME NEW q \in Process, job'[q].pc = "then", job'[q].op # "alias", job'[q].v # NONE, ~job'[q].stale
               PROVE  job'[q].v \in spoiled \/ dir[job'[q].v] = Parts
    BY DEF GoesOnWhole, At
  <2>1. CASE q = p
    BY <2>1
  <2>2. CASE q # p
    <3>1. job[q].pc = "then" /\ job[q].op # "alias" /\ job[q].v = job'[q].v /\ ~job[q].stale
      BY <2>2, OthersStage
    <3> QED
      BY <3>1 DEF WholeInv, GoesOnWhole, At
  <2> QED
    BY <2>1, <2>2
<1> QED
  BY <1>1, <1>2, <1>3 DEF WholeInv

\* A step of p on the <v>.tmp that it stages
LEMMA WholeFetch ==
    ASSUME WholeInv, ShapeInv', NEW p \in Process, JobStep(p), UNCHANGED <<dir, spoiled>>,
           job[p].pc \in Fetching, job'[p].pc # "then",
           \A w \in Version \ {job[p].v} : tmp'[w] = tmp[w],
           job'[p].pc \in Fetching =>
               /\ job'[p].v = job[p].v
               /\ job[p].v \notin spoiled => StagedAs(job'[p].pc, tmp'[job[p].v])
    PROVE  WholeInv'
<1>1. StagedAlone'
  <2> SUFFICES ASSUME NEW q \in Process, NEW v \in Version \ spoiled, Stages(q, v)'
               PROVE  /\ \A r \in Process : Stages(r, v)' => r = q
                      /\ ~IsInstalled(v)'
                      /\ StagedAs(job'[q].pc, tmp'[v])
    BY DEF StagedAlone
  <2>1. \A r \in Process : Stages(r, v)' => Stages(r, v)
    <3> SUFFICES ASSUME NEW r \in Process, Stages(r, v)' PROVE Stages(r, v)
      OBVIOUS
    <3>1. CASE r = p
      BY <3>1 DEF Stages
    <3>2. CASE r # p
      BY <3>2, OthersStage
    <3> QED
      BY <3>1, <3>2
  <2>2. Stages(q, v)
    BY <2>1
  <2>3. (\A r \in Process : Stages(r, v) => r = q) /\ ~IsInstalled(v) /\ StagedAs(job[q].pc, tmp[v])
    BY <2>2 DEF WholeInv, StagedAlone
  <2>4. StagedAs(job'[q].pc, tmp'[v])
    <3>1. CASE q = p
      BY <3>1 DEF Stages
    <3>2. CASE q # p
      <4>1. job[p].v # v
        BY <2>3, <3>2 DEF Stages
      <4>2. tmp'[v] = tmp[v] /\ job'[q].pc = job[q].pc
        BY <3>2, <4>1, OthersStage
      <4> QED
        BY <2>3, <4>2
    <3> QED
      BY <3>1, <3>2
  <2> QED
    BY <2>1, <2>3, <2>4 DEF IsInstalled
<1>2. InstalledWhole'
  BY DEF WholeInv, InstalledWhole
<1>3. GoesOnWhole'
  <2> SUFFICES ASSUME NEW q \in Process, job'[q].pc = "then", job'[q].op # "alias", job'[q].v # NONE, ~job'[q].stale
               PROVE  job'[q].v \in spoiled \/ dir[job'[q].v] = Parts
    BY DEF GoesOnWhole, At
  <2>1. q # p
    OBVIOUS
  <2>2. job[q].pc = "then" /\ job[q].op # "alias" /\ job[q].v = job'[q].v /\ ~job[q].stale
    BY <2>1, OthersStage
  <2> QED
    BY <2>2 DEF WholeInv, GoesOnWhole, At
<1> QED
  BY <1>1, <1>2, <1>3 DEF WholeInv

LEMMA WholeStage ==
    ASSUME WholeInv, ShapeInv', NEW p \in Process, Stage(p)
    PROVE  WholeInv'
<1>0. TypeOK /\ OpsApart /\ ShapeInv /\ job[p] \in Job /\ dir \in [Version -> Dir] /\ tmp \in [Version -> Dir]
  BY DEF WholeInv, ShapeInv, TypeOK, Dir
<1>1. PICK v \in Version : v = job[p].v /\ v # NONE /\ job[p].pc = "stage"
  BY <1>0 DEF OpsApart, Apart, Stage, At, Job
<1>2. CASE IsInstalled(v)
  <2>1. Goto(p, "then") /\ UNCHANGED <<dir, tmp, spoiled>>
    BY <1>1, <1>2 DEF Stage
  <2>2. JobStep(p) /\ job'[p].pc = "then" /\ job'[p].v = v
    BY <1>0, <1>1, <2>1, GotoStep DEF PC
  <2>3. v \in spoiled \/ dir[v] = Parts
    BY <1>1, <1>2 DEF WholeInv, InstalledWhole, IsInstalled
  <2> QED
    BY <2>1, <2>2, <2>3, WholeQuiet DEF Fetching
<1>3. CASE ~IsInstalled(v)
  <2>1. /\ tmp' = [tmp EXCEPT ![v] = IF v \in Node THEN {} ELSE NONE]
        /\ \/ spoiled' = spoiled \cup {v}
           \/ spoiled' = spoiled /\ \A q \in Process : ~Stages(q, v)
        /\ Goto(p, "download") /\ UNCHANGED dir
    BY <1>1, <1>3 DEF Stage, Set, TmpOf, Stages, Fetching
  <2>2. JobStep(p) /\ job'[p].pc = "download" /\ job'[p].v = v
    BY <1>0, <1>1, <2>1, GotoStep DEF PC
  <2>3. StagedAlone'
    <3> SUFFICES ASSUME NEW q \in Process, NEW w \in Version \ spoiled', Stages(q, w)'
                 PROVE  /\ \A r \in Process : Stages(r, w)' => r = q
                        /\ ~IsInstalled(w)'
                        /\ StagedAs(job'[q].pc, tmp'[w])
      BY DEF StagedAlone
    <3>1. w \notin spoiled
      BY <2>1
    <3>2. CASE w = v
      <4>1. \A r \in Process : ~Stages(r, v)
        BY <2>1, <3>2
      <4>2. \A r \in Process \ {p} : ~Stages(r, v)'
        BY <2>2, <4>1, OthersStage
      <4>3. q = p
        BY <3>2, <4>2 DEF Stages
      <4>4. tmp'[v] \in {{}, NONE}
        BY <1>0, <1>1, <2>1
      <4>5. StagedAs("download", tmp'[v])
        BY <4>4 DEF StagedAs
      <4>6. ~IsInstalled(v)'
        BY <1>3, <2>1 DEF IsInstalled
      <4> QED
        BY <2>2, <3>2, <4>2, <4>3, <4>5, <4>6 DEF Stages, IsInstalled
    <3>3. CASE w # v
      <4>1. \A r \in Process : Stages(r, w)' => r # p /\ Stages(r, w)
        BY <2>2, <3>3, OthersStage DEF Stages
      <4>2. (\A r \in Process : Stages(r, w) => r = q) /\ ~IsInstalled(w) /\ StagedAs(job[q].pc, tmp[w])
        BY <3>1, <4>1 DEF WholeInv, StagedAlone
      <4>3. tmp'[w] = tmp[w] /\ job'[q].pc = job[q].pc
        BY <1>0, <2>1, <2>2, <3>3, <4>1, OthersStage
      <4> QED
        BY <2>1, <4>1, <4>2, <4>3 DEF IsInstalled
    <3> QED
      BY <3>2, <3>3
  <2>4. spoiled \subseteq spoiled'
    BY <2>1
  <2>5. InstalledWhole'
    BY <2>1, <2>4 DEF WholeInv, InstalledWhole
  <2>6. GoesOnWhole'
    <3> SUFFICES ASSUME NEW q \in Process, job'[q].pc = "then", job'[q].op # "alias", job'[q].v # NONE, ~job'[q].stale
                 PROVE  job'[q].v \in spoiled' \/ dir'[job'[q].v] = Parts
      BY DEF GoesOnWhole, At
    <3>1. q # p
      BY <2>2
    <3>2. job[q].pc = "then" /\ job[q].op # "alias" /\ job[q].v = job'[q].v /\ ~job[q].stale
      BY <2>2, <3>1, OthersStage
    <3> QED
      BY <2>1, <2>4, <3>2 DEF WholeInv, GoesOnWhole, At
  <2> QED
    BY <2>3, <2>5, <2>6 DEF WholeInv
<1> QED
  BY <1>2, <1>3

LEMMA WholeUnpack ==
    ASSUME WholeInv, ShapeInv', NEW p \in Process,
           Download(p) \/ DownloadVersion(p) \/ Unpack(p) \/ Mark(p)
    PROVE  WholeInv'
<1> DEFINE v == job[p].v
<1>0. TypeOK /\ OpsApart /\ ShapeInv /\ job[p] \in Job /\ tmp \in [Version -> Dir]
  BY DEF WholeInv, ShapeInv, TypeOK, Dir
<1>1. v \in Version /\ v # NONE /\ job[p].pc \in Fetching
  BY <1>0 DEF OpsApart, Apart, Download, DownloadVersion, Unpack, Mark, At, Job, Fetching
<1>2. ASSUME End(p), UNCHANGED <<dir, spoiled>>, UNCHANGED tmp \/ tmp' = [tmp EXCEPT ![v] = NONE]
      PROVE  WholeInv'
  <2>1. JobStep(p) /\ job'[p] = Idle
    BY <1>0, <1>2, EndStep
  <2>2. \A w \in Version \ {v} : tmp'[w] = tmp[w]
    BY <1>0, <1>2
  <2> QED
    BY <1>1, <1>2, <2>1, <2>2, IdleApart, WholeFetch DEF Fetching
<1>3. ASSUME NEW pc \in Fetching, Goto(p, pc), UNCHANGED <<dir, spoiled>>,
             NEW parts, UNCHANGED tmp \/ tmp' = [tmp EXCEPT ![v] = parts],
             v \notin spoiled => StagedAs(pc, tmp'[v])
      PROVE  WholeInv'
  <2>1. JobStep(p) /\ job'[p].pc = pc /\ job'[p].v = v
    BY <1>0, <1>3, GotoStep DEF PC, Fetching
  <2>2. \A w \in Version \ {v} : tmp'[w] = tmp[w]
    BY <1>0, <1>3
  <2> QED
    BY <1>1, <1>3, <2>1, <2>2, WholeFetch DEF Fetching
<1>4. v \notin spoiled => StagedAs(job[p].pc, tmp[v])
  BY <1>1 DEF WholeInv, StagedAlone, Stages
<1>5. CASE Download(p) \/ DownloadVersion(p)
  <2>1. /\ job[p].pc = "download" /\ UNCHANGED <<dir, spoiled>>
        /\ \/ Goto(p, "unpack") /\ UNCHANGED tmp
           \/ End(p) /\ (UNCHANGED tmp \/ tmp' = [tmp EXCEPT ![v] = NONE])
    BY <1>5 DEF Download, DownloadVersion, At, Set, TmpOf, disk
  <2>2. CASE Goto(p, "unpack") /\ UNCHANGED tmp
    <3>1. v \notin spoiled => StagedAs("unpack", tmp'[v])
      BY <1>4, <2>1, <2>2 DEF StagedAs
    <3> QED
      BY <1>3, <2>1, <2>2, <3>1 DEF Fetching
  <2> QED
    BY <1>2, <2>1, <2>2
<1>6. CASE Unpack(p)
  <2> DEFINE had == IF tmp[v] = NONE THEN {} ELSE tmp[v]
  <2>1. /\ UNCHANGED <<dir, spoiled>>
        /\ \/ job[p].pc = "unpack" /\ tmp' = [tmp EXCEPT ![v] = had \cup {"bin"}] /\ Goto(p, "unpacked")
           \/ job[p].pc = "unpacked" /\ tmp' = [tmp EXCEPT ![v] = had \cup {"lib"}] /\ Goto(p, "mark")
           \/ End(p) /\ UNCHANGED tmp
    BY <1>6 DEF Unpack, At, Set, TmpOf
  <2>2. CASE job[p].pc = "unpack" /\ tmp' = [tmp EXCEPT ![v] = had \cup {"bin"}] /\ Goto(p, "unpacked")
    <3>1. v \notin spoiled => had = {}
      BY <1>4, <2>2 DEF StagedAs
    <3>2. v \notin spoiled => tmp'[v] = {"bin"}
      BY <1>0, <1>1, <2>2, <3>1
    <3>3. v \notin spoiled => StagedAs("unpacked", tmp'[v])
      BY <3>2 DEF StagedAs
    <3> QED
      BY <1>3, <2>1, <2>2, <3>3 DEF Fetching
  <2>3. CASE job[p].pc = "unpacked" /\ tmp' = [tmp EXCEPT ![v] = had \cup {"lib"}] /\ Goto(p, "mark")
    <3>1. v \notin spoiled => had = {"bin"}
      <4>1. v \notin spoiled => tmp[v] = {"bin"}
        BY <1>4, <2>3 DEF StagedAs
      <4>2. {"bin"} # NONE
        BY PartsFacts DEF Parts
      <4> QED
        BY <4>1, <4>2
    <3>2. v \notin spoiled => tmp'[v] = {"bin", "lib"}
      BY <1>0, <1>1, <2>3, <3>1, PartsFacts
    <3>3. v \notin spoiled => StagedAs("mark", tmp'[v])
      BY <3>2 DEF StagedAs
    <3> QED
      BY <1>3, <2>1, <2>3, <3>3 DEF Fetching
  <2> QED
    BY <1>2, <2>1, <2>2, <2>3
<1>7. CASE Mark(p)
  <2>1. /\ UNCHANGED <<dir, spoiled>> /\ job[p].pc = "mark"
        /\ \/ tmp' = [tmp EXCEPT ![v] = tmp[v] \cup {"marker"}] /\ Goto(p, "replace")
           \/ End(p) /\ (UNCHANGED tmp \/ tmp' = [tmp EXCEPT ![v] = NONE])
    BY <1>7 DEF Mark, At, Set, TmpOf
  <2>2. CASE tmp' = [tmp EXCEPT ![v] = tmp[v] \cup {"marker"}] /\ Goto(p, "replace")
    <3>1. v \notin spoiled => tmp[v] = {"bin", "lib"}
      BY <1>4, <2>1 DEF StagedAs
    <3>2. v \notin spoiled => tmp'[v] = Parts
      BY <1>0, <1>1, <2>2, <3>1, PartsFacts
    <3>3. v \notin spoiled => StagedAs("replace", tmp'[v])
      BY <3>2 DEF StagedAs
    <3> QED
      BY <1>3, <2>1, <2>2, <3>3 DEF Fetching
  <2> QED
    BY <1>2, <2>1, <2>2
<1> QED
  BY <1>5, <1>6, <1>7

\* A step that takes directories away
LEMMA WholeShrink ==
    ASSUME WholeInv, ShapeInv', NEW p \in Process, JobStep(p), spoiled \subseteq spoiled',
           \A w \in Version \ spoiled' : /\ IsInstalled(w)' => dir'[w] = dir[w]
                                         /\ tmp'[w] = tmp[w] \/ \A q \in Process : ~Stages(q, w),
           job'[p].pc # "then",
           job'[p].pc \in Fetching => job[p].pc = "replace" /\ job'[p].pc = "rename" /\ job'[p].v = job[p].v,
           \A q \in Process \ {p} :
               job[q].pc = "then" /\ ~job'[q].stale /\ job[q].v \in Version \ spoiled' /\ dir[job[q].v] = Parts =>
                   dir'[job[q].v] = Parts
    PROVE  WholeInv'
<1>1. StagedAlone'
  <2> SUFFICES ASSUME NEW q \in Process, NEW v \in Version \ spoiled', Stages(q, v)'
               PROVE  /\ \A r \in Process : Stages(r, v)' => r = q
                      /\ ~IsInstalled(v)'
                      /\ StagedAs(job'[q].pc, tmp'[v])
    BY DEF StagedAlone
  <2>1. \A r \in Process : Stages(r, v)' => Stages(r, v)
    <3> SUFFICES ASSUME NEW r \in Process, Stages(r, v)' PROVE Stages(r, v)
      OBVIOUS
    <3>1. CASE r = p
      BY <3>1 DEF Stages, Fetching
    <3>2. CASE r # p
      BY <3>2, OthersStage
    <3> QED
      BY <3>1, <3>2
  <2>2. Stages(q, v) /\ v \in Version \ spoiled
    BY <2>1
  <2>3. (\A r \in Process : Stages(r, v) => r = q) /\ ~IsInstalled(v) /\ StagedAs(job[q].pc, tmp[v])
    BY <2>2 DEF WholeInv, StagedAlone
  <2>4. tmp'[v] = tmp[v]
    BY <2>2
  <2>5. StagedAs(job'[q].pc, tmp[v])
    <3>1. CASE q = p
      BY <2>3, <3>1 DEF Stages, StagedAs
    <3>2. CASE q # p
      BY <2>3, <3>2, OthersStage
    <3> QED
      BY <3>1, <3>2
  <2>6. ~IsInstalled(v)'
    BY <2>3 DEF IsInstalled
  <2> QED
    BY <2>1, <2>3, <2>4, <2>5, <2>6
<1>2. InstalledWhole'
  BY DEF WholeInv, InstalledWhole, IsInstalled
<1>3. GoesOnWhole'
  <2> SUFFICES ASSUME NEW q \in Process, job'[q].pc = "then", job'[q].op # "alias", job'[q].v # NONE, ~job'[q].stale,
                      job'[q].v \notin spoiled'
               PROVE  dir'[job'[q].v] = Parts
    BY DEF GoesOnWhole, At
  <2>1. q # p
    OBVIOUS
  <2>2. job[q].pc = "then" /\ job[q].op # "alias" /\ job[q].v = job'[q].v /\ ~job[q].stale
    BY <2>1, OthersStage
  <2>3. job[q].v \notin spoiled /\ dir[job[q].v] = Parts
    BY <2>2 DEF WholeInv, GoesOnWhole, At
  <2>4. job[q].v \in Version
    BY <2>2 DEF WholeInv, ShapeInv, TypeOK, Job
  <2> QED
    BY <2>1, <2>2, <2>3, <2>4
<1> QED
  BY <1>1, <1>2, <1>3 DEF WholeInv

LEMMA WholeReplace ==
    ASSUME WholeInv, ShapeInv', NEW p \in Process, Replace(p)
    PROVE  WholeInv'
<1>0. TypeOK /\ OpsApart /\ ShapeInv /\ job[p] \in Job /\ dir \in [Version -> Dir]
  BY DEF WholeInv, ShapeInv, TypeOK, Dir
<1>1. /\ JobStep(p) /\ job'[p] = [job[p] EXCEPT !.pc = "rename"] /\ job[p].pc = "replace"
      /\ UNCHANGED <<tmp, spoiled>> /\ dir' = [dir EXCEPT ![job[p].v] = NONE]
  BY <1>0, ReplaceStep
<1>2. PICK v \in Version : v = job[p].v
  BY <1>0, <1>1 DEF OpsApart, Apart, Job, Fetching
<1>3. job'[p].pc = "rename" /\ job'[p].v = v
  BY <1>0, <1>1, <1>2 DEF Job
<1>4. \A w \in Version : IsInstalled(w)' => dir'[w] = dir[w]
  BY <1>0, <1>1, <1>2 DEF IsInstalled
<1>5. v \notin spoiled => dir[v] # Parts
  <2>1. v \notin spoiled => ~IsInstalled(v)
    BY <1>1, <1>2 DEF WholeInv, StagedAlone, Stages, Fetching
  <2> QED
    BY <2>1, PartsFacts DEF IsInstalled
<1>6. \A w \in Version \ spoiled : dir[w] = Parts => dir'[w] = Parts
  BY <1>0, <1>1, <1>2, <1>5
<1> QED
  BY <1>1, <1>2, <1>3, <1>4, <1>6, WholeShrink

LEMMA WholeRename ==
    ASSUME WholeInv, ShapeInv', NEW p \in Process, Rename(p)
    PROVE  WholeInv'
<1>0. TypeOK /\ OpsApart /\ ShapeInv /\ job[p] \in Job /\ dir \in [Version -> Dir] /\ tmp \in [Version -> Dir]
  BY DEF WholeInv, ShapeInv, TypeOK, Dir
<1>1. job[p].pc = "rename" /\ UNCHANGED spoiled
  BY DEF Rename, At
<1>2. PICK v \in Version : v = job[p].v
  BY <1>0, <1>1 DEF OpsApart, Apart, Job, Fetching
<1>3. CASE tmp[v] = NONE \/ dir[v] # NONE
  <2>1. End(p) /\ UNCHANGED <<dir, tmp>>
    BY <1>2, <1>3 DEF Rename, TmpOf
  <2>2. JobStep(p) /\ job'[p] = Idle
    BY <1>0, <2>1, EndStep
  <2> QED
    BY <1>1, <2>1, <2>2, IdleApart, WholeQuiet DEF Fetching
<1>4. CASE ~(tmp[v] = NONE \/ dir[v] # NONE)
  <2>1. dir' = [dir EXCEPT ![v] = tmp[v]] /\ tmp' = [tmp EXCEPT ![v] = NONE] /\ Goto(p, "then")
    BY <1>2, <1>4 DEF Rename, TmpOf, Set
  <2>2. JobStep(p) /\ job'[p].pc = "then" /\ job'[p].v = v
    BY <1>0, <1>2, <2>1, GotoStep DEF PC
  <2>3. v \notin spoiled => tmp[v] = Parts /\ \A q \in Process : Stages(q, v) => q = p
    BY <1>1, <1>2 DEF WholeInv, StagedAlone, Stages, StagedAs, Fetching
  <2>4. v \notin spoiled => dir'[v] = Parts
    BY <1>0, <2>1, <2>3
  <2>5. \A w \in Version \ {v} : dir'[w] = dir[w] /\ tmp'[w] = tmp[w]
    BY <1>0, <2>1
  <2>6. StagedAlone'
    <3> SUFFICES ASSUME NEW q \in Process, NEW w \in Version \ spoiled, Stages(q, w)'
                 PROVE  /\ \A r \in Process : Stages(r, w)' => r = q
                        /\ ~IsInstalled(w)'
                        /\ StagedAs(job'[q].pc, tmp'[w])
      BY <1>1 DEF StagedAlone
    <3>1. \A r \in Process : Stages(r, w)' => r # p /\ Stages(r, w)
      BY <2>2, OthersStage DEF Stages, Fetching
    <3>2. (\A r \in Process : Stages(r, w) => r = q) /\ ~IsInstalled(w) /\ StagedAs(job[q].pc, tmp[w])
      BY <3>1 DEF WholeInv, StagedAlone
    <3>3. w # v
      BY <2>3, <3>1
    <3>4. job'[q].pc = job[q].pc
      BY <2>2, <3>1, OthersStage
    <3> QED
      BY <2>5, <3>1, <3>2, <3>3, <3>4 DEF IsInstalled
  <2>7. InstalledWhole'
    BY <1>1, <2>4, <2>5 DEF WholeInv, InstalledWhole
  <2>8. GoesOnWhole'
    <3> SUFFICES ASSUME NEW q \in Process, job'[q].pc = "then", job'[q].op # "alias", job'[q].v # NONE,
                        ~job'[q].stale, job'[q].v \notin spoiled
                 PROVE  dir'[job'[q].v] = Parts
      BY <1>1 DEF GoesOnWhole, At
    <3>1. CASE job'[q].v = v
      BY <2>4, <3>1
    <3>2. CASE job'[q].v # v
      <4>1. q # p
        BY <2>2, <3>2
      <4>2. job[q].pc = "then" /\ job[q].op # "alias" /\ job[q].v = job'[q].v /\ ~job[q].stale
        BY <2>2, <4>1, OthersStage
      <4>3. dir[job[q].v] = Parts /\ job[q].v \in Version
        BY <4>2 DEF WholeInv, GoesOnWhole, At, ShapeInv, TypeOK, Job
      <4> QED
        BY <2>5, <3>2, <4>2, <4>3
    <3> QED
      BY <3>1, <3>2
  <2> QED
    BY <2>6, <2>7, <2>8 DEF WholeInv
<1> QED
  BY <1>3, <1>4

LEMMA WholeRemove ==
    ASSUME WholeInv, ShapeInv', NEW p \in Process, RemoveVersion(p) \/ ClearCache(p) \/ Kill(p)
    PROVE  WholeInv'
<1>0. TypeOK /\ OpsApart /\ ShapeInv /\ job[p] \in Job /\ dir \in [Version -> Dir] /\ tmp \in [Version -> Dir]
  BY DEF WholeInv, ShapeInv, TypeOK, Dir
<1>1. CASE RemoveVersion(p)
  <2>1. /\ JobStep(p) /\ job[p].pc = "remove" /\ job'[p].pc = "uncurrent"
        /\ \A q \in Process \ {p} : job[q].pc # "idle" => job'[q].stale
        /\ UNCHANGED <<tmp, spoiled>> /\ dir' = [dir EXCEPT ![job[p].v] = NONE]
    BY <1>0, <1>1, RemoveStep
  <2>2. \A w \in Version : IsInstalled(w)' => dir'[w] = dir[w]
    BY <1>0, <2>1 DEF IsInstalled
  <2> QED
    BY <2>1, <2>2, WholeShrink DEF Fetching
<1>2. CASE ClearCache(p)
  <2>1. /\ JobStep(p) /\ job'[p].pc = "idle" /\ job[p].pc \in {"idle", "ran"}
        /\ \A q \in Process \ {p} : job[q].pc # "idle" => job'[q].stale
        /\ dir' = [v \in Version |-> IF v \in Snpm THEN NONE ELSE dir[v]]
        /\ tmp' = [v \in Version |-> IF v \in Snpm THEN NONE ELSE tmp[v]]
        /\ spoiled \subseteq spoiled'
        /\ \A q \in Process : job[q].pc \notin {"idle", "ran"} /\ job[q].v \in Snpm => job[q].v \in spoiled'
    BY <1>0, <1>2, ClearCacheStep
  <2>2. \A w \in Version : IsInstalled(w)' => dir'[w] = dir[w]
    BY <1>0, <2>1 DEF IsInstalled
  <2>3. \A w \in Version \ spoiled' : tmp'[w] = tmp[w] \/ \A q \in Process : ~Stages(q, w)
    BY <2>1 DEF Stages, Fetching
  <2> QED
    BY <2>1, <2>2, <2>3, WholeShrink DEF Fetching
<1>3. CASE Kill(p)
  <2>1. JobStep(p) /\ job'[p].pc = "idle" /\ UNCHANGED tmp
    BY <1>0, <1>3, KillStep
  <2>2. CASE UNCHANGED <<dir, spoiled>>
    BY <2>1, <2>2, WholeQuiet DEF Fetching
  <2>3. CASE ~UNCHANGED <<dir, spoiled>>
    <3>1. /\ job[p].pc \in {"remove", "replace"} /\ dir[job[p].v] # NONE
          /\ \A q \in Process \ {p} : job[q].pc # "idle" => job'[q].stale
      BY <1>0, <1>3, <2>3, KillStep
    <3>2. PICK kept \in SUBSET dir[job[p].v] :
                       /\ dir' = [dir EXCEPT ![job[p].v] = kept]
                       /\ spoiled' = IF {"marker", "bin"} \subseteq kept THEN spoiled \cup {job[p].v} ELSE spoiled
      BY <1>0, <1>3, <2>3, KillStep
    <3>3. spoiled \subseteq spoiled'
      BY <3>2
    <3>4. ASSUME NEW w \in Version \ spoiled', IsInstalled(w)' PROVE dir'[w] = dir[w]
      <4>1. CASE w = job[p].v
        <5>1. dir'[w] = kept
          BY <1>0, <3>2, <4>1
        <5>2. {"marker", "bin"} \subseteq kept
          BY <3>4, <5>1 DEF IsInstalled
        <5> QED
          BY <3>2, <4>1, <5>2
      <4>2. CASE w # job[p].v
        BY <1>0, <3>2, <4>2
      <4> QED
        BY <4>1, <4>2
    <3> QED
      BY <2>1, <3>1, <3>3, <3>4, WholeShrink DEF Fetching
  <2> QED
    BY <2>2, <2>3
<1> QED
  BY <1>1, <1>2, <1>3

LEMMA WholeNext ==
    ASSUME WholeInv, [Next]_vars
    PROVE  WholeInv'
<1>0. ShapeInv /\ ShapeInv' /\ TypeOK /\ OpsApart
  BY ShapeNext DEF WholeInv, ShapeInv
<1>1. CASE UNCHANGED vars
  <2>1. StagedAlone' <=> StagedAlone
    BY <1>1 DEF vars, StagedAlone, Stages, IsInstalled
  <2> QED
    BY <1>0, <1>1, <2>1 DEF vars, WholeInv, InstalledWhole, GoesOnWhole, At
<1>2. ASSUME NEW p \in Process, NEW c, Begin(p, c), Starts(c)
      PROVE  WholeInv'
  <2>1. JobStep(p) /\ job'[p] = c /\ UNCHANGED <<dir, tmp, spoiled>>
    BY <1>0, <1>2, BeginStep DEF disk
  <2>2. c.pc \notin Fetching /\ (c.pc = "then" => c.op = "alias" \/ c.v = NONE)
    BY <1>2 DEF Starts, Fetching
  <2> QED
    BY <1>0, <2>1, <2>2, WholeQuiet
<1>3. ASSUME NEW p \in Process, UnaliasCommand(p) PROVE WholeInv'
  <2>1. JobStep(p) /\ job'[p].pc = "idle" /\ UNCHANGED <<dir, tmp, spoiled>>
    BY <1>0, <1>3, UnaliasStep DEF disk
  <2> QED
    BY <1>0, <2>1, WholeQuiet DEF Fetching
<1>4. ASSUME NEW p \in Process, Resolve(p) PROVE WholeInv'
  <2>1. JobStep(p) /\ UNCHANGED <<dir, tmp, spoiled>>
    BY <1>0, <1>4, ResolveStep DEF disk
  <2>2. job[p] \in Job
    BY <1>0 DEF TypeOK
  <2>3. CASE job'[p] = Idle
    BY <1>0, <2>1, <2>3, IdleApart, WholeQuiet DEF Fetching
  <2>4. ASSUME NEW v \in Node, job'[p] = [job[p] EXCEPT !.v = v, !.pc = IF job[p].op = "alias" THEN "then" ELSE "stage"]
        PROVE  WholeInv'
    <3>1. job'[p].pc \in {"then", "stage"} /\ (job'[p].pc = "then" => job'[p].op = "alias")
      BY <2>2, <2>4 DEF Job
    <3> QED
      BY <1>0, <2>1, <3>1, WholeQuiet DEF Fetching
  <2> QED
    BY <1>0, <1>4, <2>3, <2>4, ResolveStep
<1>5. ASSUME NEW p \in Process, Then(p) PROVE WholeInv'
  <2>1. JobStep(p) /\ UNCHANGED <<dir, tmp, spoiled>> /\ job[p].pc = "then"
    BY <1>0, <1>5, ThenStep
  <2>2. CASE job'[p] = Idle
    BY <1>0, <2>1, <2>2, IdleApart, WholeQuiet DEF Fetching
  <2>3. CASE job'[p] # Idle
    <3>1. /\ job'[p].op = job[p].op /\ job'[p].v = job[p].v /\ (job[p].stale => job'[p].stale)
          /\ job'[p].pc \in {"then", "spawn", "exec"}
      BY <1>0, <1>5, <2>3, ThenStep
    <3>2. \/ job'[p].op = "alias" \/ job'[p].v = NONE \/ job'[p].stale
          \/ job'[p].v \in spoiled \/ dir[job'[p].v] = Parts
      BY <2>1, <3>1 DEF WholeInv, GoesOnWhole, At
    <3> QED
      BY <1>0, <2>1, <3>1, <3>2, WholeQuiet DEF Fetching
  <2> QED
    BY <2>2, <2>3
<1>6. ASSUME NEW p \in Process, Spawn(p) \/ Exec(p) PROVE WholeInv'
  <2>1. JobStep(p) /\ UNCHANGED <<dir, tmp, spoiled>> /\ job'[p].pc \in {"idle", "ran"}
    BY <1>0, <1>6, SpawnStep, IdleApart DEF disk
  <2> QED
    BY <1>0, <2>1, WholeQuiet DEF Fetching
<1>7. ASSUME NEW p \in Process, ClearCurrent(p) PROVE WholeInv'
  <2>1. Goto(p, "unalias") /\ UNCHANGED <<dir, tmp, spoiled>>
    BY <1>7 DEF ClearCurrent, disk
  <2>2. JobStep(p) /\ job'[p].pc = "unalias"
    BY <1>0, <2>1, GotoStep DEF PC
  <2> QED
    BY <1>0, <2>1, <2>2, WholeQuiet DEF Fetching
<1>8. ASSUME NEW p \in Process, ClearAliases(p) PROVE WholeInv'
  <2>1. JobStep(p) /\ UNCHANGED <<dir, tmp, spoiled>> /\ job[p].pc = "unalias" /\ (job'[p] = Idle \/ Kept(p))
    BY <1>0, <1>8, ClearAliasesStep DEF disk
  <2>2. job'[p].pc \in {"idle", "unalias"}
    BY <2>1, IdleApart DEF Kept
  <2> QED
    BY <1>0, <2>1, <2>2, WholeQuiet DEF Fetching
<1>9. CASE Publish
  <2>1. UNCHANGED <<dir, tmp, spoiled, job>>
    BY <1>9 DEF Publish, disk
  <2>2. StagedAlone' <=> StagedAlone
    BY <2>1 DEF StagedAlone, Stages, IsInstalled
  <2> QED
    BY <1>0, <2>1, <2>2 DEF WholeInv, InstalledWhole, GoesOnWhole, At
<1>10. ASSUME NEW p \in Process, Command(p) PROVE WholeInv'
  BY <1>0, <1>2, <1>3, <1>10, CommandStarts, WholeRemove
<1>11. ASSUME NEW p \in Process, Step(p) PROVE WholeInv'
  BY <1>0, <1>4, <1>5, <1>6, <1>7, <1>8, <1>11, WholeStage, WholeUnpack, WholeReplace, WholeRename,
     WholeRemove DEF Step
<1>12. ASSUME NEW p \in Process, Kill(p) PROVE WholeInv'
  BY <1>0, <1>12, WholeRemove
<1> QED
  BY <1>1, <1>9, <1>10, <1>11, <1>12 DEF Next, AllDone

LEMMA WholeInit ==
    ASSUME Init
    PROVE  WholeInv
<1>1. ShapeInv
  BY ShapeInit
<1>2. job = [p \in Process |-> Idle] /\ \A v \in Version : dir[v] \in {Parts, NONE}
  BY DEF Init
<1>3. \A p \in Process : job[p].pc = "idle"
  BY <1>2, IdleApart
<1> QED
  BY <1>1, <1>2, <1>3 DEF WholeInv, StagedAlone, Stages, Fetching, InstalledWhole, GoesOnWhole, At

\* install_version and ensure_version: a version that counts as installed has all
\* its files, and so has one that a command goes on with, however many commands
\* run, are killed and stage versions at the same time.
THEOREM VersionsWholeCorrect == ToolchainSpec => []VersionsWhole
<1>1. Init => WholeInv
  BY WholeInit
<1>2. WholeInv /\ [Next]_vars => WholeInv'
  BY WholeNext
<1>3. WholeInv => VersionsWhole
  BY DEF WholeInv, ShapeInv, VersionsWhole
<1> QED
  BY <1>1, <1>2, <1>3, PTL DEF ToolchainSpec

-----------------------------------------------------------------------------
(* The current pointer *)

\* A step that leaves the pointer alone
LEMMA CurrentKept ==
    ASSUME CurrentHolds, NEW p \in Process, JobStep(p), current' = current,
           cut \subseteq cut', spoiled \subseteq spoiled',
           job[p].pc = "uncurrent" => job[p].v \in cut',
           current # NONE /\ IsInstalled(current) =>
               \/ IsInstalled(current)' \/ current \in cut' \cup spoiled'
               \/ job'[p].pc = "uncurrent" /\ job'[p].v = current
    PROVE  CurrentHolds'
<1>1. CASE current = NONE \/ current \in cut \cup spoiled
  BY <1>1 DEF CurrentHolds
<1>2. CASE current # NONE /\ IsInstalled(current)
  BY <1>2 DEF CurrentHolds, At
<1>3. CASE \E q \in Process : job[q].pc = "uncurrent" /\ job[q].v = current
  <2>1. PICK q \in Process : job[q].pc = "uncurrent" /\ job[q].v = current
    BY <1>3
  <2>2. CASE q = p
    BY <2>1, <2>2 DEF CurrentHolds
  <2>3. CASE q # p
    <3>1. job'[q].pc = "uncurrent" /\ job'[q].v = current'
      BY <2>1, <2>3, OthersStage
    <3> QED
      BY <3>1 DEF CurrentHolds, At
  <2> QED
    BY <2>2, <2>3
<1> QED
  BY <1>1, <1>2, <1>3 DEF CurrentHolds, At

LEMMA CurrentNext ==
    ASSUME CurrentInv, [Next]_vars
    PROVE  CurrentInv'
<1>0. WholeInv /\ WholeInv' /\ ShapeInv /\ TypeOK /\ OpsApart /\ CurrentHolds
      /\ dir \in [Version -> Dir] /\ current \in Node \cup {NONE} /\ Node \subseteq Version
  BY WholeNext DEF CurrentInv, WholeInv, ShapeInv, TypeOK, Dir, Version
<1> SUFFICES CurrentHolds'
  BY <1>0 DEF CurrentInv
<1>q. ASSUME NEW p \in Process, JobStep(p), UNCHANGED <<dir, current, cut>>, spoiled \subseteq spoiled',
             job[p].pc # "uncurrent"
      PROVE  CurrentHolds'
  <2>1. IsInstalled(current)' <=> IsInstalled(current)
    BY <1>q DEF IsInstalled
  <2> QED
    BY <1>0, <1>q, <2>1, CurrentKept
<1>1. CASE UNCHANGED vars
  BY <1>0, <1>1 DEF vars, CurrentHolds, IsInstalled, At
<1>2. ASSUME NEW p \in Process, NEW c, Begin(p, c), Starts(c)
      PROVE  CurrentHolds'
  <2>1. JobStep(p) /\ UNCHANGED <<dir, current, cut, spoiled>> /\ job[p].pc \in {"idle", "ran"}
    BY <1>0, <1>2, BeginStep DEF disk, names
  <2> QED
    BY <1>q, <2>1
<1>3. ASSUME NEW p \in Process, UnaliasCommand(p) PROVE CurrentHolds'
  <2>1. JobStep(p) /\ UNCHANGED <<dir, current, cut, spoiled>> /\ job[p].pc \in {"idle", "ran"}
    BY <1>0, <1>3, UnaliasStep DEF disk
  <2> QED
    BY <1>q, <2>1
<1>4. ASSUME NEW p \in Process, Resolve(p) PROVE CurrentHolds'
  <2>1. JobStep(p) /\ UNCHANGED <<dir, current, cut, spoiled>> /\ job[p].pc = "resolve"
    BY <1>0, <1>4, ResolveStep DEF disk, names
  <2> QED
    BY <1>q, <2>1
<1>5. ASSUME NEW p \in Process, Stage(p) \/ Download(p) \/ DownloadVersion(p) \/ Unpack(p) \/ Mark(p)
      PROVE  CurrentHolds'
  <2>1. /\ \/ End(p)
           \/ \E pc \in Fetching \cup {"then"} : Goto(p, pc)
        /\ UNCHANGED <<dir, current, cut>> /\ spoiled \subseteq spoiled'
        /\ job[p].pc \in Fetching \cup {"stage"}
    <3>1. CASE Stage(p)
      BY <3>1 DEF Stage, At, names, Fetching
    <3>2. CASE Download(p) \/ DownloadVersion(p)
      BY <3>2 DEF Download, DownloadVersion, At, names, disk, Fetching
    <3>3. CASE Unpack(p) \/ Mark(p)
      BY <3>3 DEF Unpack, Mark, At, names, Fetching
    <3> QED
      BY <1>5, <3>1, <3>2, <3>3
  <2>2. JobStep(p)
    BY <1>0, <2>1, EndStep, GotoStep DEF PC, Fetching
  <2> QED
    BY <1>q, <2>1, <2>2 DEF Fetching
<1>6. ASSUME NEW p \in Process, Replace(p) PROVE CurrentHolds'
  <2>1. /\ JobStep(p) /\ job[p].pc = "replace" /\ UNCHANGED <<current, cut, spoiled>>
        /\ dir' = [dir EXCEPT ![job[p].v] = NONE]
    BY <1>0, <1>6, ReplaceStep DEF names
  <2>2. current \in Version /\ IsInstalled(current) => IsInstalled(current)' \/ current \in spoiled
    <3>1. CASE current = job[p].v /\ current \in Version
      <4>1. current \in spoiled \/ ~IsInstalled(current)
        BY <1>0, <2>1, <3>1 DEF WholeInv, StagedAlone, Stages, Fetching
      <4> QED
        BY <4>1
    <3>2. CASE current # job[p].v
      BY <1>0, <2>1, <3>2 DEF IsInstalled
    <3> QED
      BY <3>1, <3>2
  <2> QED
    BY <1>0, <2>1, <2>2, CurrentKept
<1>7. ASSUME NEW p \in Process, Rename(p) PROVE CurrentHolds'
  <2>1. /\ job[p].pc = "rename" /\ UNCHANGED <<current, cut, spoiled>>
        /\ \/ End(p) /\ UNCHANGED dir
           \/ dir[job[p].v] = NONE /\ dir' = [dir EXCEPT ![job[p].v] = tmp[job[p].v]] /\ Goto(p, "then")
    BY <1>7 DEF Rename, At, names, Set, TmpOf
  <2>2. JobStep(p)
    BY <1>0, <2>1, EndStep, GotoStep DEF PC
  <2>3. current \in Version /\ IsInstalled(current) => IsInstalled(current)'
    BY <1>0, <2>1 DEF IsInstalled
  <2> QED
    BY <1>0, <2>1, <2>2, <2>3, CurrentKept
<1>8. ASSUME NEW p \in Process, Then(p) PROVE CurrentHolds'
  <2>1. JobStep(p) /\ UNCHANGED <<dir, spoiled>> /\ job[p].pc = "then"
    BY <1>0, <1>8, ThenStep
  <2>2. CASE job'[p] = Idle /\ UNCHANGED <<names, cut>>
    BY <1>q, <2>1, <2>2 DEF names
  <2>3. CASE ~(job'[p] = Idle /\ UNCHANGED <<names, cut>>)
    <3> DEFINE h == Head(job[p].then)
    <3>1. /\ job[p].then # << >>
          /\ current' = IF h = "current" THEN job[p].v ELSE current
          /\ cut' = IF h = "current" /\ job[p].stale THEN cut \cup {job[p].v} ELSE cut
          /\ h = "exec" <=> (job[p].op = "switch")
      BY <1>0, <1>8, <2>3, ThenStep
    <3>2. CASE h = "current"
      <4>1. job[p].op # "alias"
        <5>1. job[p].then \in Seq(After)
          BY <1>0 DEF TypeOK, Job, After
        <5>2. 1 \in DOMAIN job[p].then /\ h = job[p].then[1]
          BY <3>1, <5>1
        <5> QED
          BY <1>0, <3>2, <5>2 DEF OpsApart, Apart
      <4>2. CASE job[p].stale
        BY <3>1, <3>2, <4>2 DEF CurrentHolds
      <4>3. CASE ~job[p].stale
        <5>1. job[p].v = NONE \/ job[p].v \in spoiled \/ dir[job[p].v] = Parts
          BY <1>0, <2>1, <4>1, <4>3 DEF WholeInv, GoesOnWhole, At
        <5>2. current' = NONE \/ current' \in spoiled' \/ IsInstalled(current)'
          BY <2>1, <3>1, <3>2, <5>1, PartsFacts DEF IsInstalled
        <5> QED
          BY <5>2 DEF CurrentHolds
      <4> QED
        BY <4>2, <4>3
    <3>3. CASE h # "current"
      BY <1>q, <2>1, <3>1, <3>3
    <3> QED
      BY <3>2, <3>3
  <2> QED
    BY <2>2, <2>3
<1>9. ASSUME NEW p \in Process, Spawn(p) \/ Exec(p) PROVE CurrentHolds'
  <2>1. JobStep(p) /\ UNCHANGED <<dir, current, cut, spoiled>> /\ job[p].pc \in {"spawn", "exec"}
    BY <1>0, <1>9, SpawnStep DEF disk, names
  <2> QED
    BY <1>q, <2>1
<1>10. ASSUME NEW p \in Process, RemoveVersion(p) PROVE CurrentHolds'
  <2>1. /\ JobStep(p) /\ job[p].pc = "remove" /\ UNCHANGED <<current, cut, spoiled>>
        /\ dir' = [dir EXCEPT ![job[p].v] = NONE] /\ job'[p].pc = "uncurrent" /\ job'[p].v = job[p].v
    BY <1>0, <1>10, RemoveStep DEF names
  <2>2. current # job[p].v /\ IsInstalled(current) => IsInstalled(current)'
    BY <1>0, <2>1 DEF IsInstalled
  <2> QED
    BY <1>0, <2>1, <2>2, CurrentKept
<1>11. ASSUME NEW p \in Process, ClearCurrent(p) PROVE CurrentHolds'
  <2>1. /\ job[p].pc = "uncurrent" /\ UNCHANGED <<dir, cut, spoiled>> /\ Goto(p, "unalias")
        /\ current' = IF current = job[p].v THEN NONE ELSE current
    BY <1>11 DEF ClearCurrent, At, disk
  <2>2. JobStep(p)
    BY <1>0, <2>1, GotoStep DEF PC
  <2>3. CASE current = job[p].v
    BY <2>1, <2>3 DEF CurrentHolds
  <2>4. CASE current # job[p].v
    <3>1. current' = current
      BY <2>1, <2>4
    <3>2. CASE current = NONE \/ current \in cut \cup spoiled \/ IsInstalled(current)
      BY <2>1, <3>1, <3>2 DEF CurrentHolds, IsInstalled
    <3>3. CASE \E q \in Process : job[q].pc = "uncurrent" /\ job[q].v = current
      <4>1. PICK q \in Process : job[q].pc = "uncurrent" /\ job[q].v = current
        BY <3>3
      <4>2. q # p
        BY <2>4, <4>1
      <4>3. job'[q].pc = "uncurrent" /\ job'[q].v = current'
        BY <2>2, <3>1, <4>1, <4>2, OthersStage
      <4> QED
        BY <4>3 DEF CurrentHolds, At
    <3> QED
      BY <1>0, <3>2, <3>3 DEF CurrentHolds, At
  <2> QED
    BY <2>3, <2>4
<1>12. ASSUME NEW p \in Process, ClearAliases(p) PROVE CurrentHolds'
  <2>1. JobStep(p) /\ UNCHANGED <<dir, current, cut, spoiled>> /\ job[p].pc = "unalias"
    BY <1>0, <1>12, ClearAliasesStep DEF disk
  <2> QED
    BY <1>q, <2>1
<1>13. ASSUME NEW p \in Process, ClearCache(p) PROVE CurrentHolds'
  <2>1. /\ JobStep(p) /\ UNCHANGED <<current, cut>> /\ job[p].pc \in {"idle", "ran"}
        /\ dir' = [v \in Version |-> IF v \in Snpm THEN NONE ELSE dir[v]]
        /\ spoiled \subseteq spoiled'
    BY <1>0, <1>13, ClearCacheStep DEF names
  <2>2. current \in Node /\ IsInstalled(current) => IsInstalled(current)'
    BY <1>0, <2>1, VersionTypes DEF IsInstalled
  <2> QED
    BY <1>0, <2>1, <2>2, CurrentKept
<1>14. ASSUME NEW p \in Process, Kill(p) PROVE CurrentHolds'
  <2>1. /\ JobStep(p) /\ UNCHANGED current /\ cut \subseteq cut'
        /\ job[p].pc = "uncurrent" => job[p].v \in cut'
    BY <1>0, <1>14, KillStep DEF names
  <2>2. /\ spoiled \subseteq spoiled'
        /\ UNCHANGED dir \/ (job[p].v \in cut' /\ \E kept : dir' = [dir EXCEPT ![job[p].v] = kept])
    <3>1. CASE UNCHANGED <<dir, spoiled>>
      BY <3>1
    <3>2. CASE ~UNCHANGED <<dir, spoiled>>
      <4>1. /\ cut' = cut \cup {job[p].v}
            /\ \E kept \in SUBSET dir[job[p].v] :
                       /\ dir' = [dir EXCEPT ![job[p].v] = kept]
                       /\ spoiled' = IF {"marker", "bin"} \subseteq kept THEN spoiled \cup {job[p].v} ELSE spoiled
        BY <1>0, <1>14, <3>2, KillStep
      <4> QED
        BY <4>1
    <3> QED
      BY <3>1, <3>2
  <2>3. current \in Version /\ IsInstalled(current) => IsInstalled(current)' \/ current \in cut'
    BY <1>0, <2>1, <2>2 DEF IsInstalled
  <2> QED
    BY <1>0, <2>1, <2>2, <2>3, CurrentKept
<1>15. CASE Publish
  BY <1>0, <1>15 DEF Publish, CurrentHolds, IsInstalled, At, disk, names
<1>16. ASSUME NEW p \in Process, Command(p) PROVE CurrentHolds'
  BY <1>0, <1>2, <1>3, <1>13, <1>16, CommandStarts
<1>17. ASSUME NEW p \in Process, Step(p) PROVE CurrentHolds'
  BY <1>4, <1>5, <1>6, <1>7, <1>8, <1>9, <1>10, <1>11, <1>12, <1>17 DEF Step
<1> QED
  BY <1>1, <1>14, <1>15, <1>16, <1>17 DEF Next, AllDone

\* uninstall_version, use and default: the current pointer names a version that is
\* installed, but for the uninstalls and kills that the property names.
THEOREM CurrentHoldsCorrect == ToolchainSpec => []CurrentHolds
<1>1. Init => CurrentInv
  <2> SUFFICES ASSUME Init PROVE CurrentHolds
    BY WholeInit DEF CurrentInv
  <2>1. PICK have \in SUBSET Node, used \in Node \cup {NONE} :
        /\ used \in have \cup {NONE}
        /\ dir = [v \in Version |-> IF v \in have THEN Parts ELSE NONE]
        /\ current = used
    BY DEF Init
  <2>2. current # NONE => dir[current] = Parts
    BY <2>1 DEF Version
  <2> QED
    BY <2>2, PartsFacts DEF CurrentHolds, IsInstalled
<1>2. CurrentInv /\ [Next]_vars => CurrentInv'
  BY CurrentNext
<1>3. CurrentInv => CurrentHolds
  BY DEF CurrentInv
<1> QED
  BY <1>1, <1>2, <1>3, PTL DEF ToolchainSpec

-----------------------------------------------------------------------------
(* The shim runs the snpm that was asked for *)

LEMMA PicksKept ==
    ASSUME SwitchPicks, NEW p \in Process, JobStep(p), Picks(job'[p])
    PROVE  SwitchPicks'
<1>1. ASSUME NEW q \in Process PROVE Picks(job'[q])
  <2>1. CASE q = p
    BY <2>1
  <2>2. CASE q # p
    <3>1. Kept(q) /\ Picks(job[q])
      BY <2>2 DEF JobStep, SwitchPicks
    <3> QED
      BY <3>1 DEF Kept, Picks
  <2> QED
    BY <2>1, <2>2
<1> QED
  BY <1>1 DEF SwitchPicks

LEMMA ShimNext ==
    ASSUME ShimInv, [Next]_vars
    PROVE  ShimInv'
<1>0. ShapeInv /\ ShapeInv' /\ TypeOK /\ OpsApart /\ SwitchPicks
  BY ShapeNext DEF ShimInv, ShapeInv
<1> SUFFICES SwitchPicks'
  BY <1>0 DEF ShimInv
<1>p. \A p \in Process : Apart(job[p]) /\ Picks(job[p]) /\ job[p] \in Job
  BY <1>0 DEF OpsApart, SwitchPicks, TypeOK
<1>e. ASSUME NEW p \in Process, End(p) PROVE SwitchPicks'
  BY <1>0, <1>e, EndStep, IdleApart, PicksKept
<1>g. ASSUME NEW p \in Process, NEW pc \in PC \ {"exec", "ran"}, Goto(p, pc) PROVE SwitchPicks'
  <2>1. /\ JobStep(p) /\ job'[p].op = job[p].op /\ job'[p].pc = pc
        /\ job'[p].v = job[p].v /\ job'[p].then = job[p].then /\ job'[p].tree = job[p].tree
        /\ job'[p].shim = job[p].shim
    BY <1>0, <1>g, GotoStep
  <2>2. Picks(job'[p])
    BY <1>p, <2>1 DEF Picks
  <2> QED
    BY <1>0, <2>1, <2>2, PicksKept
<1>1. CASE UNCHANGED vars
  BY <1>0, <1>1 DEF vars, SwitchPicks
<1>2. ASSUME NEW p \in Process, NEW c, Begin(p, c), Starts(c)
      PROVE  SwitchPicks'
  BY <1>0, <1>2, BeginStep, PicksKept DEF Starts
<1>3. ASSUME NEW p \in Process, UnaliasCommand(p) PROVE SwitchPicks'
  BY <1>0, <1>3, UnaliasStep, PicksKept
<1>4. ASSUME NEW p \in Process, ClearCache(p) PROVE SwitchPicks'
  BY <1>0, <1>4, ClearCacheStep, PicksKept
<1>5. ASSUME NEW p \in Process, Kill(p) PROVE SwitchPicks'
  BY <1>0, <1>5, KillStep, PicksKept
<1>6. ASSUME NEW p \in Process, Resolve(p) PROVE SwitchPicks'
  <2>1. JobStep(p) /\ job[p].op # "switch"
    BY <1>0, <1>6, ResolveStep
  <2>2. CASE job'[p] = Idle
    BY <1>0, <2>1, <2>2, IdleApart, PicksKept
  <2>3. ASSUME NEW v \in Node,
               job'[p] = [job[p] EXCEPT !.v = v, !.pc = IF job[p].op = "alias" THEN "then" ELSE "stage"]
        PROVE  SwitchPicks'
    <3>1. job'[p].op = job[p].op
      BY <1>p, <2>3 DEF Job
    <3>2. Picks(job'[p])
      BY <2>1, <3>1 DEF Picks
    <3> QED
      BY <1>0, <2>1, <3>2, PicksKept
  <2> QED
    BY <1>0, <1>6, <2>2, <2>3, ResolveStep
<1>7. ASSUME NEW p \in Process,
             \/ Stage(p) \/ Download(p) \/ DownloadVersion(p) \/ Unpack(p) \/ Mark(p)
             \/ Rename(p) \/ ClearCurrent(p)
      PROVE  SwitchPicks'
  <2>1. End(p) \/ \E pc \in Fetching \cup {"then", "unalias"} : Goto(p, pc)
    <3>1. CASE Stage(p) \/ ClearCurrent(p)
      BY <3>1 DEF Stage, ClearCurrent, Fetching
    <3>2. CASE Download(p) \/ DownloadVersion(p)
      BY <3>2 DEF Download, DownloadVersion, Fetching
    <3>3. CASE Unpack(p) \/ Mark(p) \/ Rename(p)
      BY <3>3 DEF Unpack, Mark, Rename, Fetching
    <3> QED
      BY <1>7, <3>1, <3>2, <3>3
  <2> QED
    BY <1>e, <1>g, <2>1 DEF PC, Fetching
<1>8. ASSUME NEW p \in Process, Replace(p) PROVE SwitchPicks'
  <2>1. JobStep(p) /\ job'[p] = [job[p] EXCEPT !.pc = "rename"]
    BY <1>0, <1>8, ReplaceStep
  <2>2. /\ job'[p].op = job[p].op /\ job'[p].pc = "rename"
        /\ job'[p].v = job[p].v /\ job'[p].then = job[p].then /\ job'[p].tree = job[p].tree
        /\ job'[p].shim = job[p].shim
    BY <1>p, <2>1 DEF Job
  <2>3. Picks(job'[p])
    BY <1>p, <2>2 DEF Picks
  <2> QED
    BY <1>0, <2>1, <2>3, PicksKept
<1>9. ASSUME NEW p \in Process, Then(p) PROVE SwitchPicks'
  <2>1. JobStep(p)
    BY <1>0, <1>9, ThenStep
  <2>2. CASE job'[p] = Idle
    BY <1>0, <2>1, <2>2, IdleApart, PicksKept
  <2>3. CASE job'[p] # Idle
    <3>1. /\ job[p].then # << >> /\ job'[p].pc \in {"then", "spawn", "exec"}
          /\ job'[p].op = job[p].op /\ job'[p].v = job[p].v
          /\ job'[p].tree = job[p].tree /\ job'[p].shim = job[p].shim
      BY <1>0, <1>9, <2>3, ThenStep
    <3>2. Picks(job'[p])
      BY <1>p, <3>1 DEF Picks
    <3> QED
      BY <1>0, <2>1, <3>2, PicksKept
  <2> QED
    BY <2>2, <2>3
<1>10. ASSUME NEW p \in Process, Spawn(p) \/ Exec(p) PROVE SwitchPicks'
  <2>1. JobStep(p) /\ job[p].pc \in {"spawn", "exec"}
    BY <1>0, <1>10, SpawnStep
  <2>2. CASE job'[p] = Idle
    BY <1>0, <2>1, <2>2, IdleApart, PicksKept
  <2>3. CASE job'[p] # Idle
    <3>1. /\ job'[p].op = job[p].op /\ job'[p].v = job[p].v /\ job'[p].pc = "ran"
          /\ job'[p].tree = job[p].tree /\ job'[p].shim = job[p].shim
          /\ job[p].pc = "exec" => job'[p].ran = job[p].v
      BY <1>0, <1>10, <2>3, SpawnStep
    <3>2. job[p].op = "switch" => job[p].pc = "exec"
      BY <1>p, <2>1 DEF Apart, Fetching
    <3>3. Picks(job'[p])
      BY <1>p, <3>1, <3>2 DEF Picks
    <3> QED
      BY <1>0, <2>1, <3>3, PicksKept
  <2> QED
    BY <2>2, <2>3
<1>11. ASSUME NEW p \in Process, RemoveVersion(p) PROVE SwitchPicks'
  <2>1. JobStep(p) /\ job[p].pc = "remove" /\ job'[p].op = job[p].op
    BY <1>0, <1>11, RemoveStep
  <2>2. job'[p].op # "switch"
    BY <1>p, <2>1 DEF Apart, Fetching
  <2>3. Picks(job'[p])
    BY <2>2 DEF Picks
  <2> QED
    BY <1>0, <2>1, <2>3, PicksKept
<1>12. ASSUME NEW p \in Process, ClearAliases(p) PROVE SwitchPicks'
  <2>1. JobStep(p) /\ (job'[p] = Idle \/ Kept(p))
    BY <1>0, <1>12, ClearAliasesStep
  <2>2. Kept(p) => Picks(job'[p])
    BY <1>p DEF Kept, Picks
  <2> QED
    BY <1>0, <2>1, <2>2, IdleApart, PicksKept
<1>13. CASE Publish
  BY <1>0, <1>13 DEF Publish, SwitchPicks
<1>14. ASSUME NEW p \in Process, Command(p) PROVE SwitchPicks'
  BY <1>0, <1>2, <1>3, <1>4, <1>14, CommandStarts
<1>15. ASSUME NEW p \in Process, Step(p) PROVE SwitchPicks'
  BY <1>6, <1>7, <1>8, <1>9, <1>10, <1>11, <1>12, <1>15 DEF Step
<1> QED
  BY <1>1, <1>5, <1>13, <1>14, <1>15 DEF Next, AllDone

LEMMA ShimInit == Init => ShimInv
<1> SUFFICES ASSUME Init PROVE SwitchPicks
  BY ShapeInit DEF ShimInv
<1>1. job = [p \in Process |-> Idle]
  BY DEF Init
<1> QED
  BY <1>1, IdleApart DEF SwitchPicks

LEMMA ShimPicksRight ==
    ASSUME ShimInv
    PROVE  ShimRuns
<1> SUFFICES ASSUME NEW p \in Process, job[p].pc = "ran", job[p].op = "switch"
             PROVE  LET t == job[p].tree
                        named == {i \in DOMAIN t : t[i].manager # NONE}
                    IN /\ job[p].shim.version # NONE => job[p].ran = job[p].shim.version
                       /\ job[p].shim.version = NONE /\ ~job[p].shim.ignore =>
                             \A i \in named : (\A j \in named : i <= j) /\ t[i].manager.snpm =>
                                                 job[p].ran = t[i].manager.version
  BY DEF ShimRuns, At
<1> DEFINE t == job[p].tree
           shim == job[p].shim
           named == {i \in DOMAIN t : t[i].manager # NONE}
<1>1. shim # NONE /\ t \in Tree /\ job[p].ran = ShimFor(t, shim)
  BY DEF ShimInv, SwitchPicks, Picks
<1>2. shim \in [ignore : BOOLEAN, version : Snpm \cup {NONE}]
  BY <1>1 DEF ShimInv, ShapeInv, TypeOK, Job
<1> HIDE DEF t, shim
<1>3. shim.version # NONE => job[p].ran = shim.version
  <2> SUFFICES ASSUME shim.version # NONE PROVE ShimFor(t, shim) = shim.version
    BY <1>1
  <2> DEFINE r == [snpm |-> TRUE, version |-> shim.version]
  <2>1. r \in Reference
    BY <1>2 DEF Reference
  <2>2. r # NONE /\ r.snpm /\ r.version = shim.version
    BY <2>1, ToolchainAssumption
  <2>3. SelectReference(FindPackageManager(t), shim) = r
    BY DEF SelectReference
  <2> HIDE DEF r
  <2> QED
    BY <2>2, <2>3 DEF ShimFor, VersionOr
<1>4. ASSUME shim.version = NONE, ~shim.ignore, NEW i \in named, \A j \in named : i <= j, t[i].manager.snpm
      PROVE  job[p].ran = t[i].manager.version
  <2>1. FindPackageManager(t) = t[i].manager
    BY <1>1, <1>4, FindPackageManagerType
  <2>2. SelectReference(FindPackageManager(t), shim) = t[i].manager
    BY <1>4, <2>1 DEF SelectReference
  <2>3. t[i].manager # NONE
    OBVIOUS
  <2> QED
    BY <1>1, <1>4, <2>2, <2>3 DEF ShimFor, VersionOr
<1> QED
  BY <1>3, <1>4 DEF t, shim

-----------------------------------------------------------------------------
(* The script of a pinned project runs on a Node that its pin admits *)

\* The conclusion of PinRuns for one process
RunsPinned(p) ==
    LET s == PinOf(p).spec IN
    PinnedRun(p) /\ s.kind # "lts" /\ ~Shadowed(s) /\ spoiled = {} =>
        \/ job[p].ran \in s.of
        \/ job[p].ran # NONE /\ (s.kind = "latest" \/ job[p].ran = ReadAlias(s))
        \/ job[p].ran = NONE /\ PinOf(p).engines /\ SystemNode \in s.of

\* No alias but the default changes, and no version goes.
SameAliases == \A s \in AliasName \ {Default} : alias'[s] = alias[s]
NoneGoes == (\A v \in Node : IsInstalled(v) => IsInstalled(v)') /\ InstalledVersions \subseteq InstalledVersions'

LEMMA PinStable ==
    ASSUME TypeOK, TypeOK', SameAliases, NEW s \in Selector
    PROVE  /\ ReadAlias(s)' = ReadAlias(s) /\ ReadAlias(s) \in Node \cup {NONE}
           /\ Shadowed(s)' <=> Shadowed(s)
           /\ \A v : Admits(s, v)' <=> Admits(s, v)
<1>1. s # Default
  BY DefaultType
<1>2. ReadAlias(s)' = ReadAlias(s) /\ ReadAlias(s) \in Node \cup {NONE}
  BY <1>1, FollowType DEF SameAliases, ReadAlias
<1>3. s.kind = "exact" => alias'[s] = alias[s]
  BY <1>1, SelectorType DEF SameAliases
<1>4. ReadAlias(s) # NONE => alias'[Exact(ReadAlias(s))] = alias[Exact(ReadAlias(s))]
  <2>1. ASSUME NEW v \in Node PROVE Exact(v) \in AliasName \ {Default}
    BY ExactType, DefaultType, SelectorType
  <2> QED
    BY <1>2, <2>1 DEF SameAliases
<1>5. Shadowed(s)' <=> Shadowed(s)
  BY <1>2, <1>3, <1>4 DEF Shadowed
<1>6. \A v : Admits(s, v)' <=> Admits(s, v)
  BY <1>2 DEF Admits
<1> QED
  BY <1>2, <1>5, <1>6

LEMMA FoundStays ==
    ASSUME TypeOK, TypeOK', SameAliases, NoneGoes, NEW s \in Selector, Found(s)
    PROVE  Found(s)'
<1>1. ReadAlias(s)' = ReadAlias(s) /\ ReadAlias(s) \in Node \cup {NONE}
  BY PinStable
<1>2. s.of \subseteq Node
  BY SelectorType
<1>3. CASE s.kind = "exact"
  BY <1>2, <1>3 DEF Found, NoneGoes
<1>4. CASE s.kind # "exact"
  <2>1. Fits(s) \subseteq Fits(s)'
    BY DEF Fits, NoneGoes
  <2>2. ReadAlias(s) # NONE /\ IsInstalled(ReadAlias(s)) => ReadAlias(s)' # NONE /\ IsInstalled(ReadAlias(s))'
    <3>1. ReadAlias(s) # NONE /\ IsInstalled(ReadAlias(s)) => dir'[ReadAlias(s)] # NONE
                                           /\ {"marker", "bin"} \subseteq dir'[ReadAlias(s)]
      BY <1>1 DEF NoneGoes, IsInstalled
    <3> QED
      BY <1>1, <3>1 DEF IsInstalled
  <2> QED
    BY <1>4, <2>1, <2>2 DEF Found
<1> QED
  BY <1>3, <1>4

\* A version that the pin admits and that is there is found.
LEMMA AdmitsFound ==
    ASSUME TypeOK, NEW s \in Selector, NEW v \in Node, s.kind # "lts", Admits(s, v), dir[v] = Parts
    PROVE  Found(s)
<1>1. IsInstalled(v) /\ v \in InstalledVersions /\ v # NONE
  BY PartsFacts, ToolchainAssumption DEF IsInstalled, InstalledVersions
<1>2. CASE s.kind = "exact"
  BY <1>1, <1>2 DEF Admits, Found
<1>3. CASE s.kind # "exact"
  <2>1. CASE ReadAlias(s) = v
    BY <1>1, <1>3, <2>1 DEF Found
  <2>2. CASE s.kind = "latest"
    BY <1>1, <1>3, <2>2 DEF Found, Fits
  <2>3. CASE s.kind \in {"partial", "range"} /\ v \in s.of
    BY <1>1, <1>3, <2>3 DEF Found, Fits
  <2> QED
    BY <1>3, <2>1, <2>2, <2>3 DEF Admits
<1> QED
  BY <1>2, <1>3

\* A process whose job stays where it is, while others act
LEMMA FollowsOther ==
    ASSUME TypeOK, TypeOK', NEW q \in Process, Kept(q), spoiled \subseteq spoiled', Follows(q), RunsPinned(q),
           job[q].pc # "idle" /\ ~job'[q].stale => SameAliases /\ NoneGoes
    PROVE  Follows(q)' /\ RunsPinned(q)'
<1> SUFFICES ASSUME job[q].op = "run" PROVE Follows(q)' /\ RunsPinned(q)'
  BY DEF Follows, RunsPinned, PinnedRun, Kept
<1>1. PICK t \in Tree : t = job[q].tree /\ t = job'[q].tree
  BY DEF Follows, Kept
<1>p. PICK pin : pin = Discover(t)
  OBVIOUS
<1>s. PICK s : s = pin.spec
  OBVIOUS
<1>v. PICK v : v = job[q].v /\ v = job'[q].v
  BY DEF Kept
<1>2. PinOf(q) = pin /\ PinOf(q)' = pin
  BY <1>1, <1>p DEF PinOf
<1>3. pin # NONE => s \in Selector
  BY <1>p, <1>s, DiscoverType
<1>4. CASE job[q].pc = "idle"
  BY <1>1, <1>4 DEF Follows, RunsPinned, PinnedRun, Kept, Fetching, At
<1>5. CASE job'[q].stale \/ pin = NONE \/ s.kind = "lts" \/ spoiled' # {}
  <2>1. Overtaken(q)'
    BY <1>2, <1>5, <1>s DEF Overtaken
  <2>2. RunsPinned(q)'
    BY <1>2, <1>5, <1>s DEF RunsPinned, PinnedRun
  <2>3. job'[q].pc = "resolve" => pin # NONE /\ job'[q].spec = pin.spec
    BY <1>2 DEF Follows, Kept
  <2> QED
    BY <1>1, <1>2, <2>1, <2>2, <2>3 DEF Follows
<1>6. CASE job[q].pc # "idle" /\ ~job'[q].stale /\ pin # NONE /\ s.kind # "lts" /\ spoiled' = {}
  <2>1. SameAliases /\ NoneGoes /\ ~job[q].stale /\ spoiled = {} /\ s \in Selector
    BY <1>3, <1>6 DEF Kept
  <2>2. /\ Shadowed(s)' <=> Shadowed(s)
        /\ ReadAlias(s)' = ReadAlias(s)
        /\ Admits(s, v)' <=> Admits(s, v)
        /\ Found(s) => Found(s)'
    BY <2>1, PinStable, FoundStays
  <2>3. Overtaken(q) <=> Shadowed(s)
    BY <1>2, <1>6, <1>s, <2>1 DEF Overtaken
  <2>5. CASE Shadowed(s)'
    <3>1. Overtaken(q)' /\ RunsPinned(q)'
      BY <1>2, <1>s, <2>5 DEF Overtaken, RunsPinned, Shadowed, ReadAlias
    <3>2. job'[q].pc = "resolve" => pin # NONE /\ job'[q].spec = pin.spec
      BY <1>2 DEF Follows, Kept
    <3> QED
      BY <1>1, <1>2, <3>1, <3>2 DEF Follows
  <2>6. CASE ~Shadowed(s)'
    <3>1. /\ job[q].pc = "resolve" => job[q].spec = s
          /\ job[q].pc \in Fetching \cup {"stage", "then"} => v # NONE /\ Admits(s, v)
          /\ job[q].pc = "spawn" => Found(s) \/ (pin.engines /\ SystemNodeSatisfies(s))
      BY <1>2, <1>s, <1>v, <2>2, <2>3, <2>6 DEF Follows
    <3>2. Admits(PinOf(q).spec, job[q].v)' <=> Admits(s, v)'
      BY <1>2, <1>s, <1>v DEF Admits, ReadAlias
    <3>3. Found(PinOf(q).spec)' <=> Found(s)'
      BY <1>2, <1>s DEF Found, Fits, ReadAlias
    <3>4. Follows(q)'
      BY <1>1, <1>2, <1>6, <1>s, <1>v, <2>2, <3>1, <3>2, <3>3 DEF Follows, Kept
    <3>5. RunsPinned(q)'
      <4>1. job'[q].pc = "ran" /\ job'[q].op = "run" =>
                \/ job[q].ran \in s.of
                \/ job[q].ran # NONE /\ (s.kind = "latest" \/ job[q].ran = ReadAlias(s))
                \/ job[q].ran = NONE /\ pin.engines /\ SystemNode \in s.of
        BY <1>2, <1>6, <1>s, <2>1, <2>2, <2>6 DEF RunsPinned, PinnedRun, At, Kept
      <4>2. job'[q].ran = job[q].ran
        BY DEF Kept
      <4>3. ReadAlias(PinOf(q).spec)' = ReadAlias(s)'
        BY <1>2, <1>s DEF ReadAlias
      <4> QED
        BY <1>2, <1>s, <2>2, <4>1, <4>2, <4>3 DEF RunsPinned, PinnedRun, At
    <3> QED
      BY <3>4, <3>5
  <2> QED
    BY <2>5, <2>6
<1> QED
  BY <1>4, <1>5, <1>6

\* The others, in a step that changes no alias and takes no version away
LEMMA RunOthers ==
    ASSUME RunInv, TypeOK', NEW p \in Process, JobStep(p), spoiled \subseteq spoiled',
           Follows(p)', RunsPinned(p)',
           \A q \in Process \ {p} : job[q].pc # "idle" /\ ~job'[q].stale => SameAliases /\ NoneGoes
    PROVE  RunFollows' /\ PinRuns'
<1>1. ASSUME NEW q \in Process PROVE Follows(q)' /\ RunsPinned(q)'
  <2>1. CASE q = p
    BY <2>1
  <2>2. CASE q # p
    <3>1. Kept(q) /\ Follows(q) /\ RunsPinned(q) /\ TypeOK
      BY <2>2 DEF JobStep, RunInv, RunFollows, PinRuns, RunsPinned, WholeInv, ShapeInv
    <3> QED
      BY <2>2, <3>1, FollowsOther
  <2> QED
    BY <2>1, <2>2
<1> QED
  BY <1>1 DEF RunFollows, PinRuns, RunsPinned

\* A step of p from one of the steps that stage a version to another
LEMMA FollowsMoves ==
    ASSUME TypeOK, TypeOK', NEW p \in Process, Follows(p), SameAliases, spoiled \subseteq spoiled',
           job[p].pc \in Fetching \cup {"stage", "then"},
           job'[p].pc \in Fetching \cup {"stage", "then"},
           job'[p].op = job[p].op, job'[p].v = job[p].v, job'[p].tree = job[p].tree,
           job[p].stale => job'[p].stale
    PROVE  Follows(p)' /\ RunsPinned(p)'
<1>1. RunsPinned(p)'
  BY DEF RunsPinned, PinnedRun, At, Fetching
<1> SUFFICES ASSUME job[p].op = "run", ~Overtaken(p)'
             PROVE  (job[p].v # NONE)' /\ Admits(PinOf(p).spec, job[p].v)'
  BY <1>1 DEF Follows, Fetching
<1>2. PICK t \in Tree : t = job[p].tree /\ t = job'[p].tree
  BY DEF Follows
<1>3. PICK s : s = Discover(t).spec
  OBVIOUS
<1>v. PICK v : v = job[p].v /\ v = job'[p].v
  OBVIOUS
<1>4. PinOf(p) = Discover(t) /\ PinOf(p)' = Discover(t)
  BY <1>2 DEF PinOf
<1>5. Discover(t) # NONE /\ ~job'[p].stale /\ s.kind # "lts" /\ spoiled' = {}
  BY <1>3, <1>4 DEF Overtaken
<1>6. ~Shadowed(s)'
  <2>1. Shadowed(PinOf(p).spec)' <=> Shadowed(s)'
    BY <1>3, <1>4 DEF Shadowed, ReadAlias
  <2> QED
    BY <2>1 DEF Overtaken
<1>7. s \in Selector
  BY <1>3, <1>5, DiscoverType
<1>8. ~Shadowed(s) /\ (Admits(s, v)' <=> Admits(s, v))
  BY <1>6, <1>7, PinStable
<1>9. ~Overtaken(p)
  BY <1>3, <1>4, <1>5, <1>8 DEF Overtaken
<1>10. v # NONE /\ Admits(s, v)
  BY <1>3, <1>4, <1>9, <1>v DEF Follows
<1>11. Admits(PinOf(p).spec, job[p].v)' <=> Admits(s, v)'
  BY <1>3, <1>4, <1>v DEF Admits, ReadAlias
<1> QED
  BY <1>8, <1>10, <1>11, <1>v

LEMMA FollowsIdle ==
    ASSUME NEW p \in Process, job'[p].op # "run"
    PROVE  Follows(p)' /\ RunsPinned(p)'
  BY DEF Follows, RunsPinned, PinnedRun

LEMMA RunNext ==
    ASSUME RunInv, [Next]_vars
    PROVE  RunInv'
<1>0. /\ WholeInv /\ WholeInv' /\ TypeOK /\ TypeOK' /\ OpsApart /\ RunFollows /\ PinRuns
      /\ dir \in [Version -> Dir] /\ Node \subseteq Version
  BY WholeNext DEF RunInv, WholeInv, ShapeInv, TypeOK, Dir, Version
<1> SUFFICES RunFollows' /\ PinRuns'
  BY <1>0 DEF RunInv
<1>p. \A p \in Process : Follows(p) /\ Apart(job[p]) /\ job[p] \in Job
  BY <1>0 DEF RunFollows, OpsApart, TypeOK
<1>d. UNCHANGED dir => NoneGoes
  BY DEF NoneGoes, IsInstalled, InstalledVersions
<1>a. UNCHANGED alias => SameAliases
  BY DEF SameAliases
<1>1. CASE UNCHANGED vars
  BY <1>0, <1>1 DEF vars, RunFollows, PinRuns, Follows, PinOf, Overtaken, Admits, Found, Fits, ReadAlias,
                    IsInstalled, InstalledVersions, Shadowed, PinnedRun, At
<1>2. ASSUME NEW p \in Process, NEW c, Begin(p, c), Starts(c)
      PROVE  RunFollows' /\ PinRuns'
  <2>1. JobStep(p) /\ UNCHANGED <<dir, alias, spoiled>> /\ job'[p] = c
    BY <1>0, <1>2, BeginStep DEF disk, names
  <2>2. RunsPinned(p)'
    BY <1>2, <2>1 DEF RunsPinned, PinnedRun, At, Starts
  <2>3. Follows(p)'
    <3> SUFFICES ASSUME c.op = "run" PROVE Follows(p)'
      BY <2>1 DEF Follows
    <3>1. PICK pin : pin = Discover(c.tree)
      OBVIOUS
    <3>2. PinOf(p)' = pin
      BY <2>1, <3>1 DEF PinOf
    <3>3. \/ c.pc = "resolve" /\ pin # NONE /\ c.spec = pin.spec
          \/ /\ c.pc = "spawn"
             /\ \/ pin = NONE \/ Found(pin.spec)
                \/ pin.engines /\ SystemNodeSatisfies(pin.spec)
      BY <1>2, <3>1 DEF Starts
    <3>4. Found(PinOf(p).spec)' <=> Found(pin.spec)
      BY <2>1, <3>2 DEF Found, Fits, ReadAlias, IsInstalled, InstalledVersions
    <3>5. pin = NONE => Overtaken(p)'
      BY <3>2 DEF Overtaken
    <3>6. c.tree \in Tree
      BY <1>2 DEF Starts
    <3> QED
      BY <2>1, <3>2, <3>3, <3>4, <3>5, <3>6 DEF Follows, Fetching
  <2> QED
    BY <1>0, <1>a, <1>d, <2>1, <2>2, <2>3, RunOthers
<1>3. ASSUME NEW p \in Process, UnaliasCommand(p) PROVE RunFollows' /\ PinRuns'
  <2>1. /\ JobStep(p) /\ UNCHANGED spoiled /\ job'[p].op = "none"
        /\ \A q \in Process \ {p} : job[q].pc # "idle" => job'[q].stale
    BY <1>0, <1>3, UnaliasStep DEF disk
  <2> QED
    BY <1>0, <2>1, FollowsIdle, RunOthers
<1>4. ASSUME NEW p \in Process, ClearCache(p) PROVE RunFollows' /\ PinRuns'
  <2>1. /\ JobStep(p) /\ spoiled \subseteq spoiled' /\ job'[p].op = "none"
        /\ \A q \in Process \ {p} : job[q].pc # "idle" => job'[q].stale
    BY <1>0, <1>4, ClearCacheStep
  <2> QED
    BY <1>0, <2>1, FollowsIdle, RunOthers
<1>5. ASSUME NEW p \in Process, Kill(p) PROVE RunFollows' /\ PinRuns'
  <2>1. /\ JobStep(p) /\ job'[p].op = "none" /\ UNCHANGED alias
    BY <1>0, <1>5, KillStep DEF names
  <2>2. spoiled \subseteq spoiled'
    <3>1. CASE UNCHANGED spoiled
      BY <3>1
    <3>2. CASE ~UNCHANGED spoiled
      <4>1. \E kept \in SUBSET dir[job[p].v] :
               spoiled' = IF {"marker", "bin"} \subseteq kept THEN spoiled \cup {job[p].v} ELSE spoiled
        BY <1>0, <1>5, <3>2, KillStep
      <4> QED
        BY <4>1
    <3> QED
      BY <3>1, <3>2
  <2>3. UNCHANGED dir \/ \A q \in Process \ {p} : job[q].pc # "idle" => job'[q].stale
    BY <1>0, <1>5, KillStep
  <2> QED
    BY <1>0, <1>a, <1>d, <2>1, <2>2, <2>3, FollowsIdle, RunOthers
<1>6. ASSUME NEW p \in Process, Resolve(p) PROVE RunFollows' /\ PinRuns'
  <2>1. JobStep(p) /\ UNCHANGED <<dir, alias, spoiled>> /\ job[p].pc = "resolve"
    BY <1>0, <1>6, ResolveStep DEF disk, names
  <2>2. CASE job'[p] = Idle
    BY <1>0, <1>a, <1>d, <2>1, <2>2, IdleApart, FollowsIdle, RunOthers
  <2>3. ASSUME NEW v \in Node,
               job'[p] = [job[p] EXCEPT !.v = v, !.pc = IF job[p].op = "alias" THEN "then" ELSE "stage"],
               job[p].spec.kind # "lts" /\ ~Shadowed(job[p].spec) => Admits(job[p].spec, v)
        PROVE  RunFollows' /\ PinRuns'
    <3>1. /\ job'[p].op = job[p].op /\ job'[p].v = v /\ job'[p].tree = job[p].tree /\ job'[p].stale = job[p].stale
          /\ job'[p].pc \in {"then", "stage"}
      BY <1>p, <2>3 DEF Job
    <3>2. RunsPinned(p)'
      BY <3>1 DEF RunsPinned, PinnedRun, At
    <3>3. Follows(p)'
      <4> SUFFICES ASSUME job[p].op = "run" PROVE Follows(p)'
        BY <3>1 DEF Follows
      <4>1. PICK t \in Tree : t = job[p].tree /\ t = job'[p].tree
        BY <1>p, <3>1 DEF Follows
      <4>2. PICK s : s = Discover(t).spec
        OBVIOUS
      <4>3. PinOf(p) = Discover(t) /\ PinOf(p)' = Discover(t)
        BY <4>1 DEF PinOf
      <4>4. job[p].spec = s
        BY <1>p, <2>1, <4>2, <4>3 DEF Follows
      <4>5. ASSUME ~Overtaken(p)' PROVE Admits(PinOf(p).spec, job[p].v)'
        <5>1. s.kind # "lts" /\ ~Shadowed(s)'
          BY <4>2, <4>3, <4>5 DEF Overtaken, Shadowed, ReadAlias
        <5>2. Shadowed(s)' <=> Shadowed(s)
          BY <2>1 DEF Shadowed, ReadAlias
        <5>3. Admits(s, v)
          BY <2>3, <4>4, <5>1, <5>2
        <5> QED
          BY <2>1, <3>1, <4>2, <4>3, <5>3 DEF Admits, ReadAlias
      <4>6. v # NONE
        BY ToolchainAssumption
      <4> QED
        BY <3>1, <4>1, <4>5, <4>6 DEF Follows
    <3> QED
      BY <1>0, <1>a, <1>d, <2>1, <3>2, <3>3, RunOthers
  <2> QED
    BY <1>0, <1>6, <2>2, <2>3, ResolveStep
<1>7. ASSUME NEW p \in Process, Stage(p) \/ Download(p) \/ DownloadVersion(p) \/ Unpack(p) \/ Mark(p)
      PROVE  RunFollows' /\ PinRuns'
  <2>1. /\ \/ End(p)
           \/ \E pc \in Fetching \cup {"then"} : Goto(p, pc)
        /\ UNCHANGED <<dir, alias>> /\ spoiled \subseteq spoiled'
        /\ job[p].pc \in Fetching \cup {"stage"}
    <3>1. CASE Stage(p)
      BY <3>1 DEF Stage, At, names, Fetching
    <3>2. CASE Download(p) \/ DownloadVersion(p)
      BY <3>2 DEF Download, DownloadVersion, At, names, disk, Fetching
    <3>3. CASE Unpack(p) \/ Mark(p)
      BY <3>3 DEF Unpack, Mark, At, names, Fetching
    <3> QED
      BY <1>7, <3>1, <3>2, <3>3
  <2>2. CASE End(p)
    BY <1>0, <1>a, <1>d, <2>1, <2>2, EndStep, IdleApart, FollowsIdle, RunOthers
  <2>3. ASSUME NEW pc \in Fetching \cup {"then"}, Goto(p, pc)
        PROVE  RunFollows' /\ PinRuns'
    <3>1. /\ JobStep(p) /\ job'[p].op = job[p].op /\ job'[p].pc = pc /\ job'[p].v = job[p].v
          /\ job'[p].tree = job[p].tree /\ job'[p].stale = job[p].stale
      BY <1>0, <2>3, GotoStep DEF PC, Fetching
    <3>2. Follows(p)' /\ RunsPinned(p)'
      BY <1>0, <1>p, <1>a, <2>1, <3>1, FollowsMoves
    <3> QED
      BY <1>0, <1>a, <1>d, <2>1, <3>1, <3>2, RunOthers
  <2> QED
    BY <2>1, <2>2, <2>3
<1>8. ASSUME NEW p \in Process, Replace(p) PROVE RunFollows' /\ PinRuns'
  <2>1. /\ JobStep(p) /\ job[p].pc = "replace" /\ job'[p] = [job[p] EXCEPT !.pc = "rename"]
        /\ job[p].v \in InstalledVersions =>
              \A q \in Process \ {p} : job[q].pc # "idle" => job'[q].stale
        /\ UNCHANGED <<alias, spoiled>> /\ dir' = [dir EXCEPT ![job[p].v] = NONE]
    BY <1>0, <1>8, ReplaceStep DEF names
  <2>2. /\ job'[p].op = job[p].op /\ job'[p].pc = "rename" /\ job'[p].v = job[p].v
        /\ job'[p].tree = job[p].tree /\ job'[p].stale = job[p].stale
    BY <1>p, <2>1 DEF Job
  <2>3. Follows(p)' /\ RunsPinned(p)'
    BY <1>0, <1>p, <1>a, <2>1, <2>2, FollowsMoves DEF Fetching
  <2>4. job[p].v \notin InstalledVersions => NoneGoes
    <3> SUFFICES ASSUME job[p].v \notin InstalledVersions,
                        NEW v \in Node, dir[v] # NONE, "marker" \in dir[v]
                 PROVE  dir'[v] = dir[v]
      BY DEF NoneGoes, IsInstalled, InstalledVersions
    <3>1. v # job[p].v
      BY DEF InstalledVersions
    <3> QED
      BY <1>0, <2>1, <3>1
  <2> QED
    BY <1>0, <1>a, <2>1, <2>3, <2>4, RunOthers
<1>9. ASSUME NEW p \in Process, Rename(p) PROVE RunFollows' /\ PinRuns'
  <2>1. /\ job[p].pc = "rename" /\ UNCHANGED <<alias, spoiled>>
        /\ \/ End(p) /\ UNCHANGED dir
           \/ dir[job[p].v] = NONE /\ dir' = [dir EXCEPT ![job[p].v] = tmp[job[p].v]] /\ Goto(p, "then")
    BY <1>9 DEF Rename, At, names, Set, TmpOf
  <2>2. CASE End(p) /\ UNCHANGED dir
    BY <1>0, <1>a, <1>d, <2>1, <2>2, EndStep, IdleApart, FollowsIdle, RunOthers
  <2>3. CASE dir[job[p].v] = NONE /\ dir' = [dir EXCEPT ![job[p].v] = tmp[job[p].v]] /\ Goto(p, "then")
    <3>1. /\ JobStep(p) /\ job'[p].op = job[p].op /\ job'[p].pc = "then" /\ job'[p].v = job[p].v
          /\ job'[p].tree = job[p].tree /\ job'[p].stale = job[p].stale
      BY <1>0, <2>3, GotoStep DEF PC
    <3>2. Follows(p)' /\ RunsPinned(p)'
      BY <1>0, <1>p, <1>a, <2>1, <3>1, FollowsMoves DEF Fetching
    <3>3. \A v \in Node : dir[v] # NONE => dir'[v] = dir[v]
      BY <1>0, <2>3
    <3>4. NoneGoes
      BY <3>3 DEF NoneGoes, IsInstalled, InstalledVersions
    <3> QED
      BY <1>0, <1>a, <2>1, <3>1, <3>2, <3>4, RunOthers
  <2> QED
    BY <2>1, <2>2, <2>3
<1>10. ASSUME NEW p \in Process, Then(p) PROVE RunFollows' /\ PinRuns'
  <2>1. JobStep(p) /\ UNCHANGED <<dir, spoiled>> /\ job[p].pc = "then"
    BY <1>0, <1>10, ThenStep
  <2>2. CASE job'[p] = Idle /\ UNCHANGED <<names, cut>>
    BY <1>0, <1>a, <1>d, <2>1, <2>2, IdleApart, FollowsIdle, RunOthers DEF names
  <2>3. CASE ~(job'[p] = Idle /\ UNCHANGED <<names, cut>>)
    <3> DEFINE h == Head(job[p].then)
    <3>1. /\ job'[p].op = job[p].op /\ job'[p].v = job[p].v /\ job'[p].tree = job[p].tree
          /\ job'[p].pc = IF h \in {"spawn", "exec"} THEN h ELSE "then"
          /\ job[p].stale => job'[p].stale
          /\ alias' = CASE h = "default" -> [alias EXCEPT ![Default] = job[p].v]
                        [] h = "alias" -> [alias EXCEPT ![job[p].name] = job[p].v]
                        [] OTHER -> alias
          /\ h = "alias" => /\ \A q \in Process \ {p} : job[q].pc # "idle" => job'[q].stale
                            /\ job'[p].stale
          /\ h = "exec" <=> (job[p].op = "switch")
      BY <1>0, <1>10, <2>3, ThenStep
    <3>2. h # "alias" => SameAliases
      BY <1>0, <3>1 DEF SameAliases, TypeOK
    <3>3. Follows(p)' /\ RunsPinned(p)'
      <4>1. CASE job[p].op # "run"
        BY <3>1, <4>1, FollowsIdle
      <4>2. CASE job[p].op = "run" /\ h = "spawn"
        <5>1. RunsPinned(p)'
          BY <3>1, <4>2 DEF RunsPinned, PinnedRun, At
        <5>2. SameAliases
          BY <3>2, <4>2
        <5>3. PICK t \in Tree : t = job[p].tree /\ t = job'[p].tree
          BY <1>p, <3>1, <4>2 DEF Follows
        <5>4. PICK s : s = Discover(t).spec
          OBVIOUS
        <5>5. PinOf(p) = Discover(t) /\ PinOf(p)' = Discover(t)
          BY <5>3 DEF PinOf
        <5>6. ASSUME ~Overtaken(p)' PROVE Found(PinOf(p).spec)'
          <6>1. Discover(t) # NONE /\ ~job'[p].stale /\ s.kind # "lts" /\ spoiled = {} /\ ~Shadowed(s)'
            BY <2>1, <5>4, <5>5, <5>6 DEF Overtaken, Shadowed, ReadAlias
          <6>2. s \in Selector
            BY <5>4, <6>1, DiscoverType
          <6>3. ~Shadowed(s) /\ ~job[p].stale
            BY <1>0, <3>1, <5>2, <6>1, <6>2, PinStable
          <6>4. ~Overtaken(p)
            BY <5>4, <5>5, <6>1, <6>3 DEF Overtaken
          <6>5. job[p].v # NONE /\ Admits(s, job[p].v)
            BY <1>p, <2>1, <4>2, <5>4, <5>5, <6>4 DEF Follows
          <6>6. job[p].v \in Node /\ dir[job[p].v] = Parts
            BY <1>0, <1>p, <2>1, <4>2, <6>1, <6>3, <6>5 DEF WholeInv, GoesOnWhole, At, Apart
          <6>7. Found(s)
            BY <1>0, <6>1, <6>2, <6>5, <6>6, AdmitsFound
          <6>8. Found(s)'
            BY <1>0, <1>d, <2>1, <5>2, <6>2, <6>7, FoundStays
          <6> QED
            BY <5>4, <5>5, <6>8 DEF Found, Fits, ReadAlias
        <5> QED
          BY <3>1, <4>2, <5>1, <5>3, <5>6 DEF Follows, Fetching
      <4>3. CASE job[p].op = "run" /\ h # "spawn"
        <5>1. job'[p].pc = "then"
          BY <3>1, <4>3
        <5>2. CASE h # "alias"
          BY <1>0, <1>p, <2>1, <3>1, <3>2, <5>1, <5>2, FollowsMoves
        <5>3. CASE h = "alias"
          <6>1. job'[p].stale
            BY <3>1, <5>3
          <6>2. Overtaken(p)'
            BY <6>1 DEF Overtaken
          <6> QED
            BY <1>p, <3>1, <4>3, <5>1, <6>1, <6>2 DEF Follows, RunsPinned, PinnedRun
        <5> QED
          BY <5>2, <5>3
      <4> QED
        BY <4>1, <4>2, <4>3
    <3> QED
      BY <1>0, <1>d, <2>1, <3>1, <3>2, <3>3, RunOthers
  <2> QED
    BY <2>2, <2>3
<1>11. ASSUME NEW p \in Process, Spawn(p) \/ Exec(p) PROVE RunFollows' /\ PinRuns'
  <2>1. JobStep(p) /\ UNCHANGED <<dir, alias, spoiled>> /\ job[p].pc \in {"spawn", "exec"}
    BY <1>0, <1>11, SpawnStep DEF disk, names
  <2>2. CASE job'[p] = Idle
    BY <1>0, <1>a, <1>d, <2>1, <2>2, IdleApart, FollowsIdle, RunOthers
  <2>3. CASE job'[p] # Idle
    <3>1. /\ job'[p].op = job[p].op /\ job'[p].tree = job[p].tree /\ job'[p].pc = "ran"
          /\ job'[p].stale = job[p].stale
          /\ job'[p].ran = IF job[p].pc = "exec" THEN job[p].v ELSE ActiveOffline(job[p].tree)
      BY <1>0, <1>11, <2>3, SpawnStep
    <3>2. CASE job[p].op # "run"
      BY <1>0, <1>a, <1>d, <2>1, <3>1, <3>2, FollowsIdle, RunOthers
    <3>3. CASE job[p].op = "run"
      <4>1. job[p].pc = "spawn"
        BY <1>p, <2>1, <3>3 DEF Apart
      <4>2. PICK t \in Tree : t = job[p].tree /\ t = job'[p].tree
        BY <1>p, <3>1, <3>3 DEF Follows
      <4>3. PICK pin : pin = Discover(t)
        OBVIOUS
      <4>4. PICK s : s = pin.spec
        OBVIOUS
      <4>5. PinOf(p) = pin /\ PinOf(p)' = pin
        BY <4>2, <4>3 DEF PinOf
      <4>6. Follows(p)'
        BY <3>1, <4>2 DEF Follows, Fetching
      <4>7. ASSUME pin # NONE, ~job'[p].stale, s.kind # "lts", ~Shadowed(s)', spoiled' = {}
            PROVE  \/ job'[p].ran \in s.of
                   \/ job'[p].ran # NONE /\ (s.kind = "latest" \/ job'[p].ran = ReadAlias(s)')
                   \/ job'[p].ran = NONE /\ pin.engines /\ SystemNode \in s.of
        <5>1. s \in Selector
          BY <4>3, <4>4, <4>7, DiscoverType
        <5>2. ~Shadowed(s) /\ ReadAlias(s)' = ReadAlias(s)
          BY <2>1, <4>7 DEF Shadowed, ReadAlias
        <5>3. ~Overtaken(p)
          BY <2>1, <3>1, <4>4, <4>5, <4>7, <5>2 DEF Overtaken
        <5>4. Found(s) \/ (pin.engines /\ SystemNodeSatisfies(s))
          BY <1>p, <3>3, <4>1, <4>4, <4>5, <5>3 DEF Follows
        <5>5. job'[p].ran = MatchPinOffline(s)
          BY <3>1, <4>1, <4>2, <4>3, <4>4, <4>7 DEF ActiveOffline
        <5>6. CASE MatchPinOffline(s) # NONE
          BY <1>0, <5>1, <5>2, <5>5, <5>6, PinOfflineType
        <5>7. CASE MatchPinOffline(s) = NONE
          <6>1. ~Found(s)
            BY <1>0, <5>1, <5>7, PinOfflineType
          <6> QED
            BY <5>4, <5>5, <5>7, <6>1 DEF SystemNodeSatisfies
        <5> QED
          BY <5>6, <5>7
      <4>8. RunsPinned(p)'
        <5>1. Shadowed(PinOf(p).spec)' <=> Shadowed(s)'
          BY <4>4, <4>5 DEF Shadowed, ReadAlias
        <5>2. ReadAlias(PinOf(p).spec)' = ReadAlias(s)'
          BY <4>4, <4>5 DEF ReadAlias
        <5> QED
          BY <4>4, <4>5, <4>7, <5>1, <5>2 DEF RunsPinned, PinnedRun
      <4> QED
        BY <1>0, <1>a, <1>d, <2>1, <4>6, <4>8, RunOthers
    <3> QED
      BY <3>2, <3>3
  <2> QED
    BY <2>2, <2>3
<1>12. ASSUME NEW p \in Process, RemoveVersion(p) PROVE RunFollows' /\ PinRuns'
  <2>1. /\ JobStep(p) /\ job'[p].op = job[p].op /\ job'[p].tree = job[p].tree /\ job'[p].pc = "uncurrent"
        /\ \A q \in Process \ {p} : job[q].pc # "idle" => job'[q].stale
        /\ UNCHANGED spoiled
    BY <1>0, <1>12, RemoveStep
  <2>2. Follows(p)' /\ RunsPinned(p)'
    BY <1>p, <2>1 DEF Follows, Fetching, RunsPinned, PinnedRun, At
  <2> QED
    BY <1>0, <2>1, <2>2, RunOthers
<1>13. ASSUME NEW p \in Process, ClearCurrent(p) PROVE RunFollows' /\ PinRuns'
  <2>1. Goto(p, "unalias") /\ UNCHANGED <<dir, alias, spoiled>>
    BY <1>13 DEF ClearCurrent, disk
  <2>2. JobStep(p) /\ job'[p].op = job[p].op /\ job'[p].tree = job[p].tree /\ job'[p].pc = "unalias"
    BY <1>0, <2>1, GotoStep DEF PC
  <2>3. Follows(p)' /\ RunsPinned(p)'
    BY <1>p, <2>2 DEF Follows, Fetching, RunsPinned, PinnedRun, At
  <2> QED
    BY <1>0, <1>a, <1>d, <2>1, <2>2, <2>3, RunOthers
<1>14. ASSUME NEW p \in Process, ClearAliases(p) PROVE RunFollows' /\ PinRuns'
  <2>1. JobStep(p) /\ UNCHANGED <<dir, spoiled>> /\ job[p].pc = "unalias" /\ (job'[p] = Idle \/ Kept(p))
        /\ (UNCHANGED alias \/ \A q \in Process \ {p} : job[q].pc # "idle" => job'[q].stale)
    BY <1>0, <1>14, ClearAliasesStep DEF disk
  <2>2. Follows(p)' /\ RunsPinned(p)'
    <3>1. CASE job'[p] = Idle
      BY <3>1, IdleApart, FollowsIdle
    <3>2. CASE Kept(p)
      BY <1>p, <2>1, <3>2 DEF Follows, Fetching, RunsPinned, PinnedRun, At, Kept
    <3> QED
      BY <2>1, <3>1, <3>2
  <2> QED
    BY <1>0, <1>a, <1>d, <2>1, <2>2, RunOthers
<1>15. CASE Publish
  <2>1. UNCHANGED <<dir, alias, spoiled, job>>
    BY <1>15 DEF Publish, disk, names
  <2> QED
    BY <1>0, <2>1 DEF RunFollows, PinRuns, Follows, PinOf, Overtaken, Admits, Found, Fits, ReadAlias,
                      IsInstalled, InstalledVersions, Shadowed, PinnedRun, At
<1>16. ASSUME NEW p \in Process, Command(p) PROVE RunFollows' /\ PinRuns'
  BY <1>0, <1>2, <1>3, <1>4, <1>16, CommandStarts
<1>17. ASSUME NEW p \in Process, Step(p) PROVE RunFollows' /\ PinRuns'
  BY <1>6, <1>7, <1>8, <1>9, <1>10, <1>11, <1>12, <1>13, <1>14, <1>17 DEF Step
<1> QED
  BY <1>1, <1>5, <1>15, <1>16, <1>17 DEF Next, AllDone

\* prepare_node_for_project, select_package_manager_reference: the script of a
\* pinned project runs on a Node that its pin admits, and the shim starts the snpm
\* that the command line or the nearest manifest asks for.
THEOREM RightOneRunsCorrect == ToolchainSpec => []RightOneRuns
<1>1. Init => RunInv /\ ShimInv
  <2> SUFFICES ASSUME Init PROVE RunFollows /\ PinRuns
    BY WholeInit, ShimInit DEF RunInv
  <2>1. job = [p \in Process |-> Idle]
    BY DEF Init
  <2>2. \A p \in Process : job[p].op = "none"
    BY <2>1, IdleApart
  <2> QED
    BY <2>2 DEF RunFollows, Follows, PinRuns, PinnedRun
<1>2. RunInv /\ ShimInv /\ [Next]_vars => (RunInv /\ ShimInv)'
  BY RunNext, ShimNext
<1>3. RunInv /\ ShimInv => RightOneRuns
  BY ShimPicksRight DEF RunInv, RightOneRuns
<1> QED
  BY <1>1, <1>2, <1>3, PTL DEF ToolchainSpec

=============================================================================
