---------------------------- MODULE InstallProofs ----------------------------
(***************************************************************************)
(* Proofs about Install, for any names, versions, commands and number of   *)
(* faults, and about the import of foreign lockfiles that an install       *)
(* begins with when there is no lockfile of its own, for any lockfiles.    *)
(***************************************************************************)
EXTENDS Install, ForeignLockfile, WellFoundedInduction, SequenceTheorems, TLAPS

-----------------------------------------------------------------------------
(* Types *)

ManifestDep == [section : Section, spec : VersionSpec]
Decision == [scenario : {"Hot", "WarmLinkOnly", "WarmPartialCache", "Cold"},
             graph : Graph, hotState : BOOLEAN]
StateType == [kind : {"absent", "written"}, current : BOOLEAN,
              intact : BOOLEAN, specs : [Name -> RootSpec],
              graph : Graph, layout : Layout]
OpType == [command : AnyCommand, before : LockType,
           scenario : {"none", "Hot", "WarmLinkOnly", "WarmPartialCache", "Cold"},
           graph : Graph, hotState : BOOLEAN, faulted : BOOLEAN]
PC == {"idle", "plan", "download", "resolve", "lock", "manifest",
       "link", "wire", "marker", "scripts", "state", "done", "failed"}

\* A dependency of the manifest has a spec, and nothing else has one.
SpecsInSections ==
    \A n \in Name : manifest[n].section = "none" <=> manifest[n].spec = NoSpec

LEMMA SpecKinds ==
    /\ NoSpec \in VersionSpec /\ Latest \in VersionSpec /\ NoSpec # Latest
    /\ \A v \in Version : /\ Caret(v) \in VersionSpec /\ Exact(v) \in VersionSpec
                          /\ Caret(v) # NoSpec /\ Exact(v) # NoSpec
    /\ \A s \in VersionSpec : /\ s.base \in Nat
                              /\ s.kind \in {"none", "latest", "caret", "exact", "catalog"}
                              /\ s.kind \in {"caret", "exact", "catalog"} => s.base \in Version
  BY InstallAssumption DEF NoSpec, Latest, Caret, Exact, VersionSpec, Version

LEMMA VersionBounds ==
    /\ \A v \in Version : v \in Nat /\ v # 0 /\ v \in 0 .. MaxVersion
    /\ 0 \in 0 .. MaxVersion /\ 1 \in Version
    /\ \A v \in 0 .. MaxVersion : v # 0 => v \in Version
  BY InstallAssumption DEF Version

LEMMA EmptyTypes ==
    /\ NoDep \in Dep /\ EmptyGraph \in Graph /\ NoLockDep \in LockDep
    /\ NoLock \in LockType /\ TornLock \in LockType
    /\ NoRoot \in RootSpec /\ NoLayout \in Layout
    /\ NoMarker \in [kind : {"absent", "written"}, roots : [Name -> Dep]]
    /\ NoCommand \in AnyCommand
<1>1. NoDep \in Dep /\ NoLockDep \in LockDep /\ NoRoot \in RootSpec
  BY SpecKinds, VersionBounds DEF NoDep, Dep, NoLockDep, LockDep, NoRoot, RootSpec
<1>2. EmptyGraph \in Graph
  BY <1>1 DEF EmptyGraph, Graph
<1>3. NoRoots \in [Name -> LockDep]
  BY <1>1 DEF NoRoots
<1>4. NoLock \in LockType /\ TornLock \in LockType
  BY <1>3 DEF NoLock, TornLock, LockType
<1>5. NoLayout \in Layout
  BY VersionBounds DEF NoLayout, Layout, Section
<1>6. NoMarker \in [kind : {"absent", "written"}, roots : [Name -> Dep]]
  BY <1>2 DEF NoMarker, Graph
<1>7. NoCommand \in AnyCommand
  BY SpecKinds DEF NoCommand, AnyCommand, Mode
<1> QED
  BY <1>1, <1>2, <1>4, <1>5, <1>6, <1>7

LEMMA StateEmptyType == NoState \in StateType
  BY EmptyTypes DEF NoState, StateType

LEMMA IdleType == Idle \in OpType
  BY EmptyTypes DEF Idle, OpType

LEMMA TypeSplit ==
    TypeOK <=> /\ published \in [Name -> Version]
               /\ manifest \in [Name -> ManifestDep]
               /\ lock \in LockType
               /\ state \in StateType
               /\ links \in [Name -> 0 .. MaxVersion]
               /\ marker \in [kind : {"absent", "written"}, roots : [Name -> Dep]]
               /\ store \subseteq Name \X Version
               /\ ran \subseteq Name \X Version
               /\ pc \in PC
               /\ op \in OpType
               /\ faults \in 0 .. MaxFaults
  BY DEF TypeOK, ManifestDep, StateType, PC, OpType

LEMMA TypeSplitNext ==
    TypeOK' <=> /\ published' \in [Name -> Version]
               /\ manifest' \in [Name -> ManifestDep]
               /\ lock' \in LockType
               /\ state' \in StateType
               /\ links' \in [Name -> 0 .. MaxVersion]
               /\ marker' \in [kind : {"absent", "written"}, roots : [Name -> Dep]]
               /\ store' \subseteq Name \X Version
               /\ ran' \subseteq Name \X Version
               /\ pc' \in PC
               /\ op' \in OpType
               /\ faults' \in 0 .. MaxFaults
  BY DEF TypeOK, ManifestDep, StateType, PC, OpType

LEMMA TypeInit == Init => TypeOK /\ SpecsInSections
<1> SUFFICES ASSUME Init PROVE TypeOK /\ SpecsInSections
  OBVIOUS
<1>1. published \in [Name -> Version] /\ links \in [Name -> 0 .. MaxVersion]
  BY VersionBounds DEF Init
<1>2. manifest \in [Name -> ManifestDep]
  BY InstallAssumption DEF Init, ManifestDep
<1>3. SpecsInSections
  BY InstallAssumption DEF Init, SpecsInSections
<1>4. faults \in 0 .. MaxFaults
  BY InstallAssumption DEF Init
<1> QED
  BY <1>1, <1>2, <1>3, <1>4, EmptyTypes, StateEmptyType, IdleType, TypeSplit DEF Init, PC

-----------------------------------------------------------------------------
(* What the operators return *)

LEMMA BuildRootSpecsType ==
    ASSUME NEW man \in [Name -> ManifestDep], NEW d \in BOOLEAN
    PROVE  /\ ApplySpecs(man) \in [Name -> ManifestDep]
           /\ BuildRootSpecs(man, d) \in [Name -> RootSpec]
           /\ BuildRootSpecs(ApplySpecs(man), d) \in [Name -> RootSpec]
<1>1. \A n \in Name : man[n].spec.kind = "catalog" =>
         [man[n] EXCEPT !.spec = Caret(man[n].spec.base)] \in ManifestDep
  BY SpecKinds DEF ManifestDep
<1>2. ApplySpecs(man) \in [Name -> ManifestDep]
  BY <1>1 DEF ApplySpecs
<1>3. ASSUME NEW m \in [Name -> ManifestDep] PROVE BuildRootSpecs(m, d) \in [Name -> RootSpec]
  BY EmptyTypes DEF BuildRootSpecs, RootSpec, ManifestDep
<1> QED
  BY <1>2, <1>3

LEMMA PlanSpecsType ==
    ASSUME TypeOK, NEW c \in AnyCommand
    PROVE  PlanSpecs(c) \in [Name -> RootSpec]
  BY BuildRootSpecsType, TypeSplit DEF PlanSpecs, AnyCommand

LEMMA RootDependenciesType ==
    ASSUME TypeOK, NEW c \in AnyCommand
    PROVE  /\ Additions(c) \in [Name -> VersionSpec]
           /\ RootDependencies(c) \in [Name -> VersionSpec]
           /\ PlannedRootDependencies(c) \in [Name -> VersionSpec]
<1>1. Additions(c) \in [Name -> VersionSpec]
  BY SpecKinds DEF Additions, AnyCommand
<1>2. RootDependencies(c) \in [Name -> VersionSpec]
  BY <1>1, PlanSpecsType DEF RootDependencies, RootSpec
<1>3. \A n \in Name : lock.roots[n].version \in 0 .. MaxVersion
  BY TypeSplit DEF LockType, LockDep
<1>4. \A n \in Name : lock.roots[n].version # 0 => Exact(lock.roots[n].version) \in VersionSpec
  BY <1>3, SpecKinds, VersionBounds
<1> QED
  BY <1>1, <1>2, <1>4 DEF PlannedRootDependencies

LEMMA SelectVersionType ==
    ASSUME TypeOK, NEW n \in Name, NEW spec \in VersionSpec
    PROVE  SelectVersion(n, spec) \in 0 .. MaxVersion
<1>1. published[n] \in Version /\ spec.base \in Nat
  BY TypeSplit, SpecKinds
<1>2. published[n] \in 0 .. MaxVersion
  BY <1>1, VersionBounds
<1>3. spec.base <= published[n] => spec.base \in 0 .. MaxVersion
  BY <1>1, <1>2, InstallAssumption
<1> QED
  BY <1>2, <1>3, VersionBounds DEF SelectVersion

LEMMA ResolveType ==
    ASSUME TypeOK, NEW n \in Name, NEW spec \in VersionSpec, NEW seed \in Graph
    PROVE  Resolve(n, spec, seed) \in 0 .. MaxVersion
<1>1. seed.roots[n].version \in 0 .. MaxVersion
  BY DEF Graph, Dep
<1> QED
  BY <1>1, SelectVersionType DEF Resolve

LEMMA LockOfType ==
    ASSUME NEW g \in Graph, NEW specs \in [Name -> RootSpec]
    PROVE  LockOf(g, specs) \in LockType
<1>1. \A n \in Name : g.roots[n] \in Dep /\ specs[n] \in RootSpec
  BY DEF Graph
<1>2. LockOf(g, specs).roots \in [Name -> LockDep]
  BY <1>1, EmptyTypes, VersionBounds DEF LockOf, LockDep, Dep, RootSpec
<1>3. g.hollow \in SUBSET Name
  BY DEF Graph
<1> QED
  BY <1>2, <1>3 DEF LockOf, LockType

LEMMA ToGraphType ==
    ASSUME NEW l \in LockType
    PROVE  ToGraph(l) \in Graph
<1>1. \A n \in Name : l.roots[n] \in LockDep
  BY DEF LockType
<1>2. ToGraph(l).roots \in [Name -> Dep]
  BY <1>1, EmptyTypes DEF ToGraph, LockDep, Dep
<1> QED
  BY <1>2 DEF ToGraph, Graph, LockType

LEMMA LayoutHashType ==
    ASSUME NEW man \in [Name -> ManifestDep], NEW g \in Graph, NEW d \in BOOLEAN
    PROVE  LayoutHash(man, g, d) \in Layout
<1>1. \A n \in Name : g.roots[n].version \in 0 .. MaxVersion /\ man[n].section \in Section
  BY DEF Graph, Dep, ManifestDep
<1> QED
  BY <1>1 DEF LayoutHash, Layout, Section

LEMMA PackageIdsType ==
    ASSUME NEW g \in Graph
    PROVE  PackageIds(g) \subseteq Name \X Version
<1>1. \A n \in Name : g.roots[n].version \in 0 .. MaxVersion
  BY DEF Graph, Dep
<1> QED
  BY <1>1, VersionBounds DEF PackageIds

LEMMA LinkedType ==
    ASSUME links \in [Name -> 0 .. MaxVersion]
    PROVE  Linked \subseteq Name \X Version
  BY VersionBounds DEF Linked

LEMMA DecideType ==
    ASSUME TypeOK, NEW c \in AnyCommand
    PROVE  Decide(c) \in Decision
<1>1. \A g \in Graph : ColdWith(g) \in Decision
  BY DEF ColdWith, Decision
<1>2. \A g \in Graph : /\ DetectFromGraph(c, g, LayoutValid(g), TRUE) \in Decision
                       /\ DetectFromGraph(c, g, LayoutValid(g), FALSE) \in Decision
  BY DEF DetectFromGraph, Decision
<1>3. state.graph \in Graph /\ ToGraph(lock) \in Graph /\ EmptyGraph \in Graph
  BY TypeSplit, ToGraphType, EmptyTypes DEF StateType
<1>4. DetectInstallScenario(c) \in Decision
  BY <1>1, <1>2, <1>3 DEF DetectInstallScenario
<1>5. ExplicitSeed(c) \in Graph
  BY <1>3 DEF ExplicitSeed
<1> QED
  BY <1>1, <1>4, <1>5 DEF Decide

-----------------------------------------------------------------------------
(* Every step keeps the types *)

LEMMA TypeBegin ==
    ASSUME TypeOK, SpecsInSections, NEW c \in Command,
           \/ BeginInstall(c) \/ BeginRemove(c) \/ BeginUpgrade(c)
           \/ BeginUpgradeToLatest(c) \/ BeginRefresh(c) \/ BeginCi(c)
    PROVE  TypeOK' /\ SpecsInSections'
<1> USE TypeSplit, TypeSplitNext
<1>c. c \in AnyCommand
  BY InstallAssumption
<1>b. ASSUME Begin(c) PROVE op' \in OpType /\ pc' \in PC /\ UNCHANGED <<published, store, ran, faults>>
  BY <1>b, <1>c, IdleType DEF Begin, Goto, OpType, PC
<1>u. ASSUME NEW S \in SUBSET Name, NEW wanted, \A n \in S : wanted[n] \in Version,
             \A n \in S : manifest[n].section # "none", UpdateManifest(S, wanted)
      PROVE  manifest' \in [Name -> ManifestDep] /\ SpecsInSections'
  <2>1. \A n \in S : /\ RewriteSpec(manifest[n].spec, wanted[n]) \in VersionSpec
                     /\ RewriteSpec(manifest[n].spec, wanted[n]) # NoSpec
    BY <1>u, SpecKinds DEF RewriteSpec
  <2>2. \A n \in S : [manifest[n] EXCEPT !.spec = RewriteSpec(@, wanted[n])] \in ManifestDep
    BY <2>1 DEF ManifestDep
  <2>3. manifest' \in [Name -> ManifestDep]
    BY <1>u, <2>2 DEF UpdateManifest
  <2>4. \A n \in S : manifest'[n].spec # NoSpec /\ manifest'[n].section # "none"
    BY <1>u, <2>1, <2>2 DEF UpdateManifest, ManifestDep
  <2>5. \A n \in Name \ S : manifest'[n] = manifest[n]
    BY <1>u DEF UpdateManifest
  <2> QED
    BY <2>3, <2>4, <2>5 DEF SpecsInSections
<1>1. CASE BeginInstall(c)
  BY <1>1, <1>b DEF BeginInstall, SpecsInSections
<1>2. CASE BeginRemove(c)
  BY <1>2, <1>b, SpecKinds DEF BeginRemove, SpecsInSections, ManifestDep, Section
<1>3. CASE BeginUpgrade(c)
  <2> DEFINE wanted == [n \in Name |-> SelectVersion(n, ApplySpecs(manifest)[n].spec)]
             Stale == {n \in Name :
                    /\ Updatable(c, n)
                    /\ manifest[n].section # "optionalDependencies"
                    /\ lock.roots[n].version # wanted[n]}
  <2>1. Begin(c) /\ UpdateManifest(Stale, wanted) /\ UNCHANGED <<lock, state, links, marker>>
    BY <1>3 DEF BeginUpgrade
  <2>2. \A n \in Name : BuildRootSpecs(manifest, c.includeDev)[n] # NoRoot => wanted[n] # 0
    BY <1>3 DEF BeginUpgrade
  <2>3. \A n \in Stale : BuildRootSpecs(manifest, c.includeDev)[n] # NoRoot
    BY DEF BuildRootSpecs, NoRoot, SpecsInSections, Updatable
  <2>4. \A n \in Name : wanted[n] \in 0 .. MaxVersion
    BY SelectVersionType, BuildRootSpecsType, <1>c DEF AnyCommand, ManifestDep
  <2>5. \A n \in Stale : wanted[n] \in Version /\ manifest[n].section # "none"
    BY <2>2, <2>3, <2>4, VersionBounds DEF Updatable
  <2> HIDE DEF wanted, Stale
  <2>6. Stale \in SUBSET Name
    BY DEF Stale
  <2>7. manifest' \in [Name -> ManifestDep] /\ SpecsInSections'
    BY <2>1, <2>5, <2>6, <1>u
  <2> QED
    BY <2>1, <2>7, <1>b
<1>4. CASE BeginUpgradeToLatest(c)
  <2>1. \A n \in Name : published[n] \in Version
    OBVIOUS
  <2>2. manifest' \in [Name -> ManifestDep] /\ SpecsInSections'
    BY <1>4, <1>u, <2>1 DEF BeginUpgradeToLatest, Updatable
  <2> QED
    BY <1>4, <2>2, <1>b DEF BeginUpgradeToLatest
<1>5. CASE BeginRefresh(c)
  BY <1>5, <1>b, EmptyTypes DEF BeginRefresh, SpecsInSections, StateType
<1>6. CASE BeginCi(c)
  BY <1>6, <1>b, EmptyTypes, VersionBounds DEF BeginCi, Touched, SpecsInSections, StateType
<1> QED
  BY <1>1, <1>2, <1>3, <1>4, <1>5, <1>6

LEMMA GotoType == ASSUME NEW label \in PC, Goto(label) PROVE pc' \in PC
  BY DEF Goto

LEMMA TypeProgress ==
    ASSUME TypeOK, SpecsInSections, Progress
    PROVE  TypeOK' /\ SpecsInSections'
<1> USE TypeSplit, TypeSplitNext
<1>o. op.command \in AnyCommand /\ op.graph \in Graph
  BY DEF OpType
<1>1. CASE Plan
  <2>1. Decide(op.command) \in Decision
    BY <1>o, DecideType
  <2>2. op' \in OpType
    BY <1>1, <2>1 DEF Plan, OpType, Decision
  <2>3. pc' \in PC
    BY <1>1, <2>1 DEF Plan, Goto, PC, Decision
  <2> QED
    BY <1>1, <2>2, <2>3 DEF Plan, SpecsInSections
<1>2. CASE Download
  BY <1>2, <1>o, PackageIdsType DEF Download, Goto, PC, SpecsInSections
<1>3. ASSUME NEW dropped \in SUBSET Name, NEW hollow \in SUBSET Name, ResolveCold(dropped, hollow)
      PROVE  TypeOK' /\ SpecsInSections'
  <2> DEFINE spec == PlannedRootDependencies(op.command)
             g == [roots |-> [n \in Name |->
                IF spec[n] = NoSpec \/ n \in Unsatisfiable(op.command) \cup dropped THEN NoDep
                ELSE [requested |-> spec[n],
                      version |-> Resolve(n, spec[n], op.graph)]],
              hollow |-> hollow]
  <2>1. \A n \in Name : spec[n] \in VersionSpec /\ Resolve(n, spec[n], op.graph) \in 0 .. MaxVersion
    BY <1>o, RootDependenciesType, ResolveType
  <2>2. g.roots \in [Name -> Dep]
    BY <2>1, EmptyTypes DEF Dep
  <2>3. g \in Graph
    BY <2>2 DEF Graph
  <2>4. op' = [op EXCEPT !.graph = g, !.faulted = @ \/ hollow # {}] /\ store' = store \cup PackageIds(g)
    BY <1>3 DEF ResolveCold
  <2> HIDE DEF g
  <2>5. op' \in OpType
    BY <2>3, <2>4 DEF OpType
  <2>6. store' \subseteq Name \X Version
    BY <2>3, <2>4, PackageIdsType
  <2>7. pc' \in PC
    BY <1>3 DEF ResolveCold, Goto, PC
  <2>8. faults' \in 0 .. MaxFaults
    BY <1>3, InstallAssumption DEF ResolveCold
  <2>9. UNCHANGED <<published, manifest, lock, state, links, marker, ran>>
    BY <1>3 DEF ResolveCold
  <2> QED
    BY <2>5, <2>6, <2>7, <2>8, <2>9 DEF SpecsInSections
<1>4. CASE ResolveFails
  BY <1>4 DEF ResolveFails, Goto, PC, SpecsInSections
<1>5. CASE WriteLockfile
  <2>1. lock' \in LockType
    BY <1>5, <1>o, LockOfType, PlanSpecsType DEF WriteLockfile
  <2>2. state' \in StateType
    BY <1>5 DEF WriteLockfile, StateType
  <2> QED
    BY <1>5, <2>1, <2>2 DEF WriteLockfile, Goto, PC, SpecsInSections
<1>6. CASE WriteManifest
  <2> DEFINE new(n) == [section |-> IF op.command.dev THEN "devDependencies" ELSE "dependencies",
                        spec |-> ManifestSpec(Additions(op.command)[n], op.graph.roots[n].version)]
  <2>1. \A n \in Name : Additions(op.command)[n] \in VersionSpec /\ op.graph.roots[n].version \in 0 .. MaxVersion
    BY <1>o, RootDependenciesType DEF Graph, Dep
  <2>2. ASSUME NEW n \in Name, Additions(op.command)[n] # NoSpec, op.graph.roots[n].version # 0
        PROVE  new(n) \in ManifestDep /\ new(n).spec # NoSpec /\ new(n).section # "none"
    BY <2>1, <2>2, SpecKinds, VersionBounds DEF ManifestSpec, ManifestDep, Section
  <2>3. manifest' = [n \in Name |-> IF Additions(op.command)[n] # NoSpec /\ op.graph.roots[n].version # 0
                                    THEN new(n) ELSE manifest[n]]
    BY <1>6 DEF WriteManifest
  <2> HIDE DEF new
  <2>4. manifest' \in [Name -> ManifestDep] /\ SpecsInSections'
    BY <2>2, <2>3 DEF SpecsInSections
  <2> QED
    BY <1>6, <2>4 DEF WriteManifest, Goto, PC
<1>t. \A n \in Name : LinkTarget(n) \in 0 .. MaxVersion
  BY <1>o, VersionBounds DEF LinkTarget, Graph, Dep
<1>s. Touched \in StateType
  BY DEF Touched, StateType
<1>7. CASE LinkPrune
  <2>1. links' \in [Name -> 0 .. MaxVersion] /\ state' \in StateType /\ pc' \in PC
    BY <1>7, <1>s, VersionBounds DEF LinkPrune, Goto, PC
  <2> QED
    BY <1>7, <2>1 DEF LinkPrune, SpecsInSections
<1>8. ASSUME NEW n \in Name, LinkRoot(n) PROVE TypeOK' /\ SpecsInSections'
  BY <1>8, <1>t, <1>s, VersionBounds DEF LinkRoot, SpecsInSections
<1>9. CASE LinkDone
  BY <1>9 DEF LinkDone, Goto, PC, SpecsInSections
<1>10. CASE WriteIntegrity
  BY <1>10, <1>o DEF WriteIntegrity, Goto, PC, SpecsInSections, Graph
<1>11. CASE RunInstallScripts
  BY <1>11, LinkedType DEF RunInstallScripts, Goto, PC, SpecsInSections
<1>12. CASE WriteInstallState
  <2>1. op.command.includeDev \in BOOLEAN
    BY <1>o DEF AnyCommand
  <2>2. state' \in StateType
    BY <1>12, <1>o, <2>1, BuildRootSpecsType, LayoutHashType DEF WriteInstallState, StateType
  <2> QED
    BY <1>12, <2>2 DEF WriteInstallState, Goto, PC, SpecsInSections
<1>13. CASE Return
  BY <1>13, IdleType DEF Return, Goto, PC, SpecsInSections
<1> QED
  BY <1>1, <1>2, <1>3, <1>4, <1>5, <1>6, <1>7, <1>8, <1>9, <1>10, <1>11, <1>12, <1>13 DEF Progress

LEMMA TypeWorld ==
    ASSUME TypeOK, SpecsInSections,
           \/ Crash \/ LoseNodeModules \/ LoseStore
           \/ \E n \in Name : Publish(n) \/ \E s \in EditSpec : Edit(n, s)
    PROVE  TypeOK' /\ SpecsInSections'
<1> USE TypeSplit, TypeSplitNext
<1>1. CASE Crash
  <2>0. op' \in OpType
    BY <1>1 DEF Crash, OpType
  <2>1. pc' \in PC /\ faults' \in 0 .. MaxFaults
    BY <1>1, InstallAssumption DEF Crash, Goto, PC
  <2>2. lock' \in LockType /\ state' \in StateType
    BY <1>1, EmptyTypes DEF Crash, StateType
  <2>3. marker' \in [kind : {"absent", "written"}, roots : [Name -> Dep]]
    BY <1>1, EmptyTypes DEF Crash
  <2>4. ran' \subseteq Name \X Version
    BY <1>1, LinkedType DEF Crash
  <2> QED
    BY <1>1, <2>0, <2>1, <2>2, <2>3, <2>4 DEF Crash, SpecsInSections
<1>2. CASE LoseNodeModules
  <2>1. state' \in StateType /\ links' \in [Name -> 0 .. MaxVersion]
    BY <1>2, VersionBounds DEF LoseNodeModules, Touched, StateType
  <2> QED
    BY <1>2, <2>1, EmptyTypes, InstallAssumption DEF LoseNodeModules, SpecsInSections
<1>3. CASE LoseStore
  BY <1>3, InstallAssumption DEF LoseStore, SpecsInSections
<1>4. ASSUME NEW n \in Name, Publish(n) PROVE TypeOK' /\ SpecsInSections'
  <2>1. published' \in [Name -> Version]
    BY <1>4, InstallAssumption DEF Publish, Version
  <2> QED
    BY <1>4, <2>1 DEF Publish, SpecsInSections
<1>5. ASSUME NEW n \in Name, NEW s \in EditSpec, Edit(n, s) PROVE TypeOK' /\ SpecsInSections'
  <2>1. s \in VersionSpec /\ s # NoSpec
    BY InstallAssumption
  <2>2. [manifest[n] EXCEPT !.spec = s] \in ManifestDep
    BY <2>1 DEF ManifestDep
  <2>3. manifest' = [manifest EXCEPT ![n] = [manifest[n] EXCEPT !.spec = s]] /\ manifest[n].section # "none"
    BY <1>5 DEF Edit
  <2>4. manifest' \in [Name -> ManifestDep] /\ SpecsInSections'
    BY <2>1, <2>2, <2>3 DEF SpecsInSections, ManifestDep
  <2> QED
    BY <1>5, <2>4 DEF Edit
<1> QED
  BY <1>1, <1>2, <1>3, <1>4, <1>5

LEMMA TypeStep == TypeOK /\ SpecsInSections /\ [Next]_vars => TypeOK' /\ SpecsInSections'
<1>1. ASSUME TypeOK, SpecsInSections, UNCHANGED vars PROVE TypeOK' /\ SpecsInSections'
  BY <1>1 DEF vars, TypeOK, SpecsInSections
<1> QED
  BY <1>1, TypeBegin, TypeProgress, TypeWorld DEF Next

\* Every variable keeps to its kind of value (install and maintenance as a whole).
THEOREM TypeCorrect == Spec => []TypeOK
<1>1. Spec => [](TypeOK /\ SpecsInSections)
  BY TypeInit, TypeStep, PTL DEF Spec
<1> QED
  BY <1>1, PTL

-----------------------------------------------------------------------------
(***************************************************************************)
(* What an install state that is still intact says of node_modules.  The   *)
(* state is the only one of the four records that is written after the     *)
(* links and the scripts, and every later change of a link spoils it; that *)
(* is why the early exit may rely on it, and the marker alone would not    *)
(* do.                                                                     *)
(***************************************************************************)

\* The links are those of the layout the state was written for, and the
\* scripts of all that is linked have run.
StateTells ==
    (state.kind = "written" /\ state.intact) =>
        /\ \A n \in Name : links[n] = IF state.layout[n].section = "none" THEN 0
                                       ELSE state.layout[n].version
        /\ Linked \subseteq ran

\* After prune_stale_root_entries nothing is linked that is not wanted.
Pruned == pc = "wire" => \A n \in Name : LinkTarget(n) = 0 => links[n] = 0

\* From the end of linker::link on, the links are the wanted ones; the early
\* exit gets there without linking.
LinksDone ==
    pc \in {"marker", "scripts", "state", "done"} => \A n \in Name : links[n] = LinkTarget(n)

\* The early exit skips the scripts of the dependencies: they have run.
ScriptsDone ==
    /\ pc \in {"state", "done"} => Linked \subseteq ran
    /\ pc = "scripts" /\ op.scenario = "Hot" => Linked \subseteq ran

\* Only the early exit goes straight from the decision to the scripts.
NotHot == pc \in {"download", "resolve", "lock", "manifest", "link", "wire", "marker"} => op.scenario # "Hot"

InstallInv == /\ TypeOK /\ SpecsInSections /\ NotHot
              /\ StateTells /\ Pruned /\ LinksDone /\ ScriptsDone

\* An early exit has found a state that is intact and whose layout is that of
\* the manifest and the graph (detect_from_graph, layout_valid).
LEMMA HotNeedsLayout ==
    ASSUME NEW c, Decide(c).scenario = "Hot"
    PROVE  c.includeDev /\ LayoutValid(Decide(c).graph)
<1>1. \A g : ColdWith(g).scenario # "Hot"
  BY DEF ColdWith
<1>2. \A g : /\ DetectFromGraph(c, g, LayoutValid(g), TRUE).graph = g
             /\ DetectFromGraph(c, g, LayoutValid(g), FALSE).graph = g
             /\ DetectFromGraph(c, g, LayoutValid(g), TRUE).scenario = "Hot" => LayoutValid(g)
             /\ DetectFromGraph(c, g, LayoutValid(g), FALSE).scenario = "Hot" => LayoutValid(g)
  BY DEF DetectFromGraph
<1>3. c.includeDev /\ Decide(c) = DetectInstallScenario(c)
  BY <1>1 DEF Decide
<1>4. DetectInstallScenario(c).scenario = "Hot" => LayoutValid(DetectInstallScenario(c).graph)
  BY <1>1, <1>2 DEF DetectInstallScenario
<1> QED
  BY <1>3, <1>4

LEMMA LayoutTells ==
    ASSUME TypeOK, StateTells, NEW g \in Graph, LayoutValid(g)
    PROVE  /\ \A n \in Name : links[n] = IF LinkWanted(manifest, g, TRUE, n)
                                         THEN g.roots[n].version ELSE 0
           /\ Linked \subseteq ran
<1>1. state.layout = LayoutHash(manifest, g, TRUE) /\ state.kind = "written" /\ state.intact
  BY DEF LayoutValid
<1>2. ASSUME NEW n \in Name
      PROVE  links[n] = IF LinkWanted(manifest, g, TRUE, n) THEN g.roots[n].version ELSE 0
  <2>1. state.layout[n] = [version |-> g.roots[n].version,
                           section |-> IF LinkWanted(manifest, g, TRUE, n)
                                       THEN manifest[n].section ELSE "none"]
    BY <1>1 DEF LayoutHash
  <2>2. LinkWanted(manifest, g, TRUE, n) => manifest[n].section # "none"
    BY DEF LinkWanted
  <2>3. links[n] = IF state.layout[n].section = "none" THEN 0 ELSE state.layout[n].version
    BY <1>1 DEF StateTells
  <2>4. CASE LinkWanted(manifest, g, TRUE, n)
    BY <2>1, <2>2, <2>3, <2>4
  <2>5. CASE ~LinkWanted(manifest, g, TRUE, n)
    BY <2>1, <2>3, <2>5
  <2> QED
    BY <2>4, <2>5
<1> QED
  BY <1>1, <1>2 DEF StateTells

LEMMA InstallInvInit == Init => InstallInv
  BY TypeInit DEF Init, InstallInv, NotHot, StateTells, Pruned, LinksDone, ScriptsDone, NoState

\* Nothing that StateTells speaks of changes.
LEMMA StateTellsKept ==
    ASSUME StateTells, links' = links, ran \subseteq ran',
           \/ state' = state \/ state' = [state EXCEPT !.current = FALSE],
           TypeOK
    PROVE  StateTells'
<1>1. /\ state'.kind = state.kind /\ state'.intact = state.intact /\ state'.layout = state.layout
  BY TypeSplit DEF StateType
<1> QED
  BY <1>1 DEF StateTells, Linked

LEMMA StateSpoilt ==
    ASSUME TypeOK, state' = Touched
    PROVE  StateTells'
  BY TypeSplit DEF StateType, Touched, StateTells

LEMMA NotHotStep == TypeOK /\ NotHot /\ [Next]_vars => NotHot'
<1> SUFFICES ASSUME TypeOK, NotHot, [Next]_vars PROVE NotHot'
  OBVIOUS
<1>1. CASE Plan
  <2>1. op.command \in AnyCommand /\ op \in OpType
    BY TypeSplit DEF OpType
  <2>2. Decide(op.command) \in Decision
    BY <2>1, DecideType
  <2> QED
    BY <1>1, <2>1, <2>2 DEF Plan, Goto, NotHot, OpType, Decision
<1>2. ASSUME NEW dropped \in SUBSET Name, NEW hollow \in SUBSET Name, ResolveCold(dropped, hollow)
      PROVE  NotHot'
  <2>1. op'.scenario = op.scenario /\ pc = "resolve"
    BY <1>2, TypeSplit DEF ResolveCold, OpType
  <2> QED
    BY <2>1 DEF NotHot
<1>3. ASSUME NEW c \in Command,
             \/ BeginInstall(c) \/ BeginRemove(c) \/ BeginUpgrade(c)
             \/ BeginUpgradeToLatest(c) \/ BeginRefresh(c) \/ BeginCi(c)
      PROVE  NotHot'
  BY <1>3 DEF BeginInstall, BeginRemove, BeginUpgrade, BeginUpgradeToLatest, BeginRefresh,
              BeginCi, Begin, Goto, NotHot
<1>4. CASE \/ Download \/ ResolveFails \/ WriteLockfile \/ WriteManifest
           \/ LinkPrune \/ (\E n \in Name : LinkRoot(n)) \/ LinkDone
           \/ WriteIntegrity \/ RunInstallScripts \/ WriteInstallState
  <2>1. op' = op /\ (pc' \in {"failed", "scripts", "state", "done"} \/ pc' = pc
                    \/ pc \in {"download", "resolve", "lock", "manifest", "link", "wire"})
    BY <1>4 DEF Download, ResolveFails, WriteLockfile, WriteManifest, LinkPrune, LinkRoot, LinkDone,
                WriteIntegrity, RunInstallScripts, WriteInstallState, Goto
  <2> QED
    BY <2>1 DEF NotHot
<1>5. CASE Return \/ Crash
  BY <1>5 DEF Return, Crash, Goto, NotHot
<1>6. CASE \/ LoseNodeModules \/ LoseStore \/ UNCHANGED vars
           \/ \E n \in Name : Publish(n) \/ \E s \in EditSpec : Edit(n, s)
  BY <1>6 DEF LoseNodeModules, LoseStore, Publish, Edit, vars, NotHot
<1> QED
  BY <1>1, <1>2, <1>3, <1>4, <1>5, <1>6 DEF Next, Progress

LEMMA InstallInvStep == InstallInv /\ [Next]_vars => InstallInv'
<1> SUFFICES ASSUME InstallInv, [Next]_vars
             PROVE  StateTells' /\ Pruned' /\ LinksDone' /\ ScriptsDone'
  BY TypeStep, NotHotStep DEF InstallInv
<1> USE DEF InstallInv
<1> DEFINE Goal == StateTells' /\ Pruned' /\ LinksDone' /\ ScriptsDone'
<1>o. op.command \in AnyCommand /\ op.graph \in Graph
  BY TypeSplit DEF OpType
\* Steps after which none of the control points the invariant names is reached
<1>q. ASSUME pc' \in {"idle", "plan", "download", "resolve", "lock", "manifest", "link", "failed"},
             StateTells'
      PROVE  Goal
  BY <1>q DEF Pruned, LinksDone, ScriptsDone
<1>1. ASSUME NEW c \in Command,
             \/ BeginInstall(c) \/ BeginRemove(c) \/ BeginUpgrade(c)
             \/ BeginUpgradeToLatest(c) \/ BeginRefresh(c) \/ BeginCi(c)
      PROVE  Goal
  <2>1. Begin(c) /\ pc' = "plan" /\ ran' = ran
    BY <1>1 DEF BeginInstall, BeginRemove, BeginUpgrade, BeginUpgradeToLatest, BeginRefresh,
                BeginCi, Begin, Goto
  <2>2. CASE BeginCi(c)
    BY <2>1, <2>2, <1>q, StateSpoilt DEF BeginCi
  <2>3. CASE ~BeginCi(c)
    <3>1. links' = links /\ (state' = state \/ state' = [state EXCEPT !.current = FALSE])
      BY <1>1, <2>3 DEF BeginInstall, BeginRemove, BeginUpgrade, BeginUpgradeToLatest, BeginRefresh
    <3> QED
      BY <2>1, <3>1, <1>q, StateTellsKept
  <2> QED
    BY <2>2, <2>3
<1>2. CASE Plan
  <2>1. StateTells'
    BY <1>2, StateTellsKept DEF Plan
  <2>2. CASE FrozenRefuses(op.command)
    BY <1>2, <2>1, <2>2, <1>q DEF Plan, Goto
  <2>3. CASE ~FrozenRefuses(op.command) /\ Decide(op.command).scenario = "Hot"
    <3> DEFINE d == Decide(op.command)
    <3>1. /\ op' = [op EXCEPT !.scenario = d.scenario, !.graph = d.graph, !.hotState = d.hotState]
          /\ pc' = "scripts" /\ links' = links /\ manifest' = manifest /\ ran' = ran
      BY <1>2, <2>3 DEF Plan, Goto
    <3>2. op'.graph = d.graph /\ op'.command = op.command /\ d.graph \in Graph
      BY <3>1, <1>o, DecideType, TypeSplit DEF OpType, Decision
    <3>3. op.command.includeDev = TRUE /\ LayoutValid(d.graph)
      BY <2>3, <1>o, HotNeedsLayout DEF AnyCommand
    <3> HIDE DEF d
    <3>4. /\ \A n \in Name : links[n] = IF LinkWanted(manifest, d.graph, TRUE, n)
                                         THEN d.graph.roots[n].version ELSE 0
          /\ Linked \subseteq ran
      BY <3>2, <3>3, LayoutTells
    <3>5. \A n \in Name : links'[n] = LinkTarget(n)'
      BY <3>1, <3>2, <3>3, <3>4 DEF LinkTarget, LinkWanted
    <3> QED
      BY <2>1, <3>1, <3>4, <3>5 DEF Pruned, LinksDone, ScriptsDone, Linked
  <2>4. CASE ~FrozenRefuses(op.command) /\ Decide(op.command).scenario # "Hot"
    <3>1. pc' \in {"link", "download", "resolve"}
      BY <1>2, <2>4, <1>o, DecideType DEF Plan, Goto, Decision
    <3> QED
      BY <2>1, <3>1, <1>q
  <2> QED
    BY <2>2, <2>3, <2>4
<1>3. CASE Download
  BY <1>3, <1>q, StateTellsKept DEF Download, Goto
<1>4. ASSUME NEW dropped \in SUBSET Name, NEW hollow \in SUBSET Name, ResolveCold(dropped, hollow)
      PROVE  Goal
  <2>1. UNCHANGED <<state, links, ran>> /\ pc' \in {"lock", "manifest"}
    BY <1>4 DEF ResolveCold, Goto
  <2> QED
    BY <2>1, <1>q, StateTellsKept
<1>5. CASE ResolveFails
  BY <1>5, <1>q, StateTellsKept DEF ResolveFails, Goto
<1>6. CASE WriteLockfile
  BY <1>6, <1>q, StateTellsKept DEF WriteLockfile, Goto
<1>7. CASE WriteManifest
  <2>1. UNCHANGED <<state, links, ran>> /\ pc' = "link"
    BY <1>7 DEF WriteManifest, Goto
  <2> QED
    BY <2>1, <1>q, StateTellsKept
<1>8. CASE LinkPrune
  <2>1. CASE op.graph.hollow # {}
    BY <1>8, <2>1, <1>q, StateTellsKept DEF LinkPrune, Goto
  <2>2. CASE op.graph.hollow = {}
    <3>1. /\ links' = [n \in Name |-> IF LinkTarget(n) = 0 THEN 0 ELSE links[n]]
          /\ state' = IF links' = links THEN state ELSE Touched
          /\ pc' = "wire" /\ UNCHANGED <<manifest, op, ran>>
      BY <1>8, <2>2 DEF LinkPrune, Goto
    <3>2. StateTells'
      <4>1. CASE links' = links
        BY <3>1, <4>1, StateTellsKept
      <4>2. CASE links' # links
        BY <3>1, <4>2, StateSpoilt
      <4> QED
        BY <4>1, <4>2
    <3>3. Pruned'
      BY <3>1 DEF Pruned, LinkTarget
    <3> QED
      BY <3>1, <3>2, <3>3 DEF LinksDone, ScriptsDone
  <2> QED
    BY <2>1, <2>2
<1>9. ASSUME NEW n \in Name, LinkRoot(n) PROVE Goal
  <2>1. StateTells'
    BY <1>9, StateSpoilt DEF LinkRoot
  <2>2. Pruned'
    BY <1>9, TypeSplit DEF LinkRoot, Pruned, LinkTarget
  <2> QED
    BY <1>9, <2>1, <2>2 DEF LinkRoot, LinksDone, ScriptsDone
<1>10. CASE LinkDone
  <2>1. StateTells'
    BY <1>10, StateTellsKept DEF LinkDone
  <2>2. LinksDone'
    BY <1>10 DEF LinkDone, Pruned, LinksDone, LinkTarget
  <2> QED
    BY <1>10, <2>1, <2>2 DEF LinkDone, Goto, Pruned, ScriptsDone
<1>11. CASE WriteIntegrity
  <2>1. StateTells'
    BY <1>11, StateTellsKept DEF WriteIntegrity
  <2>2. LinksDone'
    BY <1>11 DEF WriteIntegrity, Goto, LinksDone, LinkTarget
  <2>3. op.scenario # "Hot"
    BY <1>11 DEF WriteIntegrity, NotHot
  <2> QED
    BY <1>11, <2>1, <2>2, <2>3 DEF WriteIntegrity, Goto, Pruned, ScriptsDone
<1>12. CASE RunInstallScripts
  <2>1. StateTells'
    BY <1>12, StateTellsKept DEF RunInstallScripts
  <2>2. Linked' = Linked /\ Linked \subseteq ran'
    BY <1>12 DEF RunInstallScripts, ScriptsDone, Linked
  <2>3. LinksDone'
    BY <1>12 DEF RunInstallScripts, LinksDone, LinkTarget
  <2> QED
    BY <1>12, <2>1, <2>2, <2>3 DEF RunInstallScripts, Goto, Pruned, ScriptsDone
<1>13. CASE WriteInstallState
  <2>0. UNCHANGED <<manifest, links, ran, op>> /\ pc' = "done" /\ pc = "state"
    BY <1>13 DEF WriteInstallState, Goto
  <2>1. \A n \in Name : links[n] = LinkTarget(n)
    BY <2>0 DEF LinksDone
  <2>2. StateTells'
    <3>1. CASE state' = state
      BY <3>1, <2>0, StateTellsKept
    <3>2. CASE state' # state
      <4>1. state'.layout = LayoutHash(manifest, op.graph, op.command.includeDev)
        BY <1>13, <3>2 DEF WriteInstallState
      <4>2. \A n \in Name : links[n] = IF state'.layout[n].section = "none" THEN 0
                                       ELSE state'.layout[n].version
        BY <4>1, <2>1 DEF LayoutHash, LinkTarget, LinkWanted
      <4> QED
        BY <4>2, <2>0 DEF StateTells, ScriptsDone, Linked
    <3> QED
      BY <3>1, <3>2
  <2> QED
    BY <2>0, <2>1, <2>2 DEF Pruned, LinksDone, ScriptsDone, LinkTarget, Linked
<1>14. CASE Return
  BY <1>14, <1>q, StateTellsKept DEF Return, Goto
<1>15. CASE Crash
  <2>1. StateTells'
    BY <1>15, StateTellsKept DEF Crash
  <2> QED
    BY <1>15, <2>1, <1>q DEF Crash, Goto
<1>16. CASE LoseNodeModules
  BY <1>16, <1>q, StateSpoilt DEF LoseNodeModules
<1>17. CASE LoseStore
  BY <1>17, <1>q, StateTellsKept DEF LoseStore
<1>18. ASSUME NEW n \in Name, Publish(n) \/ \E s \in EditSpec : Edit(n, s) PROVE Goal
  <2>1. UNCHANGED <<state, links, ran, pc>> /\ pc = "idle"
    BY <1>18 DEF Publish, Edit
  <2> QED
    BY <2>1, <1>q, StateTellsKept
<1>19. CASE UNCHANGED vars
  BY <1>19 DEF vars, StateTells, Pruned, LinksDone, ScriptsDone, Linked, LinkTarget
<1> QED
  BY <1>1, <1>2, <1>3, <1>4, <1>5, <1>6, <1>7, <1>8, <1>9, <1>10, <1>11, <1>12, <1>13, <1>14,
     <1>15, <1>16, <1>17, <1>18, <1>19 DEF Next, Progress

\* An install that reports success has linked exactly the direct dependencies of the
\* manifest at the versions of its graph, and the scripts of all of them have run, whatever
\* it skipped and whatever killed commands left behind (finalize_install, the early exit).
THEOREM InstalledCorrect == Spec => []Installed
<1>1. Spec => []InstallInv
  BY InstallInvInit, InstallInvStep, PTL DEF Spec
<1>2. InstallInv => Installed
  BY DEF InstallInv, Installed, LinksMatch, ScriptsRun, LinksDone, ScriptsDone
<1> QED
  BY <1>1, <1>2, PTL

-----------------------------------------------------------------------------
(***************************************************************************)
(* What one command leaves behind does not stop the next.  An install      *)
(* fails of itself in linker::link, over a graph with a dangling edge, and *)
(* it gets such a graph from the lockfile it found or from a resolution of *)
(* its own that lost a package on the way.  An install state that stands   *)
(* in for the lockfile has no dangling edge that the lockfile has not.     *)
(***************************************************************************)

StateNotHollow ==
    state.kind = "written" /\ state.current => state.graph.hollow \subseteq lock.hollow

GraphNotHollow ==
    /\ pc = "plan" => lock.hollow \subseteq op.before.hollow
    /\ pc \in {"download", "lock", "manifest", "link"} /\ ~op.faulted
          => op.graph.hollow \subseteq op.before.hollow
    /\ pc \in {"wire", "marker"} => op.graph.hollow = {}
    /\ pc \in {"scripts", "state"} => op.graph.hollow \subseteq lock.hollow

RecoverInv == TypeOK /\ SpecsInSections /\ StateNotHollow /\ GraphNotHollow /\ Recovers

\* Where nothing is to be resolved the graph is the lockfile's or stands in for it.
LEMMA DecideNotHollow ==
    ASSUME TypeOK, StateNotHollow, NEW c, Decide(c).scenario # "Cold"
    PROVE  Decide(c).graph.hollow \subseteq lock.hollow
<1>1. \A g : ColdWith(g).scenario = "Cold"
  BY DEF ColdWith
<1>2. \A g : /\ DetectFromGraph(c, g, LayoutValid(g), TRUE).graph = g
             /\ DetectFromGraph(c, g, LayoutValid(g), FALSE).graph = g
  BY DEF DetectFromGraph
<1>3. Decide(c) = DetectInstallScenario(c)
  BY <1>1 DEF Decide
<1>4. ToGraph(lock).hollow = lock.hollow
  BY DEF ToGraph
<1>5. CASE state.kind = "written" /\ state.current
  BY <1>1, <1>2, <1>3, <1>5 DEF DetectInstallScenario, StateNotHollow
<1>6. CASE ~(state.kind = "written" /\ state.current)
  BY <1>1, <1>2, <1>3, <1>4, <1>6 DEF DetectInstallScenario
<1> QED
  BY <1>5, <1>6

LEMMA RecoverInvInit == Init => RecoverInv
  BY TypeInit DEF Init, RecoverInv, StateNotHollow, GraphNotHollow, Recovers, NoState

\* No step but those that fail ends at "failed", and the lockfile is written anew or
\* deleted only together with the install state's claim to stand in for it.
LEMMA RecoverKept ==
    ASSUME TypeOK, StateNotHollow,
           \/ state' = state /\ lock' = lock
           \/ state' = [state EXCEPT !.current = FALSE]
           \/ state' = Touched /\ lock' = lock
    PROVE  StateNotHollow'
<1>1. CASE state' = state /\ lock' = lock
  BY <1>1 DEF StateNotHollow
<1>2. CASE state' = [state EXCEPT !.current = FALSE]
  BY <1>2, TypeSplit DEF StateNotHollow, StateType
<1>3. CASE state' = Touched /\ lock' = lock
  <2>1. state'.kind = state.kind /\ state'.current = state.current /\ state'.graph = state.graph
    BY <1>3, TypeSplit DEF Touched, StateType
  <2> QED
    BY <1>3, <2>1 DEF StateNotHollow
<1> QED
  BY <1>1, <1>2, <1>3

LEMMA RecoverInvStep == RecoverInv /\ [Next]_vars => RecoverInv'
<1> SUFFICES ASSUME RecoverInv, [Next]_vars
             PROVE  StateNotHollow' /\ GraphNotHollow' /\ Recovers'
  BY TypeStep DEF RecoverInv
<1> USE DEF RecoverInv
<1> DEFINE Goal == StateNotHollow' /\ GraphNotHollow' /\ Recovers'
<1>o. op \in OpType /\ op.command \in AnyCommand /\ op.graph \in Graph
  BY TypeSplit DEF OpType
<1>1. ASSUME NEW c \in Command,
             \/ BeginInstall(c) \/ BeginRemove(c) \/ BeginUpgrade(c)
             \/ BeginUpgradeToLatest(c) \/ BeginRefresh(c) \/ BeginCi(c)
      PROVE  Goal
  <2>1. pc' = "plan" /\ op'.before = lock
    BY <1>1, IdleType DEF BeginInstall, BeginRemove, BeginUpgrade, BeginUpgradeToLatest, BeginRefresh,
                BeginCi, Begin, Goto, OpType
  <2>2. \/ state' = state /\ lock' = lock
        \/ state' = [state EXCEPT !.current = FALSE] /\ lock' = NoLock
        \/ state' = Touched /\ lock' = lock
    BY <1>1 DEF BeginInstall, BeginRemove, BeginUpgrade, BeginUpgradeToLatest, BeginRefresh, BeginCi
  <2>3. lock'.hollow \subseteq lock.hollow
    BY <2>2 DEF NoLock
  <2> QED
    BY <2>1, <2>2, <2>3, RecoverKept DEF GraphNotHollow, Recovers
<1>2. CASE Plan
  <2>1. StateNotHollow'
    BY <1>2, RecoverKept DEF Plan
  <2>2. CASE FrozenRefuses(op.command)
    BY <1>2, <2>1, <2>2 DEF Plan, Goto, FrozenRefuses, GraphNotHollow, Recovers
  <2>3. CASE ~FrozenRefuses(op.command)
    <3> DEFINE d == Decide(op.command)
    <3>1. d \in Decision
      BY <1>o, DecideType
    <3>2. /\ op' = [op EXCEPT !.scenario = d.scenario, !.graph = d.graph, !.hotState = d.hotState]
          /\ pc' = CASE d.scenario = "Hot" -> "scripts"
                     [] d.scenario = "WarmLinkOnly" -> "link"
                     [] d.scenario = "WarmPartialCache" -> "download"
                     [] d.scenario = "Cold" -> "resolve"
          /\ lock' = lock /\ pc = "plan"
      BY <1>2, <2>3 DEF Plan, Goto
    <3>3. d.scenario # "Cold" => d.graph.hollow \subseteq lock.hollow
      BY DecideNotHollow
    <3> HIDE DEF d
    <3>4. op'.graph = d.graph /\ op'.before = op.before
      BY <3>1, <3>2, <1>o DEF OpType, Decision
    <3>5. pc' \in {"scripts", "link", "download", "resolve"} /\ (pc' # "resolve" => d.scenario # "Cold")
      BY <3>1, <3>2 DEF Decision
    <3>6. lock.hollow \subseteq op.before.hollow
      BY <3>2 DEF GraphNotHollow
    <3>7. GraphNotHollow'
      BY <3>2, <3>3, <3>4, <3>5, <3>6 DEF GraphNotHollow
    <3> QED
      BY <2>1, <3>5, <3>7 DEF Recovers
  <2> QED
    BY <2>2, <2>3
<1>3. CASE Download
  BY <1>3, RecoverKept DEF Download, Goto, GraphNotHollow, Recovers
<1>4. ASSUME NEW dropped \in SUBSET Name, NEW hollow \in SUBSET Name, ResolveCold(dropped, hollow)
      PROVE  Goal
  <2>1. UNCHANGED <<state, lock>> /\ pc' \in {"lock", "manifest"}
    BY <1>4 DEF ResolveCold, Goto
  <2>2. op'.graph.hollow = hollow /\ op'.faulted = (op.faulted \/ hollow # {})
    BY <1>4, <1>o DEF ResolveCold, OpType
  <2> QED
    BY <2>1, <2>2, RecoverKept DEF GraphNotHollow, Recovers
<1>5. CASE ResolveFails
  <2>0. UNCHANGED <<published, manifest, lock, op>>
    BY <1>5 DEF ResolveFails
  <2>1. Unsatisfiable(op.command)' = Unsatisfiable(op.command) /\ OptionalRoots(op.command)' = OptionalRoots(op.command)
    BY <2>0 DEF Unsatisfiable, OptionalRoots, PlannedRootDependencies, RootDependencies,
                PlanSpecs, Resolve, SelectVersion
  <2> QED
    BY <1>5, <2>1, RecoverKept DEF ResolveFails, Goto, GraphNotHollow, Recovers
<1>6. CASE WriteLockfile
  BY <1>6, RecoverKept DEF WriteLockfile, Goto, GraphNotHollow, Recovers
<1>7. CASE WriteManifest
  <2>1. UNCHANGED <<state, lock, op>> /\ pc' = "link" /\ pc = "manifest"
    BY <1>7 DEF WriteManifest, Goto
  <2> QED
    BY <2>1, RecoverKept DEF GraphNotHollow, Recovers
<1>8. CASE LinkPrune
  <2>1. UNCHANGED <<lock, op>> /\ (state' = state \/ state' = Touched) /\ pc = "link"
    BY <1>8 DEF LinkPrune
  <2>2. pc' = IF op.graph.hollow # {} THEN "failed" ELSE "wire"
    BY <1>8 DEF LinkPrune, Goto
  <2> QED
    BY <2>1, <2>2, RecoverKept DEF GraphNotHollow, Recovers
<1>9. ASSUME NEW n \in Name, LinkRoot(n) PROVE Goal
  BY <1>9, RecoverKept DEF LinkRoot, GraphNotHollow, Recovers
<1>10. CASE LinkDone
  BY <1>10, RecoverKept DEF LinkDone, Goto, GraphNotHollow, Recovers
<1>11. CASE WriteIntegrity
  BY <1>11, RecoverKept DEF WriteIntegrity, Goto, GraphNotHollow, Recovers
<1>12. CASE RunInstallScripts
  BY <1>12, RecoverKept DEF RunInstallScripts, Goto, GraphNotHollow, Recovers
<1>13. CASE WriteInstallState
  <2>1. UNCHANGED <<lock, op>> /\ pc' = "done" /\ pc = "state"
    BY <1>13 DEF WriteInstallState, Goto
  <2>2. StateNotHollow'
    <3>1. CASE state' = state
      BY <2>1, <3>1, RecoverKept
    <3>2. CASE state' # state
      <4>1. state'.graph = op.graph
        BY <1>13, <3>2 DEF WriteInstallState
      <4> QED
        BY <2>1, <4>1 DEF StateNotHollow, GraphNotHollow
    <3> QED
      BY <3>1, <3>2
  <2> QED
    BY <2>1, <2>2 DEF GraphNotHollow, Recovers
<1>14. CASE Return
  BY <1>14, RecoverKept DEF Return, Goto, GraphNotHollow, Recovers
<1>15. CASE Crash
  <2>1. op'.faulted /\ pc' = "failed"
    BY <1>15, <1>o DEF Crash, Goto, OpType
  <2>2. StateNotHollow'
    BY <1>15, RecoverKept DEF Crash
  <2> QED
    BY <2>1, <2>2 DEF GraphNotHollow, Recovers
<1>16. CASE LoseNodeModules \/ LoseStore
  BY <1>16, RecoverKept DEF LoseNodeModules, LoseStore, GraphNotHollow, Recovers
<1>17. ASSUME NEW n \in Name, Publish(n) \/ \E s \in EditSpec : Edit(n, s) PROVE Goal
  <2>1. UNCHANGED <<state, lock, pc, op>> /\ pc = "idle"
    BY <1>17 DEF Publish, Edit
  <2> QED
    BY <2>1, RecoverKept DEF GraphNotHollow, Recovers
<1>18. CASE UNCHANGED vars
  BY <1>18 DEF vars, StateNotHollow, GraphNotHollow, Recovers, Unsatisfiable, OptionalRoots,
               PlannedRootDependencies, RootDependencies, PlanSpecs, Resolve, SelectVersion
<1> QED
  BY <1>1, <1>2, <1>3, <1>4, <1>5, <1>6, <1>7, <1>8, <1>9, <1>10, <1>11, <1>12, <1>13, <1>14,
     <1>15, <1>16, <1>17, <1>18 DEF Next, Progress

\* A plain install that meets no fault of its own fails only if no version fits, whatever
\* lockfile, links and install state earlier commands left when they were killed, as long as
\* the lockfile has no dangling edge (detect_install_scenario, resolve_cold_install).
THEOREM RecoversCorrect == Spec => []Recovers
<1>1. Spec => []RecoverInv
  BY RecoverInvInit, RecoverInvStep, PTL DEF Spec
<1>2. RecoverInv => Recovers
  BY DEF RecoverInv
<1> QED
  BY <1>1, <1>2, PTL

-----------------------------------------------------------------------------
(***************************************************************************)
(* Pins.  Without --production every install that resolves writes the      *)
(* lockfile, and so an install state that stands in for the lockfile has   *)
(* its versions.  A production install leaves a state without the dev      *)
(* dependencies, and the next install resolves those anew: the theorem     *)
(* leaves it out.                                                          *)
(***************************************************************************)

NoProduction == \A c \in Command : c.includeDev

SameVersions(g, l) ==
    /\ \A n \in Name : g.roots[n].version = l.roots[n].version
    /\ g.hollow = l.hollow

\* The install state that belongs to the lockfile has its graph.
StateOfLock ==
    state.kind = "written" /\ state.current =>
        lock.kind = "written" /\ SameVersions(state.graph, lock)

\* So has the command, once the lockfile is written or needs no writing.
GraphOfLock ==
    pc \in {"download", "manifest", "link", "wire", "marker", "scripts", "state"}
        => lock.kind = "written" /\ SameVersions(op.graph, lock)

\* Does PinsHold speak of the command in progress?
Pinning == /\ op.command.mode # "No" /\ op.command.cmd # "refresh"
           /\ op.before.kind = "written"

\* Until the lockfile is written it is the one that the command found, and what
\* is resolved is resolved with its graph as the seed.
LockAsFound ==
    /\ pc \in {"plan", "resolve", "lock"} /\ op.command.cmd # "refresh" => lock = op.before
    /\ pc = "resolve" /\ Pinning => SameVersions(op.graph, op.before)

Pin(n) ==
    LET spec == PlanSpecs(op.command)[n].spec
        old == op.before.roots[n]
    IN  old.requested = spec /\ Matches(spec, old.version) /\ n \notin op.before.hollow

PinsKeptSoFar ==
    Pinning => \A n \in Name \ op.command.name : Pin(n) =>
        /\ pc = "lock" => op.graph.roots[n].version = op.before.roots[n].version
        /\ pc \in {"download", "manifest", "link", "wire", "marker", "scripts", "state", "done"}
              => lock.roots[n].version = op.before.roots[n].version

PinsInv == /\ TypeOK /\ SpecsInSections /\ op.command.includeDev
           /\ StateOfLock /\ GraphOfLock /\ LockAsFound /\ PinsKeptSoFar

LEMMA PinFrame ==
    ASSUME NEW n \in Name, op'.command = op.command, op'.before = op.before,
           manifest'[n] = manifest[n]
    PROVE  Pin(n)' <=> Pin(n)
<1>1. PlanSpecs(op.command)'[n] = PlanSpecs(op.command)[n]
  BY DEF PlanSpecs, BuildRootSpecs, ApplySpecs
<1> QED
  BY <1>1 DEF Pin

LEMMA MatchesSome ==
    ASSUME NEW spec \in VersionSpec, NEW v, Matches(spec, v), v \in 0 .. MaxVersion
    PROVE  v # 0 /\ spec # NoSpec
<1>1. spec.kind \in {"caret", "exact"} /\ spec.base \in Version
  BY SpecKinds DEF Matches
<1>2. spec # NoSpec
  BY <1>1 DEF NoSpec
<1>3. spec.base \in Nat /\ spec.base # 0 /\ v \in Nat
  BY <1>1, VersionBounds, InstallAssumption
<1> QED
  BY <1>2, <1>3 DEF Matches

\* A resolution keeps a dependency whose spec the lockfile has.
LEMMA ResolveKeepsPins ==
    ASSUME PinsInv, Pinning, pc = "resolve", NEW n \in Name \ op.command.name, Pin(n)
    PROVE  LET spec == PlannedRootDependencies(op.command)[n]
           IN  /\ spec # NoSpec
               /\ Seeded(n, spec, op.graph)
               /\ Resolve(n, spec, op.graph) = op.before.roots[n].version
<1> DEFINE c == op.command
           v == op.before.roots[n].version
           spec == PlannedRootDependencies(c)[n]
<1>0. op.command \in AnyCommand /\ op.before \in LockType
  BY TypeSplit DEF PinsInv, OpType
<1>1. lock = op.before /\ SameVersions(op.graph, op.before)
  BY DEF PinsInv, LockAsFound, Pinning
<1>2. PlanSpecs(c)[n].spec \in VersionSpec /\ v \in 0 .. MaxVersion /\ spec \in VersionSpec
  BY <1>0, PlanSpecsType, RootDependenciesType DEF PinsInv, RootSpec, LockType, LockDep
<1>3. Matches(PlanSpecs(c)[n].spec, v) /\ n \notin op.before.hollow
  BY DEF Pin
<1>4. RootDependencies(c)[n] = PlanSpecs(c)[n].spec
  BY DEF RootDependencies, Additions
<1>5. Matches(Exact(v), v)
  BY DEF Matches, Exact
<1>6. spec = Exact(v) \/ spec = PlanSpecs(c)[n].spec
  BY <1>1, <1>4 DEF PlannedRootDependencies
<1>7. Matches(spec, v)
  BY <1>3, <1>5, <1>6
<1>8. v # 0 /\ spec # NoSpec
  BY <1>2, <1>7, MatchesSome
<1>9. op.graph.roots[n].version = v /\ n \notin op.graph.hollow
  BY <1>1, <1>3 DEF SameVersions
<1> QED
  BY <1>7, <1>8, <1>9 DEF Seeded, Resolve

\* The seed of a resolution, and the graph of an install that needs none
LEMMA DecideSeed ==
    ASSUME PinsInv, pc = "plan", ~FrozenRefuses(op.command)
    PROVE  LET d == Decide(op.command)
           IN  /\ d.scenario # "Cold" => lock.kind = "written" /\ SameVersions(d.graph, lock)
               /\ Pinning => SameVersions(d.graph, op.before)
<1> DEFINE c == op.command
<1>0. lock \in LockType /\ c \in AnyCommand
  BY TypeSplit DEF PinsInv, OpType
<1>1. /\ \A g : ColdWith(g).scenario = "Cold" /\ ColdWith(g).graph = g
      /\ \A g : /\ DetectFromGraph(c, g, LayoutValid(g), TRUE).graph = g
                /\ DetectFromGraph(c, g, LayoutValid(g), FALSE).graph = g
  BY DEF DetectFromGraph, ColdWith
<1>2. SameVersions(ToGraph(lock), lock)
  BY <1>0 DEF SameVersions, ToGraph, NoDep
<1>3. state.kind = "written" /\ state.current => lock.kind = "written" /\ SameVersions(state.graph, lock)
  BY DEF PinsInv, StateOfLock
<1>4. lock.kind \in {"absent", "torn", "written"}
  BY <1>0 DEF LockType
<1>5. DetectInstallScenario(c).scenario # "Cold" =>
         lock.kind = "written" /\ SameVersions(DetectInstallScenario(c).graph, lock)
  BY <1>1, <1>2, <1>3, <1>4 DEF DetectInstallScenario
<1>6. lock.kind = "written" => SameVersions(DetectInstallScenario(c).graph, lock)
  BY <1>1, <1>2, <1>3 DEF DetectInstallScenario
<1>7. Decide(c).scenario # "Cold" => lock.kind = "written" /\ SameVersions(Decide(c).graph, lock)
  BY <1>1, <1>5 DEF Decide
<1>8. ASSUME Pinning PROVE SameVersions(Decide(c).graph, op.before)
  <2>1. lock = op.before /\ lock.kind = "written" /\ c.mode # "No" /\ c.includeDev
    BY <1>8 DEF PinsInv, LockAsFound, Pinning
  <2>2. CASE ~HasAdditions(c) /\ c.mode # "Fix"
    BY <2>1, <2>2, <1>6 DEF Decide
  <2>3. CASE HasAdditions(c) \/ c.mode = "Fix"
    <3>1. Decide(c).graph = ExplicitSeed(c)
      BY <2>3, <1>1 DEF Decide
    <3>2. SameVersions(ExplicitSeed(c), lock)
      BY <2>1, <2>3, <1>2, <1>3 DEF ExplicitSeed
    <3> QED
      BY <2>1, <3>1, <3>2
  <2> QED
    BY <2>2, <2>3
<1> QED
  BY <1>7, <1>8

LEMMA PinsInvInit == Init => PinsInv
  BY TypeInit DEF Init, PinsInv, StateOfLock, GraphOfLock, LockAsFound, PinsKeptSoFar, Pinning,
                  NoState, Idle, NoCommand, NoLock

LEMMA StateOfLockKept ==
    ASSUME TypeOK, StateOfLock,
           \/ (state' = state \/ state' = Touched) /\ lock' = lock
           \/ state' = [state EXCEPT !.current = FALSE]
    PROVE  StateOfLock'
<1>1. CASE state' = [state EXCEPT !.current = FALSE]
  BY <1>1, TypeSplit DEF StateOfLock, StateType
<1>2. CASE (state' = state \/ state' = Touched) /\ lock' = lock
  <2>1. state'.kind = state.kind /\ state'.current = state.current /\ state'.graph = state.graph
    BY <1>2, TypeSplit DEF Touched, StateType
  <2> QED
    BY <1>2, <2>1 DEF StateOfLock
<1> QED
  BY <1>1, <1>2

LEMMA PinsInvStep == NoProduction /\ PinsInv /\ [Next]_vars => PinsInv'
<1> SUFFICES ASSUME NoProduction, PinsInv, [Next]_vars
             PROVE  /\ op'.command.includeDev /\ StateOfLock' /\ GraphOfLock' /\ LockAsFound'
                    /\ PinsKeptSoFar'
  BY TypeStep DEF PinsInv
<1> DEFINE Goal == /\ op'.command.includeDev /\ StateOfLock' /\ GraphOfLock' /\ LockAsFound'
                   /\ PinsKeptSoFar'
<1>o. op \in OpType /\ op.command \in AnyCommand /\ op.graph \in Graph
  BY TypeSplit DEF PinsInv, OpType
\* Steps within a command that leave its graph and the lockfile alone, and the manifest
\* for the packages it does not name
<1>s. ASSUME op' = op, lock' = lock, \A n \in Name \ op.command.name : manifest'[n] = manifest[n],
             StateOfLock',
             \/ pc' \in {"idle", "failed"}
             \/ /\ pc' \in {"link", "wire", "marker", "scripts", "state", "done"}
                /\ pc \in {"download", "manifest", "link", "wire", "marker", "scripts", "state"}
      PROVE  Goal
  <2>1. \A n \in Name \ op.command.name : Pin(n)' <=> Pin(n)
    BY <1>s, PinFrame
  <2>2. PinsKeptSoFar'
    BY <1>s, <2>1 DEF PinsInv, PinsKeptSoFar, Pinning
  <2> QED
    BY <1>s, <2>2 DEF PinsInv, GraphOfLock, LockAsFound
\* Steps that end a command, and steps between commands
<1>q. ASSUME pc' \in {"idle", "failed"}, op'.command.includeDev, StateOfLock' PROVE Goal
  BY <1>q DEF GraphOfLock, LockAsFound, PinsKeptSoFar
<1>i. TypeOK /\ StateOfLock /\ op.command.includeDev
  BY DEF PinsInv
<1>1. ASSUME NEW c \in Command,
             \/ BeginInstall(c) \/ BeginRemove(c) \/ BeginUpgrade(c)
             \/ BeginUpgradeToLatest(c) \/ BeginRefresh(c) \/ BeginCi(c)
      PROVE  Goal
  <2>1. pc' = "plan" /\ op'.before = lock /\ op'.command = c
    BY <1>1, IdleType DEF BeginInstall, BeginRemove, BeginUpgrade, BeginUpgradeToLatest, BeginRefresh,
                BeginCi, Begin, Goto, OpType
  <2>2. \/ (state' = state \/ state' = Touched) /\ lock' = lock
        \/ state' = [state EXCEPT !.current = FALSE] /\ c.cmd = "refresh"
    BY <1>1 DEF BeginInstall, BeginRemove, BeginUpgrade, BeginUpgradeToLatest, BeginRefresh, BeginCi
  <2>3. StateOfLock'
    BY <1>i, <2>2, StateOfLockKept
  <2> QED
    BY <2>1, <2>2, <2>3 DEF NoProduction, GraphOfLock, LockAsFound, PinsKeptSoFar
<1>2. CASE Plan
  <2>1. StateOfLock'
    BY <1>2, <1>i, StateOfLockKept DEF Plan
  <2>2. CASE FrozenRefuses(op.command)
    BY <1>2, <2>1, <2>2, <1>q, <1>i DEF Plan, Goto
  <2>3. CASE ~FrozenRefuses(op.command)
    <3> DEFINE d == Decide(op.command)
    <3>1. d \in Decision
      BY <1>o, <1>i, DecideType
    <3>2. /\ op' = [op EXCEPT !.scenario = d.scenario, !.graph = d.graph, !.hotState = d.hotState]
          /\ pc' = CASE d.scenario = "Hot" -> "scripts"
                     [] d.scenario = "WarmLinkOnly" -> "link"
                     [] d.scenario = "WarmPartialCache" -> "download"
                     [] d.scenario = "Cold" -> "resolve"
          /\ lock' = lock /\ pc = "plan"
      BY <1>2, <2>3 DEF Plan, Goto
    <3>3. /\ d.scenario # "Cold" => lock.kind = "written" /\ SameVersions(d.graph, lock)
          /\ Pinning => SameVersions(d.graph, op.before)
      BY <2>3, <3>2, DecideSeed
    <3> HIDE DEF d
    <3>4. op'.graph = d.graph /\ op'.before = op.before /\ op'.command = op.command
      BY <3>1, <3>2, <1>o DEF OpType, Decision
    <3>5. pc' \in {"scripts", "link", "download", "resolve"} /\ (pc' # "resolve" => d.scenario # "Cold")
      BY <3>1, <3>2 DEF Decision
    <3>6. op.command.cmd # "refresh" => lock = op.before
      BY <3>2 DEF PinsInv, LockAsFound
    <3>7. GraphOfLock' /\ LockAsFound'
      BY <3>2, <3>3, <3>4, <3>5, <3>6 DEF GraphOfLock, LockAsFound, Pinning
    <3>8. PinsKeptSoFar'
      BY <3>2, <3>4, <3>5, <3>6 DEF PinsKeptSoFar, Pinning
    <3> QED
      BY <1>i, <2>1, <3>4, <3>7, <3>8
  <2> QED
    BY <2>2, <2>3
<1>3. CASE Download
  <2>1. StateOfLock'
    BY <1>3, <1>i, StateOfLockKept DEF Download
  <2> QED
    BY <1>3, <2>1, <1>s DEF Download, Goto
<1>4. ASSUME NEW dropped \in SUBSET Name, NEW hollow \in SUBSET Name, ResolveCold(dropped, hollow)
      PROVE  Goal
  <2> DEFINE spec == PlannedRootDependencies(op.command)
             g == [roots |-> [n \in Name |->
                IF spec[n] = NoSpec \/ n \in Unsatisfiable(op.command) \cup dropped THEN NoDep
                ELSE [requested |-> spec[n],
                      version |-> Resolve(n, spec[n], op.graph)]],
              hollow |-> hollow]
  <2>1. UNCHANGED <<state, lock, manifest>> /\ pc' = "lock" /\ pc = "resolve"
    BY <1>4, <1>i DEF ResolveCold, Goto
  <2>2. op' = [op EXCEPT !.graph = g, !.faulted = @ \/ hollow # {}]
    BY <1>4 DEF ResolveCold
  <2>3. op'.graph = g /\ op'.before = op.before /\ op'.command = op.command
    BY <2>2, <1>o DEF OpType
  <2>4. \A n \in Name : Seeded(n, spec[n], op.graph) => n \notin dropped
    BY <1>4 DEF ResolveCold
  <2>5. ASSUME Pinning, NEW n \in Name \ op.command.name, Pin(n)
        PROVE  g.roots[n].version = op.before.roots[n].version
    <3>1. /\ spec[n] # NoSpec /\ Seeded(n, spec[n], op.graph)
          /\ Resolve(n, spec[n], op.graph) = op.before.roots[n].version
      BY <2>1, <2>5, ResolveKeepsPins
    <3>2. n \notin Unsatisfiable(op.command)
      BY <3>1 DEF Unsatisfiable, Resolve, Seeded
    <3> QED
      BY <3>1, <3>2, <2>4
  <2>6. StateOfLock'
    BY <2>1, <1>i, StateOfLockKept
  <2>7. \A n \in Name : Pin(n)' <=> Pin(n)
    BY <2>1, <2>3, PinFrame
  <2> HIDE DEF g
  <2>8. PinsKeptSoFar'
    BY <2>1, <2>3, <2>5, <2>7 DEF PinsKeptSoFar, Pinning
  <2> QED
    BY <1>i, <2>1, <2>3, <2>6, <2>8 DEF PinsInv, GraphOfLock, LockAsFound
<1>5. CASE ResolveFails
  BY <1>5, <1>q, <1>i, StateOfLockKept DEF ResolveFails, Goto
<1>6. CASE WriteLockfile
  <2> DEFINE l == LockOf(op.graph, PlanSpecs(op.command))
  <2>1. UNCHANGED <<op, manifest>> /\ pc' = "manifest" /\ pc = "lock" /\ lock' = l
        /\ state' = [state EXCEPT !.current = FALSE]
    BY <1>6 DEF WriteLockfile, Goto
  <2>2. l.kind = "written" /\ SameVersions(op.graph, l)
    BY DEF LockOf, SameVersions, NoLockDep
  <2> HIDE DEF l
  <2>3. GraphOfLock' /\ LockAsFound'
    BY <2>1, <2>2 DEF GraphOfLock, LockAsFound
  <2>4. \A n \in Name : Pin(n)' <=> Pin(n)
    BY <2>1, PinFrame
  <2>5. PinsKeptSoFar'
    BY <2>1, <2>2, <2>4 DEF PinsInv, PinsKeptSoFar, Pinning, SameVersions
  <2> QED
    BY <1>i, <2>1, <2>3, <2>5, StateOfLockKept
<1>7. CASE WriteManifest
  <2>1. UNCHANGED <<state, lock, op>> /\ pc' = "link" /\ pc = "manifest"
    BY <1>7 DEF WriteManifest, Goto
  <2>2. \A n \in Name \ op.command.name : manifest'[n] = manifest[n]
    BY <1>7 DEF WriteManifest, Additions
  <2>3. StateOfLock'
    BY <2>1, <1>i, StateOfLockKept
  <2> QED
    BY <2>1, <2>2, <2>3, <1>s
<1>8. CASE LinkPrune
  <2>1. UNCHANGED <<lock, op, manifest>> /\ (state' = state \/ state' = Touched) /\ pc = "link"
        /\ pc' \in {"failed", "wire"}
    BY <1>8 DEF LinkPrune, Goto
  <2>2. StateOfLock'
    BY <2>1, <1>i, StateOfLockKept
  <2> QED
    BY <2>1, <2>2, <1>s
<1>9. ASSUME NEW n \in Name, LinkRoot(n) PROVE Goal
  <2>1. StateOfLock'
    BY <1>9, <1>i, StateOfLockKept DEF LinkRoot
  <2> QED
    BY <1>9, <2>1, <1>s DEF LinkRoot
<1>10. CASE LinkDone \/ WriteIntegrity \/ RunInstallScripts
  <2>1. /\ UNCHANGED <<lock, op, manifest, state>> /\ pc \in {"wire", "marker", "scripts"}
        /\ pc' \in {"marker", "scripts", "state"}
    BY <1>10 DEF LinkDone, WriteIntegrity, RunInstallScripts, Goto
  <2>2. StateOfLock'
    BY <2>1, <1>i, StateOfLockKept
  <2> QED
    BY <2>1, <2>2, <1>s
<1>11. CASE WriteInstallState
  <2>1. UNCHANGED <<lock, op, manifest>> /\ pc' = "done" /\ pc = "state"
    BY <1>11 DEF WriteInstallState, Goto
  <2>2. StateOfLock'
    <3>1. CASE state' = state
      BY <2>1, <3>1, <1>i, StateOfLockKept
    <3>2. CASE state' # state
      <4>1. state'.graph = op.graph
        BY <1>11, <3>2 DEF WriteInstallState
      <4> QED
        BY <2>1, <4>1 DEF StateOfLock, PinsInv, GraphOfLock
    <3> QED
      BY <3>1, <3>2
  <2> QED
    BY <2>1, <2>2, <1>s
<1>12. CASE Return
  <2>1. StateOfLock'
    BY <1>12, <1>i, StateOfLockKept DEF Return
  <2> QED
    BY <1>12, <2>1, <1>q DEF Return, Goto, Idle, NoCommand
<1>13. CASE Crash
  <2>1. StateOfLock'
    BY <1>13, <1>i, StateOfLockKept DEF Crash
  <2>2. op'.command = op.command /\ pc' = "failed"
    BY <1>13, <1>o DEF Crash, Goto, OpType
  <2> QED
    BY <2>1, <2>2, <1>i, <1>q
<1>14. CASE LoseNodeModules \/ LoseStore
  <2>1. pc' = "idle" /\ op' = op /\ lock' = lock /\ (state' = state \/ state' = Touched)
    BY <1>14 DEF LoseNodeModules, LoseStore
  <2> QED
    BY <2>1, <1>i, <1>q, StateOfLockKept
<1>15. ASSUME NEW n \in Name, Publish(n) \/ \E s \in EditSpec : Edit(n, s) PROVE Goal
  <2>1. UNCHANGED <<state, lock, pc, op>> /\ pc = "idle"
    BY <1>15 DEF Publish, Edit
  <2> QED
    BY <2>1, <1>i, <1>q, StateOfLockKept
<1>16. CASE UNCHANGED vars
  <2>1. UNCHANGED <<manifest, lock, state, op, pc>>
    BY <1>16 DEF vars
  <2>2. \A n \in Name : Pin(n)' <=> Pin(n)
    BY <2>1, PinFrame
  <2> QED
    BY <2>1, <2>2 DEF PinsInv, StateOfLock, GraphOfLock, LockAsFound, PinsKeptSoFar, Pinning
<1> QED
  BY <1>1, <1>2, <1>3, <1>4, <1>5, <1>6, <1>7, <1>8, <1>9, <1>10, <1>11, <1>12, <1>13, <1>14,
     <1>15, <1>16 DEF Next, Progress

\* A dependency whose spec is still the one the lockfile recorded stays at the locked version
\* through installs, removals, upgrades and additions of others, crashes between them
\* included, as long as nobody installs with --production (explicit_lockfile_seed,
\* seeded_dependency_id, pinned_root_dependencies_for_fix).
THEOREM PinsHoldCorrect == NoProduction => (Spec => []PinsHold)
<1> SUFFICES ASSUME NoProduction PROVE Spec => []PinsHold
  OBVIOUS
<1>1. PinsInv /\ [Next]_vars => PinsInv'
  BY PinsInvStep
<1>2. PinsInv => PinsHold
  BY DEF PinsInv, PinsHold, PinsKeptSoFar, Pinning, Pin
<1> QED
  BY <1>1, <1>2, PinsInvInit, PTL DEF Spec

-----------------------------------------------------------------------------
(***************************************************************************)
(* Frozen installs.  validate_frozen_lockfile compares the manifest with   *)
(* the lockfile, but detect_install_scenario asks the install state first, *)
(* which was written for the specs of the manifest.  The two agree as long *)
(* as the lockfile records the specs that the manifest has: not for a      *)
(* catalog reference, not after --fix-lockfile, and not after an add       *)
(* without a version, which records "latest" and writes a range.           *)
(***************************************************************************)

SpecsRecorded ==
    /\ \A n \in Name : InitSpec[n].kind # "catalog"
    /\ \A s \in EditSpec : s.kind # "catalog"
    /\ \A c \in Command : c.mode # "Fix" /\ c.spec.kind \notin {"catalog", "latest"}

NoCatalog == \A n \in Name : manifest[n].spec.kind # "catalog"

CommandGiven == pc # "idle" => op.command \in Command

\* The specs of the state are the specs of the lockfile.
StateSpecs ==
    state.kind = "written" /\ state.current =>
        \A n \in Name :
            /\ state.specs[n].spec = lock.roots[n].requested
            /\ state.specs[n].spec = NoSpec => ~state.specs[n].optional
            /\ manifest[n].section # "none" =>
                  (state.specs[n].optional <=> manifest[n].section = "optionalDependencies")

\* What is in the manifest when the state is written is in the lockfile.
Asked(n) ==
    IF Additions(op.command)[n] # NoSpec /\ op.graph.roots[n].version # 0
    THEN Additions(op.command)[n] ELSE manifest[n].spec

LockSpecs ==
    /\ pc \in {"lock", "manifest"} => \A n \in Name :
          op.graph.roots[n].version # 0 => op.graph.roots[n].requested = Asked(n)
    /\ pc = "lock" => \A n \in Name :
          /\ op.graph.roots[n].version # 0 => op.graph.roots[n].requested # NoSpec
          /\ op.graph.roots[n].version = 0 =>
                manifest[n].section \in {"none", "optionalDependencies"}
    /\ pc = "manifest" =>
          ~state.current /\ \A n \in Name : lock.roots[n].requested = Asked(n)
    /\ pc \in {"download", "link", "wire", "marker", "scripts", "state"} =>
          \A n \in Name : lock.roots[n].requested = manifest[n].spec

\* A frozen install that has found a lockfile
Freezing == /\ op.command.mode = "Frozen" /\ op.command.cmd # "refresh"
            /\ op.before.kind = "written"

FrozenSoFar ==
    /\ pc = "plan" => op.scenario = "none"
    /\ Freezing => /\ op.scenario # "Cold"
                   /\ pc \notin {"resolve", "lock", "manifest"}
                   /\ pc # "failed" => lock = op.before
    /\ pc = "done" => SameVersions(op.graph, lock)

FrozenInv == /\ PinsInv /\ InstallInv /\ NoCatalog /\ CommandGiven
             /\ StateSpecs /\ LockSpecs /\ FrozenSoFar

\* Without catalogs and --production the plan has the specs of the manifest.
LEMMA PlanIsManifest ==
    ASSUME TypeOK, SpecsInSections, NoCatalog, NEW c, c.includeDev, NEW n \in Name
    PROVE  /\ PlanSpecs(c)[n].spec = manifest[n].spec
           /\ PlanSpecs(c)[n].optional <=> manifest[n].section = "optionalDependencies"
           /\ BuildRootSpecs(manifest, c.includeDev)[n].spec = manifest[n].spec
           /\ BuildRootSpecs(manifest, c.includeDev)[n].optional
                 <=> manifest[n].section = "optionalDependencies"
<1>1. ApplySpecs(manifest)[n] = manifest[n]
  BY DEF ApplySpecs, NoCatalog
<1>2. manifest[n].section = "none" => manifest[n].spec = NoSpec
  BY DEF SpecsInSections
<1> QED
  BY <1>1, <1>2 DEF PlanSpecs, BuildRootSpecs, NoRoot

LEMMA MatchedSpecs ==
    ASSUME FrozenInv, RootSpecsMatch(lock, PlanSpecs(op.command)), NEW n \in Name
    PROVE  lock.roots[n].requested = manifest[n].spec
<1>1. PlanSpecs(op.command)[n].spec = manifest[n].spec
  BY PlanIsManifest DEF FrozenInv, PinsInv
<1>2. PlanSpecs(op.command)[n] = NoRoot => lock.roots[n].requested = NoSpec
  BY DEF RootSpecsMatch
<1>3. PlanSpecs(op.command)[n] # NoRoot => lock.roots[n].requested = PlanSpecs(op.command)[n].spec
  BY DEF RootSpecsMatch
<1> QED
  BY <1>1, <1>2, <1>3 DEF NoRoot

\* A state that belongs to a lockfile which matches the manifest has its specs.
LEMMA StateMatches ==
    ASSUME FrozenInv, RootSpecsMatch(lock, PlanSpecs(op.command)),
           state.kind = "written", state.current
    PROVE  state.specs = PlanSpecs(op.command)
<1>0. /\ op.command \in AnyCommand /\ state.specs \in [Name -> RootSpec]
      /\ PlanSpecs(op.command) \in [Name -> RootSpec]
  BY TypeSplit, PlanSpecsType DEF FrozenInv, PinsInv, OpType, StateType
<1>1. ASSUME NEW n \in Name PROVE state.specs[n] = PlanSpecs(op.command)[n]
  <2>1. state.specs[n].spec = manifest[n].spec
    BY MatchedSpecs DEF FrozenInv, StateSpecs
  <2>2. /\ PlanSpecs(op.command)[n].spec = manifest[n].spec
        /\ PlanSpecs(op.command)[n].optional <=> manifest[n].section = "optionalDependencies"
    BY PlanIsManifest DEF FrozenInv, PinsInv
  <2>3. state.specs[n].optional <=> manifest[n].section = "optionalDependencies"
    <3>1. CASE manifest[n].section = "none"
      BY <2>1, <3>1 DEF FrozenInv, PinsInv, SpecsInSections, StateSpecs
    <3>2. CASE manifest[n].section # "none"
      BY <3>2 DEF FrozenInv, StateSpecs
    <3> QED
      BY <3>1, <3>2
  <2>4. state.specs[n] \in RootSpec /\ PlanSpecs(op.command)[n] \in RootSpec
    BY <1>0
  <2> QED
    BY <2>1, <2>2, <2>3, <2>4 DEF RootSpec
<1> QED
  BY <1>0, <1>1

LEMMA WarmSpecs ==
    ASSUME FrozenInv, Decide(op.command).scenario # "Cold", NEW n \in Name
    PROVE  lock.roots[n].requested = manifest[n].spec
<1> DEFINE c == op.command
<1>1. \A g : ColdWith(g).scenario = "Cold"
  BY DEF ColdWith
<1>2. Decide(c) = DetectInstallScenario(c)
  BY <1>1 DEF Decide
<1>3. CASE state.kind = "written" /\ state.current
  <2>1. state.specs = PlanSpecs(c)
    BY <1>1, <1>2, <1>3 DEF DetectInstallScenario
  <2>2. PlanSpecs(c)[n].spec = manifest[n].spec
    BY PlanIsManifest DEF FrozenInv, PinsInv
  <2> QED
    BY <1>3, <2>1, <2>2 DEF FrozenInv, StateSpecs
<1>4. CASE ~(state.kind = "written" /\ state.current)
  <2>1. RootSpecsMatch(lock, PlanSpecs(c))
    BY <1>1, <1>2, <1>4 DEF DetectInstallScenario
  <2> QED
    BY <2>1, MatchedSpecs
<1> QED
  BY <1>3, <1>4

\* What passes validate_frozen_lockfile is not resolved.
LEMMA FrozenDecision ==
    ASSUME FrozenInv, pc = "plan", Freezing, ~FrozenRefuses(op.command)
    PROVE  Decide(op.command).scenario # "Cold"
<1> DEFINE c == op.command
<1>1. lock = op.before /\ lock.kind = "written" /\ c.mode = "Frozen" /\ c.includeDev
  BY DEF FrozenInv, PinsInv, LockAsFound, Freezing
<1>2. ~HasAdditions(c) /\ RootSpecsMatch(lock, PlanSpecs(c))
  BY <1>1 DEF FrozenRefuses
<1>3. \A g, b : DetectFromGraph(c, g, LayoutValid(g), b).scenario # "Cold"
  BY DEF DetectFromGraph
<1>4. state.kind = "written" /\ state.current => state.specs = PlanSpecs(c)
  BY <1>2, StateMatches
<1>5. DetectInstallScenario(c).scenario # "Cold"
  BY <1>1, <1>2, <1>3, <1>4 DEF DetectInstallScenario
<1> QED
  BY <1>1, <1>2, <1>5 DEF Decide

LEMMA FrozenInvInit == SpecsRecorded /\ Init => FrozenInv
  BY PinsInvInit, InstallInvInit
     DEF SpecsRecorded, Init, FrozenInv, NoCatalog, CommandGiven, StateSpecs, LockSpecs, FrozenSoFar,
         Freezing, NoState, Idle, NoCommand, NoLock

\* A new spec of a dependency that stays in its section
LEMMA StateSpecsKept ==
    ASSUME TypeOK, StateSpecs,
           \/ (state' = state \/ state' = Touched) /\ lock' = lock
           \/ state' = [state EXCEPT !.current = FALSE],
           \A n \in Name : manifest'[n].section \in {manifest[n].section, "none"}
    PROVE  StateSpecs'
<1>1. CASE state' = [state EXCEPT !.current = FALSE]
  BY <1>1, TypeSplit DEF StateSpecs, StateType
<1>2. CASE (state' = state \/ state' = Touched) /\ lock' = lock
  <2>1. state'.kind = state.kind /\ state'.current = state.current /\ state'.specs = state.specs
    BY <1>2, TypeSplit DEF Touched, StateType
  <2> QED
    BY <1>2, <2>1 DEF StateSpecs
<1> QED
  BY <1>1, <1>2

LEMMA FrozenInvStep == NoProduction /\ SpecsRecorded /\ FrozenInv /\ [Next]_vars => FrozenInv'
<1> SUFFICES ASSUME NoProduction, SpecsRecorded, FrozenInv, [Next]_vars
             PROVE  NoCatalog' /\ CommandGiven' /\ StateSpecs' /\ LockSpecs' /\ FrozenSoFar'
  BY PinsInvStep, InstallInvStep DEF FrozenInv
<1> DEFINE Goal == NoCatalog' /\ CommandGiven' /\ StateSpecs' /\ LockSpecs' /\ FrozenSoFar'
<1>i. /\ TypeOK /\ SpecsInSections /\ op.command.includeDev /\ NoCatalog /\ CommandGiven
      /\ StateSpecs /\ LockSpecs /\ FrozenSoFar /\ GraphOfLock /\ LockAsFound
  BY DEF FrozenInv, PinsInv
<1>o. op \in OpType /\ op.command \in AnyCommand /\ op.graph \in Graph
  BY <1>i, TypeSplit DEF OpType
\* Steps within a command that leave the manifest and the lockfile alone
<1>s. ASSUME op' = op, lock' = lock, manifest' = manifest, StateSpecs',
             \/ /\ pc' \in {"link", "wire", "marker", "scripts", "state", "done"}
                /\ pc \in {"download", "link", "wire", "marker", "scripts", "state"}
             \/ pc' = "failed" /\ pc # "idle"
      PROVE  Goal
  <2>1. LockSpecs'
    BY <1>s, <1>i DEF LockSpecs
  <2>2. FrozenSoFar'
    BY <1>s, <1>i DEF FrozenSoFar, Freezing, GraphOfLock
  <2> QED
    BY <1>s, <1>i, <2>1, <2>2 DEF NoCatalog, CommandGiven
<1>1. ASSUME NEW c \in Command,
             \/ BeginInstall(c) \/ BeginRemove(c) \/ BeginUpgrade(c)
             \/ BeginUpgradeToLatest(c) \/ BeginRefresh(c) \/ BeginCi(c)
      PROVE  Goal
  <2>1. pc' = "plan" /\ op'.before = lock /\ op'.command = c /\ op'.scenario = "none"
    BY <1>1, IdleType DEF BeginInstall, BeginRemove, BeginUpgrade, BeginUpgradeToLatest, BeginRefresh,
                BeginCi, Begin, Goto, OpType, Idle
  <2>2. \/ (state' = state \/ state' = Touched) /\ lock' = lock
        \/ state' = [state EXCEPT !.current = FALSE] /\ c.cmd = "refresh"
    BY <1>1 DEF BeginInstall, BeginRemove, BeginUpgrade, BeginUpgradeToLatest, BeginRefresh, BeginCi
  <2>m. ASSUME NEW n \in Name
        PROVE  /\ manifest'[n].section \in {manifest[n].section, "none"}
               /\ manifest'[n].spec.kind # "catalog"
    <3>1. ASSUME NEW S, NEW wanted, UpdateManifest(S, wanted)
          PROVE  /\ manifest'[n].section = manifest[n].section
                 /\ manifest'[n].spec.kind # "catalog"
      <4>1. manifest[n] \in ManifestDep /\ manifest[n].spec.kind # "catalog"
        BY <1>i, TypeSplit DEF NoCatalog
      <4>2. RewriteSpec(manifest[n].spec, wanted[n]).kind # "catalog"
        BY DEF RewriteSpec, Exact, Caret
      <4> QED
        BY <3>1, <4>1, <4>2 DEF UpdateManifest, ManifestDep
    <3>2. CASE BeginInstall(c) \/ BeginRefresh(c) \/ BeginCi(c)
      BY <3>2, <1>i DEF BeginInstall, BeginRefresh, BeginCi, NoCatalog
    <3>3. CASE BeginRemove(c)
      BY <3>3, <1>i DEF BeginRemove, NoCatalog, NoSpec
    <3>4. CASE BeginUpgrade(c) \/ BeginUpgradeToLatest(c)
      BY <3>1, <3>4 DEF BeginUpgrade, BeginUpgradeToLatest
    <3> QED
      BY <1>1, <3>2, <3>3, <3>4
  <2>3. StateSpecs' /\ NoCatalog'
    BY <1>i, <2>2, <2>m, StateSpecsKept DEF NoCatalog
  <2>4. FrozenSoFar'
    BY <2>1, <2>2 DEF FrozenSoFar, Freezing
  <2> QED
    BY <2>1, <2>3, <2>4 DEF CommandGiven, LockSpecs
<1>2. CASE Plan
  <2>0. UNCHANGED <<lock, manifest, state>> /\ pc = "plan"
    BY <1>2 DEF Plan
  <2>1. StateSpecs'
    BY <2>0, <1>i, StateSpecsKept
  <2>2. CASE FrozenRefuses(op.command)
    BY <1>2, <2>0, <2>1, <2>2, <1>s DEF Plan, Goto
  <2>3. CASE ~FrozenRefuses(op.command)
    <3> DEFINE d == Decide(op.command)
    <3>1. d \in Decision
      BY <1>o, <1>i, DecideType
    <3>2. /\ op' = [op EXCEPT !.scenario = d.scenario, !.graph = d.graph, !.hotState = d.hotState]
          /\ pc' = CASE d.scenario = "Hot" -> "scripts"
                     [] d.scenario = "WarmLinkOnly" -> "link"
                     [] d.scenario = "WarmPartialCache" -> "download"
                     [] d.scenario = "Cold" -> "resolve"
      BY <1>2, <2>3 DEF Plan, Goto
    <3>3. d.scenario # "Cold" => \A n \in Name : lock.roots[n].requested = manifest[n].spec
      BY WarmSpecs
    <3>4. Freezing => d.scenario # "Cold"
      BY <2>0, <2>3, FrozenDecision
    <3> HIDE DEF d
    <3>5. op'.scenario = d.scenario /\ op'.before = op.before /\ op'.command = op.command
      BY <3>1, <3>2, <1>o DEF OpType, Decision
    <3>6. pc' \in {"scripts", "link", "download", "resolve"} /\ (pc' = "resolve" <=> d.scenario = "Cold")
      BY <3>1, <3>2 DEF Decision
    <3>7. LockSpecs'
      BY <2>0, <3>3, <3>6 DEF LockSpecs
    <3>8. FrozenSoFar'
      BY <2>0, <3>4, <3>5, <3>6, <1>i DEF FrozenSoFar, Freezing
    <3> QED
      BY <2>0, <2>1, <3>5, <3>7, <3>8, <1>i DEF NoCatalog, CommandGiven
  <2> QED
    BY <2>2, <2>3
<1>3. CASE Download
  <2>1. StateSpecs'
    BY <1>3, <1>i, StateSpecsKept DEF Download
  <2> QED
    BY <1>3, <2>1, <1>s DEF Download, Goto
<1>4. ASSUME NEW dropped \in SUBSET Name, NEW hollow \in SUBSET Name, ResolveCold(dropped, hollow)
      PROVE  Goal
  <2> DEFINE c == op.command
             spec == PlannedRootDependencies(c)
             g == [roots |-> [n \in Name |->
                IF spec[n] = NoSpec \/ n \in Unsatisfiable(c) \cup dropped THEN NoDep
                ELSE [requested |-> spec[n],
                      version |-> Resolve(n, spec[n], op.graph)]],
              hollow |-> hollow]
  <2>1. UNCHANGED <<state, lock, manifest>> /\ pc' = "lock" /\ pc = "resolve"
    BY <1>4, <1>i DEF ResolveCold, Goto
  <2>2. op' = [op EXCEPT !.graph = g, !.faulted = @ \/ hollow # {}]
    BY <1>4 DEF ResolveCold
  <2>3. op'.graph = g /\ op'.before = op.before /\ op'.command = op.command /\ op'.scenario = op.scenario
    BY <2>2, <1>o DEF OpType
  <2>4. c.mode # "Fix"
    BY <2>1, <1>i DEF CommandGiven, SpecsRecorded
  <2>5. \A n \in Name : spec[n] = IF Additions(c)[n] # NoSpec THEN Additions(c)[n] ELSE manifest[n].spec
    BY <2>4, <1>i, PlanIsManifest DEF PlannedRootDependencies, RootDependencies
  <2>6. \A n \in OptionalRoots(c) : manifest[n].section = "optionalDependencies"
    BY <1>i, PlanIsManifest DEF OptionalRoots
  <2>7. Unsatisfiable(c) \subseteq OptionalRoots(c) /\ dropped \subseteq OptionalRoots(c)
    BY <1>4 DEF ResolveCold
  <2>8. ASSUME NEW n \in Name
        PROVE  /\ g.roots[n].version # 0 => g.roots[n].requested = spec[n] /\ spec[n] # NoSpec
               /\ g.roots[n].version = 0 => manifest[n].section \in {"none", "optionalDependencies"}
    <3>1. CASE spec[n] = NoSpec
      <4>1. manifest[n].spec = NoSpec
        BY <3>1, <2>5
      <4> QED
        BY <3>1, <4>1, <1>i DEF NoDep, SpecsInSections
    <3>2. CASE n \in Unsatisfiable(c) \cup dropped
      BY <3>2, <2>6, <2>7 DEF NoDep
    <3>3. CASE spec[n] # NoSpec /\ n \notin Unsatisfiable(c) \cup dropped
      BY <3>3 DEF Unsatisfiable
    <3> QED
      BY <3>1, <3>2, <3>3
  <2> HIDE DEF g
  <2>9. LockSpecs'
    <3>1. \A n \in Name : g.roots[n].version # 0 => g.roots[n].requested = Asked(n)'
      BY <2>1, <2>3, <2>5, <2>8 DEF Asked, Additions
    <3> QED
      BY <2>1, <2>3, <2>8, <3>1 DEF LockSpecs
  <2>10. StateSpecs'
    BY <2>1, <1>i, StateSpecsKept
  <2>11. FrozenSoFar'
    BY <2>1, <2>3, <1>i DEF FrozenSoFar, Freezing
  <2> QED
    BY <2>1, <2>3, <2>9, <2>10, <2>11, <1>i DEF NoCatalog, CommandGiven
<1>5. CASE ResolveFails
  <2>1. StateSpecs'
    BY <1>5, <1>i, StateSpecsKept DEF ResolveFails
  <2> QED
    BY <1>5, <2>1, <1>s DEF ResolveFails, Goto
<1>6. CASE WriteLockfile
  <2> DEFINE l == LockOf(op.graph, PlanSpecs(op.command))
  <2>1. UNCHANGED <<op, manifest>> /\ pc' = "manifest" /\ pc = "lock" /\ lock' = l
        /\ state' = [state EXCEPT !.current = FALSE]
    BY <1>6 DEF WriteLockfile, Goto
  <2>2. ASSUME NEW n \in Name PROVE l.roots[n].requested = Asked(n)
    <3>1. /\ PlanSpecs(op.command)[n].spec = manifest[n].spec
          /\ PlanSpecs(op.command)[n].optional <=> manifest[n].section = "optionalDependencies"
      BY <1>i, PlanIsManifest
    <3>2. CASE op.graph.roots[n].version # 0
      BY <2>1, <3>2, <1>i DEF LockOf, LockSpecs
    <3>3. CASE op.graph.roots[n].version = 0
      <4>1. Asked(n) = manifest[n].spec
        BY <3>3 DEF Asked
      <4>2. manifest[n].section # "optionalDependencies" => manifest[n].spec = NoSpec
        BY <2>1, <3>3, <1>i DEF LockSpecs, SpecsInSections
      <4> QED
        BY <3>1, <3>3, <4>1, <4>2 DEF LockOf, NoLockDep
    <3> QED
      BY <3>2, <3>3
  <2> HIDE DEF l
  <2>3. \A n \in Name : Asked(n)' = Asked(n)
    BY <2>1 DEF Asked, Additions
  <2>4. state'.current = FALSE
    BY <2>1, <1>i, TypeSplit DEF StateType
  <2>5. LockSpecs'
    BY <2>1, <2>2, <2>3, <2>4, <1>i DEF LockSpecs
  <2>6. StateSpecs'
    BY <2>4 DEF StateSpecs
  <2>7. FrozenSoFar'
    BY <2>1, <1>i DEF FrozenSoFar, Freezing
  <2> QED
    BY <2>1, <2>5, <2>6, <2>7, <1>i DEF NoCatalog, CommandGiven
<1>7. CASE WriteManifest
  <2>1. UNCHANGED <<state, lock, op>> /\ pc' = "link" /\ pc = "manifest"
    BY <1>7 DEF WriteManifest, Goto
  <2>2. op.command.spec.kind \notin {"catalog", "latest"}
    BY <2>1, <1>i DEF CommandGiven, SpecsRecorded
  <2>3. ASSUME NEW n \in Name PROVE manifest'[n].spec = Asked(n) /\ manifest'[n].spec.kind # "catalog"
    <3>1. CASE Additions(op.command)[n] # NoSpec /\ op.graph.roots[n].version # 0
      <4>1. Additions(op.command)[n] = op.command.spec
        BY <3>1 DEF Additions
      <4>2. op.command.spec # Latest
        BY <2>2 DEF Latest
      <4> QED
        BY <1>7, <2>2, <3>1, <4>1, <4>2 DEF WriteManifest, ManifestSpec, Asked
    <3>2. CASE ~(Additions(op.command)[n] # NoSpec /\ op.graph.roots[n].version # 0)
      BY <1>7, <3>2, <1>i DEF WriteManifest, Asked, NoCatalog
    <3> QED
      BY <3>1, <3>2
  <2>4. LockSpecs'
    BY <2>1, <2>3, <1>i DEF LockSpecs
  <2>5. StateSpecs'
    BY <2>1, <1>i DEF StateSpecs, LockSpecs
  <2>6. FrozenSoFar'
    BY <2>1, <1>i DEF FrozenSoFar, Freezing
  <2> QED
    BY <2>1, <2>3, <2>4, <2>5, <2>6, <1>i DEF NoCatalog, CommandGiven
<1>8. CASE LinkPrune
  <2>1. UNCHANGED <<lock, op, manifest>> /\ (state' = state \/ state' = Touched) /\ pc = "link"
        /\ pc' \in {"failed", "wire"}
    BY <1>8 DEF LinkPrune, Goto
  <2>2. StateSpecs'
    BY <2>1, <1>i, StateSpecsKept
  <2> QED
    BY <2>1, <2>2, <1>s
<1>9. ASSUME NEW n \in Name, LinkRoot(n) PROVE Goal
  <2>1. StateSpecs'
    BY <1>9, <1>i, StateSpecsKept DEF LinkRoot
  <2> QED
    BY <1>9, <2>1, <1>s DEF LinkRoot
<1>10. CASE LinkDone \/ WriteIntegrity \/ RunInstallScripts
  <2>1. /\ UNCHANGED <<lock, op, manifest, state>> /\ pc \in {"wire", "marker", "scripts"}
        /\ pc' \in {"marker", "scripts", "state"}
    BY <1>10 DEF LinkDone, WriteIntegrity, RunInstallScripts, Goto
  <2>2. StateSpecs'
    BY <2>1, <1>i, StateSpecsKept
  <2> QED
    BY <2>1, <2>2, <1>s
<1>11. CASE WriteInstallState
  <2>1. UNCHANGED <<lock, op, manifest>> /\ pc' = "done" /\ pc = "state"
    BY <1>11 DEF WriteInstallState, Goto
  <2>2. StateSpecs'
    <3>1. CASE state' = state
      BY <2>1, <3>1, <1>i, StateSpecsKept
    <3>2. CASE state' # state
      <4>1. state'.specs = BuildRootSpecs(manifest, op.command.includeDev)
        BY <1>11, <3>2 DEF WriteInstallState
      <4>2. \A n \in Name : lock.roots[n].requested = manifest[n].spec
        BY <2>1, <1>i DEF LockSpecs
      <4>3. \A n \in Name : /\ state'.specs[n].spec = manifest[n].spec
                            /\ state'.specs[n].optional <=> manifest[n].section = "optionalDependencies"
        BY <4>1, <1>i, PlanIsManifest
      <4>4. \A n \in Name : manifest[n].spec = NoSpec => manifest[n].section = "none"
        BY <1>i DEF SpecsInSections
      <4> QED
        BY <2>1, <4>2, <4>3, <4>4 DEF StateSpecs
    <3> QED
      BY <3>1, <3>2
  <2> QED
    BY <2>1, <2>2, <1>s
<1>12. CASE Return
  <2>1. StateSpecs'
    BY <1>12, <1>i, StateSpecsKept DEF Return
  <2> QED
    BY <1>12, <2>1, <1>i DEF Return, Goto, Idle, NoCommand, NoCatalog, CommandGiven, LockSpecs,
                             FrozenSoFar, Freezing
<1>13. CASE Crash
  <2>1. StateSpecs'
    BY <1>13, <1>i, StateSpecsKept DEF Crash
  <2>2. /\ op'.command = op.command /\ op'.before = op.before /\ op'.scenario = op.scenario
        /\ pc' = "failed" /\ pc # "idle" /\ manifest' = manifest
    BY <1>13, <1>o DEF Crash, Goto, OpType, Active
  <2>3. FrozenSoFar'
    BY <2>2, <1>i DEF FrozenSoFar, Freezing
  <2> QED
    BY <2>1, <2>2, <2>3, <1>i DEF NoCatalog, CommandGiven, LockSpecs
<1>14. CASE LoseNodeModules \/ LoseStore
  <2>1. pc' = "idle" /\ pc = "idle" /\ UNCHANGED <<op, lock, manifest>> /\ (state' = state \/ state' = Touched)
    BY <1>14 DEF LoseNodeModules, LoseStore
  <2>2. StateSpecs'
    BY <2>1, <1>i, StateSpecsKept
  <2> QED
    BY <2>1, <2>2, <1>i DEF NoCatalog, CommandGiven, LockSpecs, FrozenSoFar, Freezing
<1>15. ASSUME NEW n \in Name, Publish(n) \/ \E s \in EditSpec : Edit(n, s) PROVE Goal
  <2>1. UNCHANGED <<state, lock, pc, op>> /\ pc = "idle"
    BY <1>15 DEF Publish, Edit
  <2>2. \A m \in Name : manifest'[m].section = manifest[m].section /\ manifest'[m].spec.kind # "catalog"
    <3>1. CASE Publish(n)
      BY <3>1, <1>i DEF Publish, NoCatalog
    <3>2. ASSUME NEW s \in EditSpec, Edit(n, s)
          PROVE  \A m \in Name : manifest'[m].section = manifest[m].section /\ manifest'[m].spec.kind # "catalog"
      BY <3>2, <1>i, TypeSplit DEF Edit, NoCatalog, SpecsRecorded, ManifestDep
    <3> QED
      BY <1>15, <3>1, <3>2
  <2>3. StateSpecs'
    BY <2>1, <2>2, <1>i, StateSpecsKept
  <2> QED
    BY <2>1, <2>2, <2>3, <1>i DEF NoCatalog, CommandGiven, LockSpecs, FrozenSoFar, Freezing
<1>16. CASE UNCHANGED vars
  BY <1>16, <1>i DEF vars, NoCatalog, CommandGiven, StateSpecs, LockSpecs, Asked, FrozenSoFar, Freezing
<1> QED
  BY <1>1, <1>2, <1>3, <1>4, <1>5, <1>6, <1>7, <1>8, <1>9, <1>10, <1>11, <1>12, <1>13, <1>14,
     <1>15, <1>16 DEF Next, Progress

\* A frozen install resolves nothing, leaves the lockfile as it is and links exactly what it
\* names, although an install state may stand in for it: where the lockfile records the specs
\* of the manifest and nobody installs with --production (validate_frozen_lockfile).
THEOREM FrozenHoldsCorrect == NoProduction /\ SpecsRecorded => (Spec => []FrozenHolds)
<1> SUFFICES ASSUME NoProduction, SpecsRecorded PROVE Spec => []FrozenHolds
  OBVIOUS
<1>1. FrozenInv /\ [Next]_vars => FrozenInv'
  BY FrozenInvStep
<1>2. ASSUME FrozenInv PROVE FrozenHolds
  <2>1. FrozenOffline
    BY <1>2 DEF FrozenInv, FrozenSoFar, Freezing, FrozenOffline
  <2>2. ASSUME pc = "done", Freezing
        PROVE  /\ lock = op.before
               /\ \A n \in Name : links[n] = IF manifest[n].section = "none" THEN 0
                                             ELSE op.before.roots[n].version
    <3>1. lock = op.before /\ SameVersions(op.graph, lock)
      BY <1>2, <2>2 DEF FrozenInv, FrozenSoFar
    <3>2. \A n \in Name : links[n] = LinkTarget(n)
      BY <1>2, <2>2 DEF FrozenInv, InstallInv, LinksDone
    <3>3. op.command.includeDev
      BY <1>2 DEF FrozenInv, PinsInv
    <3> QED
      BY <3>1, <3>2, <3>3 DEF SameVersions, LinkTarget, LinkWanted
  <2> QED
    BY <2>1, <2>2 DEF FrozenHolds, FrozenInstallsLock, Freezing
<1>3. Init => FrozenInv
  BY FrozenInvInit
<1> QED
  BY <1>1, <1>2, <1>3, PTL DEF Spec

-----------------------------------------------------------------------------
(* The lockfile fits the manifest after an install.                        *)

(***************************************************************************)
(* Three things keep a command from leaving such a lockfile: an add        *)
(* without a version records "latest" where the manifest gets a range; an  *)
(* add of an optional dependency records it as optional where the manifest *)
(* gets a required one; and --fix-lockfile pins what is asked for as       *)
(* "latest", or what is just being added, to the version it had.           *)
(***************************************************************************)

\* Some manifest asks for "latest".
LatestUsed == Latest \in EditSpec \/ \E n \in Name : InitSpec[n] = Latest

FitCommands ==
    \A c \in Command :
        /\ c.cmd = "add" => /\ c.mode # "Fix" /\ c.spec.kind \notin {"catalog", "latest"}
                            /\ \A n \in c.name : InitSection[n] # "optionalDependencies"
        /\ c.mode = "Fix" => ~LatestUsed

\* What a lockfile has of a root fits the spec of the manifest.
RequestFits(r, s) ==
    r.requested = s.spec \/ (r.requested = Exact(r.version) /\ Matches(s.spec, r.version))

RootFits(r, s) ==
    /\ s = NoRoot <=> r.requested = NoSpec
    /\ s # NoRoot => RequestFits(r, s) /\ (~s.optional => r.version # 0 /\ ~r.optional)

Fits(l, specs) == \A n \in Name : RootFits(l.roots[n], specs[n])

\* Where the specs and the sections of the manifest come from.
ManifestKept ==
    \A n \in Name :
        /\ manifest[n].spec = Latest => LatestUsed
        /\ manifest[n].section = "optionalDependencies" => InitSection[n] = "optionalDependencies"

\* A version that was resolved is one that was asked for.
Admits(r) == r.version # 0 /\ r.requested # Latest => Matches(r.requested, r.version)

LockAdmits == \A n \in Name : Admits(lock.roots[n])

\* A state that stands in for the lockfile was written for specs that the lockfile fits, if they
\* are such as a plan can have.
StateFits ==
    state.kind = "written" /\ state.current /\ (\A n \in Name : state.specs[n].spec.kind # "catalog")
        => Fits(lock, state.specs)

\* What was resolved of a root, for its spec in the manifest and what is to be added.
RootPlanned(r, s, a) ==
    /\ Admits(r)
    /\ r.version = 0 => s.optional \/ (s = NoRoot /\ a = NoSpec)
    /\ r.version # 0 => /\ a # NoSpec => r.requested = a
                        /\ a = NoSpec => s # NoRoot /\ RequestFits(r, s)

GraphFits ==
    /\ pc \in {"lock", "manifest"} =>
          \A n \in Name : RootPlanned(op.graph.roots[n], PlanSpecs(op.command)[n], Additions(op.command)[n])
    /\ pc = "manifest" => ~state.current /\ lock = LockOf(op.graph, PlanSpecs(op.command))
    /\ pc \in {"download", "link", "wire", "marker", "scripts", "state", "done"} =>
          Fits(lock, PlanSpecs(op.command))

FitInv == /\ TypeOK /\ SpecsInSections /\ op.command.includeDev /\ CommandGiven
          /\ ManifestKept /\ LockAdmits /\ StateFits /\ GraphFits

LEMMA MatchesNot ==
    ASSUME NEW s \in VersionSpec, NEW v, Matches(s, v)
    PROVE  s # NoSpec /\ s # Latest
  BY DEF Matches, NoSpec, Latest

LEMMA FitsMatch ==
    ASSUME NEW l \in LockType, NEW specs \in [Name -> RootSpec], Fits(l, specs)
    PROVE  RootSpecsMatch(Unpinned(l, specs), specs)
<1> DEFINE m == Unpinned(l, specs)
<1>1. ASSUME NEW n \in Name
      PROVE  /\ specs[n] = NoRoot <=> m.roots[n].requested = NoSpec
             /\ specs[n] # NoRoot =>
                   /\ m.roots[n].requested = specs[n].spec
                   /\ ~specs[n].optional => m.roots[n].version # 0 /\ ~m.roots[n].optional
  <2> DEFINE r == l.roots[n]
             s == specs[n]
             u == m.roots[n]
             pinned == s # NoRoot /\ r.requested = Exact(r.version) /\ Matches(s.spec, r.version)
  <2>1. r \in LockDep /\ s \in RootSpec /\ RootFits(r, s)
    BY DEF LockType, Fits
  <2>2. u = IF pinned THEN [r EXCEPT !.requested = s.spec] ELSE r
    BY DEF Unpinned, LockType
  <2> HIDE DEF r, s, u, m
  <2>3. u.version = r.version /\ u.optional = r.optional /\ u.requested = IF pinned THEN s.spec ELSE r.requested
    BY <2>1, <2>2 DEF LockDep
  <2>4. s.spec \in VersionSpec
    BY <2>1 DEF RootSpec
  <2>5. CASE pinned
    <3>1. s.spec # NoSpec
      BY <2>4, <2>5, MatchesNot
    <3>2. u.requested = s.spec /\ s # NoRoot
      BY <2>3, <2>5
    <3>3. ~s.optional => u.version # 0 /\ ~u.optional
      BY <2>1, <2>3, <3>2 DEF RootFits
    <3> QED
      BY <3>1, <3>2, <3>3 DEF r, s, u
  <2>6. CASE ~pinned
    <3>1. u.requested = r.requested
      BY <2>3, <2>6
    <3>2. s # NoRoot => u.requested = s.spec
      BY <2>1, <2>6, <3>1 DEF RootFits, RequestFits
    <3>3. s # NoRoot => (~s.optional => u.version # 0 /\ ~u.optional)
      BY <2>1, <2>3 DEF RootFits
    <3>4. s = NoRoot <=> u.requested = NoSpec
      BY <2>1, <3>1 DEF RootFits
    <3> QED
      BY <3>2, <3>3, <3>4 DEF r, s, u
  <2> QED
    BY <2>5, <2>6
<1> QED
  BY <1>1 DEF RootSpecsMatch

LEMMA MatchFits ==
    ASSUME NEW l, NEW specs, RootSpecsMatch(l, specs)
    PROVE  Fits(l, specs)
  BY DEF RootSpecsMatch, Fits, RootFits, RequestFits

\* The plan has specs for what is in the manifest, and no reference to a catalog.
LEMMA PlanIs ==
    ASSUME TypeOK, SpecsInSections, NEW c \in AnyCommand, c.includeDev, NEW n \in Name
    PROVE  LET s == PlanSpecs(c)[n] IN
           /\ s \in RootSpec /\ s.spec.kind # "catalog"
           /\ s = NoRoot <=> s.spec = NoSpec
           /\ s.optional => manifest[n].section = "optionalDependencies" /\ s # NoRoot
           /\ s.spec = Latest => manifest[n].spec = Latest
           /\ manifest[n].spec.kind # "catalog" => BuildRootSpecs(manifest, TRUE)[n] = s
<1> DEFINE x == manifest[n]
           y == ApplySpecs(manifest)[n]
           s == PlanSpecs(c)[n]
<1>1. x \in ManifestDep /\ (x.section = "none" <=> x.spec = NoSpec)
  BY TypeSplit DEF SpecsInSections
<1>2. s \in RootSpec
  BY PlanSpecsType
<1>3. y = IF x.spec.kind = "catalog" THEN [x EXCEPT !.spec = Caret(x.spec.base)] ELSE x
  BY DEF ApplySpecs
<1>4. s = IF y.section = "none" THEN NoRoot ELSE [spec |-> y.spec, optional |-> y.section = "optionalDependencies"]
  BY DEF PlanSpecs, BuildRootSpecs
<1>5. BuildRootSpecs(manifest, TRUE)[n]
         = IF x.section = "none" THEN NoRoot ELSE [spec |-> x.spec, optional |-> x.section = "optionalDependencies"]
  BY DEF BuildRootSpecs
<1> HIDE DEF x, y, s
<1>6. y.section = x.section /\ y.spec = IF x.spec.kind = "catalog" THEN Caret(x.spec.base) ELSE x.spec
  BY <1>1, <1>3 DEF ManifestDep
<1>7. y.spec.kind # "catalog" /\ (y.spec = NoSpec => x.spec = NoSpec) /\ (y.spec = Latest => x.spec = Latest)
  BY <1>6 DEF Caret, NoSpec, Latest
<1>8. NoRoot.spec = NoSpec /\ NoRoot.optional = FALSE /\ NoSpec.kind = "none" /\ NoSpec # Latest
  BY DEF NoRoot, NoSpec, Latest
<1>9. CASE y.section = "none"
  BY <1>1, <1>2, <1>4, <1>5, <1>6, <1>8, <1>9 DEF x, y, s
<1>10. CASE y.section # "none"
  <2>1. s.spec = y.spec /\ (s.optional <=> y.section = "optionalDependencies")
    BY <1>4, <1>10
  <2>2. y.spec # NoSpec
    BY <1>1, <1>6, <1>7, <1>10
  <2>3. s # NoRoot
    BY <1>8, <2>1, <2>2
  <2>4. x.spec.kind # "catalog" => BuildRootSpecs(manifest, TRUE)[n] = s
    BY <1>4, <1>5, <1>6, <1>10
  <2> QED
    BY <1>2, <1>6, <1>7, <2>1, <2>2, <2>3, <2>4 DEF x, s
<1> QED
  BY <1>9, <1>10

LEMMA FitInvInit == Init => FitInv
<1> SUFFICES ASSUME Init PROVE FitInv
  OBVIOUS
<1>1. TypeOK /\ SpecsInSections
  BY TypeInit
<1>2. op.command.includeDev /\ CommandGiven /\ GraphFits
  BY DEF Init, Idle, NoCommand, CommandGiven, GraphFits
<1>3. ManifestKept
  BY DEF Init, ManifestKept, LatestUsed
<1>4. LockAdmits
  BY DEF Init, NoLock, NoRoots, NoLockDep, LockAdmits, Admits
<1>5. StateFits
  BY DEF Init, NoState, StateFits
<1> QED
  BY <1>1, <1>2, <1>3, <1>4, <1>5 DEF FitInv

\* An install that does not resolve has found a lockfile that fits, or a state that stands in for one.
LEMMA WarmFits ==
    ASSUME FitInv, Decide(op.command).scenario # "Cold"
    PROVE  Fits(lock, PlanSpecs(op.command))
<1> DEFINE c == op.command
<1>1. \A g : ColdWith(g).scenario = "Cold"
  BY DEF ColdWith
<1>2. Decide(c) = DetectInstallScenario(c)
  BY <1>1 DEF Decide
<1>3. CASE state.kind = "written" /\ state.current
  <2>1. state.specs = PlanSpecs(c)
    BY <1>1, <1>2, <1>3 DEF DetectInstallScenario
  <2>2. c \in AnyCommand
    BY TypeSplit DEF FitInv, OpType
  <2>3. \A n \in Name : PlanSpecs(c)[n].spec.kind # "catalog"
    BY <2>2, PlanIs DEF FitInv
  <2> QED
    BY <1>3, <2>1, <2>3 DEF FitInv, StateFits
<1>4. CASE ~(state.kind = "written" /\ state.current)
  <2>1. RootSpecsMatch(lock, PlanSpecs(c))
    BY <1>1, <1>2, <1>4 DEF DetectInstallScenario
  <2> QED
    BY <2>1, MatchFits
<1> QED
  BY <1>3, <1>4

\* What the resolution takes is what the spec admits.
LEMMA ResolveAdmits ==
    ASSUME TypeOK, NEW n \in Name, NEW spec \in VersionSpec, spec.kind # "catalog", spec # NoSpec,
           NEW seed \in Graph, Resolve(n, spec, seed) # 0
    PROVE  /\ spec # Latest => Matches(spec, Resolve(n, spec, seed))
           /\ \A v \in Nat : spec = Exact(v) => Resolve(n, spec, seed) = v
<1> DEFINE v == Resolve(n, spec, seed)
<1>1. spec.base \in Nat /\ published[n] \in Nat
  BY TypeSplit, SpecKinds, VersionBounds
<1>2. spec # Latest => spec.kind \in {"caret", "exact"}
  BY DEF VersionSpec
<1>3. CASE Seeded(n, spec, seed)
  <2>1. Matches(spec, v)
    BY <1>3 DEF Resolve, Seeded
  <2>2. \A w \in Nat : spec = Exact(w) => v = w
    BY <2>1 DEF Matches, Exact
  <2> QED
    BY <2>1, <2>2
<1>4. CASE ~Seeded(n, spec, seed)
  <2>1. v = SelectVersion(n, spec)
    BY <1>4 DEF Resolve
  <2>2. spec.kind = "exact" => v = spec.base
    BY <2>1 DEF SelectVersion
  <2>3. spec.kind = "caret" => v >= spec.base
    BY <1>1, <2>1 DEF SelectVersion
  <2>4. \A w \in Nat : Exact(w).kind = "exact" /\ Exact(w).base = w
    BY DEF Exact
  <2> QED
    BY <1>2, <2>2, <2>3, <2>4 DEF Matches
<1> QED
  BY <1>3, <1>4

LEMMA PlannedFits ==
    ASSUME FitInv, FitCommands, NEW n \in Name, op.command \in Command
    PROVE  LET c == op.command
               spec == PlannedRootDependencies(c)[n]
               v == Resolve(n, spec, op.graph)
               s == PlanSpecs(c)[n]
               a == Additions(c)[n]
           IN  /\ spec = NoSpec => s = NoRoot /\ a = NoSpec
               /\ spec # NoSpec /\ v # 0 => RootPlanned([requested |-> spec, version |-> v], s, a)
<1> DEFINE c == op.command
           spec == PlannedRootDependencies(c)[n]
           v == Resolve(n, spec, op.graph)
           s == PlanSpecs(c)[n]
           a == Additions(c)[n]
           l == lock.roots[n]
           pinned == /\ c.mode = "Fix" /\ s # NoRoot /\ l.requested = s.spec /\ l.version # 0
                     /\ ~s.optional => ~l.optional
<1>1. /\ TypeOK /\ SpecsInSections /\ c \in AnyCommand /\ op.graph \in Graph /\ c.includeDev
      /\ l \in LockDep
  BY TypeSplit DEF FitInv, OpType, LockType
<1>2. /\ s \in RootSpec /\ s.spec.kind # "catalog" /\ (s = NoRoot <=> s.spec = NoSpec)
      /\ s.spec = Latest => manifest[n].spec = Latest
  BY <1>1, PlanIs
<1>3. spec \in VersionSpec /\ a \in VersionSpec
  BY <1>1, RootDependenciesType
<1>4. a # NoSpec => a = c.spec /\ c.cmd = "add"
  BY DEF Additions
<1>5. a # NoSpec => a.kind # "catalog" /\ c.mode # "Fix"
  BY <1>4 DEF FitCommands
<1>6. spec = IF pinned THEN Exact(l.version) ELSE IF a # NoSpec THEN a ELSE s.spec
  BY DEF PlannedRootDependencies, RootDependencies
<1>7. \A w : Exact(w) # NoSpec /\ Exact(w).kind # "catalog" /\ Exact(w) # Latest
  BY DEF Exact, NoSpec, Latest
<1>8. ~LatestUsed => s.spec # Latest
  BY <1>2 DEF FitInv, ManifestKept
<1>9. c.mode = "Fix" => ~LatestUsed
  BY DEF FitCommands
<1>10. Admits(l)
  BY DEF FitInv, LockAdmits
<1>11. l.version \in Nat
  BY <1>1, InstallAssumption DEF LockDep
<1> HIDE DEF spec, s, a, l, c, v
<1>12. spec.kind # "catalog"
  BY <1>2, <1>5, <1>6, <1>7
<1>13. spec = NoSpec => s = NoRoot /\ a = NoSpec
  BY <1>2, <1>6, <1>7
<1>14. ASSUME spec # NoSpec, v # 0 PROVE RootPlanned([requested |-> spec, version |-> v], s, a)
  <2> DEFINE r == [requested |-> spec, version |-> v]
  <2>1. (spec # Latest => Matches(spec, v)) /\ \A w \in Nat : spec = Exact(w) => v = w
    BY <1>1, <1>3, <1>12, <1>14, ResolveAdmits DEF v
  <2>2. r.requested = spec /\ r.version = v
    OBVIOUS
  <2> HIDE DEF r
  <2>3. Admits(r)
    BY <2>1, <2>2 DEF Admits
  <2>4. a # NoSpec => spec = a
    BY <1>5, <1>6
  <2>5. ASSUME a = NoSpec PROVE s # NoRoot /\ RequestFits(r, s)
    <3>1. CASE pinned
      <4>1. spec = Exact(l.version) /\ s # NoRoot /\ v = l.version
        BY <3>1, <1>6, <1>11, <2>1
      <4>2. Matches(s.spec, l.version)
        BY <3>1, <1>8, <1>9, <1>10 DEF Admits
      <4> QED
        BY <2>2, <4>1, <4>2 DEF RequestFits
    <3>2. CASE ~pinned
      BY <3>2, <2>2, <2>5, <1>2, <1>6, <1>14 DEF RequestFits
    <3> QED
      BY <3>1, <3>2
  <2>6. RootPlanned(r, s, a)
    BY <1>14, <2>2, <2>3, <2>4, <2>5 DEF RootPlanned
  <2> QED
    BY <2>6 DEF r
<1> QED
  BY <1>13, <1>14 DEF spec, s, a, c, v

\* What is written for a root that was planned.
LEMMA LockRootFits ==
    ASSUME NEW g \in Graph, NEW specs \in [Name -> RootSpec], NEW n \in Name, NEW a,
           specs[n] = NoRoot <=> specs[n].spec = NoSpec, specs[n].optional => specs[n] # NoRoot,
           RootPlanned(g.roots[n], specs[n], a)
    PROVE  LET r == LockOf(g, specs).roots[n]
               s == specs[n]
           IN  /\ Admits(r)
               /\ a = NoSpec \/ g.roots[n].version = 0 => RootFits(r, s)
               /\ g.roots[n].version # 0 =>
                     /\ r.version = g.roots[n].version /\ r.requested = g.roots[n].requested
                     /\ r.optional = s.optional
<1> DEFINE r == LockOf(g, specs).roots[n]
           s == specs[n]
           x == g.roots[n]
<1>1. x \in Dep /\ s \in RootSpec
  BY DEF Graph
<1>2. r = IF x.version # 0
          THEN [requested |-> x.requested, version |-> x.version, optional |-> s.optional]
          ELSE IF s.optional THEN [requested |-> s.spec, version |-> 0, optional |-> TRUE] ELSE NoLockDep
  BY DEF LockOf
<1>3. RootPlanned(x, s, a) /\ (s = NoRoot <=> s.spec = NoSpec) /\ (s.optional => s # NoRoot)
  OBVIOUS
<1>4. \A w : Exact(w) # NoSpec
  BY DEF Exact, NoSpec
<1> HIDE DEF r, s, x
<1>5. CASE x.version # 0
  <2>1. r.requested = x.requested /\ r.version = x.version /\ r.optional = s.optional
    BY <1>2, <1>5
  <2>2. Admits(r)
    BY <1>3, <2>1 DEF RootPlanned, Admits
  <2>3. ASSUME a = NoSpec PROVE RootFits(r, s)
    <3>1. s # NoRoot /\ RequestFits(x, s)
      BY <1>3, <1>5, <2>3 DEF RootPlanned
    <3>2. RequestFits(r, s)
      BY <3>1, <2>1 DEF RequestFits
    <3>3. r.requested # NoSpec
      BY <3>1, <3>2, <1>3, <1>4 DEF RequestFits
    <3> QED
      BY <3>1, <3>2, <3>3, <2>1, <1>5 DEF RootFits
  <2> QED
    BY <1>5, <2>1, <2>2, <2>3 DEF r, s, x
<1>6. CASE x.version = 0
  <2>1. r.version = 0
    BY <1>2, <1>6 DEF NoLockDep
  <2>2. Admits(r)
    BY <2>1 DEF Admits
  <2>3. CASE s.optional
    <3>1. r.requested = s.spec /\ s # NoRoot
      BY <1>2, <1>3, <1>6, <2>3
    <3>2. RootFits(r, s)
      BY <3>1, <1>3, <2>3 DEF RootFits, RequestFits
    <3> QED
      BY <1>6, <2>2, <3>2 DEF r, s, x
  <2>4. CASE ~s.optional
    <3>1. s = NoRoot /\ r.requested = NoSpec
      BY <1>2, <1>3, <1>6, <2>4 DEF RootPlanned, NoLockDep
    <3>2. RootFits(r, s)
      BY <3>1 DEF RootFits
    <3> QED
      BY <1>6, <2>2, <3>2 DEF r, s, x
  <2> QED
    BY <2>3, <2>4
<1> QED
  BY <1>5, <1>6

LEMMA StateFitsKept ==
    ASSUME TypeOK, StateFits,
           \/ (state' = state \/ state' = Touched) /\ lock' = lock
           \/ state' = [state EXCEPT !.current = FALSE]
    PROVE  StateFits'
<1>1. CASE state' = [state EXCEPT !.current = FALSE]
  BY <1>1, TypeSplit DEF StateFits, StateType
<1>2. CASE (state' = state \/ state' = Touched) /\ lock' = lock
  <2>1. state'.kind = state.kind /\ state'.current = state.current /\ state'.specs = state.specs
    BY <1>2, TypeSplit DEF Touched, StateType
  <2> QED
    BY <1>2, <2>1 DEF StateFits
<1> QED
  BY <1>1, <1>2

\* Once an install is over, its plan is still that of the manifest.
LEMMA StateWrittenFits ==
    ASSUME FitInv, pc = "state", WriteInstallState
    PROVE  StateFits'
<1> DEFINE c == op.command
<1>1. lock' = lock /\ Fits(lock, PlanSpecs(c)) /\ TypeOK /\ SpecsInSections
  BY DEF WriteInstallState, FitInv, GraphFits
<1>2. c \in AnyCommand /\ c.includeDev /\ c.includeDev = TRUE
  BY <1>1, TypeSplit DEF FitInv, OpType, AnyCommand
<1>3. CASE state' = state
  BY <1>1, <1>3, StateFitsKept DEF FitInv
<1>4. CASE state' # state
  <2>1. state'.specs = BuildRootSpecs(manifest, TRUE)
    BY <1>2, <1>4 DEF WriteInstallState
  <2>2. ASSUME NEW n \in Name, BuildRootSpecs(manifest, TRUE)[n].spec.kind # "catalog"
        PROVE  BuildRootSpecs(manifest, TRUE)[n] = PlanSpecs(c)[n]
    <3>1. manifest[n].section # "none" => BuildRootSpecs(manifest, TRUE)[n].spec = manifest[n].spec
      BY DEF BuildRootSpecs
    <3>2. manifest[n].section = "none" => manifest[n].spec.kind # "catalog"
      BY <1>1 DEF SpecsInSections, NoSpec
    <3> QED
      BY <1>1, <1>2, <2>2, <3>1, <3>2, PlanIs
  <2> QED
    BY <1>1, <2>1, <2>2 DEF StateFits, Fits
<1> QED
  BY <1>3, <1>4

\* An add writes what it asked for; the rest of the manifest and the plan stay.
LEMMA ManifestWrittenFits ==
    ASSUME FitInv, FitCommands, WriteManifest
    PROVE  ManifestKept' /\ Fits(lock, PlanSpecs(op.command))'
<1> DEFINE c == op.command
           g == op.graph
           specs == PlanSpecs(c)
<1>1. /\ pc = "manifest" /\ op' = op /\ lock' = lock /\ lock = LockOf(g, specs)
      /\ TypeOK /\ SpecsInSections /\ c \in Command /\ c \in AnyCommand /\ c.includeDev /\ g \in Graph
      /\ specs \in [Name -> RootSpec] /\ ManifestKept
  BY TypeSplit, PlanSpecsType, InstallAssumption DEF WriteManifest, FitInv, GraphFits, CommandGiven, OpType
<1>2. ASSUME NEW n \in Name
      PROVE  /\ manifest'[n].spec = Latest => LatestUsed
             /\ manifest'[n].section = "optionalDependencies" => InitSection[n] = "optionalDependencies"
             /\ RootFits(lock.roots[n], PlanSpecs(c)'[n])
  <2> DEFINE a == Additions(c)[n]
             x == g.roots[n]
             s == specs[n]
             r == lock.roots[n]
             t == PlanSpecs(c)'[n]
  <2>1. /\ s = NoRoot <=> s.spec = NoSpec
        /\ s.optional => manifest[n].section = "optionalDependencies" /\ s # NoRoot
    BY <1>1, PlanIs
  <2>2. RootPlanned(x, s, a)
    BY <1>1 DEF FitInv, GraphFits
  <2>3. /\ a = NoSpec \/ x.version = 0 => RootFits(r, s)
        /\ x.version # 0 => r.version = x.version /\ r.requested = x.requested /\ r.optional = s.optional
    BY <1>1, <2>1, <2>2, LockRootFits
  <2>4. manifest'[n] = IF a # NoSpec /\ x.version # 0
                       THEN [section |-> IF c.dev THEN "devDependencies" ELSE "dependencies",
                             spec |-> ManifestSpec(a, x.version)]
                       ELSE manifest[n]
    BY DEF WriteManifest
  <2>5. CASE ~(a # NoSpec /\ x.version # 0)
    <3>1. manifest'[n] = manifest[n]
      BY <2>4, <2>5
    <3>2. t = s
      BY <3>1, <1>1 DEF PlanSpecs, BuildRootSpecs, ApplySpecs
    <3> QED
      BY <3>1, <3>2, <2>3, <2>5, <1>1 DEF ManifestKept
  <2>6. CASE a # NoSpec /\ x.version # 0
    <3>1. c.cmd = "add" /\ n \in c.name /\ a = c.spec
      BY <2>6 DEF Additions
    <3>2. a.kind \notin {"catalog", "latest"} /\ InitSection[n] # "optionalDependencies"
      BY <3>1, <1>1 DEF FitCommands
    <3>3. a # Latest
      BY <3>2 DEF Latest
    <3>4. manifest'[n].spec = a /\ manifest'[n].section \in {"devDependencies", "dependencies"}
      BY <2>4, <2>6, <3>3 DEF ManifestSpec
    <3>5. t.spec = a /\ t.optional = FALSE
      BY <3>2, <3>4, <1>1 DEF PlanSpecs, BuildRootSpecs, ApplySpecs
    <3>6. ~s.optional
      BY <2>1, <3>2, <1>1 DEF ManifestKept
    <3>7. r.requested = a /\ r.version # 0 /\ ~r.optional
      BY <2>2, <2>3, <2>6, <3>6 DEF RootPlanned
    <3>8. t # NoRoot
      BY <2>6, <3>5 DEF NoRoot
    <3> QED
      BY <2>6, <3>3, <3>4, <3>5, <3>7, <3>8 DEF RootFits, RequestFits
  <2> QED
    BY <2>5, <2>6
<1> QED
  BY <1>1, <1>2 DEF ManifestKept, Fits

\* Where a command begins, a package may leave the manifest or get a range or a version.
LEMMA BeginKeepsManifest ==
    ASSUME TypeOK, ManifestKept, NEW c \in Command,
           \/ BeginInstall(c) \/ BeginRemove(c) \/ BeginUpgrade(c)
           \/ BeginUpgradeToLatest(c) \/ BeginRefresh(c) \/ BeginCi(c)
    PROVE  ManifestKept'
<1> SUFFICES ASSUME NEW n \in Name
             PROVE  /\ manifest'[n].spec = Latest => LatestUsed
                    /\ manifest'[n].section = "optionalDependencies" => InitSection[n] = "optionalDependencies"
  BY DEF ManifestKept
<1>1. ASSUME NEW S, NEW wanted, UpdateManifest(S, wanted)
      PROVE  manifest'[n].section = manifest[n].section /\ manifest'[n].spec \in {manifest[n].spec} \cup
                {RewriteSpec(manifest[n].spec, wanted[n])}
  <2>1. manifest[n] \in ManifestDep
    BY TypeSplit
  <2> QED
    BY <1>1, <2>1 DEF UpdateManifest, ManifestDep
<1>2. \A s, w : RewriteSpec(s, w) # Latest
  BY DEF RewriteSpec, Exact, Caret, Latest
<1>3. CASE BeginInstall(c) \/ BeginRefresh(c) \/ BeginCi(c)
  BY <1>3 DEF BeginInstall, BeginRefresh, BeginCi, ManifestKept
<1>4. CASE BeginRemove(c)
  BY <1>4 DEF BeginRemove, ManifestKept, NoSpec, Latest
<1>5. CASE BeginUpgrade(c) \/ BeginUpgradeToLatest(c)
  <2>1. PICK S, wanted : UpdateManifest(S, wanted)
    BY <1>5 DEF BeginUpgrade, BeginUpgradeToLatest
  <2> QED
    BY <1>1, <1>2, <2>1 DEF ManifestKept
<1> QED
  BY <1>3, <1>4, <1>5

LEMMA FitInvStep == NoProduction /\ FitCommands /\ FitInv /\ [Next]_vars => FitInv'
<1> SUFFICES ASSUME NoProduction, FitCommands, FitInv, [Next]_vars
             PROVE  /\ op'.command.includeDev /\ CommandGiven' /\ ManifestKept' /\ LockAdmits'
                    /\ StateFits' /\ GraphFits'
  BY TypeStep DEF FitInv
<1> DEFINE Goal == /\ op'.command.includeDev /\ CommandGiven' /\ ManifestKept' /\ LockAdmits'
                   /\ StateFits' /\ GraphFits'
<1>i. /\ TypeOK /\ SpecsInSections /\ op.command.includeDev /\ CommandGiven
      /\ ManifestKept /\ LockAdmits /\ StateFits /\ GraphFits
  BY DEF FitInv
<1>o. op \in OpType /\ op.command \in AnyCommand /\ op.graph \in Graph
  BY <1>i, TypeSplit DEF OpType
<1>p. ASSUME op'.command = op.command, manifest' = manifest
      PROVE  PlanSpecs(op.command)' = PlanSpecs(op.command)
  BY <1>p DEF PlanSpecs
<1>m. ASSUME manifest' = manifest PROVE ManifestKept'
  BY <1>m, <1>i DEF ManifestKept
<1>l. ASSUME lock' = lock PROVE LockAdmits'
  BY <1>l, <1>i DEF LockAdmits
\* Steps within a command that leave the manifest and the lockfile alone
<1>s. ASSUME op' = op, lock' = lock, manifest' = manifest, StateFits',
             \/ /\ pc' \in {"link", "wire", "marker", "scripts", "state", "done"}
                /\ pc \in {"download", "link", "wire", "marker", "scripts", "state"}
             \/ pc' = "failed" /\ pc # "idle"
      PROVE  Goal
  <2>1. PlanSpecs(op.command)' = PlanSpecs(op.command)
    BY <1>s, <1>p
  <2>2. GraphFits'
    BY <1>s, <1>i, <2>1 DEF GraphFits
  <2> QED
    BY <1>s, <1>i, <1>m, <1>l, <2>2 DEF CommandGiven
<1>1. ASSUME NEW c \in Command,
             \/ BeginInstall(c) \/ BeginRemove(c) \/ BeginUpgrade(c)
             \/ BeginUpgradeToLatest(c) \/ BeginRefresh(c) \/ BeginCi(c)
      PROVE  Goal
  <2>1. pc' = "plan" /\ op'.command = c
    BY <1>1, IdleType DEF BeginInstall, BeginRemove, BeginUpgrade, BeginUpgradeToLatest, BeginRefresh,
                BeginCi, Begin, Goto, OpType
  <2>2. \/ (state' = state \/ state' = Touched) /\ lock' = lock
        \/ state' = [state EXCEPT !.current = FALSE] /\ lock' = NoLock
    BY <1>1 DEF BeginInstall, BeginRemove, BeginUpgrade, BeginUpgradeToLatest, BeginRefresh, BeginCi
  <2>3. StateFits'
    BY <1>i, <2>2, StateFitsKept
  <2>4. LockAdmits'
    BY <1>l, <2>2 DEF LockAdmits, Admits, NoLock, NoRoots, NoLockDep
  <2>5. ManifestKept'
    BY <1>1, <1>i, BeginKeepsManifest
  <2> QED
    BY <2>1, <2>3, <2>4, <2>5 DEF CommandGiven, GraphFits, NoProduction
<1>2. CASE Plan
  <2>0. UNCHANGED <<lock, manifest, state>> /\ pc = "plan"
    BY <1>2 DEF Plan
  <2>1. StateFits'
    BY <2>0, <1>i, StateFitsKept
  <2>2. CASE FrozenRefuses(op.command)
    BY <1>2, <2>0, <2>1, <2>2, <1>s DEF Plan, Goto
  <2>3. CASE ~FrozenRefuses(op.command)
    <3> DEFINE d == Decide(op.command)
    <3>1. d \in Decision
      BY <1>o, <1>i, DecideType
    <3>2. /\ op' = [op EXCEPT !.scenario = d.scenario, !.graph = d.graph, !.hotState = d.hotState]
          /\ pc' = CASE d.scenario = "Hot" -> "scripts"
                     [] d.scenario = "WarmLinkOnly" -> "link"
                     [] d.scenario = "WarmPartialCache" -> "download"
                     [] d.scenario = "Cold" -> "resolve"
      BY <1>2, <2>3 DEF Plan, Goto
    <3>3. d.scenario # "Cold" => Fits(lock, PlanSpecs(op.command))
      BY WarmFits
    <3> HIDE DEF d
    <3>4. op'.command = op.command
      BY <3>1, <3>2, <1>o DEF OpType, Decision
    <3>5. pc' \in {"scripts", "link", "download", "resolve"} /\ (pc' = "resolve" <=> d.scenario = "Cold")
      BY <3>1, <3>2 DEF Decision
    <3>6. PlanSpecs(op.command)' = PlanSpecs(op.command)
      BY <2>0, <3>4, <1>p
    <3>7. GraphFits'
      BY <2>0, <3>3, <3>5, <3>6 DEF GraphFits
    <3> QED
      BY <2>0, <2>1, <3>4, <3>7, <1>i, <1>m, <1>l DEF CommandGiven
  <2> QED
    BY <2>2, <2>3
<1>3. CASE Download
  <2>1. StateFits'
    BY <1>3, <1>i, StateFitsKept DEF Download
  <2> QED
    BY <1>3, <2>1, <1>s DEF Download, Goto
<1>4. ASSUME NEW dropped \in SUBSET Name, NEW hollow \in SUBSET Name, ResolveCold(dropped, hollow)
      PROVE  Goal
  <2> DEFINE c == op.command
             spec == PlannedRootDependencies(c)
             g == [roots |-> [n \in Name |->
                IF spec[n] = NoSpec \/ n \in Unsatisfiable(c) \cup dropped THEN NoDep
                ELSE [requested |-> spec[n],
                      version |-> Resolve(n, spec[n], op.graph)]],
              hollow |-> hollow]
  <2>1. UNCHANGED <<state, lock, manifest>> /\ pc' = "lock" /\ pc = "resolve"
    BY <1>4, <1>i DEF ResolveCold, Goto
  <2>2. op' = [op EXCEPT !.graph = g, !.faulted = @ \/ hollow # {}]
    BY <1>4 DEF ResolveCold
  <2>3. op'.graph = g /\ op'.command = op.command
    BY <2>2, <1>o DEF OpType
  <2>4. c \in Command
    BY <2>1, <1>i DEF CommandGiven
  <2>5. Unsatisfiable(c) \subseteq OptionalRoots(c) /\ dropped \subseteq OptionalRoots(c)
    BY <1>4 DEF ResolveCold
  <2>6. ASSUME NEW n \in Name
        PROVE  RootPlanned(g.roots[n], PlanSpecs(c)[n], Additions(c)[n])
    <3>1. CASE spec[n] = NoSpec
      <4>1. PlanSpecs(c)[n] = NoRoot /\ Additions(c)[n] = NoSpec
        BY <3>1, <2>4, PlannedFits
      <4>2. g.roots[n] = NoDep
        BY <3>1
      <4> QED
        BY <4>1, <4>2 DEF RootPlanned, Admits, NoDep
    <3>2. CASE n \in Unsatisfiable(c) \cup dropped
      <4>1. g.roots[n] = NoDep
        BY <3>2
      <4>2. PlanSpecs(c)[n].optional
        BY <3>2, <2>5 DEF OptionalRoots
      <4> QED
        BY <4>1, <4>2 DEF RootPlanned, Admits, NoDep
    <3>3. CASE spec[n] # NoSpec /\ n \notin Unsatisfiable(c) \cup dropped
      <4>1. Resolve(n, spec[n], op.graph) # 0
        BY <3>3 DEF Unsatisfiable
      <4>2. g.roots[n] = [requested |-> spec[n], version |-> Resolve(n, spec[n], op.graph)]
        BY <3>3
      <4> QED
        BY <3>3, <4>1, <4>2, <2>4, PlannedFits
    <3> QED
      BY <3>1, <3>2, <3>3
  <2> HIDE DEF g
  <2>7. PlanSpecs(op.command)' = PlanSpecs(op.command) /\ Additions(op.command)' = Additions(op.command)
    BY <2>1, <2>3, <1>p DEF Additions
  <2>8. GraphFits'
    BY <2>1, <2>3, <2>6, <2>7 DEF GraphFits
  <2>9. StateFits'
    BY <2>1, <1>i, StateFitsKept
  <2> QED
    BY <2>1, <2>3, <2>8, <2>9, <1>i, <1>m, <1>l DEF CommandGiven
<1>5. CASE ResolveFails
  <2>1. StateFits'
    BY <1>5, <1>i, StateFitsKept DEF ResolveFails
  <2> QED
    BY <1>5, <2>1, <1>s DEF ResolveFails, Goto
<1>6. CASE WriteLockfile
  <2> DEFINE l == LockOf(op.graph, PlanSpecs(op.command))
  <2>1. UNCHANGED <<op, manifest>> /\ pc' = "manifest" /\ pc = "lock" /\ lock' = l
        /\ state' = [state EXCEPT !.current = FALSE]
    BY <1>6 DEF WriteLockfile, Goto
  <2>2. PlanSpecs(op.command) \in [Name -> RootSpec]
    BY <1>i, <1>o, PlanSpecsType
  <2>3. ASSUME NEW n \in Name PROVE Admits(l.roots[n])
    <3>1. RootPlanned(op.graph.roots[n], PlanSpecs(op.command)[n], Additions(op.command)[n])
      BY <2>1, <1>i DEF GraphFits
    <3>2. /\ PlanSpecs(op.command)[n] = NoRoot <=> PlanSpecs(op.command)[n].spec = NoSpec
          /\ PlanSpecs(op.command)[n].optional => PlanSpecs(op.command)[n] # NoRoot
      BY <1>i, <1>o, PlanIs
    <3> QED
      BY <2>2, <3>1, <3>2, <1>o, LockRootFits
  <2>4. PlanSpecs(op.command)' = PlanSpecs(op.command) /\ Additions(op.command)' = Additions(op.command)
    BY <2>1, <1>p DEF Additions
  <2>5. lock' = LockOf(op.graph, PlanSpecs(op.command))'
    BY <2>1, <2>4 DEF LockOf
  <2> HIDE DEF l
  <2>6. LockAdmits'
    BY <2>1, <2>3 DEF LockAdmits
  <2>7. state'.current = FALSE
    BY <2>1, <1>i, TypeSplit DEF StateType
  <2>8. GraphFits'
    BY <2>1, <2>4, <2>5, <2>7, <1>i DEF GraphFits
  <2>9. StateFits'
    BY <2>7 DEF StateFits
  <2> QED
    BY <2>1, <2>6, <2>8, <2>9, <1>i, <1>m DEF CommandGiven
<1>7. CASE WriteManifest
  <2>1. UNCHANGED <<state, lock, op>> /\ pc' = "link" /\ pc = "manifest"
    BY <1>7 DEF WriteManifest, Goto
  <2>2. ManifestKept' /\ Fits(lock, PlanSpecs(op.command))'
    BY <1>7, ManifestWrittenFits
  <2>3. StateFits'
    BY <2>1, <1>i, StateFitsKept
  <2>4. GraphFits'
    BY <2>1, <2>2 DEF GraphFits
  <2> QED
    BY <2>1, <2>2, <2>3, <2>4, <1>i, <1>l DEF CommandGiven
<1>8. CASE LinkPrune
  <2>1. UNCHANGED <<lock, op, manifest>> /\ (state' = state \/ state' = Touched) /\ pc = "link"
        /\ pc' \in {"failed", "wire"}
    BY <1>8 DEF LinkPrune, Goto
  <2>2. StateFits'
    BY <2>1, <1>i, StateFitsKept
  <2> QED
    BY <2>1, <2>2, <1>s
<1>9. ASSUME NEW n \in Name, LinkRoot(n) PROVE Goal
  <2>1. StateFits'
    BY <1>9, <1>i, StateFitsKept DEF LinkRoot
  <2> QED
    BY <1>9, <2>1, <1>s DEF LinkRoot
<1>10. CASE LinkDone \/ WriteIntegrity \/ RunInstallScripts
  <2>1. /\ UNCHANGED <<lock, op, manifest, state>> /\ pc \in {"wire", "marker", "scripts"}
        /\ pc' \in {"marker", "scripts", "state"}
    BY <1>10 DEF LinkDone, WriteIntegrity, RunInstallScripts, Goto
  <2>2. StateFits'
    BY <2>1, <1>i, StateFitsKept
  <2> QED
    BY <2>1, <2>2, <1>s
<1>11. CASE WriteInstallState
  <2>1. UNCHANGED <<lock, op, manifest>> /\ pc' = "done" /\ pc = "state"
    BY <1>11 DEF WriteInstallState, Goto
  <2>2. StateFits'
    BY <1>11, <2>1, StateWrittenFits
  <2> QED
    BY <2>1, <2>2, <1>s
<1>12. CASE Return
  <2>1. StateFits'
    BY <1>12, <1>i, StateFitsKept DEF Return
  <2>2. UNCHANGED <<lock, manifest>> /\ pc' = "idle" /\ op'.command.includeDev
    BY <1>12 DEF Return, Goto, Idle, NoCommand
  <2> QED
    BY <2>1, <2>2, <1>m, <1>l DEF CommandGiven, GraphFits
<1>13. CASE Crash
  <2>1. StateFits'
    BY <1>13, <1>i, StateFitsKept DEF Crash
  <2>2. op'.command = op.command /\ pc' = "failed" /\ pc # "idle" /\ manifest' = manifest
    BY <1>13, <1>o DEF Crash, Goto, OpType, Active
  <2>3. lock' = lock \/ lock' = TornLock
    BY <1>13 DEF Crash
  <2>4. LockAdmits'
    BY <1>l, <2>3 DEF LockAdmits, Admits, TornLock, NoRoots, NoLockDep
  <2> QED
    BY <2>1, <2>2, <2>4, <1>i, <1>m DEF CommandGiven, GraphFits
<1>14. CASE LoseNodeModules \/ LoseStore
  <2>1. pc' = "idle" /\ UNCHANGED <<op, lock, manifest>> /\ (state' = state \/ state' = Touched)
    BY <1>14 DEF LoseNodeModules, LoseStore
  <2>2. StateFits'
    BY <2>1, <1>i, StateFitsKept
  <2> QED
    BY <2>1, <2>2, <1>i, <1>m, <1>l DEF CommandGiven, GraphFits
<1>15. ASSUME NEW n \in Name, Publish(n) \/ \E s \in EditSpec : Edit(n, s) PROVE Goal
  <2>1. UNCHANGED <<state, lock, pc, op>> /\ pc = "idle"
    BY <1>15 DEF Publish, Edit
  <2>2. ManifestKept'
    <3>1. CASE Publish(n)
      BY <3>1, <1>m DEF Publish
    <3>2. ASSUME NEW s \in EditSpec, Edit(n, s) PROVE ManifestKept'
      BY <3>2, <1>i, TypeSplit DEF Edit, ManifestKept, LatestUsed, ManifestDep
    <3> QED
      BY <1>15, <3>1, <3>2
  <2>3. StateFits'
    BY <2>1, <1>i, StateFitsKept
  <2> QED
    BY <2>1, <2>2, <2>3, <1>i, <1>l DEF CommandGiven, GraphFits
<1>16. CASE UNCHANGED vars
  <2>1. UNCHANGED <<manifest, lock, state, pc, op>>
    BY <1>16 DEF vars
  <2>2. StateFits'
    BY <2>1, <1>i, StateFitsKept
  <2>3. PlanSpecs(op.command)' = PlanSpecs(op.command) /\ Additions(op.command)' = Additions(op.command)
    BY <2>1, <1>p DEF Additions
  <2>4. LockOf(op.graph, PlanSpecs(op.command))' = LockOf(op.graph, PlanSpecs(op.command))
    BY <2>1, <2>3 DEF LockOf
  <2>5. GraphFits'
    BY <2>1, <2>3, <2>4, <1>i DEF GraphFits
  <2> QED
    BY <2>1, <2>2, <2>5, <1>i, <1>m, <1>l DEF CommandGiven
<1> QED
  BY <1>1, <1>2, <1>3, <1>4, <1>5, <1>6, <1>7, <1>8, <1>9, <1>10, <1>11, <1>12, <1>13, <1>14,
     <1>15, <1>16 DEF Next, Progress

\* After an install the lockfile is one that a frozen install accepts, but for the pins of
\* --fix-lockfile, whatever was added, removed, upgraded, edited or killed before it and whether it
\* resolved or trusted the install state: for commands that record what they write (lockfile::write,
\* write_manifest, write_project_install_state).
THEOREM LockfileFitsCorrect == NoProduction /\ FitCommands => (Spec => []LockfileFits)
<1> SUFFICES ASSUME NoProduction, FitCommands PROVE Spec => []LockfileFits
  OBVIOUS
<1>1. FitInv /\ [Next]_vars => FitInv'
  BY FitInvStep
<1>2. ASSUME FitInv PROVE LockfileFits
  <2>1. lock \in LockType /\ PlanSpecs(op.command) \in [Name -> RootSpec]
    BY <1>2, TypeSplit, PlanSpecsType DEF FitInv, OpType
  <2>2. pc = "done" => Fits(lock, PlanSpecs(op.command))
    BY <1>2 DEF FitInv, GraphFits
  <2> QED
    BY <2>1, <2>2, FitsMatch DEF LockfileFits
<1>3. Spec => []FitInv
  BY <1>1, FitInvInit, PTL DEF Spec
<1> QED
  BY <1>2, <1>3, PTL

-----------------------------------------------------------------------------
(* Least and greatest numbers *)

\* The least of some numbers
LEMMA Least ==
    ASSUME NEW at, at \subseteq Nat, at # {}
    PROVE  \E i \in at : \A j \in at : i <= j
<1> DEFINE R == OpToRel(<, Nat)
<1>1. IsWellFoundedOn(R, Nat)
  BY NatLessThanWellFounded
<1>2. \A i, j \in Nat : i < j => <<i, j>> \in R
  BY DEF OpToRel
<1> HIDE DEF R
<1>3. PICK i \in at : \A j \in at : ~ (<<j, i>> \in R)
  BY <1>1, WFMin
<1>4. ASSUME NEW j \in at PROVE i <= j
  <2>1. ~ (j < i)
    BY <1>2, <1>3, <1>4
  <2> QED
    BY <2>1
<1> QED
  BY <1>4

\* The greatest of some numbers, of which none is above n
LEMMA Greatest ==
    ASSUME NEW n \in Nat, NEW at, at \subseteq 0..n, at # {}
    PROVE  \E i \in at : \A j \in at : j <= i
<1> DEFINE left == {n - i : i \in at}
<1>1. left \subseteq Nat /\ left # {}
  <2>1. ASSUME NEW i \in at PROVE n - i \in Nat
    BY <2>1
  <2>2. PICK i : i \in at
    OBVIOUS
  <2>3. n - i \in left
    BY <2>2
  <2> QED
    BY <2>1, <2>3
<1>2. PICK l \in left : \A j \in left : l <= j
  BY <1>1, Least
<1>3. PICK k \in at : l = n - k
  OBVIOUS
<1>4. ASSUME NEW j \in at PROVE j <= k
  <2>1. n - j \in left /\ j \in 0..n /\ k \in 0..n
    BY <1>3, <1>4
  <2>2. n - k <= n - j
    BY <1>2, <1>3, <2>1
  <2> QED
    BY <2>1, <2>2
<1> QED
  BY <1>4

-----------------------------------------------------------------------------
(* Places of a dependency (ForeignLockfile) *)

\* The candidate that lies below the first n names of p
Below(p, n, d) == Append(SubSeq(p, 1, n), d)

LEMMA BelowIs ==
    ASSUME NEW p \in Seq(STRING), NEW d \in STRING, NEW n \in 0..Len(p)
    PROVE  /\ SubSeq(p, 1, n) \in Seq(STRING) /\ Len(SubSeq(p, 1, n)) = n
           /\ Below(p, n, d) \in Seq(STRING) /\ Len(Below(p, n, d)) = n + 1
           /\ Below(p, n, d)[n + 1] = d
           /\ SubSeq(Below(p, n, d), 1, n) = SubSeq(p, 1, n)
<1> DEFINE s == SubSeq(p, 1, n)
           t == Append(s, d)
<1>1. s \in Seq(STRING) /\ Len(s) = n
  <2>1. \A i \in 1..n : p[i] \in STRING
    BY ElementOfSeq
  <2> QED
    BY <2>1, SubSeqProperties
<1> HIDE DEF s
<1>2. t \in Seq(STRING) /\ Len(t) = n + 1 /\ t[n + 1] = d /\ \A i \in 1..n : t[i] = s[i]
  BY <1>1, AppendProperties
<1>3. SubSeq(t, 1, n) = s
  <2>1. /\ SubSeq(t, 1, n) \in Seq(STRING) /\ Len(SubSeq(t, 1, n)) = n
        /\ \A i \in 1..n : SubSeq(t, 1, n)[i] = t[i]
    <3> HIDE DEF t
    <3>1. \A i \in 1..n : t[i] \in STRING
      BY <1>2, ElementOfSeq
    <3> QED
      BY <3>1, SubSeqProperties
  <2> HIDE DEF t
  <2> QED
    BY <1>1, <1>2, <2>1, SeqEqual
<1> QED
  BY <1>1, <1>2, <1>3 DEF s, Below

\* A place is above p just if it is a candidate of p.
LEMMA AboveIs ==
    ASSUME NEW p \in Seq(STRING), NEW d \in STRING, NEW paths, paths \subseteq Seq(STRING), Empty \notin paths
    PROVE  /\ \A q \in Above(p, d, paths) : /\ Len(q) \in 1..(Len(p) + 1) /\ q = Below(p, Len(q) - 1, d)
                                            /\ q \in paths
           /\ \A n \in 0..Len(p) : Below(p, n, d) \in paths => Below(p, n, d) \in Above(p, d, paths)
<1>1. ASSUME NEW q \in Above(p, d, paths)
      PROVE  Len(q) \in 1..(Len(p) + 1) /\ q = Below(p, Len(q) - 1, d) /\ q \in paths
  <2>1. /\ q \in Seq(STRING) /\ q # Empty /\ q \in paths /\ Len(q) <= Len(p) + 1 /\ q[Len(q)] = d
        /\ SubSeq(q, 1, Len(q) - 1) = SubSeq(p, 1, Len(q) - 1)
    BY <1>1 DEF Above
  <2>2. PICK s \in Seq(STRING), e \in STRING : q = Append(s, e)
    BY <2>1, SequenceEmptyOrAppend DEF Empty
  <2>3. Len(q) = Len(s) + 1 /\ q[Len(q)] = e /\ Len(s) \in Nat /\ Len(p) \in Nat
    <3>1. Len(s) \in Nat /\ Len(p) \in Nat
      BY LenProperties
    <3>2. Len(Append(s, e)) = Len(s) + 1 /\ Append(s, e)[Len(s) + 1] = e
      BY AppendProperties
    <3> QED
      BY <2>2, <3>1, <3>2
  <2>4. SubSeq(q, 1, Len(q) - 1) = s
    <3>1. /\ \A i \in 1..Len(s) : s[i] \in STRING /\ q[i] = s[i]
      BY <2>2, AppendProperties, ElementOfSeq
    <3>2. /\ SubSeq(q, 1, Len(s)) \in Seq(STRING) /\ Len(SubSeq(q, 1, Len(s))) = Len(s)
          /\ \A i \in 1..Len(s) : SubSeq(q, 1, Len(s))[i] = q[i]
      <4>1. \A i \in 1..Len(s) : q[i] \in STRING
        BY <3>1
      <4> QED
        BY <4>1, <2>3, SubSeqProperties
    <3>3. SubSeq(q, 1, Len(s)) = s
      BY <3>1, <3>2, SeqEqual
    <3> QED
      BY <2>3, <3>3
  <2>5. q = Append(SubSeq(p, 1, Len(q) - 1), d)
    BY <2>1, <2>2, <2>3, <2>4
  <2>6. Len(q) \in 1..(Len(p) + 1)
    BY <2>1, <2>3
  <2> QED
    BY <2>1, <2>5, <2>6 DEF Below
<1>2. ASSUME NEW n \in 0..Len(p), Below(p, n, d) \in paths
      PROVE  Below(p, n, d) \in Above(p, d, paths)
  <2> DEFINE q == Below(p, n, d)
  <2>1. Len(q) = n + 1 /\ q[n + 1] = d /\ SubSeq(q, 1, n) = SubSeq(p, 1, n) /\ q \in paths
    BY <1>2, BelowIs
  <2> HIDE DEF q
  <2>2. Len(q) <= Len(p) + 1 /\ Len(q) - 1 = n
    BY <2>1
  <2>3. q[Len(q)] = d
    BY <2>1
  <2>4. SubSeq(q, 1, Len(q) - 1) = SubSeq(p, 1, Len(q) - 1)
    BY <2>1, <2>2
  <2>5. q \in Above(p, d, paths)
    BY <2>1, <2>2, <2>3, <2>4 DEF Above
  <2> QED
    BY <2>5 DEF q
<1> QED
  BY <1>1, <1>2

\* The first of the candidates is what one of them means, or nothing.
LEMMA FirstOfIs ==
    ASSUME NEW candidates, NEW keys, \A k \in DOMAIN candidates : k \in Nat
    PROVE  FirstOf(candidates, keys) \in {NONE} \cup {keys[q] : q \in DOMAIN keys}
<1> DEFINE hits == {k \in DOMAIN candidates : candidates[k] \in DOMAIN keys}
<1>1. CASE hits = {}
  BY <1>1 DEF FirstOf
<1>2. CASE hits # {}
  <2>1. \E k \in hits : \A j \in hits : k <= j
    <3>1. hits \subseteq Nat
      OBVIOUS
    <3> QED
      BY <1>2, <3>1, Least
  <2> DEFINE first == CHOOSE k \in hits : \A j \in hits : k <= j
  <2>2. first \in hits
    BY <2>1
  <2>3. FirstOf(candidates, keys) = keys[candidates[first]]
    BY <1>2 DEF FirstOf
  <2> QED
    BY <2>2, <2>3
<1> QED
  BY <1>1, <1>2

\* The first of the candidates is what lies nearest.
LEMMA FirstIsNearest ==
    ASSUME NEW p \in Seq(STRING), NEW d \in STRING, NEW keys, DOMAIN keys \subseteq Seq(STRING), Empty \notin DOMAIN keys
    PROVE  FirstOf(Candidates(p, d), keys) = At(keys, p, d)
<1> DEFINE cs == Candidates(p, d)
           above == Above(p, d, DOMAIN keys)
           hits == {k \in DOMAIN cs : cs[k] \in DOMAIN keys}
<1>1. Len(p) \in Nat /\ DOMAIN cs = 1..(Len(p) + 1) /\ \A k \in DOMAIN cs : cs[k] = Below(p, Len(p) + 1 - k, d)
  <2>1. Len(p) \in Nat
    BY LenProperties
  <2>2. cs = [k \in 1..(Len(p) + 1) |-> Below(p, Len(p) + 1 - k, d)]
    BY DEF Candidates, Below
  <2> QED
    BY <2>1, <2>2
<1>2. \A q \in above : Len(q) \in 1..(Len(p) + 1) /\ q = Below(p, Len(q) - 1, d) /\ q \in DOMAIN keys
  BY AboveIs
<1>3. \A n \in 0..Len(p) : Below(p, n, d) \in DOMAIN keys => Below(p, n, d) \in above
  BY AboveIs
<1>4. \A n \in 0..Len(p) : Len(Below(p, n, d)) = n + 1
  BY BelowIs
<1> HIDE DEF cs, above
<1>5. \A k \in hits : cs[k] \in above /\ Len(cs[k]) = Len(p) + 2 - k
  <2> SUFFICES ASSUME NEW k \in hits PROVE cs[k] \in above /\ Len(cs[k]) = Len(p) + 2 - k
    OBVIOUS
  <2> DEFINE n == Len(p) + 1 - k
  <2>1. k \in 1..(Len(p) + 1) /\ cs[k] = Below(p, n, d) /\ cs[k] \in DOMAIN keys
    BY <1>1
  <2>2. n \in 0..Len(p) /\ n + 1 = Len(p) + 2 - k
    BY <1>1, <2>1
  <2> HIDE DEF n
  <2> QED
    BY <1>3, <1>4, <2>1, <2>2
<1>6. \A q \in above : Len(p) + 2 - Len(q) \in hits /\ cs[Len(p) + 2 - Len(q)] = q
  <2> SUFFICES ASSUME NEW q \in above
               PROVE  Len(p) + 2 - Len(q) \in hits /\ cs[Len(p) + 2 - Len(q)] = q
    OBVIOUS
  <2>1. Len(q) \in 1..(Len(p) + 1) /\ q = Below(p, Len(q) - 1, d) /\ q \in DOMAIN keys
    BY <1>2
  <2>2. Len(p) + 2 - Len(q) \in DOMAIN cs /\ Len(p) + 1 - (Len(p) + 2 - Len(q)) = Len(q) - 1
    BY <1>1, <2>1
  <2>3. cs[Len(p) + 2 - Len(q)] = q
    BY <1>1, <2>1, <2>2
  <2> QED
    BY <2>1, <2>2, <2>3
<1>7. CASE hits = {}
  <2>1. above = {}
    BY <1>6, <1>7
  <2> QED
    BY <1>7, <2>1 DEF FirstOf, At, cs, above
<1>8. CASE hits # {}
  <2>0. hits \subseteq Nat
    BY <1>1
  <2> DEFINE first == CHOOSE k \in hits : \A j \in hits : k <= j
             near == CHOOSE q \in above : \A r \in above : Len(r) <= Len(q)
  <2>1. first \in hits /\ \A j \in hits : first <= j
    <3>1. \E k \in hits : \A j \in hits : k <= j
      BY <1>8, <2>0, Least
    <3> QED
      BY <3>1
  <2> HIDE DEF first
  <2>2. cs[first] \in above /\ \A r \in above : Len(r) <= Len(cs[first])
    <3>1. ASSUME NEW r \in above PROVE Len(r) <= Len(cs[first])
      <4>1. first <= Len(p) + 2 - Len(r) /\ Len(r) \in 1..(Len(p) + 1) /\ first \in Nat
        BY <1>2, <1>6, <2>0, <2>1, <3>1
      <4> QED
        BY <1>1, <1>5, <2>1, <4>1
    <3> QED
      BY <1>5, <2>1, <3>1
  <2>3. near \in above /\ \A r \in above : Len(r) <= Len(near)
    BY <2>2
  <2> HIDE DEF near
  <2>4. Len(near) = Len(cs[first])
    <3>1. Len(near) <= Len(cs[first]) /\ Len(cs[first]) <= Len(near)
      BY <2>2, <2>3
    <3>2. Len(near) \in Nat /\ Len(cs[first]) \in Nat
      BY <1>2, <2>2, <2>3
    <3> QED
      BY <3>1, <3>2
  <2>5. near = cs[first]
    BY <1>2, <2>2, <2>3, <2>4
  <2>6. above # {}
    BY <2>2
  <2>7. FirstOf(cs, keys) = keys[cs[first]]
    BY <1>8 DEF FirstOf, first
  <2>8. At(keys, p, d) = keys[near]
    BY <2>6 DEF At, near, above
  <2> QED
    BY <2>5, <2>7, <2>8 DEF cs
<1> QED
  BY <1>7, <1>8

-----------------------------------------------------------------------------
(* What the formats share: the lockfile of some importers and copies *)

Missing == {NONE, MEMBER}

\* Copies have names and versions, and all that is found is a copy, a member or nothing.
Proper(importers, copies) ==
    /\ \A c \in copies : Package(c.key)
    /\ \A c \in copies \cup importers : \A d \in Declared(c.need, c.maybe) :
           c.finds[d] \in Missing \cup {e.key : e \in copies}

\* Each one that is seen is like one of the copies.
Alike(copies, seen) ==
    /\ copies \subseteq seen
    /\ \A c \in seen : \E e \in copies :
           e.key = c.key /\ e.need = c.need /\ e.maybe = c.maybe /\ e.finds = c.finds

LEMMA EdgesAre ==
    ASSUME NEW c, ~Lacks(c)
    PROVE  /\ DOMAIN Edges(c) = {d \in Declared(c.need, c.maybe) : c.finds[d] \notin Missing}
           /\ \A d \in DOMAIN Edges(c) : Edges(c)[d] = c.finds[d]
           /\ Edges(c) = [d \in DOMAIN Edges(c) |-> c.finds[d]]
           /\ Finds(c) = {<<d, Edges(c)[d]>> : d \in DOMAIN Edges(c)}
<1> DEFINE D == {d \in Declared(c.need, c.maybe) : c.finds[d] \notin Missing}
<1>1. DOMAIN c.need \cup {d \in DOMAIN c.maybe : c.finds[d] \notin Missing} = D
  BY DEF Lacks, Declared, Missing
<1>2. Edges(c) = [d \in D |-> c.finds[d]]
  BY <1>1 DEF Edges, Missing
<1>3. Finds(c) = {<<d, c.finds[d]>> : d \in D}
  BY DEF Finds, Missing
<1> HIDE DEF D
<1>4. DOMAIN Edges(c) = D /\ \A d \in D : Edges(c)[d] = c.finds[d]
  BY <1>2
<1>5. Finds(c) = {<<d, Edges(c)[d]>> : d \in D}
  BY <1>3, <1>4
<1> QED
  BY <1>2, <1>4, <1>5 DEF D

LEMMA SameFinds ==
    ASSUME NEW c, NEW e, ~Lacks(c), ~Lacks(e), Finds(c) = Finds(e)
    PROVE  Edges(c) = Edges(e)
<1>1. DOMAIN Edges(c) = DOMAIN Edges(e) /\ \A d \in DOMAIN Edges(c) : Edges(c)[d] = Edges(e)[d]
  <2>1. Finds(c) = {<<d, Edges(c)[d]>> : d \in DOMAIN Edges(c)} /\ Finds(e) = {<<d, Edges(e)[d]>> : d \in DOMAIN Edges(e)}
    BY EdgesAre
  <2>2. ASSUME NEW d \in DOMAIN Edges(c) PROVE d \in DOMAIN Edges(e) /\ Edges(c)[d] = Edges(e)[d]
    <3>1. <<d, Edges(c)[d]>> \in {<<g, Edges(e)[g]>> : g \in DOMAIN Edges(e)}
      BY <2>1, <2>2
    <3>2. PICK g \in DOMAIN Edges(e) : <<d, Edges(c)[d]>> = <<g, Edges(e)[g]>>
      BY <3>1
    <3> QED
      BY <3>2
  <2>3. ASSUME NEW d \in DOMAIN Edges(e) PROVE d \in DOMAIN Edges(c)
    <3>1. <<d, Edges(e)[d]>> \in {<<g, Edges(c)[g]>> : g \in DOMAIN Edges(c)}
      BY <2>1, <2>3
    <3>2. PICK g \in DOMAIN Edges(c) : <<d, Edges(e)[d]>> = <<g, Edges(c)[g]>>
      BY <3>1
    <3> QED
      BY <3>2
  <2> QED
    BY <2>2, <2>3
<1>2. /\ Edges(c) = [d \in DOMAIN Edges(c) |-> c.finds[d]] /\ Edges(e) = [d \in DOMAIN Edges(e) |-> e.finds[d]]
      /\ \A d \in DOMAIN Edges(c) : Edges(c)[d] = c.finds[d]
      /\ \A d \in DOMAIN Edges(e) : Edges(e)[d] = e.finds[d]
  BY EdgesAre
<1> QED
  BY <1>1, <1>2

\* What is asked for, by name, with a package or nothing behind it
LEMMA IncomingAre ==
    ASSUME NEW i, NEW x \in Incoming(i)
    PROVE  /\ x.name \in Declared(i.need, i.maybe) /\ x.key = i.finds[x.name] /\ x.key # MEMBER
           /\ x.optional \in BOOLEAN
<1>1. x \in {[name |-> d, range |-> i.need[d], optional |-> FALSE, key |-> i.finds[d]] :
                 d \in {d \in DOMAIN i.need : i.finds[d] # MEMBER}}
             \cup {[name |-> d, range |-> i.maybe[d], optional |-> TRUE, key |-> i.finds[d]] :
                 d \in {d \in DOMAIN i.maybe : i.finds[d] # MEMBER}}
  BY DEF Incoming
<1>2. CASE \E d \in DOMAIN i.need : /\ i.finds[d] # MEMBER
          /\ x = [name |-> d, range |-> i.need[d], optional |-> FALSE, key |-> i.finds[d]]
  BY <1>2 DEF Declared
<1>3. CASE \E d \in DOMAIN i.maybe : /\ i.finds[d] # MEMBER
          /\ x = [name |-> d, range |-> i.maybe[d], optional |-> TRUE, key |-> i.finds[d]]
  BY <1>3 DEF Declared
<1> QED
  BY <1>1, <1>2, <1>3

\* The package behind a name of the root is the one that all find who find one.
LEMMA RootKeyIs ==
    ASSUME NEW of, of # {},
           \A x, y \in of : NONE \notin {x.key, y.key} => x.key = y.key
    PROVE  /\ \A x \in of : x.key # NONE => RootKey(of) = x.key
           /\ (\A x \in of : x.key = NONE) => RootKey(of) = NONE
<1> DEFINE keys == {x.key : x \in of} \ {NONE}
           alias == {k \in keys : \A x \in of : k[1] # x.name}
           S == IF alias # {} THEN alias ELSE IF keys # {} THEN keys ELSE {NONE}
<1>1. RootKey(of) = CHOOSE k \in S : TRUE
  BY DEF RootKey
<1>2. ASSUME NEW x \in of, x.key # NONE PROVE RootKey(of) = x.key
  <2>1. keys = {x.key}
    BY <1>2
  <2>2. S = {x.key}
    BY <2>1
  <2> QED
    BY <1>1, <2>2
<1>3. ASSUME \A x \in of : x.key = NONE PROVE RootKey(of) = NONE
  <2>1. keys = {}
    BY <1>3
  <2>2. S = {NONE}
    BY <2>1
  <2> QED
    BY <1>1, <2>2
<1> QED
  BY <1>2, <1>3

\* What is asked for has a package behind it, or nothing.
LEMMA AsksAre ==
    ASSUME NEW I, NEW C, Proper(I, C), NEW x \in UNION {Incoming(i) : i \in I}
    PROVE  /\ x.key = NONE \/ (x.key \in {c.key : c \in C} /\ Package(x.key))
           /\ x.optional \in BOOLEAN
<1>1. PICK i \in I : x \in Incoming(i)
  OBVIOUS
<1>2. /\ x.name \in Declared(i.need, i.maybe) /\ x.key = i.finds[x.name] /\ x.key # MEMBER
      /\ x.optional \in BOOLEAN
  BY <1>1, IncomingAre
<1>3. x.key \in Missing \cup {e.key : e \in C}
  BY <1>1, <1>2 DEF Proper
<1>4. \A c \in C : Package(c.key)
  BY DEF Proper
<1> QED
  BY <1>2, <1>3, <1>4 DEF Missing

\* Those that agree and show their aliases ask for one package.
LEMMA AgreeOnKey ==
    ASSUME NEW of, Agree(of), NEW x \in of, NEW y \in of,
           x.key # NONE, y.key # NONE, Package(x.key), Package(y.key), x.key[1] = y.key[1]
    PROVE  x.key = y.key
<1>1. x.key[2] = y.key[2]
  BY DEF Agree
<1> QED
  BY <1>1 DEF Package

\* Why Lockfile refuses
RefusedFor(I, C) ==
    LET asks == UNION {Incoming(i) : i \in I} IN
    \/ \E c \in C : Lacks(c)
    \/ ~VariantsAgree(C)
    \/ \E x \in asks : x.key = NONE /\ ~x.optional
    \/ \E x \in asks : ~Agree(Under(asks, x.name))

LEMMA LockfileIs ==
    ASSUME NEW I, NEW C
    PROVE  /\ RefusedFor(I, C) => Lockfile(I, C) = Refused
           /\ ~RefusedFor(I, C) => Lockfile(I, C) =
                  [is |-> "read", root |-> MergeRoot(UNION {Incoming(i) : i \in I}), packages |-> Collapse(C)]
  BY DEF Lockfile, RefusedFor

\* A lockfile is refused for what its importers and copies say.
LEMMA RefusedContradicts ==
    ASSUME NEW f, NEW I, NEW C, Proper(I, C), Alike(C, SeenCopies(f)), SeenImporters(f) = I, RefusedFor(I, C)
    PROVE  Contradicts(f)
<1> DEFINE asks == UNION {Incoming(i) : i \in I}
<1>1. SeenAsks(f) = asks /\ C \subseteq SeenCopies(f)
  BY DEF SeenAsks, Alike
<1> HIDE DEF asks
<1>2. CASE \E c \in C : Lacks(c)
  BY <1>1, <1>2 DEF Contradicts
<1>3. CASE (\A c \in C : ~Lacks(c)) /\ ~VariantsAgree(C)
  <2>1. PICK c, e \in C : c.key = e.key /\ Edges(c) # Edges(e)
    BY <1>3 DEF VariantsAgree
  <2>2. Finds(c) # Finds(e)
    BY <1>3, <2>1, SameFinds
  <2> QED
    BY <1>1, <2>1, <2>2 DEF Contradicts
<1>4. CASE \E x \in asks : x.key = NONE /\ ~x.optional
  BY <1>1, <1>4 DEF Contradicts
<1>5. CASE \E x \in asks : ~Agree(Under(asks, x.name))
  <2>1. PICK n : ~Agree(Under(asks, n))
    BY <1>5
  <2>2. PICK x, y \in Under(asks, n) :
            ~ (/\ x.range = y.range
               /\ NONE \notin {x.key, y.key} =>
                      /\ x.key[2] = y.key[2]
                      /\ x.name \in {x.key[1], y.key[1]} \/ x.key[1] = y.key[1])
    BY <2>1 DEF Agree
  <2>3. x \in asks /\ y \in asks /\ x.name = y.name
    BY <2>2 DEF Under
  <2>4. x.range # y.range \/ (NONE \notin {x.key, y.key} /\ x.key # y.key)
    BY <2>2
  <2> QED
    BY <1>1, <2>3, <2>4 DEF Contradicts
<1> QED
  BY <1>2, <1>3, <1>4, <1>5 DEF RefusedFor, asks

\* The edges that are imported are those of every copy.
LEMMA CollapseIs ==
    ASSUME NEW C, VariantsAgree(C)
    PROVE  /\ DOMAIN Collapse(C) = {c.key : c \in C}
           /\ \A c \in C : Collapse(C)[c.key] = Edges(c)
<1>1. DOMAIN Collapse(C) = {c.key : c \in C}
  BY DEF Collapse
<1>2. ASSUME NEW c \in C PROVE Collapse(C)[c.key] = Edges(c)
  <2> DEFINE e == CHOOSE x \in C : x.key = c.key
  <2>1. e \in C /\ e.key = c.key
    BY <1>2
  <2>2. Collapse(C)[c.key] = Edges(e)
    BY <1>2 DEF Collapse
  <2> HIDE DEF e
  <2> QED
    BY <1>2, <2>1, <2>2 DEF VariantsAgree
<1> QED
  BY <1>1, <1>2

\* The root has what all ask for.
LEMMA MergedIs ==
    ASSUME NEW asks, NEW x \in asks, \A y \in asks : Agree(Under(asks, y.name)),
           \A y, z \in asks : y.name = z.name /\ NONE \notin {y.key, z.key} => y.key = z.key
    PROVE  /\ DOMAIN MergeRoot(asks) = {y.name : y \in asks}
           /\ MergeRoot(asks)[x.name].range = x.range
           /\ x.key # NONE => MergeRoot(asks)[x.name].key = x.key
           /\ (\A y \in asks : y.name = x.name => y.key = NONE) => MergeRoot(asks)[x.name].key = NONE
           /\ MergeRoot(asks)[x.name].optional = \A y \in asks : y.name = x.name => y.optional
<1> DEFINE of == Under(asks, x.name)
           one == CHOOSE y \in of : TRUE
<1>1. x \in of /\ of \subseteq asks /\ \A y \in of : y.name = x.name
  BY DEF Under
<1>2. DOMAIN MergeRoot(asks) = {y.name : y \in asks}
  BY DEF MergeRoot
<1>3. MergeRoot(asks)[x.name] =
          [range |-> one.range, key |-> RootKey(of), optional |-> \A y \in of : y.optional]
  BY DEF MergeRoot
<1>4. (\A y \in of : y.optional) = \A y \in asks : y.name = x.name => y.optional
  BY DEF Under
<1>5. one \in of
  BY <1>1
<1> HIDE DEF of, one
<1>6. one.range = x.range
  BY <1>1, <1>5 DEF Agree, of
<1>7. (x.key # NONE => RootKey(of) = x.key) /\ ((\A y \in of : y.key = NONE) => RootKey(of) = NONE)
  <2>1. \A y, z \in of : NONE \notin {y.key, z.key} => y.key = z.key
    BY <1>1
  <2> QED
    BY <1>1, <2>1, RootKeyIs
<1> QED
  BY <1>1, <1>2, <1>3, <1>4, <1>6, <1>7

\* What is made of importers and copies keeps what they find.
LEMMA LockfileKeeps ==
    ASSUME NEW I, NEW C, Proper(I, C), Alike(C, SeenCopies(found)), SeenImporters(found) = I,
           AliasesShow(found), ~RefusedFor(I, C), answer = Lockfile(I, C)
    PROVE  GraphKept
<1> DEFINE asks == UNION {Incoming(i) : i \in I}
<1>1. SeenAsks(found) = asks
  BY DEF SeenAsks
<1>2. /\ \A c \in C : ~Lacks(c)
      /\ VariantsAgree(C)
      /\ \A x \in asks : x.key = NONE => x.optional
      /\ \A x \in asks : Agree(Under(asks, x.name))
  BY DEF RefusedFor
<1>3. \A x \in asks : (x.key = NONE \/ (x.key \in {c.key : c \in C} /\ Package(x.key))) /\ x.optional \in BOOLEAN
  BY AsksAre
<1>4. answer = [is |-> "read", root |-> MergeRoot(asks), packages |-> Collapse(C)]
  BY LockfileIs
<1> HIDE DEF asks
<1>5. answer.root = MergeRoot(asks) /\ answer.packages = Collapse(C) /\ Imported
  BY <1>4 DEF Imported
<1>6. \A x, y \in asks : x.name = y.name /\ NONE \notin {x.key, y.key} => x.key = y.key
  <2> SUFFICES ASSUME NEW x \in asks, NEW y \in asks, x.name = y.name, x.key # NONE, y.key # NONE
               PROVE  x.key = y.key
    OBVIOUS
  <2>1. x \in Under(asks, x.name) /\ y \in Under(asks, x.name) /\ Agree(Under(asks, x.name))
    BY <1>2 DEF Under
  <2>2. x.range = y.range
    BY <2>1 DEF Agree
  <2>3. x.key[1] = y.key[1]
    BY <1>1, <2>2 DEF AliasesShow
  <2> QED
    BY <1>3, <2>1, <2>3, AgreeOnKey
<1>7. DOMAIN Collapse(C) = {c.key : c \in C} /\ \A c \in C : Collapse(C)[c.key] = Edges(c)
  BY <1>2, CollapseIs
<1>8. \A c \in C : /\ DOMAIN Edges(c) = {d \in Declared(c.need, c.maybe) : c.finds[d] \notin Missing}
                   /\ \A d \in DOMAIN Edges(c) : Edges(c)[d] = c.finds[d]
                   /\ Finds(c) = {<<d, Edges(c)[d]>> : d \in DOMAIN Edges(c)}
  BY <1>2, EdgesAre
<1>9. DOMAIN MergeRoot(asks) = {x.name : x \in asks}
  BY DEF MergeRoot
<1>10. \A x \in asks :
           /\ MergeRoot(asks)[x.name].range = x.range
           /\ x.key # NONE => MergeRoot(asks)[x.name].key = x.key
           /\ (\A y \in asks : y.name = x.name => y.key = NONE) => MergeRoot(asks)[x.name].key = NONE
           /\ MergeRoot(asks)[x.name].optional = \A y \in asks : y.name = x.name => y.optional
  <2> TAKE x \in asks
  <2>1. \A y \in asks : Agree(Under(asks, y.name))
    BY <1>2
  <2> QED
    BY <1>6, <2>1, MergedIs
<1>11. Whole
  <2>1. ASSUME NEW c \in C, NEW d \in DOMAIN Edges(c) PROVE Edges(c)[d] \in {e.key : e \in C}
    BY <1>8, <2>1 DEF Proper
  <2>2. \A k \in DOMAIN Collapse(C) : \A d \in DOMAIN Collapse(C)[k] : Collapse(C)[k][d] \in DOMAIN Collapse(C)
    BY <1>7, <2>1
  <2>3. ASSUME NEW n \in DOMAIN MergeRoot(asks)
        PROVE  \/ MergeRoot(asks)[n].key \in DOMAIN Collapse(C)
               \/ MergeRoot(asks)[n].key = NONE /\ MergeRoot(asks)[n].optional
    <3>1. PICK x \in asks : x.name = n
      BY <1>9, <2>3
    <3>2. CASE \E y \in asks : y.name = n /\ y.key # NONE
      <4>1. PICK y \in asks : y.name = n /\ y.key # NONE
        BY <3>2
      <4>2. MergeRoot(asks)[n].key = y.key
        BY <1>10, <4>1
      <4> QED
        BY <1>3, <1>7, <4>1, <4>2
    <3>3. CASE \A y \in asks : y.name = n => y.key = NONE
      <4>1. \A y \in asks : y.name = n => y.optional
        BY <1>2, <3>3
      <4>2. MergeRoot(asks)[n].key = NONE
        BY <1>10, <3>1, <3>3
      <4>3. MergeRoot(asks)[n].optional
        BY <1>10, <3>1, <4>1
      <4> QED
        BY <4>2, <4>3
    <3> QED
      BY <3>2, <3>3
  <2> QED
    BY <1>5, <2>2, <2>3 DEF Whole
<1>12. Faithful
  <2>1. {c.key : c \in C} = {c.key : c \in SeenCopies(found)}
    BY DEF Alike
  <2>2. ASSUME NEW c \in SeenCopies(found)
        PROVE  Finds(c) = {<<d, Collapse(C)[c.key][d]>> : d \in DOMAIN Collapse(C)[c.key]}
    <3>1. PICK e \in C : e.key = c.key /\ e.need = c.need /\ e.maybe = c.maybe /\ e.finds = c.finds
      BY <2>2 DEF Alike
    <3>2. Finds(c) = Finds(e)
      BY <3>1 DEF Finds
    <3> QED
      <4>1. Collapse(C)[c.key] = Edges(e)
        BY <1>7, <3>1
      <4>2. Finds(e) = {<<d, Edges(e)[d]>> : d \in DOMAIN Edges(e)}
        BY <1>8
      <4> QED
        BY <3>2, <4>1, <4>2
  <2> QED
    BY <1>5, <1>7, <2>1, <2>2 DEF Faithful
<1>13. RootKept
  <2>1. DOMAIN answer.root = {x.name : x \in SeenAsks(found)}
    BY <1>1, <1>5, <1>9
  <2>2. ASSUME NEW x \in SeenAsks(found)
        PROVE  /\ answer.root[x.name].range = x.range
               /\ x.key # NONE => answer.root[x.name].key = x.key
               /\ answer.root[x.name].optional = \A y \in SeenAsks(found) : y.name = x.name => y.optional
    BY <1>1, <1>5, <1>10, <2>2
  <2> QED
    BY <2>1, <2>2 DEF RootKept
<1> QED
  BY <1>11, <1>12, <1>13 DEF GraphKept

\* The same for what is refused
LEMMA LockfileSettles ==
    ASSUME NEW I, NEW C, Proper(I, C), Alike(C, SeenCopies(found)), SeenImporters(found) = I,
           AliasesShow(found), answer = Lockfile(I, C)
    PROVE  GraphKept /\ Imports
<1>1. CASE RefusedFor(I, C)
  <2>1. Contradicts(found)
    BY <1>1, RefusedContradicts
  <2>2. answer = Refused
    BY <1>1, LockfileIs
  <2>3. ~Imported
    BY <2>2 DEF Imported, Refused
  <2> QED
    BY <2>1, <2>3 DEF GraphKept, Whole, Faithful, RootKept, Imports
<1>2. CASE ~RefusedFor(I, C)
  <2>1. GraphKept
    BY <1>2, LockfileKeeps
  <2>2. answer = [is |-> "read", root |-> MergeRoot(UNION {Incoming(i) : i \in I}), packages |-> Collapse(C)]
    BY <1>2, LockfileIs
  <2>3. answer.is = "read"
    BY <2>2
  <2> QED
    BY <2>1, <2>3 DEF Imports
<1> QED
  BY <1>1, <1>2

LEMMA PackageNotEmpty ==
    ASSUME NEW key, Package(key)
    PROVE  key # Empty
  BY DEF Package, Empty

\* Copies and importers are told apart by the key.
LEMMA SeenApart ==
    ASSUME NEW f, NEW C, NEW I, Seen(f) = C \cup I,
           \A c \in C : Package(c.key), \A i \in I : i.key = Empty
    PROVE  SeenCopies(f) = C /\ SeenImporters(f) = I
<1>1. \A c \in C : c.key # Empty
  BY PackageNotEmpty
<1> QED
  BY <1>1 DEF SeenCopies, SeenImporters

LEMMA AlikeItself ==
    ASSUME NEW C
    PROVE  Alike(C, C)
  BY DEF Alike

LEMMA NearbySame ==
    ASSUME NEW S, NEW keys,
           \A c \in S : Looks(c, keys) = c
    PROVE  Nearby(S, keys) = S
  BY DEF Nearby

\* A copy that finds what is nearest
LEMMA CopyNearby ==
    ASSUME NEW c, NEW by, NEW key, NEW need, NEW maybe, NEW finds, NEW keys,
           c = Copy(by, key, need, maybe, finds),
           finds = [d \in Declared(need, maybe) |-> At(keys, by, d)]
    PROVE  Looks(c, keys) = c
<1>1. c.by = by /\ c.need = need /\ c.maybe = maybe
  BY DEF Copy
<1>2. [d \in Declared(c.need, c.maybe) |-> At(keys, c.by, d)] = finds
  BY <1>1
<1> QED
  BY <1>1, <1>2 DEF Looks, Copy

\* Readers that find what is seen settle the import.
LEMMA SeenSettles ==
    ASSUME NEW I, NEW C, Proper(I, C), Seen(found) = C \cup I, \A i \in I : i.key = Empty,
           AliasesShow(found), answer = Lockfile(I, C)
    PROVE  GraphKept /\ Imports
<1>1. \A c \in C : Package(c.key)
  BY DEF Proper
<1>2. SeenCopies(found) = C /\ SeenImporters(found) = I
  BY <1>1, SeenApart
<1>3. Alike(C, SeenCopies(found))
  BY <1>2, AlikeItself
<1> QED
  BY <1>2, <1>3, LockfileSettles

-----------------------------------------------------------------------------
(* npm: package-lock.json *)

LEMMA NpmFinds ==
    ASSUME NEW tree, TreeWritten(tree), ~Broken(tree)
    PROVE  /\ DOMAIN InstalledAt(tree) \subseteq Seq(STRING) /\ Empty \notin DOMAIN InstalledAt(tree)
           /\ \A p \in DOMAIN InstalledAt(tree) :
                  InstalledAt(tree)[p] \in {MEMBER} \cup {KeyAt(tree, q) : q \in PackagePaths(tree)}
           /\ \A p \in DOMAIN tree :
                  /\ NpmResolved(tree, p) =
                         [d \in Declared(tree[p].need, tree[p].maybe) |-> At(InstalledAt(tree), p, d)]
                  /\ \A d \in Declared(tree[p].need, tree[p].maybe) :
                         NpmResolved(tree, p)[d] \in Missing \cup {KeyAt(tree, q) : q \in PackagePaths(tree)}
<1> DEFINE keys == InstalledAt(tree)
           K == {KeyAt(tree, q) : q \in PackagePaths(tree)}
<1>1. DOMAIN keys = PackagePaths(tree) \cup LinkPaths(tree)
  BY DEF InstalledAt
<1>2. DOMAIN keys \subseteq Seq(STRING) /\ Empty \notin DOMAIN keys
  BY <1>1 DEF PackagePaths, LinkPaths, TreeWritten
<1>3. ASSUME NEW p \in DOMAIN keys PROVE keys[p] \in {MEMBER} \cup K
  <2>1. keys[p] = IF tree[p].link = NONE THEN KeyAt(tree, p)
                  ELSE IF tree[p].link \in MemberPaths(tree) THEN MEMBER
                  ELSE KeyAt(tree, tree[p].link)
    BY <1>1, <1>3 DEF InstalledAt
  <2>2. tree[p].link = NONE => p \in PackagePaths(tree)
    BY <1>1, <1>3 DEF LinkPaths
  <2>3. tree[p].link # NONE => tree[p].link \in PackagePaths(tree) \cup MemberPaths(tree)
    <3>1. tree[p].link # NONE => p \in LinkPaths(tree)
      BY <1>1, <1>3 DEF PackagePaths, LinkPaths
    <3> QED
      BY <3>1 DEF Broken
  <2> QED
    BY <2>1, <2>2, <2>3
<1>4. ASSUME NEW p \in DOMAIN tree
      PROVE  NpmResolved(tree, p) = [d \in Declared(tree[p].need, tree[p].maybe) |-> At(keys, p, d)]
  <2>1. p \in Seq(STRING) /\ Declared(tree[p].need, tree[p].maybe) \subseteq STRING
    BY <1>4 DEF TreeWritten
  <2>2. \A d \in Declared(tree[p].need, tree[p].maybe) : FirstOf(Candidates(p, d), keys) = At(keys, p, d)
    <3> TAKE d \in Declared(tree[p].need, tree[p].maybe)
    <3>1. d \in STRING
      BY <2>1
    <3> HIDE DEF keys
    <3> QED
      BY <1>2, <2>1, <3>1, FirstIsNearest
  <2> QED
    BY <2>2 DEF NpmResolved
<1>5. ASSUME NEW p \in DOMAIN tree, NEW d \in Declared(tree[p].need, tree[p].maybe)
      PROVE  NpmResolved(tree, p)[d] \in Missing \cup K
  <2>1. NpmResolved(tree, p)[d] = FirstOf(Candidates(p, d), keys)
    BY <1>5 DEF NpmResolved
  <2>2. FirstOf(Candidates(p, d), keys) \in {NONE} \cup {keys[q] : q \in DOMAIN keys}
    <3>1. \A k \in DOMAIN Candidates(p, d) : k \in Nat
      BY DEF Candidates
    <3> HIDE DEF keys
    <3> QED
      BY <3>1, FirstOfIs
  <2> QED
    BY <1>3, <2>1, <2>2 DEF Missing
<1> QED
  BY <1>2, <1>3, <1>4, <1>5

LEMMA NpmSettles ==
    ASSUME found.format \in {"npm", "npm1"}, TreeWritten(TreeOf(found)), Sound(found) => AliasesShow(found),
           answer = ReadNpm(TreeOf(found))
    PROVE  GraphKept /\ Imports
<1> DEFINE tree == TreeOf(found)
           keys == InstalledAt(tree)
           K == {KeyAt(tree, q) : q \in PackagePaths(tree)}
<1>1. CASE Broken(tree)
  <2>1. answer = Refused
    BY <1>1 DEF ReadNpm
  <2>2. ~Imported /\ ~Sound(found)
    BY <1>1, <2>1 DEF Imported, Refused, Sound
  <2> QED
    BY <2>2 DEF GraphKept, Whole, Faithful, RootKept, Imports
<1>2. CASE ~Broken(tree)
  <2> DEFINE C == NpmPackages(tree)
             I == NpmRoot(tree)
  <2>1. answer = Lockfile(I, C) /\ AliasesShow(found)
    BY <1>2 DEF ReadNpm, Sound
  <2>2. \A c \in C : \E p \in PackagePaths(tree) :
            c = Copy(p, KeyAt(tree, p), tree[p].need, tree[p].maybe, NpmResolved(tree, p))
    BY DEF NpmPackages
  <2>3. \A i \in I : \E p \in DOMAIN tree :
            i = Copy(p, Empty, tree[p].need, tree[p].maybe, NpmResolved(tree, p))
    BY DEF NpmRoot, Importer, MemberPaths, Folders, TreeWritten
  <2>4. PackagePaths(tree) \subseteq DOMAIN tree /\ \A p \in PackagePaths(tree) : Package(KeyAt(tree, p))
    BY DEF PackagePaths, TreeWritten
  <2>5. \A p \in DOMAIN tree :
            /\ NpmResolved(tree, p) = [d \in Declared(tree[p].need, tree[p].maybe) |-> At(keys, p, d)]
            /\ \A d \in Declared(tree[p].need, tree[p].maybe) : NpmResolved(tree, p)[d] \in Missing \cup K
    BY <1>2, NpmFinds
  <2>6. {c.key : c \in C} = K
    <3>1. \A p, need, maybe, finds, key : Copy(p, key, need, maybe, finds).key = key
      BY DEF Copy
    <3>2. ASSUME NEW p \in PackagePaths(tree) PROVE \E c \in C : c.key = KeyAt(tree, p)
      <4> DEFINE c == Copy(p, KeyAt(tree, p), tree[p].need, tree[p].maybe, NpmResolved(tree, p))
      <4>1. c \in C
        BY <3>2 DEF NpmPackages
      <4>2. c.key = KeyAt(tree, p)
        BY <3>1
      <4> QED
        BY <4>1, <4>2
    <3>3. ASSUME NEW c \in C PROVE c.key \in K
      BY <2>2, <3>1, <3>3
    <3> HIDE DEF C
    <3> QED
      BY <3>2, <3>3
  <2> HIDE DEF C, I, K, keys, tree
  <2>7. \A c \in C \cup I : \E p \in DOMAIN tree : \E key :
            c = Copy(p, key, tree[p].need, tree[p].maybe, NpmResolved(tree, p))
    BY <2>2, <2>3, <2>4
  <2>8. Proper(I, C)
    <3>1. \A c \in C : Package(c.key)
      BY <2>2, <2>4 DEF Copy
    <3>2. ASSUME NEW c \in C \cup I, NEW d \in Declared(c.need, c.maybe)
          PROVE  c.finds[d] \in Missing \cup {e.key : e \in C}
      <4>1. PICK p \in DOMAIN tree : c.need = tree[p].need /\ c.maybe = tree[p].maybe /\ c.finds = NpmResolved(tree, p)
        BY <2>7, <3>2 DEF Copy
      <4> QED
        BY <2>5, <2>6, <3>2, <4>1
    <3> QED
      BY <3>1, <3>2 DEF Proper
  <2>9. Seen(found) = C \cup I
    <3>1. ASSUME NEW c \in C \cup I
          PROVE  Looks(c, keys) = c
      <4>0. PICK p \in DOMAIN tree : \E key : c = Copy(p, key, tree[p].need, tree[p].maybe, NpmResolved(tree, p))
        BY <2>7, <3>1
      <4>1. PICK key : c = Copy(p, key, tree[p].need, tree[p].maybe, NpmResolved(tree, p))
        BY <4>0
      <4>2. NpmResolved(tree, p) = [d \in Declared(tree[p].need, tree[p].maybe) |-> At(keys, p, d)]
        BY <2>5
      <4> QED
        BY <4>1, <4>2, CopyNearby
    <3>2. Nearby(C \cup I, keys) = C \cup I
      BY <3>1, NearbySame
    <3>3. Seen(found) = Nearby(C \cup I, keys)
      BY DEF Seen, C, I, keys, tree
    <3> QED
      BY <3>2, <3>3
  <2>10. \A i \in I : i.key = Empty
    BY <2>3 DEF Copy
  <2> QED
    BY <2>1, <2>8, <2>9, <2>10, SeenSettles
<1> QED
  BY <1>1, <1>2

-----------------------------------------------------------------------------
(* bun: bun.lock *)

LEMMA FirstOfOne ==
    ASSUME NEW cs, NEW keys, NEW a, DOMAIN cs = 1..1, cs[1] = a
    PROVE  FirstOf(cs, keys) = IF a \in DOMAIN keys THEN keys[a] ELSE NONE
<1> DEFINE hits == {k \in DOMAIN cs : cs[k] \in DOMAIN keys}
<1>1. CASE a \in DOMAIN keys
  <2>1. hits = {1}
    BY <1>1
  <2>2. (CHOOSE k \in hits : \A j \in hits : k <= j) = 1
    BY <2>1
  <2> QED
    BY <1>1, <2>1, <2>2 DEF FirstOf
<1>2. CASE a \notin DOMAIN keys
  <2>1. hits = {}
    BY <1>2
  <2> QED
    BY <1>2, <2>1 DEF FirstOf
<1> QED
  BY <1>1, <1>2

LEMMA FirstOfTwo ==
    ASSUME NEW cs, NEW keys, NEW a, NEW b, DOMAIN cs = 1..2, cs[1] = a, cs[2] = b
    PROVE  FirstOf(cs, keys) =
               IF a \in DOMAIN keys THEN keys[a] ELSE IF b \in DOMAIN keys THEN keys[b] ELSE NONE
<1> DEFINE hits == {k \in DOMAIN cs : cs[k] \in DOMAIN keys}
           first == CHOOSE k \in hits : \A j \in hits : k <= j
<1>1. CASE a \in DOMAIN keys
  <2>1. 1 \in hits /\ \A j \in hits : 1 <= j /\ (j <= 1 => j = 1)
    BY <1>1
  <2>2. first \in hits /\ \A j \in hits : first <= j
    BY <2>1
  <2>3. first = 1
    BY <2>1, <2>2
  <2> HIDE DEF first
  <2>4. FirstOf(cs, keys) = keys[cs[first]]
    BY <2>1 DEF FirstOf, first
  <2> QED
    BY <1>1, <2>3, <2>4
<1>2. CASE a \notin DOMAIN keys /\ b \in DOMAIN keys
  <2>1. hits = {2}
    BY <1>2
  <2>2. first = 2
    BY <2>1
  <2>3. FirstOf(cs, keys) = keys[cs[2]]
    BY <2>1, <2>2 DEF FirstOf
  <2> QED
    BY <1>2, <2>3
<1>3. CASE a \notin DOMAIN keys /\ b \notin DOMAIN keys
  <2>1. hits = {}
    BY <1>3
  <2> QED
    BY <1>3, <2>1 DEF FirstOf
<1> QED
  BY <1>1, <1>2, <1>3

\* What resolve_workspace_dep finds
BunFind(f, w, d) ==
    LET hit == FirstOf(<<Append(w, d), <<d>>>>, BunKeys(f)) IN
    IF hit = NONE /\ d \in f.members THEN MEMBER ELSE hit

LEMMA ShortCandidates ==
    ASSUME NEW w \in Seq(STRING), Len(w) <= 1, NEW d \in STRING
    PROVE  /\ Candidates(w, d)[1] = Append(w, d)
           /\ \/ Len(w) = 0 /\ DOMAIN Candidates(w, d) = 1..1 /\ Append(w, d) = <<d>>
              \/ Len(w) = 1 /\ DOMAIN Candidates(w, d) = 1..2 /\ Candidates(w, d)[2] = <<d>>
<1>1. Len(w) \in Nat /\ (Len(w) = 0 \/ Len(w) = 1)
  <2> DEFINE n == Len(w)
  <2>1. n \in Nat /\ n <= 1
    BY LenProperties
  <2> HIDE DEF n
  <2>2. n = 0 \/ n = 1
    BY <2>1
  <2> QED
    BY <2>1, <2>2 DEF n
<1>2. DOMAIN Candidates(w, d) = 1..(Len(w) + 1)
      /\ \A k \in 1..(Len(w) + 1) : Candidates(w, d)[k] = Append(SubSeq(w, 1, Len(w) + 1 - k), d)
  BY DEF Candidates
<1>3. SubSeq(w, 1, Len(w)) = w /\ SubSeq(w, 1, 0) = << >>
  BY SubSeqFull, SubSeqEmpty
<1>4. Append(<< >>, d) = <<d>>
  OBVIOUS
<1>5. Candidates(w, d)[1] = Append(w, d)
  <2>1. Len(w) + 1 - 1 = Len(w) /\ 1 \in 1..(Len(w) + 1)
    BY <1>1
  <2> QED
    BY <1>2, <1>3, <2>1
<1>6. CASE Len(w) = 0
  <2>1. w = << >>
    BY <1>6, EmptySeq
  <2> QED
    BY <1>2, <1>4, <1>5, <1>6, <2>1
<1>7. CASE Len(w) = 1
  <2>1. Len(w) + 1 - 2 = 0 /\ 2 \in 1..(Len(w) + 1) /\ Len(w) + 1 = 2
    BY <1>7
  <2> QED
    BY <1>2, <1>3, <1>4, <1>5, <1>7, <2>1
<1> QED
  BY <1>1, <1>6, <1>7

LEMMA BunFindsNearest ==
    ASSUME NEW f, BunWritten(f), NEW w \in Seq(STRING), Len(w) <= 1, NEW d \in STRING
    PROVE  /\ BunFind(f, w, d) = At(BunPlaces(f), w, d)
           /\ BunFind(f, w, d) \in Missing \cup {f.packages[p].key : p \in DOMAIN f.packages}
<1> DEFINE K == BunKeys(f)
           P == BunPlaces(f)
           a == Append(w, d)
           b == <<d>>
           cs == Candidates(w, d)
<1>1. DOMAIN K = DOMAIN f.packages /\ \A p \in DOMAIN K : K[p] = f.packages[p].key /\ K[p] # NONE
  BY DEF BunKeys, BunWritten, Package
<1>2. /\ DOMAIN P = DOMAIN K \cup {<<n>> : n \in f.members}
      /\ \A p \in DOMAIN K : P[p] = K[p]
      /\ \A p \in DOMAIN P : p \notin DOMAIN K => P[p] = MEMBER
  BY <1>1 DEF BunPlaces
<1>3. DOMAIN P \subseteq Seq(STRING) /\ Empty \notin DOMAIN P
  <2>1. \A n \in f.members : n \in STRING /\ <<n>> \in Seq(STRING) /\ <<n>> # << >>
    BY DEF BunWritten
  <2> QED
    BY <1>1, <1>2, <2>1 DEF BunWritten, Empty
<1>4. FirstOf(cs, P) = At(P, w, d)
  <2> HIDE DEF P
  <2> QED
    BY <1>3, FirstIsNearest
<1>5. /\ cs[1] = a
      /\ \/ Len(w) = 0 /\ DOMAIN cs = 1..1 /\ a = b
         \/ Len(w) = 1 /\ DOMAIN cs = 1..2 /\ cs[2] = b
  BY ShortCandidates
<1>6. Len(a) = Len(w) + 1 /\ Len(w) \in Nat
  BY AppendProperties, LenProperties
<1>7. \A n : Len(<<n>>) = 1 /\ (<<n>> = b => n = d)
  OBVIOUS
<1>8. FirstOf(<<a, b>>, K) = IF a \in DOMAIN K THEN K[a] ELSE IF b \in DOMAIN K THEN K[b] ELSE NONE
  <2> HIDE DEF K, a, b
  <2>1. DOMAIN <<a, b>> = 1..2 /\ <<a, b>>[1] = a /\ <<a, b>>[2] = b
    OBVIOUS
  <2> QED
    BY <2>1, FirstOfTwo
<1>9. b \in DOMAIN P <=> b \in DOMAIN K \/ d \in f.members
  BY <1>2, <1>7
<1>10. FirstOf(cs, P) = IF a \in DOMAIN P THEN P[a] ELSE IF b \in DOMAIN P THEN P[b] ELSE NONE
  <2> HIDE DEF cs, P, a, b
  <2>1. CASE DOMAIN cs = 1..1 /\ a = b
    BY <1>5, <2>1, FirstOfOne
  <2>2. CASE DOMAIN cs = 1..2 /\ cs[2] = b
    BY <1>5, <2>2, FirstOfTwo
  <2> QED
    BY <1>5, <2>1, <2>2
<1>11. a = b \/ (a \in DOMAIN P => a \in DOMAIN K)
  BY <1>2, <1>5, <1>6, <1>7
<1> HIDE DEF K, P, a, b, cs
<1>12. BunFind(f, w, d) = FirstOf(cs, P)
  <2> DEFINE hit == FirstOf(<<a, b>>, K)
  <2>1. BunFind(f, w, d) = IF hit = NONE /\ d \in f.members THEN MEMBER ELSE hit
    BY DEF BunFind, K, a, b
  <2>2. hit = NONE <=> a \notin DOMAIN K /\ b \notin DOMAIN K
    BY <1>1, <1>8
  <2> HIDE DEF hit
  <2>3. CASE a \in DOMAIN K
    BY <1>1, <1>2, <1>8, <1>10, <2>1, <2>2, <2>3 DEF hit
  <2>4. CASE a \notin DOMAIN K /\ b \in DOMAIN K
    BY <1>1, <1>2, <1>8, <1>10, <1>11, <2>1, <2>2, <2>4 DEF hit
  <2>5. CASE a \notin DOMAIN K /\ b \notin DOMAIN K
    BY <1>1, <1>2, <1>8, <1>9, <1>10, <1>11, <2>1, <2>2, <2>5 DEF hit
  <2> QED
    BY <2>3, <2>4, <2>5
<1>13. FirstOf(cs, P) \in Missing \cup {f.packages[p].key : p \in DOMAIN f.packages}
  BY <1>1, <1>2, <1>10 DEF Missing
<1> QED
  BY <1>4, <1>12, <1>13 DEF P

LEMMA CopyIs ==
    ASSUME NEW by, NEW key, NEW need, NEW maybe, NEW finds
    PROVE  LET c == Copy(by, key, need, maybe, finds)
           IN c.by = by /\ c.key = key /\ c.need = need /\ c.maybe = maybe /\ c.finds = finds
  BY DEF Copy

LEMMA BunInside ==
    ASSUME NEW f, BunWritten(f), NEW p \in DOMAIN f.packages,
           NEW d \in Declared(f.packages[p].need, f.packages[p].maybe)
    PROVE  /\ FirstOf(Candidates(p, d), BunKeys(f)) = At(BunKeys(f), p, d)
           /\ At(BunKeys(f), p, d) \in Missing \cup {f.packages[q].key : q \in DOMAIN f.packages}
<1> DEFINE keys == BunKeys(f)
           cs == Candidates(p, d)
<1>1. /\ DOMAIN keys = DOMAIN f.packages /\ \A q \in DOMAIN keys : keys[q] = f.packages[q].key
  BY DEF BunKeys
<1>2. DOMAIN keys \subseteq Seq(STRING) /\ Empty \notin DOMAIN keys
  BY <1>1 DEF BunWritten
<1>3. p \in Seq(STRING) /\ d \in STRING
  BY DEF BunWritten
<1>4. \A k \in DOMAIN cs : k \in Nat
  BY DEF Candidates
<1> HIDE DEF keys
<1>5. FirstOf(cs, keys) = At(keys, p, d)
  BY <1>2, <1>3, FirstIsNearest
<1> HIDE DEF cs
<1>6. FirstOf(cs, keys) \in {NONE} \cup {keys[q] : q \in DOMAIN keys}
  BY <1>4, FirstOfIs
<1> QED
  BY <1>1, <1>5, <1>6 DEF Missing, keys, cs

LEMMA BunSettles ==
    ASSUME found.format = "bun", BunWritten(found), AliasesShow(found), answer = ReadBun(found)
    PROVE  GraphKept /\ Imports
<1> DEFINE f == found
           C == BunPackages(f)
           I == BunRoot(f)
           K == {f.packages[p].key : p \in DOMAIN f.packages}
           entry(p) == f.packages[p]
           block(w) == f.workspaces[w]
           inside(p) == [d \in Declared(entry(p).need, entry(p).maybe) |-> FirstOf(Candidates(p, d), BunKeys(f))]
           outside(w) == [d \in Declared(block(w).need, block(w).maybe) |-> BunFind(f, w, d)]
<1>1. C = {Copy(p, entry(p).key, entry(p).need, entry(p).maybe, inside(p)) : p \in DOMAIN f.packages}
  BY DEF BunPackages
<1>2. I = {Copy(w, Empty, block(w).need, block(w).maybe, outside(w)) : w \in DOMAIN f.workspaces}
  BY DEF BunRoot, BunFind, Importer
<1>3. ASSUME NEW p \in DOMAIN f.packages
      PROVE  /\ inside(p) = [d \in Declared(entry(p).need, entry(p).maybe) |-> At(BunKeys(f), p, d)]
             /\ \A d \in Declared(entry(p).need, entry(p).maybe) : inside(p)[d] \in Missing \cup K
  <2>1. \A d \in Declared(entry(p).need, entry(p).maybe) :
            /\ FirstOf(Candidates(p, d), BunKeys(f)) = At(BunKeys(f), p, d)
            /\ At(BunKeys(f), p, d) \in Missing \cup K
    BY <1>3, BunInside
  <2> HIDE DEF K
  <2> QED
    BY <2>1
<1>4. ASSUME NEW w \in DOMAIN f.workspaces
      PROVE  /\ outside(w) = [d \in Declared(block(w).need, block(w).maybe) |-> At(BunPlaces(f), w, d)]
             /\ \A d \in Declared(block(w).need, block(w).maybe) : outside(w)[d] \in Missing \cup K
  <2>1. w \in Seq(STRING) /\ Len(w) <= 1 /\ Declared(block(w).need, block(w).maybe) \subseteq STRING
    BY <1>4 DEF BunWritten
  <2>2. \A d \in Declared(block(w).need, block(w).maybe) :
            BunFind(f, w, d) = At(BunPlaces(f), w, d) /\ BunFind(f, w, d) \in Missing \cup K
    <3> TAKE d \in Declared(block(w).need, block(w).maybe)
    <3>1. d \in STRING
      BY <2>1
    <3> QED
      BY <2>1, <3>1, BunFindsNearest
  <2> HIDE DEF K
  <2> QED
    BY <2>2
<1>5. \A p \in DOMAIN f.packages : Package(entry(p).key)
  BY DEF BunWritten
<1> HIDE DEF C, I, inside, outside
<1>6. /\ \A c \in C : \E p \in DOMAIN f.packages :
             /\ c = Copy(p, entry(p).key, entry(p).need, entry(p).maybe, inside(p))
             /\ c.key = entry(p).key /\ c.need = entry(p).need /\ c.maybe = entry(p).maybe /\ c.finds = inside(p)
      /\ \A i \in I : \E w \in DOMAIN f.workspaces :
             /\ i = Copy(w, Empty, block(w).need, block(w).maybe, outside(w))
             /\ i.key = Empty /\ i.need = block(w).need /\ i.maybe = block(w).maybe /\ i.finds = outside(w)
  BY <1>1, <1>2, CopyIs
<1>7. K \subseteq {c.key : c \in C}
  <2> SUFFICES ASSUME NEW p \in DOMAIN f.packages PROVE \E c \in C : c.key = entry(p).key
    OBVIOUS
  <2> DEFINE c == Copy(p, entry(p).key, entry(p).need, entry(p).maybe, inside(p))
  <2>1. c \in C /\ c.key = entry(p).key
    BY <1>1, CopyIs
  <2> QED
    BY <2>1
<1> HIDE DEF K
<1>8. Proper(I, C)
  <2>1. \A c \in C : Package(c.key)
    BY <1>5, <1>6
  <2>2. ASSUME NEW c \in C, NEW d \in Declared(c.need, c.maybe) PROVE c.finds[d] \in Missing \cup K
    BY <1>3, <1>6, <2>2
  <2>3. ASSUME NEW c \in I, NEW d \in Declared(c.need, c.maybe) PROVE c.finds[d] \in Missing \cup K
    BY <1>4, <1>6, <2>3
  <2> QED
    BY <1>7, <2>1, <2>2, <2>3 DEF Proper
<1>9. Seen(found) = C \cup I
  <2>1. ASSUME NEW c \in C PROVE Looks(c, BunKeys(f)) = c
    <3>1. PICK p \in DOMAIN f.packages : c = Copy(p, entry(p).key, entry(p).need, entry(p).maybe, inside(p))
      BY <1>6, <2>1
    <3>2. inside(p) = [d \in Declared(entry(p).need, entry(p).maybe) |-> At(BunKeys(f), p, d)]
      BY <1>3
    <3> QED
      BY <3>1, <3>2, CopyNearby
  <2>2. ASSUME NEW i \in I PROVE Looks(i, BunPlaces(f)) = i
    <3>1. PICK w \in DOMAIN f.workspaces : i = Copy(w, Empty, block(w).need, block(w).maybe, outside(w))
      BY <1>6, <2>2
    <3>2. outside(w) = [d \in Declared(block(w).need, block(w).maybe) |-> At(BunPlaces(f), w, d)]
      BY <1>4
    <3> QED
      BY <3>1, <3>2, CopyNearby
  <2>3. Nearby(C, BunKeys(f)) = C /\ Nearby(I, BunPlaces(f)) = I
    BY <2>1, <2>2, NearbySame
  <2>4. Seen(found) = Nearby(C, BunKeys(f)) \cup Nearby(I, BunPlaces(f))
    BY DEF Seen, C, I
  <2> QED
    BY <2>3, <2>4
<1>10. \A i \in I : i.key = Empty
  BY <1>6
<1>11. answer = Lockfile(I, C)
  BY DEF ReadBun, C, I
<1> QED
  BY <1>8, <1>9, <1>10, <1>11, SeenSettles

-----------------------------------------------------------------------------
(* pnpm: pnpm-lock.yaml *)

LEMMA SnapshotsAre ==
    ASSUME NEW f, PnpmWritten(f), NEW s \in DOMAIN Snapshots(f)
    PROVE  /\ s = [name |-> s.name, version |-> s.version, peers |-> s.peers]
           /\ SnapshotKey(s) \in f.packages /\ Package(SnapshotKey(s))
<1>1. CASE DOMAIN f.snapshots # {}
  BY <1>1 DEF Snapshots, PnpmWritten
<1>2. CASE DOMAIN f.snapshots = {}
  <2>1. DOMAIN Snapshots(f) = {[name |-> k[1], version |-> k[2], peers |-> NONE] : k \in f.packages}
    BY <1>2 DEF Snapshots
  <2>2. PICK k \in f.packages : s = [name |-> k[1], version |-> k[2], peers |-> NONE]
    BY <2>1
  <2>3. k = <<k[1], k[2]>> /\ Package(k)
    BY <2>2 DEF PnpmWritten, Package
  <2>4. SnapshotKey(s) = k
    BY <2>2, <2>3 DEF SnapshotKey
  <2> QED
    BY <2>2, <2>3, <2>4
<1> QED
  BY <1>1, <1>2

\* The peers of a reference do not matter: it finds the snapshots of its package.
LEMMA DependencyReferred ==
    ASSUME NEW f, PnpmWritten(f), NEW d, NEW ref
    PROVE  /\ DependencyKey(f, d, ref) = Referred(f, d, ref)
           /\ Referred(f, d, ref) \in Missing \cup {SnapshotKey(s) : s \in DOMAIN Snapshots(f)}
<1> DEFINE n == IF ref.name = NONE THEN d ELSE ref.name
           key == <<n, ref.version>>
           s == [name |-> n, version |-> ref.version, peers |-> NONE]
           D == DOMAIN Snapshots(f)
           lookup(t) == IF SnapshotKey(t) \in f.packages THEN [t EXCEPT !.peers = NONE] ELSE t
<1>1. DOMAIN DepPaths(f) = D \cup {lookup(t) : t \in D}
  BY DEF DepPaths
<1>2. \A t \in DOMAIN DepPaths(f) : DepPaths(f)[t] = SnapshotKey(t)
  BY DEF DepPaths
<1>3. \A t \in D : /\ t = [name |-> t.name, version |-> t.version, peers |-> t.peers]
                   /\ SnapshotKey(t) \in f.packages
  BY SnapshotsAre
<1>4. \A t \in D : lookup(t) = [name |-> t.name, version |-> t.version, peers |-> NONE]
  BY <1>3
<1>5. SnapshotKey(s) = key
  BY DEF SnapshotKey
<1>6. DependencyKey(f, d, ref) = IF s \in DOMAIN DepPaths(f) THEN DepPaths(f)[s] ELSE NONE
  BY DEF DependencyKey
<1>7. Referred(f, d, ref) = IF \E t \in D : SnapshotKey(t) = key THEN key ELSE NONE
  BY DEF Referred
<1>8. s.name = n /\ s.version = ref.version
  OBVIOUS
<1> HIDE DEF D, lookup, n
<1>9. ASSUME s \in DOMAIN DepPaths(f) PROVE \E t \in D : SnapshotKey(t) = key
  <2>1. CASE s \in D
    BY <1>5, <2>1
  <2>2. CASE \E t \in D : s = lookup(t)
    <3>1. PICK t \in D : s = [name |-> t.name, version |-> t.version, peers |-> NONE]
      BY <1>4, <2>2
    <3>2. t.name = n /\ t.version = ref.version
      BY <3>1
    <3> QED
      BY <3>2 DEF SnapshotKey
  <2> QED
    BY <1>1, <1>9, <2>1, <2>2
<1>10. ASSUME NEW t \in D, SnapshotKey(t) = key PROVE s \in DOMAIN DepPaths(f)
  <2>1. t.name = n /\ t.version = ref.version
    BY <1>10 DEF SnapshotKey
  <2>2. lookup(t) = s
    BY <1>4, <2>1
  <2> QED
    BY <1>1, <2>2
<1>11. DependencyKey(f, d, ref) = Referred(f, d, ref)
  <2> HIDE DEF key, s
  <2> QED
    BY <1>2, <1>5, <1>6, <1>7, <1>9, <1>10
<1>12. Referred(f, d, ref) \in Missing \cup {SnapshotKey(t) : t \in D}
  <2> HIDE DEF key
  <2> QED
    BY <1>7 DEF Missing
<1> QED
  BY <1>11, <1>12 DEF D

LEMMA PnpmSettles ==
    ASSUME found.format = "pnpm", PnpmWritten(found), AliasesShow(found), answer = ReadPnpm(found)
    PROVE  GraphKept /\ Imports
<1> DEFINE f == found
           C == PnpmPackages(f)
           I == PnpmRoot(f)
           D == DOMAIN Snapshots(f)
           K == {SnapshotKey(s) : s \in D}
           shot(s) == Snapshots(f)[s]
           block(i) == f.importers[i]
           ranges(b) == [d \in DOMAIN b |-> b[d].range]
           inside(s) == [d \in Declared(shot(s).need, shot(s).maybe) |->
               Referred(f, d, IF d \in DOMAIN shot(s).need THEN shot(s).need[d] ELSE shot(s).maybe[d])]
           outside(i) == [d \in Declared(block(i).need, block(i).maybe) |->
               Referred(f, d, IF d \in DOMAIN block(i).need THEN block(i).need[d].ref ELSE block(i).maybe[d].ref)]
<1>1. CASE DOMAIN f.importers = {}
  <2>1. answer = Refused
    BY <1>1 DEF ReadPnpm
  <2>2. ~Imported
    BY <2>1 DEF Imported, Refused
  <2> QED
    BY <1>1, <2>2 DEF GraphKept, Whole, Faithful, RootKept, Imports
<1>2. CASE DOMAIN f.importers # {}
  <2>1. answer = Lockfile(I, C)
    BY <1>2 DEF ReadPnpm
  <2>2. \A d, ref : DependencyKey(f, d, ref) = Referred(f, d, ref) /\ Referred(f, d, ref) \in Missing \cup K
    BY DependencyReferred
  <2>3. C = {Copy(s, SnapshotKey(s), shot(s).need, shot(s).maybe, inside(s)) : s \in D}
    <3> DEFINE refs(s) == Either(shot(s).need, shot(s).maybe)
               resolved(s) == [d \in DOMAIN refs(s) |-> DependencyKey(f, d, refs(s)[d])]
    <3>1. C = {Copy(s, SnapshotKey(s), shot(s).need, shot(s).maybe, resolved(s)) : s \in D}
      BY DEF PnpmPackages
    <3>2. \A s \in D : resolved(s) = inside(s)
      BY <2>2 DEF Either, Declared
    <3> HIDE DEF resolved, inside
    <3> QED
      BY <3>1, <3>2
  <2>4. I = {Copy(i, Empty, ranges(block(i).need), ranges(block(i).maybe), outside(i)) : i \in DOMAIN f.importers}
    <3> DEFINE refs(i) == Either(block(i).need, block(i).maybe)
               resolved(i) == [d \in DOMAIN refs(i) |-> DependencyKey(f, d, refs(i)[d].ref)]
    <3>1. I = {Copy(i, Empty, ranges(block(i).need), ranges(block(i).maybe), resolved(i)) : i \in DOMAIN f.importers}
      BY DEF PnpmRoot, Importer
    <3>2. \A i \in DOMAIN f.importers : resolved(i) = outside(i)
      BY <2>2 DEF Either, Declared
    <3> HIDE DEF resolved, outside
    <3> QED
      BY <3>1, <3>2
  <2>5. Seen(f) = PnpmSeen(f)
    BY DEF Seen
  <2>6. PnpmSeen(f) =
            {Copy(s, SnapshotKey(s), shot(s).need, shot(s).maybe, inside(s)) : s \in D}
            \cup {Copy(i, Empty, ranges(block(i).need), ranges(block(i).maybe), outside(i)) : i \in DOMAIN f.importers}
    BY DEF PnpmSeen, Importer
  <2>7. Seen(f) = C \cup I
    BY <2>3, <2>4, <2>5, <2>6
  <2>8. \A s \in D : Package(SnapshotKey(s))
    BY SnapshotsAre
  <2>9. \A s \in D : \A d \in Declared(shot(s).need, shot(s).maybe) : inside(s)[d] \in Missing \cup K
    BY <2>2
  <2>10. \A i \in DOMAIN f.importers : \A d \in Declared(block(i).need, block(i).maybe) : outside(i)[d] \in Missing \cup K
    BY <2>2
  <2>11. \A b : DOMAIN ranges(b) = DOMAIN b
    OBVIOUS
  <2> HIDE DEF C, I, inside, outside, ranges
  <2>12. /\ \A c \in C : \E s \in D :
                c.key = SnapshotKey(s) /\ c.need = shot(s).need /\ c.maybe = shot(s).maybe /\ c.finds = inside(s)
         /\ \A c \in I : \E i \in DOMAIN f.importers :
                /\ c.key = Empty /\ c.finds = outside(i)
                /\ c.need = ranges(block(i).need) /\ c.maybe = ranges(block(i).maybe)
    BY <2>3, <2>4, CopyIs
  <2>13. K \subseteq {c.key : c \in C}
    <3> SUFFICES ASSUME NEW s \in D PROVE \E c \in C : c.key = SnapshotKey(s)
      OBVIOUS
    <3> DEFINE c == Copy(s, SnapshotKey(s), shot(s).need, shot(s).maybe, inside(s))
    <3>1. c \in C /\ c.key = SnapshotKey(s)
      BY <2>3, CopyIs
    <3> QED
      BY <3>1
  <2> HIDE DEF K, D
  <2>14. Proper(I, C)
    <3>1. \A c \in C : Package(c.key)
      BY <2>8, <2>12
    <3>2. ASSUME NEW c \in C, NEW d \in Declared(c.need, c.maybe) PROVE c.finds[d] \in Missing \cup K
      BY <2>9, <2>12, <3>2
    <3>3. ASSUME NEW c \in I, NEW d \in Declared(c.need, c.maybe) PROVE c.finds[d] \in Missing \cup K
      <4>1. PICK i \in DOMAIN f.importers :
                c.finds = outside(i) /\ c.need = ranges(block(i).need) /\ c.maybe = ranges(block(i).maybe)
        BY <2>12, <3>3
      <4>2. d \in Declared(block(i).need, block(i).maybe)
        BY <2>11, <3>3, <4>1 DEF Declared
      <4> QED
        BY <2>10, <4>1, <4>2
    <3> QED
      BY <2>13, <3>1, <3>2, <3>3 DEF Proper
  <2>15. \A i \in I : i.key = Empty
    BY <2>12
  <2> QED
    BY <2>1, <2>7, <2>14, <2>15, SeenSettles
<1> QED
  BY <1>1, <1>2

-----------------------------------------------------------------------------
(* yarn: yarn.lock *)

\* The spec by which a lockfile has what is asked for
Meant(f, d, r) == SpecOf(d, [range |-> r.range, of |-> r.of, npm |-> f.berry])

LEMMA BlocksAre ==
    ASSUME NEW f, YarnWritten(f)
    PROVE  Len(f.blocks) \in Nat /\ Blocks(f) \subseteq 1..Len(f.blocks)
  BY DEF YarnWritten, Blocks

LEMMA SpecKeysAre ==
    ASSUME NEW f, YarnWritten(f)
    PROVE  /\ DOMAIN SpecKeys(f) = UNION {f.blocks[k].specs : k \in Blocks(f)}
           /\ \A k \in Blocks(f) : \A s \in f.blocks[k].specs : SpecKeys(f)[s] = f.blocks[k].key
<1> DEFINE answers(s) == {k \in Blocks(f) : s \in f.blocks[k].specs}
           last(s) == CHOOSE k \in answers(s) : \A j \in answers(s) : j <= k
<1>1. SpecKeys(f) = [s \in UNION {f.blocks[k].specs : k \in Blocks(f)} |-> f.blocks[last(s)].key]
  BY DEF SpecKeys
<1>2. ASSUME NEW k \in Blocks(f), NEW s \in f.blocks[k].specs PROVE SpecKeys(f)[s] = f.blocks[k].key
  <2>1. answers(s) # {} /\ answers(s) \subseteq 0..Len(f.blocks) /\ Len(f.blocks) \in Nat
    BY <1>2, BlocksAre
  <2>2. \E i \in answers(s) : \A j \in answers(s) : j <= i
    <3> HIDE DEF answers
    <3> QED
      BY <2>1, Greatest
  <2>3. last(s) \in answers(s)
    BY <2>2
  <2> DEFINE l == last(s)
  <2>4. l \in Blocks(f) /\ s \in f.blocks[l].specs
    BY <2>3
  <2>5. SpecKeys(f)[s] = f.blocks[l].key
    BY <1>1, <1>2
  <2> HIDE DEF l, last, answers
  <2> QED
    BY <1>2, <2>4, <2>5 DEF YarnWritten
<1>3. DOMAIN SpecKeys(f) = UNION {f.blocks[k].specs : k \in Blocks(f)}
  BY <1>1
<1> QED
  BY <1>2, <1>3

\* What is asked for is found by the spec that is meant.
LEMMA FirstIsMeant ==
    ASSUME NEW f, YarnWritten(f), NEW d, NEW r, IsRange(r), r.npm => f.berry
    PROVE  FirstOf(SpecCandidates(f, d, r), SpecKeys(f)) =
               IF Meant(f, d, r) \in DOMAIN SpecKeys(f) THEN SpecKeys(f)[Meant(f, d, r)] ELSE NONE
<1> DEFINE keys == SpecKeys(f)
           t == Meant(f, d, r)
           a == SpecOf(d, r)
           cs == SpecCandidates(f, d, r)
<1>1. f.berry \in BOOLEAN /\ r = [range |-> r.range, of |-> r.of, npm |-> r.npm] /\ r.npm \in BOOLEAN
  BY DEF YarnWritten, IsRange
<1>2. \A s \in DOMAIN keys : s = SpecOf(s.name, s.range) /\ s.range.npm = f.berry
  <2>1. DOMAIN keys = UNION {f.blocks[k].specs : k \in Blocks(f)}
    BY SpecKeysAre
  <2> QED
    BY <2>1 DEF YarnWritten
<1>3. CASE f.berry /\ ~r.npm
  <2> DEFINE b == SpecOf(d, [range |-> r.range, of |-> r.of, npm |-> TRUE])
  <2>1. cs = <<a, b>>
    BY <1>3 DEF SpecCandidates
  <2>2. b = t
    <3>1. f.berry = TRUE
      BY <1>1, <1>3
    <3> QED
      BY <3>1 DEF Meant
  <2>3. a \notin DOMAIN keys
    <3>1. a.range = r
      BY DEF SpecOf
    <3> QED
      BY <1>1, <1>2, <1>3, <3>1
  <2> HIDE DEF a, b, t, keys, cs
  <2>4. DOMAIN cs = 1..2 /\ cs[1] = a /\ cs[2] = b
    BY <2>1
  <2>5. FirstOf(cs, keys) = IF a \in DOMAIN keys THEN keys[a] ELSE IF b \in DOMAIN keys THEN keys[b] ELSE NONE
    BY <2>4, FirstOfTwo
  <2> QED
    BY <2>2, <2>3, <2>5 DEF cs, keys, t
<1>4. CASE ~(f.berry /\ ~r.npm)
  <2>1. cs = <<a>>
    BY <1>4 DEF SpecCandidates
  <2>2. r.npm = f.berry
    BY <1>1, <1>4
  <2>3. a = t
    BY <1>1, <2>2 DEF Meant
  <2> HIDE DEF a, t, keys, cs
  <2>4. DOMAIN cs = 1..1 /\ cs[1] = a
    BY <2>1
  <2>5. FirstOf(cs, keys) = IF a \in DOMAIN keys THEN keys[a] ELSE NONE
    BY <2>4, FirstOfOne
  <2> QED
    BY <2>3, <2>5 DEF cs, keys, t
<1> QED
  BY <1>3, <1>4

LEMMA FirstIsSaid ==
    ASSUME NEW f, YarnWritten(f), NEW d, NEW r, IsRange(r), r.npm => f.berry
    PROVE  /\ FirstOf(SpecCandidates(f, d, r), SpecKeys(f)) = Said(f, d, r)
           /\ Said(f, d, r) \in Missing \cup {f.blocks[k].key : k \in Blocks(f)}
<1> DEFINE t == Meant(f, d, r)
           b == {k \in Blocks(f) : \E s \in f.blocks[k].specs :
                    s.name = d /\ s.range.of = r.of /\ s.range.range = r.range}
           one == CHOOSE k \in b : TRUE
<1>1. Said(f, d, r) = IF b = {} THEN NONE ELSE f.blocks[one].key
  BY DEF Said
<1>2. t.name = d /\ t.range.of = r.of /\ t.range.range = r.range
  BY DEF Meant, SpecOf
<1>3. ASSUME NEW k \in b PROVE t \in f.blocks[k].specs
  <2>1. PICK s \in f.blocks[k].specs : s.name = d /\ s.range.of = r.of /\ s.range.range = r.range
    BY <1>3
  <2>2. s = SpecOf(s.name, s.range) /\ IsRange(s.range) /\ s.range.npm = f.berry
    BY <1>3, <2>1 DEF YarnWritten
  <2>3. s.range = [range |-> r.range, of |-> r.of, npm |-> f.berry]
    BY <2>1, <2>2 DEF IsRange
  <2>4. s = t
    BY <2>1, <2>2, <2>3 DEF Meant
  <2> QED
    BY <2>1, <2>4
<1>4. ASSUME NEW k \in Blocks(f), t \in f.blocks[k].specs PROVE k \in b
  BY <1>2, <1>4
<1>5. /\ DOMAIN SpecKeys(f) = UNION {f.blocks[k].specs : k \in Blocks(f)}
      /\ \A k \in Blocks(f) : \A s \in f.blocks[k].specs : SpecKeys(f)[s] = f.blocks[k].key
  BY SpecKeysAre
<1>6. FirstOf(SpecCandidates(f, d, r), SpecKeys(f)) = IF t \in DOMAIN SpecKeys(f) THEN SpecKeys(f)[t] ELSE NONE
  BY FirstIsMeant
<1>7. b \subseteq Blocks(f) /\ (b # {} => one \in b)
  OBVIOUS
<1> HIDE DEF t, b, one
<1>8. CASE b = {}
  <2>1. t \notin DOMAIN SpecKeys(f)
    BY <1>4, <1>5, <1>8
  <2> QED
    BY <1>1, <1>6, <1>8, <2>1 DEF Missing
<1>9. CASE b # {}
  <2>1. one \in Blocks(f) /\ t \in f.blocks[one].specs
    BY <1>3, <1>7, <1>9
  <2>2. t \in DOMAIN SpecKeys(f) /\ SpecKeys(f)[t] = f.blocks[one].key
    BY <1>5, <2>1
  <2> QED
    BY <1>1, <1>6, <1>9, <2>1, <2>2
<1> QED
  BY <1>8, <1>9

\* For every block there is one of the same package that counts.
LEMMA SomeCounts ==
    ASSUME NEW f, YarnWritten(f), NEW k \in Blocks(f)
    PROVE  \E j \in Blocks(f) : Counts(f, j) /\ f.blocks[j].key = f.blocks[k].key /\ f.blocks[j].deps = f.blocks[k].deps
<1> DEFINE same == {j \in Blocks(f) : f.blocks[j].key = f.blocks[k].key}
<1>1. same \subseteq Nat /\ same # {}
  <2>1. Len(f.blocks) \in Nat /\ Blocks(f) \subseteq 1..Len(f.blocks)
    BY BlocksAre
  <2> QED
    BY <2>1
<1>2. PICK j \in same : \A i \in same : j <= i
  <2> HIDE DEF same
  <2> QED
    BY <1>1, Least
<1>3. j \in Blocks(f) /\ f.blocks[j].key = f.blocks[k].key
  BY <1>2
<1>4. Counts(f, j)
  BY <1>2, <1>3 DEF Counts
<1>5. f.blocks[j].deps = f.blocks[k].deps
  BY <1>3 DEF YarnWritten
<1> QED
  BY <1>3, <1>4, <1>5

LEMMA YarnSettles ==
    ASSUME found.format = "yarn", YarnWritten(found), AliasesShow(found), answer = ReadYarn(found)
    PROVE  GraphKept /\ Imports
<1> DEFINE f == found
           C == YarnPackages(f)
           I == YarnRoot(f)
           K == {f.blocks[k].key : k \in Blocks(f)}
           key(k) == f.blocks[k].key
           deps(k) == f.blocks[k].deps
           hard == [d \in DOMAIN f.need \ DOMAIN f.maybe |-> f.need[d]]
           all == Either(f.maybe, hard)
           said(ranges) == [d \in DOMAIN ranges |-> Said(f, d, ranges[d])]
           copy(k) == Copy(k, key(k), Empty, deps(k), said(deps(k)))
           root == Copy(Empty, Empty, hard, f.maybe, said(all))
           asked(ranges) == \A d \in DOMAIN ranges : IsRange(ranges[d]) /\ (ranges[d].npm => f.berry)
<1>1. CASE \E k \in Blocks(f) : NotUnderstood(f, k)
  <2>1. answer = Refused
    BY <1>1 DEF ReadYarn
  <2>2. ~Imported
    BY <2>1 DEF Imported, Refused
  <2> QED
    BY <1>1, <2>2 DEF GraphKept, Whole, Faithful, RootKept, Imports
<1>2. CASE ~ \E k \in Blocks(f) : NotUnderstood(f, k)
  <2>1. answer = Lockfile(I, C)
    BY <1>2 DEF ReadYarn
  <2>2. asked(f.need) /\ asked(f.maybe) /\ \A k \in Blocks(f) : asked(deps(k))
    BY DEF YarnWritten
  <2>3. ASSUME NEW ranges, asked(ranges)
        PROVE  /\ YarnResolved(f, ranges) = said(ranges)
               /\ \A d \in DOMAIN ranges : said(ranges)[d] \in Missing \cup K
    <3>1. \A d \in DOMAIN ranges :
              /\ FirstOf(SpecCandidates(f, d, ranges[d]), SpecKeys(f)) = Said(f, d, ranges[d])
              /\ Said(f, d, ranges[d]) \in Missing \cup K
      BY <2>3, FirstIsSaid
    <3> HIDE DEF K
    <3> QED
      BY <3>1 DEF YarnResolved
  <2>4. C = {copy(k) : k \in {k \in Blocks(f) : Counts(f, k)}}
    <3> HIDE DEF said, K
    <3>1. \A k \in Blocks(f) : YarnResolved(f, deps(k)) = said(deps(k))
      BY <2>2, <2>3
    <3> QED
      BY <3>1 DEF YarnPackages
  <2>5. Either(f.maybe, f.need) = all /\ asked(all) /\ DOMAIN all = Declared(hard, f.maybe)
    BY <2>2 DEF Either, Declared
  <2>6. I = {root}
    <3>1. I = {Copy(Empty, Empty, hard, f.maybe, YarnResolved(f, Either(f.maybe, f.need)))}
      BY DEF YarnRoot, Importer
    <3>2. YarnResolved(f, all) = said(all)
      <4> HIDE DEF said, all, K
      <4> QED
        BY <2>3, <2>5
    <3> QED
      BY <2>5, <3>1, <3>2
  <2>7. Seen(f) = {copy(k) : k \in Blocks(f)} \cup {root}
    <3>1. Seen(f) = YarnSeen(f)
      BY DEF Seen
    <3> QED
      BY <3>1 DEF YarnSeen, Importer
  <2>8. \A k \in Blocks(f) : Package(key(k))
    BY DEF YarnWritten
  <2>9. \A k \in Blocks(f) : \A d \in DOMAIN deps(k) : said(deps(k))[d] \in Missing \cup K
    <3> HIDE DEF said, K
    <3> QED
      BY <2>2, <2>3
  <2>10. \A d \in DOMAIN all : said(all)[d] \in Missing \cup K
    <3> HIDE DEF said, K, all
    <3> QED
      BY <2>3, <2>5
  <2>11. \A k : Declared(Empty, deps(k)) = DOMAIN deps(k)
    BY DEF Declared, Empty
  <2> HIDE DEF C, I, K, said, all, hard
  <2>12. \A k : copy(k).key = key(k) /\ copy(k).need = Empty /\ copy(k).maybe = deps(k) /\ copy(k).finds = said(deps(k))
    BY CopyIs
  <2>13. root.key = Empty /\ root.need = hard /\ root.maybe = f.maybe /\ root.finds = said(all)
    BY CopyIs
  <2> HIDE DEF copy, root
  <2>14. \A k \in Blocks(f) : \E j \in Blocks(f) : Counts(f, j) /\ key(j) = key(k) /\ deps(j) = deps(k)
    BY SomeCounts
  <2>15. SeenCopies(f) = {copy(k) : k \in Blocks(f)} /\ SeenImporters(f) = I
    <3> DEFINE every == {copy(k) : k \in Blocks(f)}
    <3>1. \A c \in every : Package(c.key)
      BY <2>8, <2>12
    <3>2. \A i \in I : i.key = Empty
      BY <2>6, <2>13
    <3>3. Seen(f) = every \cup I
      BY <2>6, <2>7
    <3> HIDE DEF every
    <3>4. SeenCopies(f) = every /\ SeenImporters(f) = I
      BY <3>1, <3>2, <3>3, SeenApart
    <3> QED
      BY <3>4 DEF every
  <2>16. Alike(C, SeenCopies(f))
    <3>1. C \subseteq SeenCopies(f)
      BY <2>4, <2>15
    <3>2. ASSUME NEW c \in SeenCopies(f)
          PROVE  \E e \in C : e.key = c.key /\ e.need = c.need /\ e.maybe = c.maybe /\ e.finds = c.finds
      <4>1. PICK k \in Blocks(f) : c = copy(k)
        BY <2>15, <3>2
      <4>2. PICK j \in Blocks(f) : Counts(f, j) /\ key(j) = key(k) /\ deps(j) = deps(k)
        BY <2>14
      <4>3. copy(j) \in C
        BY <2>4, <4>2
      <4> QED
        BY <2>12, <4>1, <4>2, <4>3
    <3> QED
      BY <3>1, <3>2 DEF Alike
  <2>17. K \subseteq {c.key : c \in C}
    <3> SUFFICES ASSUME NEW k \in Blocks(f) PROVE \E c \in C : c.key = key(k)
      BY DEF K
    <3>1. PICK j \in Blocks(f) : Counts(f, j) /\ key(j) = key(k)
      BY <2>14
    <3>2. copy(j) \in C /\ copy(j).key = key(k)
      BY <2>4, <2>12, <3>1
    <3> QED
      BY <3>2
  <2>18. Proper(I, C)
    <3>1. ASSUME NEW c \in C
          PROVE  Package(c.key) /\ \A d \in Declared(c.need, c.maybe) : c.finds[d] \in Missing \cup K
      <4>1. PICK k \in Blocks(f) : c = copy(k)
        BY <2>4, <3>1
      <4> QED
        BY <2>8, <2>9, <2>11, <2>12, <4>1
    <3>2. ASSUME NEW c \in I, NEW d \in Declared(c.need, c.maybe) PROVE c.finds[d] \in Missing \cup K
      BY <2>5, <2>6, <2>10, <2>13, <3>2
    <3> QED
      BY <2>17, <3>1, <3>2 DEF Proper
  <2> QED
    BY <2>1, <2>15, <2>16, <2>18, LockfileSettles
<1> QED
  BY <1>1, <1>2

-----------------------------------------------------------------------------
(* The import *)

\* Before the import nothing is read, and after it what is read of the lockfile.
ImportInv ==
    /\ found \in {Detect(dir) : dir \in Directory} \ {NONE}
    /\ answer \in {Unread, Read(found)}

LEMMA ReadSettles ==
    ASSUME ImportInv
    PROVE  GraphKept /\ Imports
<1>1. Written(found) /\ (Sound(found) => AliasesShow(found))
  BY ForeignAssumption DEF ImportInv
<1>2. CASE answer = Unread
  BY <1>2 DEF Unread, Imported, GraphKept, Whole, Faithful, RootKept, Imports
<1>3. CASE answer = Read(found)
  <2>1. CASE found.format \in {"npm", "npm1"} /\ TreeWritten(TreeOf(found))
    <3>1. answer = ReadNpm(TreeOf(found))
      BY <1>3, <2>1 DEF Read
    <3> QED
      BY <1>1, <2>1, <3>1, NpmSettles
  <2>2. found.format \notin {"npm", "npm1"} => AliasesShow(found)
    BY <1>1 DEF Sound
  <2>3. CASE found.format = "bun" /\ BunWritten(found)
    <3>1. answer = ReadBun(found)
      BY <1>3, <2>3 DEF Read
    <3> QED
      BY <2>2, <2>3, <3>1, BunSettles
  <2>4. CASE found.format = "pnpm" /\ PnpmWritten(found)
    <3>1. answer = ReadPnpm(found)
      BY <1>3, <2>4 DEF Read
    <3> QED
      BY <2>2, <2>4, <3>1, PnpmSettles
  <2>5. CASE found.format = "yarn" /\ YarnWritten(found)
    <3>1. answer = ReadYarn(found)
      BY <1>3, <2>5 DEF Read
    <3> QED
      BY <2>2, <2>5, <3>1, YarnSettles
  <2> QED
    BY <1>1, <2>1, <2>3, <2>4, <2>5 DEF Written
<1> QED
  BY <1>2, <1>3 DEF ImportInv

LEMMA ImportInvHolds == ImportSpec => []ImportInv
<1>1. ImportInit => ImportInv
  BY DEF ImportInit, ImportInv
<1>2. ImportInv /\ [ImportNext]_importVars => ImportInv'
  BY DEF ImportInv, ImportNext, Import, importVars
<1> QED
  BY <1>1, <1>2, PTL DEF ImportSpec

\* Whatever lockfiles of npm, yarn, pnpm or bun lie in a directory, an import keeps
\* the graph that the other package manager installed (build_packages, build_root,
\* merge_root_dependency of the four readers).
THEOREM ImportKeepsGraph == ImportSpec => []GraphKept
<1>1. ImportInv => GraphKept
  BY ReadSettles
<1> QED
  BY <1>1, ImportInvHolds, PTL

\* Whatever lockfiles lie there, one is refused only for what it says (read of the
\* four readers).
THEOREM ImportRefusesRightly == ImportSpec => []Imports
<1>1. ImportInv => Imports
  BY ReadSettles
<1> QED
  BY <1>1, ImportInvHolds, PTL

=============================================================================
