------------------------------ MODULE Resolver ------------------------------
(***************************************************************************)
(* Dependency resolution (snpm-core/src/resolve): resolve_package runs     *)
(* once for every dependency edge, all edges of a package at the same      *)
(* time, over one shared map of packages.  The first call to reach a       *)
(* package inserts a placeholder and resolves what is below it; every      *)
(* later call finds the entry and returns at once, finished or not.  An    *)
(* edge whose package of the last install still fits imports that package  *)
(* and all that is below it from the old graph, the seed.                  *)
(*                                                                         *)
(* Ranges, sources, overrides and packuments are abstracted to the choice  *)
(* they lead to: Pick[c][n] is the package id that the call for dependency *)
(* n of c selects.  ROOT stands for the project itself.                    *)
(***************************************************************************)
EXTENDS Naturals

CONSTANTS
    Name,         \* names of dependency edges
    Package,      \* package ids
    ROOT,         \* the project
    NONE,         \* no package
    Required,     \* Required[c]: the names c depends on
    Optional,     \* Optional[c]: the names in its optionalDependencies
    Pick,         \* Pick[c][n]: what the call selects, NONE if no version
                  \* fits or the one that fits is for another platform
    Flaky,        \* packages whose packument request may fail
    Seed,         \* packages of the graph of the last install
    SeedDeps,     \* SeedDeps[c][n]: its edges, and those of ROOT
    Stale,        \* edges <<c, n>> whose range the seed's version fails
    MaxNotified   \* bound on the store tasks of one package

Caller == Package \cup {ROOT}
Edges == [Name -> Package \cup {NONE}]

ASSUME ResolverAssumption ==
    /\ ROOT \notin Package /\ NONE \notin Package
    /\ Required \in [Caller -> SUBSET Name]
    /\ Optional \in [Caller -> SUBSET Name]
    /\ \A c \in Caller : Required[c] \cap Optional[c] = {}
    /\ Pick \in [Caller -> Edges]
    /\ Flaky \subseteq Package
    /\ Seed \subseteq Package
    /\ SeedDeps \in [Caller -> Edges]
    /\ Stale \subseteq Caller \X Name
    /\ MaxNotified \in Nat

Deps(c) == Required[c] \cup Optional[c]

VARIABLES
    entry,      \* entry[p]: "absent", "placeholder" or "resolved"
    edges,      \* edges[p]: the dependencies of p's entry
    call,       \* call[c][n]: where the call for dependency n of c stands
    imported,   \* imported[c][n]: what its seed import has visited
    fetched,    \* packages whose packument is in the package cache
    notified,   \* notified[p]: how often p was sent to the prefetcher
    result      \* "none", "ok" or "err"

vars == <<entry, edges, call, imported, fetched, notified, result>>

NoEdges == [n \in Name |-> NONE]

\* The calls of c as join_all starts them
Calls(c) == [n \in Name |-> IF n \in Deps(c) THEN "start" ELSE "none"]

Init ==
    /\ entry = [p \in Package |-> "absent"]
    /\ edges = [p \in Package |-> NoEdges]
    /\ call = [c \in Caller |->
                 IF c = ROOT THEN Calls(ROOT) ELSE [n \in Name |-> "none"]]
    /\ imported = [c \in Caller |-> [n \in Name |-> {}]]
    /\ fetched = {}
    /\ notified = [p \in Package |-> 0]
    /\ result = "none"

Goto(c, n, label) == call' = [call EXCEPT ![c][n] = label]

\* notify_prefetch: the prefetcher spawns one store task per message.
Notify(p) ==
    /\ notified[p] < MaxNotified
    /\ notified' = [notified EXCEPT ![p] = @ + 1]

-----------------------------------------------------------------------------
(* The graph of the last install as a seed *)

Targets(e) == {e[n] : n \in Name} \ {NONE}

\* seeded_subgraph_complete: all that can be reached from p is in the seed.
Complete(p) ==
    \E S \in SUBSET Seed : p \in S /\ \A x \in S : Targets(SeedDeps[x]) \subseteq S

\* A mutation: seeded_subgraph_complete is not asked.
SeededAny(c, n) ==
    /\ c = ROOT \/ c \in Seed
    /\ SeedDeps[c][n] # NONE
    /\ <<c, n>> \notin Stale

\* seeded_dependency_id, and the subgraph of that id is complete.
Seeded(c, n) ==
    /\ c = ROOT \/ c \in Seed
    /\ SeedDeps[c][n] # NONE
    /\ <<c, n>> \notin Stale
    /\ Complete(SeedDeps[c][n])

StartImport(c, n) ==
    /\ call[c][n] = "start"
    /\ Seeded(c, n)
    /\ Goto(c, n, "import")
    /\ imported' = [imported EXCEPT ![c][n] = {}]
    /\ UNCHANGED <<entry, edges, fetched, notified, result>>

\* The stack of import_seed_package_chain without what it has popped before
Pending(c, n) ==
    ({SeedDeps[c][n]} \cup UNION {Targets(SeedDeps[x]) : x \in imported[c][n]})
        \ imported[c][n]

\* One round of its loop; an entry that is there already stays as it is.
Import(c, n, x) ==
    /\ call[c][n] = "import"
    /\ x \in Pending(c, n)
    /\ imported' = [imported EXCEPT ![c][n] = @ \cup {x}]
    /\ \/ /\ entry[x] = "absent"
          /\ entry' = [entry EXCEPT ![x] = "resolved"]
          /\ edges' = [edges EXCEPT ![x] = SeedDeps[x]]
          /\ Notify(x)
       \/ /\ entry[x] # "absent"
          /\ UNCHANGED <<entry, edges, notified>>
    /\ UNCHANGED <<call, fetched, result>>

EndImport(c, n) ==
    /\ call[c][n] = "import"
    /\ Pending(c, n) = {}
    /\ Goto(c, n, "seeded")
    /\ imported' = [imported EXCEPT ![c][n] = {}]
    /\ UNCHANGED <<entry, edges, fetched, notified, result>>

-----------------------------------------------------------------------------
(* Selection *)

\* A mutation: select_version's error is ignored.
SelectAny(c, n) ==
    /\ call[c][n] = "start"
    /\ ~Seeded(c, n)
    /\ fetched' = fetched \cup {Pick[c][n]}
    /\ Goto(c, n, "selected")
    /\ UNCHANGED <<entry, edges, imported, notified, result>>

\* The packument, the version in it and its platform
Select(c, n) ==
    /\ call[c][n] = "start"
    /\ ~Seeded(c, n)
    /\ Pick[c][n] # NONE
    /\ fetched' = fetched \cup {Pick[c][n]}
    /\ Goto(c, n, "selected")
    /\ UNCHANGED <<entry, edges, imported, notified, result>>

SelectFail(c, n) ==
    /\ call[c][n] = "start"
    /\ ~Seeded(c, n)
    /\ Pick[c][n] = NONE \/ Pick[c][n] \in Flaky \ fetched
    /\ Goto(c, n, "err")
    /\ UNCHANGED <<entry, edges, imported, fetched, notified, result>>

-----------------------------------------------------------------------------
(* The entry *)

\* A mutation: wait for the entry of another call to be finished.
FoundResolved(c, n) ==
    /\ call[c][n] = "selected"
    /\ entry[Pick[c][n]] = "resolved"
    /\ Goto(c, n, "ok")
    /\ UNCHANGED <<entry, edges, imported, fetched, notified, result>>

\* package_already_resolved, or insert_placeholder_if_missing came second:
\* the answer is Ok although the entry may still be a placeholder.
Found(c, n) ==
    /\ call[c][n] = "selected"
    /\ entry[Pick[c][n]] # "absent"
    /\ Goto(c, n, "ok")
    /\ UNCHANGED <<entry, edges, imported, fetched, notified, result>>

\* A mutation: insert without insert_placeholder_if_missing's check.
InsertAnyway(c, n) ==
    LET p == Pick[c][n] IN
    /\ call[c][n] = "selected"
    /\ entry[p] # "resolved"
    /\ entry' = [entry EXCEPT ![p] = "placeholder"]
    /\ edges' = [edges EXCEPT ![p] = NoEdges]
    /\ Notify(p)
    /\ call' = [[call EXCEPT ![p] = Calls(p)] EXCEPT ![c][n] = "deps"]
    /\ UNCHANGED <<imported, fetched, result>>

\* This call owns the placeholder: it notifies the prefetcher and starts the
\* calls for the dependencies of its package.
Insert(c, n) ==
    LET p == Pick[c][n] IN
    /\ call[c][n] = "selected"
    /\ entry[p] = "absent"
    /\ entry' = [entry EXCEPT ![p] = "placeholder"]
    /\ edges' = [edges EXCEPT ![p] = NoEdges]
    /\ Notify(p)
    /\ call' = [[call EXCEPT ![p] = Calls(p)] EXCEPT ![c][n] = "deps"]
    /\ UNCHANGED <<imported, fetched, result>>

Returned(c) == \A n \in Deps(c) : call[c][n] \in {"ok", "seeded", "err"}

\* A mutation: an optional dependency that fails fails its package.
AnyFailed(c) == \E n \in Deps(c) : call[c][n] = "err"

RequiredFailed(c) == \E n \in Required[c] : call[c][n] = "err"

\* A mutation: the optional dependencies that resolved are forgotten.
RequiredAnswers(c) ==
    [n \in Name |-> CASE n \in Required[c] /\ call[c][n] = "ok" -> Pick[c][n]
                      [] n \in Required[c] /\ call[c][n] = "seeded" -> SeedDeps[c][n]
                      [] OTHER -> NONE]

\* The ids the calls of c returned; an optional one that failed is left out.
Answers(c) ==
    [n \in Name |-> CASE call[c][n] = "ok" -> Pick[c][n]
                      [] call[c][n] = "seeded" -> SeedDeps[c][n]
                      [] OTHER -> NONE]

\* A mutation: update_dependencies is left out.
FinishHollow(c, n) ==
    LET p == Pick[c][n] IN
    /\ call[c][n] = "deps"
    /\ Returned(p)
    /\ ~RequiredFailed(p)
    /\ entry' = [entry EXCEPT ![p] = "resolved"]
    /\ Goto(c, n, "ok")
    /\ UNCHANGED <<edges, imported, fetched, notified, result>>

\* All dependencies have returned and none that is required has failed.
Finish(c, n) ==
    LET p == Pick[c][n] IN
    /\ call[c][n] = "deps"
    /\ Returned(p)
    /\ ~RequiredFailed(p)
    /\ entry' = [entry EXCEPT ![p] = "resolved"]
    /\ edges' = [edges EXCEPT ![p] = Answers(p)]
    /\ Goto(c, n, "ok")
    /\ UNCHANGED <<imported, fetched, notified, result>>

\* A required dependency failed: the placeholder goes, the error goes up.
FinishFail(c, n) ==
    LET p == Pick[c][n] IN
    /\ call[c][n] = "deps"
    /\ Returned(p)
    /\ RequiredFailed(p)
    /\ entry' = [entry EXCEPT ![p] = "absent"]
    /\ edges' = [edges EXCEPT ![p] = NoEdges]
    /\ Goto(c, n, "err")
    /\ UNCHANGED <<imported, fetched, notified, result>>

\* resolve_root_dependencies swallows the errors of optional roots.
FinishRoot ==
    /\ result = "none"
    /\ Returned(ROOT)
    /\ result' = IF RequiredFailed(ROOT) THEN "err" ELSE "ok"
    /\ UNCHANGED <<entry, edges, call, imported, fetched, notified>>

-----------------------------------------------------------------------------

Call(c, n) ==
    \/ StartImport(c, n) \/ EndImport(c, n)
    \/ \E x \in Package : Import(c, n, x)
    \/ Select(c, n) \/ SelectFail(c, n)
    \/ Found(c, n) \/ Insert(c, n)
    \/ Finish(c, n) \/ FinishFail(c, n)

Next == FinishRoot \/ \E c \in Caller, n \in Name : Call(c, n)

\* The resolver is one future, which the runtime polls until it is through.
Spec == Init /\ [][Next]_vars /\ WF_vars(Next)

-----------------------------------------------------------------------------
(* Properties *)

\* The kinds of values the variables take; in particular a call that was
\* given a package never stands for none.
TypeOK ==
    /\ entry \in [Package -> {"absent", "placeholder", "resolved"}]
    /\ edges \in [Package -> Edges]
    /\ call \in [Caller -> [Name -> {"none", "start", "import", "selected",
                                     "deps", "ok", "seeded", "err"}]]
    /\ imported \in [Caller -> [Name -> SUBSET Package]]
    /\ fetched \subseteq Package
    /\ notified \in [Package -> 0 .. MaxNotified]
    /\ result \in {"none", "ok", "err"}

Present == {p \in Package : entry[p] # "absent"}

\* import_seed_package_chain never meets a package that the seed has lost:
\* it does not give up (Ok(false)) when part of the chain is in the map.
ImportComplete ==
    \A c \in Caller, n \in Name :
        call[c][n] = "import" => Pending(c, n) \subseteq Seed

\* The graph that take_packages hands on has no package "with empty
\* `dependencies`" that stands for one whose subtree failed (the comment at
\* the error path of resolve_package): every entry is finished, and it has
\* either all of the package's required edges or the seed's edges.
NoHollow ==
    result # "none" =>
        \A p \in Present :
            /\ entry[p] = "resolved"
            /\ \/ \A n \in Required[p] : edges[p][n] # NONE
               \/ p \in Seed /\ edges[p] = SeedDeps[p]

\* A set of packages that cannot fail: their requests are answered, and their
\* required dependencies come from the seed or are such packages themselves.
Sound(S) ==
    /\ S \cap Flaky = {}
    /\ \A p \in S : \A n \in Required[p] : Seeded(p, n) \/ Pick[p][n] \in S

Users == {edges[p] : p \in Present} \cup {Answers(ROOT)}

\* An edge of the finished graph, or of the project, leads to a package of
\* the graph unless that package was one that can fail: a call that relied on
\* another call's placeholder is never left with nothing for a package that
\* has no failing dependency below it.  In particular a resolution without
\* failures yields a closed graph.
EdgesHold ==
    result # "none" =>
        \A S \in SUBSET Package : Sound(S) =>
            \A e \in Users : Targets(e) \cap S \subseteq Present

\* A package that cannot fail is handed to the store at most once.  The store
\* relies on it: two ensure_package tasks of one package race (module Store,
\* Exclusive).
OneTask ==
    \A S \in SUBSET Package : Sound(S) => \A p \in S : notified[p] <= 1

\* Nothing that was begun has failed, and no edge of the seed was replaced.
Clean ==
    /\ Stale = {}
    /\ \A c \in Caller : \A n \in Name :
          call[c][n] = "err" => n \in Optional[c] /\ Pick[c][n] = NONE

\* The graph written to the lockfile holds only what the project reaches:
\* every set with the project's answers that is closed under edges has it all.
NoOrphans ==
    result = "ok" /\ Clean =>
        \A S \in SUBSET Package :
            /\ Targets(Answers(ROOT)) \subseteq S
            /\ \A p \in S \cap Present : Targets(edges[p]) \subseteq S
            => Present \subseteq S

\* Resolution ends, cycles of dependencies included: no call waits for a
\* package whose own resolution waits for that call.
Ends == <>(result # "none")

\* A package is never in the graph without its dependencies: imports from the seed are all
\* or nothing, and what fails after it was entered is taken out again (resolve_package,
\* import_seed_package_chain).
GraphComplete == TypeOK /\ ImportComplete /\ NoHollow

=============================================================================
