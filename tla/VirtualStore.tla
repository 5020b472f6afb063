---------------------------- MODULE VirtualStore ----------------------------
(***************************************************************************)
(* The virtual stores (snpm-core/src/linker/virtual_store.rs).  A package  *)
(* of an install has an entry in the virtual store that all projects of a  *)
(* machine share, under a name that holds a hash of its dependencies, and  *)
(* the project's own virtual store has a link to it; packages that are not *)
(* safe to share have their entry in the project.  An entry is filled from *)
(* the package store and its dependencies are linked beside it.            *)
(*                                                                         *)
(* populate_virtual_store works on all packages at the same time, so each  *)
(* package of a running install has a task, named by the package's place   *)
(* in the project, <<project, package>>.  Links that cannot be made, and   *)
(* so become copies, and removals that fail, which the code ignores, are   *)
(* left out.                                                               *)
(***************************************************************************)
EXTENDS Naturals, FiniteSets

CONSTANTS
    Project,     \* projects on this machine
    Package,     \* package ids
    Name,        \* names of dependencies
    File,        \* files of packages
    META,        \* the metadata file that the store adds to a package
    NONE,        \* no package, no link
    Graph,       \* resolved graphs that are installed
    Packages,    \* Packages[g]: the packages of g
    Deps,        \* Deps[g][p][n]: the package that dependency n of p is
    Peers,       \* Peers[g][p][n]: ... and the one peer n of p resolves to
    Slot,        \* Slot[g][p]: the shared entry of p, named by its hash
    Content,     \* Content[p]: the files the package store has of p
    HasBin,      \* packages with executables
    Scoped,      \* packages and names of dependencies that have a scope
    Unsafe,      \* the sets of packages that may be configured not to be
                 \* shared: patched, with scripts, or listed
    MaxInstalls, \* bound on installs
    MaxFaults    \* bound on failing file operations and kills

View == Project \X Package
Shared == {Slot[g][p] : g \in Graph, p \in Package}
Location == Shared \cup View

ASSUME VirtualStoreAssumption ==
    /\ Graph # {} /\ Packages \in [Graph -> SUBSET Package]
    /\ Deps \in [Graph -> [Package -> [Name -> Package \cup {NONE}]]]
    /\ Peers \in [Graph -> [Package -> [Name -> Package \cup {NONE}]]]
    /\ NONE \notin Package /\ NONE \notin Location /\ NONE \notin Name
    /\ Shared \cap View = {}
    /\ \A g \in Graph, p \in Package, n \in Name :
          /\ Deps[g][p][n] \in Packages[g] \cup {NONE}
          /\ Peers[g][p][n] \in Packages[g] \cup {NONE}
    \* The name of an entry begins with the id of its package.
    /\ \A g, h \in Graph, p, q \in Package :
          Slot[g][p] = Slot[h][q] => p = q
    /\ Content \in [Package -> SUBSET File]
    /\ \A p \in Package : Content[p] # {}
    /\ HasBin \subseteq Package /\ Scoped \subseteq Package \cup Name
    /\ Unsafe \subseteq SUBSET Package
    /\ MaxInstalls \in Nat /\ MaxFaults \in Nat

VARIABLES
    at,      \* at[l]: what is there, a directory with files or a link
    dep,     \* dep[l][n]: where the link n beside the package at l leads
    gate,    \* gate[l]: .snpm-dependencies.bin, the links it was written for;
             \* current while the directory beside it has not changed since
    raced,   \* shared entries that two installs were about at the same time
    bins,    \* locations that have a .bin directory beside them
    job,     \* job[i]: the install that runs, or ran last, in project i
    pc,      \* pc[t]: where the task of t stands
    staged,  \* staged[t]: files in its staging directory
    todo,    \* todo[t]: dependencies it has still to look at
    making,  \* making[t]: the dependency whose link it makes, or NONE
    faults,  \* how many file operations failed and processes were killed
    begun    \* how many installs there were

taskVars == <<pc, staged, todo, making>>
vars == <<at, dep, gate, bins, job, taskVars, faults, raced, begun>>

Absent == [kind |-> "absent", files |-> {}, good |-> {}, to |-> NONE]
Dir(files) == [kind |-> "dir", files |-> files, good |-> files, to |-> NONE]
Link(l) == [kind |-> "link", files |-> {}, good |-> {}, to |-> l]
NoLinks == [n \in Name |-> NONE]
NoGate == [links |-> NoLinks, current |-> FALSE]

Init ==
    /\ at = [l \in Location |-> Absent]
    /\ dep = [l \in Location |-> NoLinks]
    /\ gate = [l \in Location |-> NoGate]
    /\ bins = {}
    /\ job = [i \in Project |-> [phase |-> "idle", graph |-> CHOOSE g \in Graph : TRUE,
                                 local |-> {}]]
    /\ pc = [t \in View |-> "off"]
    /\ staged = [t \in View |-> {}]
    /\ todo = [t \in View |-> {}]
    /\ making = [t \in View |-> NONE]
    /\ faults = 0
    /\ raced = {}
    /\ begun = 0

Running == {i \in Project : job[i].phase \in {"shared", "view"}}
Ended(i) == \A p \in Package : pc[<<i, p>>] \in {"off", "ok", "err"}
Goto(t, label) == pc' = [pc EXCEPT ![t] = label]
Fault == faults < MaxFaults /\ faults' = faults + 1

\* The entry or link called n, beside l, changes: so does the time of the
\* directory they are in, but a name with a scope is one directory below.
Touch(l, n) == gate' = [gate EXCEPT ![l].current = @ /\ n \in Scoped]

-----------------------------------------------------------------------------
(* Where things are                                                        *)

\* Dependencies and, in a shared entry, resolved peers
Uses(g, p, n) == IF Deps[g][p][n] # NONE THEN Deps[g][p][n] ELSE Peers[g][p][n]

\* Mutated form of LocalIds: only the packages that are unsafe themselves are local.
LocalIdsDirect(g, unsafe) == Packages[g] \cap unsafe

\* local_global_virtual_store_package_ids: the unsafe packages and, over and
\* over, those that use one that is local
LocalIds(g, unsafe) ==
    {p \in Packages[g] :
        \A S \in SUBSET Packages[g] :
            (/\ Packages[g] \cap unsafe \subseteq S
             /\ \A q \in Packages[g] : (\E n \in Name : Uses(g, q, n) \in S) => q \in S)
            => p \in S}

GraphOf(t) == job[t[1]].graph
SlotOf(t) == Slot[GraphOf(t)][t[2]]
IsLocal(t) == t[2] \in job[t[1]].local
InShared(t) == job[t[1]].phase = "shared"

\* The entry that the task works on in its phase
Place(t) == IF InShared(t) THEN SlotOf(t) ELSE t

\* wired, looked up in shared_paths or in project_paths
Wanted(t) ==
    [n \in Name |->
        LET d == IF InShared(t) THEN Uses(GraphOf(t), t[2], n)
                                ELSE Deps[GraphOf(t)][t[2]][n]
        IN  IF d = NONE THEN NONE
            ELSE IF InShared(t) THEN Slot[GraphOf(t)][d] ELSE <<t[1], d>>]

\* virtual_package_ready: the metadata file, which is looked for through a
\* link, or a directory with anything in it
Ready(l) ==
    \/ at[l].kind = "dir" /\ at[l].files # {}
    \/ at[l].kind = "link" /\ META \in at[at[l].to].files

\* Path::exists, which follows a link
Exists(l) ==
    \/ at[l].kind = "dir"
    \/ at[l].kind = "link" /\ at[at[l].to].kind = "dir"

-----------------------------------------------------------------------------
(* materialize_one_package                                                 *)

Unchanged == UNCHANGED <<job, bins, raced, begun>>

CheckReady(t) ==
    /\ InShared(t) /\ pc[t] = "start"
    /\ Goto(t, IF Ready(SlotOf(t)) THEN "wire" ELSE "look")
    /\ UNCHANGED <<at, dep, gate, staged, todo, making, faults>> /\ Unchanged

Look(t) ==
    /\ pc[t] = "look"
    /\ Goto(t, IF at[SlotOf(t)].kind = "absent" THEN "stage" ELSE "clear")
    /\ UNCHANGED <<at, dep, gate, staged, todo, making, faults>> /\ Unchanged

\* remove_dir_all, file by file, or remove_file
Clear(t) ==
    LET l == Place(t)
    IN  /\ pc[t] = "clear"
        /\ \/ \E f \in at[l].files :
                /\ at' = [at EXCEPT ![l].files = @ \ {f}, ![l].good = @ \ {f}]
                /\ UNCHANGED <<gate, pc>>
           \/ /\ at[l].files = {}
              /\ at' = [at EXCEPT ![l] = Absent]
              /\ Touch(l, t[2])
              /\ Goto(t, IF InShared(t) THEN "stage" ELSE "fill")
        /\ UNCHANGED <<dep, staged, todo, making, faults>> /\ Unchanged

\* Mutated form of StageFile: files are linked straight into the entry.
StageFileInPlace(t, f) ==
    /\ pc[t] = "stage" /\ f \in Content[t[2]] \ staged[t]
    /\ staged' = [staged EXCEPT ![t] = @ \cup {f}]
    /\ at' = [at EXCEPT ![SlotOf(t)] = Dir(staged[t] \cup {f})]
    /\ Touch(SlotOf(t), t[2])
    /\ UNCHANGED <<dep, pc, todo, making, faults>> /\ Unchanged

\* link_dir into the staging directory, beside the entry, in any order
StageFile(t, f) ==
    /\ pc[t] = "stage" /\ f \in Content[t[2]] \ staged[t]
    /\ staged' = [staged EXCEPT ![t] = @ \cup {f}]
    /\ IF staged[t] = {} THEN Touch(SlotOf(t), t[2]) ELSE UNCHANGED gate
    /\ UNCHANGED <<at, dep, pc, todo, making, faults>> /\ Unchanged

StageFail(t) ==
    /\ pc[t] = "stage" /\ Fault
    /\ staged' = [staged EXCEPT ![t] = {}]
    /\ Touch(SlotOf(t), t[2])
    /\ Goto(t, "err")
    /\ UNCHANGED <<at, dep, todo, making>> /\ Unchanged

\* The rename is refused if a directory with files is there.
Rename(t) ==
    LET l == SlotOf(t)
    IN  /\ pc[t] = "stage" /\ staged[t] = Content[t[2]]
        /\ staged' = [staged EXCEPT ![t] = {}]
        /\ IF at[l].kind # "link" /\ at[l].files = {}
           THEN at' = [at EXCEPT ![l] = Dir(staged[t])] /\ Goto(t, "wire")
           ELSE UNCHANGED at /\ Goto(t, "recheck")
        /\ Touch(l, t[2])
        /\ UNCHANGED <<dep, todo, making, faults>> /\ Unchanged

Recheck(t) ==
    /\ pc[t] = "recheck"
    /\ Goto(t, IF Ready(SlotOf(t)) THEN "wire" ELSE "err")
    /\ UNCHANGED <<at, dep, gate, staged, todo, making, faults>> /\ Unchanged

-----------------------------------------------------------------------------
(* wire_dep_symlinks_into                                                  *)

\* Without dependencies the state file is removed; otherwise it tells whether
\* the links are there.
Wire(t) ==
    LET l == Place(t)
        todoNow == {n \in Name : Wanted(t)[n] # NONE}
        matches == gate[l].current /\ gate[l].links = Wanted(t)
    IN  /\ pc[t] = "wire"
        /\ Goto(t, IF todoNow = {} \/ matches THEN "ok" ELSE "links")
        /\ todo' = [todo EXCEPT ![t] = IF matches THEN {} ELSE todoNow]
        /\ gate' = [gate EXCEPT ![l] = IF todoNow = {} THEN NoGate ELSE @]
        /\ UNCHANGED <<at, dep, staged, making, faults>> /\ Unchanged

\* A link that is right stays; any other is removed.
Inspect(t, n) ==
    LET l == Place(t)
        right == dep[l][n] = Wanted(t)[n] /\ Exists(Wanted(t)[n])
    IN  /\ pc[t] = "links" /\ n \in todo[t] /\ making[t] = NONE
        /\ todo' = [todo EXCEPT ![t] = @ \ {n}]
        /\ IF right THEN UNCHANGED <<dep, gate, making>>
           ELSE /\ dep' = [dep EXCEPT ![l][n] = NONE]
                /\ making' = [making EXCEPT ![t] = n]
                /\ IF dep[l][n] = NONE THEN UNCHANGED gate ELSE Touch(l, n)
        /\ UNCHANGED <<at, pc, staged, faults>> /\ Unchanged

\* Mutated form of Make: the link leads to a package id, no location.
MakeById(t) ==
    /\ pc[t] = "links" /\ making[t] # NONE
    /\ making' = [making EXCEPT ![t] = NONE]
    /\ dep' = [dep EXCEPT ![Place(t)][making[t]] = Uses(GraphOf(t), t[2], making[t])]
    /\ Touch(Place(t), making[t])
    /\ UNCHANGED <<at, pc, staged, todo, faults>> /\ Unchanged

\* The link is made.  If another install made one since, the package is
\* copied instead, through that link and so onto itself: its files lose what
\* is in them.
Make(t) ==
    LET l == Place(t)
        n == making[t]
    IN  /\ pc[t] = "links" /\ n # NONE
        /\ making' = [making EXCEPT ![t] = NONE]
        /\ IF dep[l][n] = NONE
           THEN /\ dep' = [dep EXCEPT ![l][n] = Wanted(t)[n]]
                /\ Touch(l, n)
                /\ UNCHANGED at
           ELSE /\ at' = [at EXCEPT ![dep[l][n]].good = {}]
                /\ UNCHANGED <<dep, gate>>
        /\ UNCHANGED <<pc, staged, todo, faults>> /\ Unchanged

\* A file operation on the links fails.
WireFail(t) ==
    /\ pc[t] = "links" /\ Fault
    /\ Goto(t, "err")
    /\ making' = [making EXCEPT ![t] = NONE]
    /\ todo' = [todo EXCEPT ![t] = {}]
    /\ UNCHANGED <<at, dep, gate, staged>> /\ Unchanged

\* Mutated form of WriteState: the state is written before the last link is made.
WriteStateEarly(t) ==
    /\ pc[t] = "links" /\ todo[t] = {}
    /\ gate' = [gate EXCEPT ![Place(t)] = [links |-> Wanted(t), current |-> TRUE]]
    /\ making' = [making EXCEPT ![t] = NONE]
    /\ Goto(t, "ok")
    /\ UNCHANGED <<at, dep, staged, todo, faults>> /\ Unchanged

\* write_dependency_state
WriteState(t) ==
    /\ pc[t] = "links" /\ todo[t] = {} /\ making[t] = NONE
    /\ gate' = [gate EXCEPT ![Place(t)] = [links |-> Wanted(t), current |-> TRUE]]
    /\ Goto(t, "ok")
    /\ UNCHANGED <<at, dep, staged, todo, making, faults>> /\ Unchanged

-----------------------------------------------------------------------------
(* populate_virtual_store: the entry in the project                        *)

CheckView(t) ==
    LET ready == IF IsLocal(t) THEN Ready(t)
                 ELSE at[t].to = SlotOf(t) /\ Exists(SlotOf(t))
    IN  /\ ~InShared(t) /\ pc[t] = "start"
        /\ Goto(t, IF ready THEN IF IsLocal(t) THEN "wire" ELSE "ok"
                   ELSE IF at[t].kind = "absent" THEN "fill" ELSE "clear")
        /\ UNCHANGED <<at, dep, gate, staged, todo, making, faults>> /\ Unchanged

LinkView(t) ==
    /\ pc[t] = "fill" /\ ~IsLocal(t)
    /\ at' = [at EXCEPT ![t] = Link(SlotOf(t))]
    /\ Touch(t, t[2])
    /\ Goto(t, "ok")
    /\ UNCHANGED <<dep, staged, todo, making, faults>> /\ Unchanged

\* link_dir straight into the entry
FillView(t) ==
    /\ pc[t] = "fill" /\ IsLocal(t)
    /\ \/ /\ at[t].kind = "absent"
          /\ at' = [at EXCEPT ![t] = Dir({})]
          /\ Touch(t, t[2])
          /\ UNCHANGED pc
       \/ /\ at[t].kind = "dir"
          /\ \E f \in Content[t[2]] \ at[t].files :
                at' = [at EXCEPT ![t].files = @ \cup {f}, ![t].good = @ \cup {f}]
          /\ UNCHANGED <<gate, pc>>
       \/ /\ at[t].kind = "dir" /\ at[t].files = Content[t[2]]
          /\ Goto(t, "wire")
          /\ UNCHANGED <<at, gate>>
    /\ UNCHANGED <<dep, staged, todo, making, faults>> /\ Unchanged

FillFail(t) ==
    /\ pc[t] = "fill" /\ IsLocal(t) /\ Fault
    /\ Goto(t, "err")
    /\ UNCHANGED <<at, dep, gate, staged, todo, making>> /\ Unchanged

-----------------------------------------------------------------------------
(* The install                                                             *)

Start(i, S) == [t \in View |-> IF t[1] # i THEN pc[t]
                               ELSE IF t[2] \in S THEN "start" ELSE "off"]

\* The shared entries of an install
Entries(g, local) == {Slot[g][p] : p \in Packages[g] \ local}

Begin(i, g, unsafe) ==
    LET local == LocalIds(g, unsafe)
    IN  /\ i \notin Running /\ begun < MaxInstalls
        /\ begun' = begun + 1
        /\ job' = [job EXCEPT ![i] = [phase |-> "shared", graph |-> g,
                                      local |-> local]]
        /\ pc' = Start(i, Packages[g] \ local)
        /\ raced' = raced \cup {l \in Entries(g, local) : \E j \in Project :
                 /\ job[j].phase = "shared"
                 /\ l \in Entries(job[j].graph, job[j].local)}
        /\ UNCHANGED <<at, dep, gate, bins, staged, todo, making, faults>>

\* link_dep_bins_for_packages: the first launcher makes the directory .bin
\* in the directory that the state files look at.
LinkBins(i, S) ==
    LET made == {Place(<<i, p>>) : p \in
                   {q \in S : \E n \in Name : Deps[job[i].graph][q][n] \in HasBin}}
    IN  /\ bins' = bins \cup made
        /\ gate' = [l \in Location |->
              IF l \in made \ bins THEN [gate[l] EXCEPT !.current = FALSE]
                                   ELSE gate[l]]

Done(i, phase) ==
    /\ job[i].phase = phase
    /\ \A p \in Package : pc[<<i, p>>] \in {"off", "ok"}

EndShared(i) ==
    /\ Done(i, "shared")
    /\ LinkBins(i, Packages[job[i].graph] \ job[i].local)
    /\ job' = [job EXCEPT ![i].phase = "view"]
    /\ pc' = Start(i, Packages[job[i].graph])
    /\ UNCHANGED <<at, dep, staged, todo, making, faults, raced, begun>>

EndView(i) ==
    /\ Done(i, "view")
    /\ LinkBins(i, job[i].local)
    /\ job' = [job EXCEPT ![i].phase = "done"]
    /\ UNCHANGED <<at, dep, taskVars, faults, raced, begun>>

\* All tasks run to their end; the first error is then returned.
Fail(i) ==
    /\ i \in Running /\ Ended(i)
    /\ \E p \in Package : pc[<<i, p>>] = "err"
    /\ job' = [job EXCEPT ![i].phase = "failed"]
    /\ UNCHANGED <<at, dep, gate, bins, taskVars, faults, raced, begun>>

\* The process is killed.  Its staging directories are named by its process
\* id, and nobody looks at them again.
Crash(i) ==
    /\ i \in Running /\ Fault
    /\ job' = [job EXCEPT ![i].phase = "failed"]
    /\ pc' = Start(i, {})
    /\ staged' = [t \in View |-> IF t[1] = i THEN {} ELSE staged[t]]
    /\ todo' = [t \in View |-> IF t[1] = i THEN {} ELSE todo[t]]
    /\ making' = [t \in View |-> IF t[1] = i THEN NONE ELSE making[t]]
    /\ UNCHANGED <<at, dep, gate, bins, raced, begun>>

Step(t) ==
    \/ CheckReady(t) \/ Look(t) \/ Clear(t)
    \/ (\E f \in File : StageFile(t, f)) \/ StageFail(t) \/ Rename(t)
    \/ Recheck(t)
    \/ Wire(t) \/ (\E n \in Name : Inspect(t, n)) \/ Make(t) \/ WireFail(t)
    \/ WriteState(t)
    \/ CheckView(t) \/ LinkView(t) \/ FillView(t) \/ FillFail(t)

Next ==
    \/ \E t \in View : Step(t)
    \/ \E i \in Project :
          \/ \E g \in Graph, unsafe \in Unsafe : Begin(i, g, unsafe)
          \/ EndShared(i) \/ EndView(i) \/ Fail(i) \/ Crash(i)

Spec == Init /\ [][Next]_vars

-----------------------------------------------------------------------------
(* Properties *)

\* A directory never holds more good files than files, and only a link leads
\* anywhere.
Entry ==
    {e \in [kind : {"absent", "dir", "link"}, files : SUBSET File,
            good : SUBSET File, to : Shared \cup {NONE}] :
        e.good \subseteq e.files /\ (e.kind = "link" <=> e.to # NONE)}
Links == [Name -> Location \cup {NONE}]
Gate == [links : Links, current : BOOLEAN]
Job == [phase : {"idle", "shared", "view", "done", "failed"}, graph : Graph,
        local : SUBSET Package]
PC == {"off", "start", "look", "clear", "stage", "recheck", "wire", "links",
       "fill", "ok", "err"}

\* The kinds of values the variables take
TypeOK ==
    /\ at \in [Location -> Entry]
    /\ dep \in [Location -> Links]
    /\ gate \in [Location -> Gate]
    /\ bins \subseteq Location /\ raced \subseteq Shared
    /\ job \in [Project -> Job]
    /\ pc \in [View -> PC]
    /\ staged \in [View -> SUBSET File]
    /\ todo \in [View -> SUBSET Name]
    /\ making \in [View -> Name \cup {NONE}]
    /\ faults \in 0 .. MaxFaults /\ begun \in 0 .. MaxInstalls

\* Graphs that agree on the entry of a package agree on those of what it uses:
\* the hash of an entry covers the hashes of its dependencies.
SlotsAgree ==
    \A g, h \in Graph : \A p \in Packages[g] \cap Packages[h] :
        Slot[g][p] = Slot[h][p] =>
            \A n \in Name :
                LET d == Uses(g, p, n)
                    e == Uses(h, p, n)
                IN  (d = NONE /\ e = NONE)
                      \/ (d # NONE /\ e # NONE /\ Slot[g][d] = Slot[h][e])

Whole(p, l) == at[l].kind = "dir" /\ at[l].good = Content[p]

\* A shared entry that virtual_package_ready takes for a package is one,
\* through failures and crashes ("the final location is either absent or
\* complete"), unless two installs were about it at the same time.
SharedWhole ==
    \A g \in Graph : \A p \in Packages[g] :
        Slot[g][p] \notin raced /\ Ready(Slot[g][p]) => Whole(p, Slot[g][p])

\* The state file that lets an install skip the links of an entry tells the
\* truth as long as its time agrees: every link it was written for is there.
\* In the project this fails for scoped names, whose links leave the time of
\* the directory alone; a shared entry only ever wants the same links.
GateTrue ==
    \A l \in Location \ raced, n \in Name :
        gate[l].current /\ gate[l].links[n] # NONE /\ (l \in Shared \/ n \notin Scoped)
            => dep[l][n] = gate[l].links[n]

\* No two installs were about the entry of p, or about those of what it uses.
Calm(g, p) ==
    /\ Slot[g][p] \notin raced
    /\ \A n \in Name : Uses(g, p, n) # NONE => Slot[g][Uses(g, p, n)] \notin raced

\* The entry of p is whole and linked to the versions that g resolved.
Settled(g, p) ==
    /\ Whole(p, Slot[g][p])
    /\ \A n \in Name :
          Uses(g, p, n) # NONE => dep[Slot[g][p]][n] = Slot[g][Uses(g, p, n)]

\* Once an install is done Node finds every shared package of its graph, from
\* the project and from each package that uses it, whole and of the version
\* that was resolved; and it still does while other projects install into
\* the same entries, fail or are killed.
SharedFinds ==
    \A i \in Project : job[i].phase = "done" =>
        LET g == job[i].graph
        IN  \A p \in Packages[g] \ job[i].local : Calm(g, p) =>
              /\ at[<<i, p>>].to = Slot[g][p]
              /\ Settled(g, p)
              /\ \A n \in Name : Uses(g, p, n) \notin job[i].local

\* A shared entry that is taken for ready is whole, and has the links that its state file
\* promises (virtual_package_ready, dependency_state_matches).
EntriesHold == TypeOK /\ SharedWhole /\ GateTrue

=============================================================================
