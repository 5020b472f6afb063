------------------------------ MODULE Lifecycle ------------------------------
(***************************************************************************)
(* Install scripts of dependencies and the side-effects cache              *)
(* (snpm-core/src/lifecycle, patches.rs, rebuild.rs).  Once a project is   *)
(* linked, its patches are applied to fresh copies, node_modules is walked *)
(* package by package, and what an earlier build left in the cache is      *)
(* restored; the packages that are left become jobs, ordered by their      *)
(* dependencies into chunks whose members run at the same time.  Installs  *)
(* of several projects share the cache, and all machines a remote one,     *)
(* which also outlives a cache that is deleted.                            *)
(*                                                                         *)
(* The files of a package directory are its source, plain or patched, and  *)
(* what its scripts built; hash_dir tells all contents apart, so a hash is *)
(* the content itself.  `snpm rebuild' runs scripts in place.              *)
(***************************************************************************)
EXTENDS Naturals, FiniteSets, Sequences

CONSTANTS
    Project,     \* projects of this machine
    Package,     \* packages that are installed in each of them
    NameOf,      \* NameOf[p]: the name of p; two versions share one
    DepNames,    \* DepNames[p]: the names p depends on, peers included
    Scripted,    \* packages with preinstall, install or postinstall scripts
    Versioned,   \* packages whose manifest has a version
    Patched,     \* Patched[i]: packages that project i has patches for
    Policy,      \* Policy[i]: the lists of names that say whose scripts run
    Node,        \* majors of Node that projects are pinned to
    NONE,        \* nothing was built, no marker, no cache entry
    BROKEN,      \* what scripts that did not end leave behind
    Threads,     \* workers of the script pool, one to four
    MaxRuns,     \* bound on installs and rebuilds
    MaxFaults    \* bound on failures, kills and deletions of the cache

Content == [src : {"plain", "patched"}, built : Node \cup {NONE, BROKEN}, whole : BOOLEAN]
Key == Node \X Package \X Content

ASSUME LifecycleAssumption ==
    /\ IsFiniteSet(Package)
    /\ Scripted \subseteq Package /\ Versioned \subseteq Package
    /\ Patched \in [Project -> SUBSET Package]
    /\ Node # {} /\ NONE \notin Node /\ BROKEN \notin Node
    /\ NONE \notin Content /\ NONE \notin Key
    /\ Threads \in 1..4
    /\ MaxRuns \in Nat /\ MaxFaults \in Nat

Dir == Project \X Package
Fresh == [src |-> "plain", built |-> NONE, whole |-> TRUE]

VARIABLES
    dir,      \* dir[d]: the files of the package directory d, or NONE
    marker,   \* marker[d]: the hash in its .snpm-side-effects-cache, or NONE
    local,    \* the slots of the side-effects cache, by key
    remote,   \* the objects of the remote cache, by key
    run,      \* run[i]: the install or rebuild that runs in project i
    task,     \* task[d]: what the run does with d
    entry,    \* entry[d]: the key of its cache entry, or NONE
    torn,     \* directories whose restore was cut off
    rerun,    \* directories whose scripts ran while they had a marker
    spoiled,  \* packages that were saved from a directory that was torn
    begun,    \* how many runs there were
    faults    \* how many failures, kills and deletions there were

vars == <<dir, marker, local, remote, run, task, entry, torn, rerun, spoiled, begun, faults>>
files == <<dir, marker, torn, rerun>>
caches == <<local, remote, spoiled>>
counts == <<begun, faults>>

Idle(result) == [phase |-> result, node |-> CHOOSE n \in Node : TRUE, todo |-> {},
                 jobs |-> {}, placed |-> {}, threads |-> 1, failed |-> FALSE]

Init ==
    /\ dir = [d \in Dir |-> NONE]
    /\ marker = [d \in Dir |-> NONE]
    /\ local = << >> /\ remote = << >>
    /\ run = [i \in Project |-> Idle("idle")]
    /\ task = [d \in Dir |-> "off"]
    /\ entry = [d \in Dir |-> NONE]
    /\ torn = {} /\ rerun = {} /\ spoiled = {}
    /\ begun = 0 /\ faults = 0

Ended(i) == run[i].phase \in {"idle", "ok", "failed"}
Fault == faults < MaxFaults /\ faults' = faults + 1 /\ UNCHANGED begun
Put(f, k, v) == [x \in DOMAIN f \cup {k} |-> IF x = k THEN v ELSE f[x]]

-----------------------------------------------------------------------------
(* Whose scripts run                                                       *)

\* is_dep_script_allowed
Allowed(i, p) ==
    LET w == Policy[i] IN
    CASE w.only_built # {} -> NameOf[p] \in w.only_built
      [] w.only_built = {} /\ w.ignored_built # {} -> NameOf[p] \notin w.ignored_built
      [] OTHER -> NameOf[p] \in w.allow_scripts

\* is_allowed of rebuild, which does not know of ignored packages
RebuildAllowed(i, p) ==
    NameOf[p] \in Policy[i].allow_scripts \cup Policy[i].only_built

\* can_any_scripts_run
CanAnyScriptsRun(i) ==
    Policy[i].only_built \cup Policy[i].ignored_built \cup Policy[i].allow_scripts # {}

-----------------------------------------------------------------------------
(* An install begins: links and patches                                    *)

\* The linker has made what was missing; finalize_install goes on with the patches.
Start(i, n) ==
    /\ Ended(i) /\ begun < MaxRuns
    /\ begun' = begun + 1
    /\ dir' = [d \in Dir |-> IF d[1] = i /\ dir[d] = NONE THEN Fresh ELSE dir[d]]
    /\ marker' = [d \in Dir |-> IF d[1] = i /\ dir[d] = NONE THEN NONE ELSE marker[d]]
    /\ run' = [run EXCEPT ![i] = [Idle("patch") EXCEPT !.node = n, !.todo = Patched[i]]]
    /\ UNCHANGED <<caches, task, entry, torn, rerun, faults>>

\* Mutated form of Materialized: the copy keeps the old marker.
MaterializedOver(d) == UNCHANGED <<marker, torn, rerun>>

\* materialize_patch_target: the directory is made anew from the store.
Materialized(d) ==
    /\ marker' = [marker EXCEPT ![d] = NONE]
    /\ torn' = torn \ {d} /\ rerun' = rerun \ {d}

\* apply_patches, one patch.  A patch that does not apply is a warning.
Patch(i, p) ==
    LET d == <<i, p>> IN
    /\ run[i].phase = "patch" /\ p \in run[i].todo
    /\ run' = [run EXCEPT ![i].todo = @ \ {p}]
    /\ Materialized(d)
    /\ \/ dir' = [dir EXCEPT ![d] = [Fresh EXCEPT !.src = "patched"]] /\ UNCHANGED counts
       \/ Fault /\ dir' = [dir EXCEPT ![d] = Fresh]
    /\ UNCHANGED <<caches, task, entry>>

\* run_install_scripts
Walk(i) ==
    /\ run[i].phase = "patch" /\ run[i].todo = {}
    /\ run' = [run EXCEPT ![i].phase = "walk",
                          ![i].todo = IF CanAnyScriptsRun(i) THEN Package ELSE {}]
    /\ UNCHANGED <<files, caches, task, entry, counts>>

-----------------------------------------------------------------------------
(* walk_node_modules and the cache entries of the packages it meets        *)

InputHash(d) == IF marker[d] # NONE THEN marker[d] ELSE dir[d]

\* Mutated form of CacheKey: one slot for all majors of Node.
CacheKeyShared(n, d) == <<CHOOSE m \in Node : TRUE, d[2], InputHash(d)>>

\* Mutated form of CacheKey: the package comes before the platform.
CacheKeySwapped(n, d) == <<d[2], n, InputHash(d)>>

\* SideEffectsCacheEntry::new
CacheKey(n, d) == <<n, d[2], InputHash(d)>>

\* The walk goes on: no restore is under way.
Walking(i) == run[i].phase = "walk" /\ \A p \in Package : task[<<i, p>>] # "restore"
Met(i, p) == run' = [run EXCEPT ![i].todo = @ \ {p}]
MetJob(i, p) == run' = [run EXCEPT ![i].todo = @ \ {p}, ![i].jobs = @ \cup {p}]

\* inspect_package: it has no scripts, or they are blocked.
Skip(i, p) ==
    /\ Walking(i) /\ p \in run[i].todo
    /\ p \notin Scripted \/ ~Allowed(i, p)
    /\ Met(i, p)
    /\ UNCHANGED <<files, caches, task, entry, counts>>

\* unpack_into_dir: decoded aside, then put in the place of the directory;
\* the marker is among the files
Unpacked(d, k) ==
    /\ dir' = [dir EXCEPT ![d] = remote[k]]
    /\ marker' = [marker EXCEPT ![d] = k[3]]
    /\ torn' = torn \ {d} /\ rerun' = rerun \ {d}

\* save_local_from: an error is logged
Promoted(k) ==
    \/ local' = Put(local, k, remote[k]) /\ UNCHANGED counts
    \/ Fault /\ UNCHANGED local

\* try_restore answers false: no object, no answer, or one that does not unpack
RemoteMisses(k) ==
    \/ k \notin DOMAIN remote /\ UNCHANGED counts
    \/ k \in DOMAIN remote /\ Fault

\* restore_if_available.  A slot replaces the directory, and its marker is
\* the first file that is copied; an object of the remote cache is unpacked
\* aside, moved into place and kept as a slot; a miss makes a job.
RestoreIfAvailable(i, p, d, k) ==
    \/ /\ marker[d] = k[3] /\ k \in DOMAIN local           \* AlreadyApplied
       /\ Met(i, p) /\ UNCHANGED <<files, caches, task, counts>>
    \/ /\ marker[d] # k[3] /\ k \in DOMAIN local           \* copy_dir begins
       /\ dir' = [dir EXCEPT ![d] = [local[k] EXCEPT !.whole = FALSE]]
       /\ marker' = [marker EXCEPT ![d] = k[3]]
       /\ task' = [task EXCEPT ![d] = "restore"]
       /\ Met(i, p) /\ UNCHANGED <<caches, torn, rerun, counts>>
    \/ /\ k \notin DOMAIN local /\ k \in DOMAIN remote
       /\ Unpacked(d, k) /\ Promoted(k)
       /\ Met(i, p) /\ UNCHANGED <<remote, spoiled, task>>
    \/ /\ k \notin DOMAIN local
       /\ RemoteMisses(k)
       /\ MetJob(i, p) /\ UNCHANGED <<files, caches, task>>

\* inspect_package: its scripts may run.  Without a version it has no cache entry.
Inspect(i, p) ==
    LET d == <<i, p>>
        k == CacheKey(run[i].node, d)
    IN  /\ Walking(i) /\ p \in run[i].todo \cap Scripted /\ Allowed(i, p)
        /\ \/ /\ p \in Versioned
              /\ entry' = [entry EXCEPT ![d] = k]
              /\ RestoreIfAvailable(i, p, d, k)
           \/ /\ p \notin Versioned
              /\ MetJob(i, p)
              /\ UNCHANGED <<files, caches, task, entry, counts>>

\* copy_dir has copied all files, or fails and leaves some: that is a
\* warning, and the scripts will run over them.
RestoreEnds(i, p) ==
    LET d == <<i, p>> IN
    /\ task[d] = "restore"
    /\ task' = [task EXCEPT ![d] = "off"]
    /\ \/ /\ dir' = [dir EXCEPT ![d] = local[entry[d]]]
          /\ torn' = torn \ {d} /\ rerun' = rerun \ {d}
          /\ UNCHANGED <<run, counts>>
       \/ /\ Fault /\ torn' = torn \cup {d}
          /\ run' = [run EXCEPT ![i].jobs = @ \cup {p}]
          /\ UNCHANGED <<dir, rerun>>
    /\ UNCHANGED <<marker, caches, entry>>

-----------------------------------------------------------------------------
(* Jobs in chunks                                                          *)

Producers(jobs, p) == {q \in jobs : q # p /\ NameOf[q] \in DepNames[p] \ {NameOf[p]}}

\* Mutated form of Level: all jobs at once.
OneLevel(jobs, placed) == jobs \ placed

\* topological_chunks: those whose producers are in earlier chunks; when there
\* are none, what is left, a cycle and all that is behind it, is the last chunk.
\* A chunk depends on the jobs alone, and is looked up when the run comes to it.
Level(jobs, placed) ==
    LET ready == {p \in jobs \ placed : Producers(jobs, p) \subseteq placed}
    IN  IF ready # {} THEN ready ELSE jobs \ placed

\* by_name: a map from names to jobs, so only one job of a name is kept
OfEachName(jobs) ==
    {S \in SUBSET jobs :
        \A p \in jobs : Cardinality({q \in S : NameOf[q] = NameOf[p]}) = 1}

\* run_jobs
Schedule(i) ==
    /\ Walking(i) /\ run[i].todo = {}
    /\ \E kept \in OfEachName(run[i].jobs) :
          run' = [run EXCEPT ![i].phase = "run", ![i].jobs = kept, ![i].threads = Threads]
    /\ UNCHANGED <<files, caches, task, entry, counts>>

\* rebuild: one package after another, in the order of the directory,
\* without the cache
Rebuild(i, n) ==
    LET jobs == {p \in Scripted : RebuildAllowed(i, p) /\ dir[<<i, p>>] # NONE} IN
    /\ Ended(i) /\ begun < MaxRuns
    /\ begun' = begun + 1
    /\ run' = [run EXCEPT ![i] = [Idle("rebuild") EXCEPT !.node = n, !.jobs = jobs]]
    /\ UNCHANGED <<files, caches, task, entry, faults>>

\* The jobs that are run next
Chunk(i) ==
    IF run[i].phase = "rebuild" THEN run[i].jobs \ run[i].placed
    ELSE Level(run[i].jobs, run[i].placed)

Busy(i) == {p \in Package : task[<<i, p>>] \in {"script", "save", "copied"}}

\* A worker takes a job; its scripts begin to change the directory.
ScriptStarts(i, p) ==
    LET d == <<i, p>> IN
    /\ run[i].phase \in {"run", "rebuild"} /\ ~run[i].failed
    /\ p \in Chunk(i)
    /\ task[d] = "off" /\ Cardinality(Busy(i)) < run[i].threads
    /\ task' = [task EXCEPT ![d] = "script"]
    /\ dir' = [dir EXCEPT ![d].built = BROKEN]
    /\ rerun' = IF marker[d] # NONE THEN rerun \cup {d} ELSE rerun
    /\ UNCHANGED <<marker, torn, caches, run, entry, counts>>

\* run_single_job: run_present_scripts.  An error ends the chunk: jobs that
\* have started end, no other starts.
ScriptEnds(i, p) ==
    LET d == <<i, p>> IN
    /\ task[d] = "script"
    /\ \/ /\ dir' = [dir EXCEPT ![d].built = run[i].node]
          /\ task' = [task EXCEPT ![d] = IF entry[d] # NONE THEN "save" ELSE "done"]
          /\ UNCHANGED <<run, counts>>
       \/ /\ Fault
          /\ task' = [task EXCEPT ![d] = "done"]
          /\ run' = [run EXCEPT ![i].failed = TRUE]
          /\ UNCHANGED dir
    /\ UNCHANGED <<marker, torn, rerun, caches, entry>>

\* save: the marker is written and, unless there is a slot already, the
\* directory copied aside.  An error is a warning.
Save(i, p) ==
    LET d == <<i, p>> IN
    /\ task[d] = "save"
    /\ \/ /\ marker' = [marker EXCEPT ![d] = entry[d][3]]
          /\ task' = [task EXCEPT ![d] = IF entry[d] \in DOMAIN local THEN "done" ELSE "copied"]
          /\ UNCHANGED counts
       \/ Fault /\ task' = [task EXCEPT ![d] = "done"] /\ UNCHANGED marker
    /\ UNCHANGED <<dir, torn, rerun, caches, run, entry>>

\* rename into the slot, if no other install was first
Kept(d) == IF entry[d] \in DOMAIN local THEN local ELSE Put(local, entry[d], dir[d])

\* try_upload: the cache may be read only, and failures are swallowed
Uploaded(d) == remote' \in {remote, Put(remote, entry[d], dir[d])}

\* save: rename and push_remote
SaveEnds(i, p) ==
    LET d == <<i, p>> IN
    /\ task[d] = "copied"
    /\ task' = [task EXCEPT ![d] = "done"]
    /\ \/ /\ local' = Kept(d)
          /\ Uploaded(d)
          /\ spoiled' = IF d \in torn THEN spoiled \cup {p} ELSE spoiled
          /\ UNCHANGED counts
       \/ Fault /\ UNCHANGED caches                        \* tmp_dir is removed
    /\ UNCHANGED <<files, run, entry>>

NextChunk(i) ==
    /\ run[i].phase \in {"run", "rebuild"} /\ ~run[i].failed /\ run[i].placed # run[i].jobs
    /\ \A p \in Chunk(i) : task[<<i, p>>] = "done"
    /\ run' = [run EXCEPT ![i].placed = @ \cup Chunk(i)]
    /\ UNCHANGED <<files, caches, task, entry, counts>>

\* What the process knew is gone when it ends.
Exits(i, result) ==
    /\ run' = [run EXCEPT ![i] = Idle(result)]
    /\ task' = [d \in Dir |-> IF d[1] = i THEN "off" ELSE task[d]]
    /\ entry' = [d \in Dir |-> IF d[1] = i THEN NONE ELSE entry[d]]

\* Mutated form of Finish: a failed job leaves the others waiting.
FinishAll(i) ==
    /\ run[i].phase \in {"run", "rebuild"} /\ Busy(i) = {} /\ run[i].placed = run[i].jobs
    /\ Exits(i, IF run[i].failed THEN "failed" ELSE "ok")
    /\ UNCHANGED <<files, caches, counts>>

\* The run returns
Finish(i) ==
    /\ run[i].phase \in {"run", "rebuild"} /\ Busy(i) = {}
    /\ \/ run[i].failed /\ Exits(i, "failed")
       \/ /\ ~run[i].failed /\ run[i].placed = run[i].jobs
          /\ Exits(i, IF run[i].phase = "run" THEN "ok" ELSE "idle")
    /\ UNCHANGED <<files, caches, counts>>

\* The process is killed
Kill(i) ==
    /\ ~Ended(i) /\ Fault
    /\ torn' = torn \cup {d \in Dir : d[1] = i /\ task[d] = "restore"}
    /\ Exits(i, "failed")
    /\ UNCHANGED <<dir, marker, rerun, caches>>

\* The cache directory of this machine is deleted, between installs; this
\* counts as a fault.
Evict ==
    /\ \A i \in Project : Ended(i)
    /\ Fault /\ local # << >> /\ local' = << >>
    /\ UNCHANGED <<files, remote, spoiled, run, task, entry>>

-----------------------------------------------------------------------------
PackageStep(i, p) ==
    \/ Patch(i, p) \/ Skip(i, p) \/ Inspect(i, p) \/ RestoreEnds(i, p)
    \/ ScriptStarts(i, p) \/ ScriptEnds(i, p) \/ Save(i, p) \/ SaveEnds(i, p)

ProjectStep(i) ==
    /\ ~Ended(i)
    /\ \/ Walk(i) \/ Schedule(i) \/ NextChunk(i) \/ Finish(i)
       \/ \E p \in Package : PackageStep(i, p)

Next ==
    \/ \E i \in Project :
          \/ ProjectStep(i)
          \/ \E n \in Node : Start(i, n) \/ Rebuild(i, n)
          \/ Kill(i)
    \/ Evict

\* A process that is not killed goes on, and scripts end.
Spec == Init /\ [][Next]_vars /\ \A i \in Project : WF_vars(ProjectStep(i))

-----------------------------------------------------------------------------
(* Properties                                                              *)

Phase == {"idle", "patch", "walk", "run", "rebuild", "ok", "failed"}
Run == [phase : Phase, node : Node, todo : SUBSET Package, jobs : SUBSET Package,
        placed : SUBSET Package, threads : 1..4, failed : BOOLEAN]
Cache(f) == DOMAIN f \subseteq Key /\ \A k \in DOMAIN f : f[k] \in Content

\* Directories, markers, cache entries and tasks are of the kinds that the code keeps.
TypeOK ==
    /\ dir \in [Dir -> Content \cup {NONE}]
    /\ marker \in [Dir -> Content \cup {NONE}]
    /\ Cache(local) /\ Cache(remote)
    /\ run \in [Project -> Run]
    /\ task \in [Dir -> {"off", "restore", "script", "save", "copied", "done"}]
    /\ entry \in [Dir -> Key \cup {NONE}]
    /\ torn \subseteq Dir /\ rerun \subseteq Dir /\ spoiled \subseteq Package
    /\ begun \in 0..MaxRuns /\ faults \in 0..MaxFaults

\* What a slot, or an object of the remote cache, holds was built from the
\* source its key was computed from, by the Node the key names, to the end of
\* the scripts; and it is all of it unless the package was saved from a
\* directory whose restore had been cut off.  Failing scripts, lost races for a
\* slot, changes of Node and rebuilds in place do not change that.
\* (SideEffectsCacheEntry::save, save_local_from)
SlotsHold ==
    \A f \in {local, remote} : \A k \in DOMAIN f :
        /\ f[k].src = k[3].src /\ f[k].built = k[1]
        /\ f[k].whole \/ k[2] \in spoiled

\* The producers of a job are behind it.  One that is on a cycle, or that
\* needs one that is, is in the last chunk with its consumers.
Closed(jobs, S) == \A q \in S : Producers(jobs, q) \subseteq S
Reaches(jobs, p) ==
    {q \in jobs : \A S \in SUBSET jobs : Producers(jobs, p) \subseteq S /\ Closed(jobs, S) => q \in S}
BehindCycle(jobs, p) == \E q \in Reaches(jobs, p) \cup {p} : q \in Reaches(jobs, q)

\* While the scripts of a package run in an install, the scripts of every
\* package it depends on that has any to run in this install have ended,
\* unless those are behind a cycle.  (topological_chunks, run_jobs)
ProducersFirst ==
    \A i \in Project : run[i].phase = "run" =>
        \A p, q \in run[i].jobs :
            /\ task[<<i, p>>] = "script" /\ q \in Producers(run[i].jobs, p)
            => task[<<i, q>>] = "done" \/ BehindCycle(run[i].jobs, q)

\* Another package of the same name is installed, too.
Twin(p) == \E q \in Package \ {p} : NameOf[q] = NameOf[p]

\* When an install has ended well, every package whose scripts may run is
\* built from the source the project wants, whatever was restored, run again,
\* killed or failed before, and whole unless its restore, or that of the
\* directory it was saved from, was cut off.  Two kinds are left out: a package
\* that shares its name (one job of a name is dropped), and a directory whose
\* scripts ran again beside an older marker.
\* (inspect_package, restore_if_available, run_single_job)
EachBuilt ==
    \A i \in Project, p \in Scripted :
        LET d == <<i, p>> IN
        run[i].phase = "ok" /\ Allowed(i, p) /\ ~Twin(p) /\ d \notin rerun =>
            /\ dir[d].built \in Node
            /\ dir[d].whole \/ d \in torn \/ p \in spoiled
            /\ p \in Patched[i] /\ faults = 0 => dir[d].src = "patched"

\* An install that is running ends.
Ends == \A i \in Project : ~Ended(i) ~> Ended(i)

\* The side-effects cache can be trusted: slots hold what their keys say, and the states
\* of directories and markers that were restored from them are of the kinds that the code
\* knows (SideEffectsCacheEntry::save, save_local_from).
CacheSound == TypeOK /\ SlotsHold

=============================================================================
