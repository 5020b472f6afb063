--------------------------- MODULE LifecycleProofs ---------------------------
(***************************************************************************)
(* Proofs about Lifecycle: what the side-effects cache holds, the order of *)
(* install scripts, and what an install that ends well has built, for any  *)
(* projects, packages, policies, patches and numbers of runs and faults.   *)
(***************************************************************************)
EXTENDS Lifecycle, FiniteSetTheorems, WellFoundedInduction, TLAPS

Running == {"run", "rebuild"}

\* Directories that a run will hash, patch or run scripts in are there.
Present ==
    \A i \in Project, p \in Package :
        \/ run[i].phase = "patch" \/ p \in run[i].todo \cup run[i].jobs
        \/ task[<<i, p>>] = "restore"
        => dir[<<i, p>>] # NONE

\* A task is under way in the phase that starts such tasks, and a cache entry
\* is known from the walk on.
TasksFit ==
    \A i \in Project, p \in Package :
        LET t == task[<<i, p>>]
            e == entry[<<i, p>>]
        IN  /\ t = "restore" => run[i].phase = "walk" /\ e \in DOMAIN local
            /\ t \in {"script", "save", "copied", "done"} => run[i].phase \in Running /\ p \in run[i].jobs
            /\ t \in {"save", "copied"} => e # NONE
            /\ e # NONE => run[i].phase \in {"walk", "run"}

ShapeInv == TypeOK /\ Present /\ TasksFit

\* A cache entry is about the package, the Node of the run and the source that
\* is there; so is the marker, and the scripts whose result is saved have ended.
EntriesFit ==
    \A i \in Project, p \in Package :
        LET d == <<i, p>> IN
        /\ entry[d] # NONE => /\ entry[d][1] = run[i].node /\ entry[d][2] = p
                              /\ entry[d][3].src = dir[d].src
        /\ marker[d] # NONE => dir[d] # NONE /\ marker[d].src = dir[d].src
        /\ task[d] \in {"save", "copied"} => dir[d].built = run[i].node

\* A directory that lacks files is torn, is being restored, or came from a
\* slot that was saved from one that was torn.
DirsWhole ==
    \A i \in Project, p \in Package :
        LET d == <<i, p>> IN
        dir[d] # NONE => dir[d].whole \/ d \in torn \/ task[d] = "restore" \/ p \in spoiled

CacheInv == ShapeInv /\ SlotsHold /\ EntriesFit /\ DirsWhole

\* The chunks that have ended are done, and only jobs of the next one are begun.
ChunksFit ==
    \A i \in Project : run[i].phase \in Running =>
        /\ run[i].placed \subseteq run[i].jobs
        /\ \A p \in run[i].placed : task[<<i, p>>] = "done"
        /\ \A p \in Package : task[<<i, p>>] # "off" => p \in run[i].placed \cup Chunk(i)

\* A run starts with no chunk behind it, and no job failed before there are any.
RunsFresh ==
    \A i \in Project : run[i].phase \notin Running => run[i].placed = {} /\ ~run[i].failed

OrderInv == ShapeInv /\ ChunksFit /\ RunsFresh

\* What carries a marker was built to the end, unless its scripts ran again.
MarkedBuilt ==
    \A d \in Dir : marker[d] # NONE /\ d \notin rerun => dir[d].built \in Node

\* Until a fault, what is patched is patched.
PatchesHold ==
    \A i \in Project : \A p \in Patched[i] :
        /\ faults = 0
        /\ \/ run[i].phase \in {"walk", "run", "ok"}
           \/ run[i].phase = "patch" /\ p \notin run[i].todo
        => dir[<<i, p>>] # NONE /\ dir[<<i, p>>].src = "patched"

\* What has to be built is built, or an install that has not failed will do it.
Left(i, p) ==
    CASE run[i].phase = "walk" -> p \in run[i].todo \cup run[i].jobs
      [] run[i].phase = "run" -> \/ p \in run[i].jobs /\ task[<<i, p>>] \in {"off", "script"}
                                 \/ run[i].failed
      [] OTHER -> run[i].phase # "ok"
BuiltOrLeft ==
    \A i \in Project, p \in Scripted :
        Allowed(i, p) /\ ~Twin(p) /\ <<i, p>> \notin rerun =>
            Left(i, p) \/ (dir[<<i, p>>] # NONE /\ dir[<<i, p>>].built \in Node)

BuildInv == CacheInv /\ OrderInv /\ MarkedBuilt /\ PatchesHold /\ BuiltOrLeft


-----------------------------------------------------------------------------
(* The shape of the state *)

LEMMA ContentFacts ==
    /\ Fresh \in Content /\ [Fresh EXCEPT !.src = "patched"] \in Content
    /\ \A c \in Content : c # NONE
    /\ \A c \in Content, b \in Node \cup {BROKEN} : [c EXCEPT !.built = b] \in Content
    /\ \A c \in Content : [c EXCEPT !.whole = FALSE] \in Content
  BY LifecycleAssumption DEF Content, Fresh

LEMMA IdleType ==
    ASSUME NEW phase \in Phase
    PROVE  /\ Idle(phase) \in Run
           /\ Idle(phase).phase = phase /\ Idle(phase).todo = {} /\ Idle(phase).jobs = {}
           /\ Idle(phase).placed = {} /\ ~Idle(phase).failed
<1>1. (CHOOSE n \in Node : TRUE) \in Node
  BY LifecycleAssumption
<1> QED
  BY <1>1 DEF Idle, Run

\* The files that are hashed are there.
LEMMA KeyType ==
    ASSUME TypeOK, NEW i \in Project, NEW p \in Package, dir[<<i, p>>] # NONE
    PROVE  /\ CacheKey(run[i].node, <<i, p>>) \in Key
           /\ CacheKey(run[i].node, <<i, p>>)[1] = run[i].node
           /\ CacheKey(run[i].node, <<i, p>>)[2] = p
           /\ CacheKey(run[i].node, <<i, p>>)[3] = InputHash(<<i, p>>)
           /\ InputHash(<<i, p>>) \in Content
  BY DEF TypeOK, CacheKey, InputHash, Key, Dir, Run

\* A process that ends
LEMMA ExitsStep ==
    ASSUME TypeOK, NEW i \in Project, NEW result \in Phase, Exits(i, result)
    PROVE  /\ run' \in [Project -> Run] /\ run'[i] = Idle(result)
           /\ \A j \in Project \ {i} : run'[j] = run[j]
           /\ task' \in [Dir -> {"off", "restore", "script", "save", "copied", "done"}]
           /\ entry' \in [Dir -> Key \cup {NONE}]
           /\ \A j \in Project, p \in Package :
                 /\ task'[<<j, p>>] = IF j = i THEN "off" ELSE task[<<j, p>>]
                 /\ entry'[<<j, p>>] = IF j = i THEN NONE ELSE entry[<<j, p>>]
  BY IdleType DEF TypeOK, Exits, Dir

LEMMA InitShape == ASSUME Init PROVE ShapeInv
<1>1. Idle("idle") \in Run /\ Idle("idle").todo = {} /\ Idle("idle").jobs = {} /\ Idle("idle").phase = "idle"
  BY IdleType DEF Phase
<1>2. TypeOK
  BY <1>1, LifecycleAssumption DEF Init, TypeOK, Cache
<1>3. Present /\ TasksFit
  BY <1>1 DEF Init, Present, TasksFit, Dir
<1> QED
  BY <1>2, <1>3 DEF ShapeInv


\* A step of a process leaves the other projects alone.
Apart(i) ==
    \A j \in Project \ {i} :
        /\ run'[j] = run[j]
        /\ \A p \in Package :
              /\ dir'[<<j, p>>] = dir[<<j, p>>] /\ marker'[<<j, p>>] = marker[<<j, p>>]
              /\ task'[<<j, p>>] = task[<<j, p>>] /\ entry'[<<j, p>>] = entry[<<j, p>>]
              /\ <<j, p>> \in torn' <=> <<j, p>> \in torn
              /\ <<j, p>> \in rerun' <=> <<j, p>> \in rerun

\* What a step that changes no file, no task and no slot does
LEMMA QuietStep ==
    ASSUME ShapeInv, NEW i \in Project, UNCHANGED <<dir, marker, local, remote, task, entry, torn, rerun, spoiled>>,
           run' \in [Project -> Run], \A j \in Project \ {i} : run'[j] = run[j],
           begun' \in 0..MaxRuns, faults' \in 0..MaxFaults,
           \A p \in Package :
               /\ run'[i].phase = "patch" \/ p \in run'[i].todo \cup run'[i].jobs => dir[<<i, p>>] # NONE
               /\ run'[i].phase = run[i].phase \/ (task[<<i, p>>] = "off" /\ entry[<<i, p>>] = NONE)
                  \/ (task[<<i, p>>] = "off" /\ run'[i].phase = "run")
               /\ task[<<i, p>>] = "off" \/ run[i].jobs \subseteq run'[i].jobs
    PROVE  ShapeInv' /\ Apart(i)
<1>1. TypeOK'
  BY DEF ShapeInv, TypeOK, Cache
<1>2. Present' /\ Apart(i)
  BY DEF ShapeInv, Present, Apart
<1>3. TasksFit'
  BY DEF ShapeInv, TasksFit
<1> QED
  BY <1>1, <1>2, <1>3 DEF ShapeInv

LEMMA StartShape ==
    ASSUME ShapeInv, NEW i \in Project, NEW n \in Node, Start(i, n)
    PROVE  ShapeInv' /\ Apart(i) /\ run'[i].phase = "patch" /\ ~run'[i].failed /\ run'[i].placed = {}
           /\ run'[i].todo = Patched[i]
<1>1. run' \in [Project -> Run] /\ run'[i].todo = Patched[i] /\ run'[i].jobs = {} /\ run'[i].placed = {}
      /\ ~run'[i].failed /\ run'[i].phase = "patch" /\ \A j \in Project \ {i} : run'[j] = run[j]
  BY IdleType, LifecycleAssumption DEF ShapeInv, TypeOK, Start, Phase, Run
<1>2. dir' \in [Dir -> Content \cup {NONE}] /\ marker' \in [Dir -> Content \cup {NONE}]
  BY ContentFacts DEF ShapeInv, TypeOK, Start
<1>3. begun' \in 0..MaxRuns
  BY LifecycleAssumption DEF ShapeInv, TypeOK, Start
<1>4. TypeOK'
  BY <1>1, <1>2, <1>3 DEF ShapeInv, TypeOK, Start, Cache, caches
<1>5. Present' /\ Apart(i)
  BY <1>1, ContentFacts DEF ShapeInv, Present, Start, Apart, Dir
<1>6. TasksFit'
  BY <1>1 DEF ShapeInv, TasksFit, Start, caches, Ended, Running
<1> QED
  BY <1>1, <1>4, <1>5, <1>6 DEF ShapeInv

LEMMA PatchShape ==
    ASSUME ShapeInv, NEW i \in Project, NEW p \in Package, Patch(i, p)
    PROVE  ShapeInv' /\ Apart(i)
<1>1. run' \in [Project -> Run] /\ run'[i].phase = "patch" /\ run'[i].jobs = run[i].jobs
      /\ run'[i].todo \subseteq run[i].todo /\ \A j \in Project \ {i} : run'[j] = run[j]
  <2>1. run[i] \in Run /\ run \in [Project -> Run]
    BY DEF ShapeInv, TypeOK
  <2>2. run' = [run EXCEPT ![i] = [run[i] EXCEPT !.todo = @ \ {p}]] /\ run[i].phase = "patch"
    BY <2>1 DEF Patch
  <2>3. [run[i] EXCEPT !.todo = @ \ {p}] \in Run
    BY <2>1 DEF Run
  <2> QED
    BY <2>1, <2>2, <2>3 DEF Run
<1>2. /\ dir' \in [Dir -> Content \cup {NONE}] /\ marker' \in [Dir -> Content \cup {NONE}]
      /\ torn' \subseteq Dir /\ rerun' \subseteq Dir
  BY ContentFacts DEF ShapeInv, TypeOK, Patch, Materialized
<1>3. begun' \in 0..MaxRuns /\ faults' \in 0..MaxFaults
  BY LifecycleAssumption DEF ShapeInv, TypeOK, Patch, Fault, counts
<1>4. TypeOK'
  BY <1>1, <1>2, <1>3 DEF ShapeInv, TypeOK, Patch, Cache, caches
<1>d. \A j \in Project, q \in Package :
         /\ dir'[<<j, q>>] = dir[<<j, q>>] \/ (j = i /\ q = p /\ dir'[<<j, q>>] \in Content)
         /\ j = i \/ marker'[<<j, q>>] = marker[<<j, q>>]
         /\ j = i \/ (<<j, q>> \in torn' <=> <<j, q>> \in torn)
         /\ j = i \/ (<<j, q>> \in rerun' <=> <<j, q>> \in rerun)
  BY ContentFacts DEF ShapeInv, TypeOK, Patch, Materialized, Dir
<1>e. Apart(i)
  BY <1>1, <1>d DEF Patch, Apart
<1>5. Present'
  <2> SUFFICES ASSUME NEW j \in Project, NEW q \in Package,
                      \/ run'[j].phase = "patch" \/ q \in run'[j].todo \cup run'[j].jobs
                      \/ task'[<<j, q>>] = "restore"
               PROVE  dir'[<<j, q>>] # NONE
    BY DEF Present
  <2>1. dir[<<j, q>>] # NONE
    BY <1>1 DEF ShapeInv, Present, Patch
  <2> QED
    BY <2>1, <1>d, ContentFacts
<1>6. TasksFit'
  BY <1>1 DEF ShapeInv, TasksFit, Patch, caches
<1> QED
  BY <1>4, <1>5, <1>6, <1>e DEF ShapeInv

LEMMA WalkShape ==
    ASSUME ShapeInv, NEW i \in Project, Walk(i)
    PROVE  ShapeInv' /\ Apart(i)
<1>1. run' \in [Project -> Run] /\ run'[i].phase = "walk" /\ run'[i].jobs = run[i].jobs
      /\ run'[i].todo \subseteq Package /\ \A j \in Project \ {i} : run'[j] = run[j]
  <2>1. PICK todo \in SUBSET Package : run' = [run EXCEPT ![i].phase = "walk", ![i].todo = todo]
    BY DEF Walk
  <2>2. run[i] \in Run /\ run \in [Project -> Run]
    BY DEF ShapeInv, TypeOK
  <2>3. run' = [run EXCEPT ![i] = [run[i] EXCEPT !.phase = "walk", !.todo = todo]]
    BY <2>1, <2>2
  <2>4. [run[i] EXCEPT !.phase = "walk", !.todo = todo] \in Run
    BY <2>2 DEF Run, Phase
  <2> QED
    BY <2>2, <2>3, <2>4 DEF Run
<1>2. \A p \in Package : dir[<<i, p>>] # NONE /\ task[<<i, p>>] = "off" /\ entry[<<i, p>>] = NONE
  BY DEF ShapeInv, TypeOK, Present, TasksFit, Walk, Running, Dir
<1>3. begun' \in 0..MaxRuns /\ faults' \in 0..MaxFaults
  BY DEF ShapeInv, TypeOK, Walk, counts
<1> QED
  BY <1>1, <1>2, <1>3, QuietStep DEF Walk, files, caches

LEMMA SkipShape ==
    ASSUME ShapeInv, NEW i \in Project, NEW p \in Package, Skip(i, p)
    PROVE  ShapeInv' /\ Apart(i)
<1>1. run' \in [Project -> Run] /\ run'[i].phase = run[i].phase /\ run'[i].jobs = run[i].jobs
      /\ run'[i].todo \subseteq run[i].todo /\ \A j \in Project \ {i} : run'[j] = run[j]
  BY DEF ShapeInv, TypeOK, Skip, Met, Run
<1>2. \A q \in Package : run'[i].phase = "patch" \/ q \in run'[i].todo \cup run'[i].jobs => dir[<<i, q>>] # NONE
  BY <1>1 DEF ShapeInv, Present
<1>3. begun' \in 0..MaxRuns /\ faults' \in 0..MaxFaults
  BY DEF ShapeInv, TypeOK, Skip, counts
<1> QED
  BY <1>1, <1>2, <1>3, QuietStep DEF Skip, files, caches


\* A step of the run in project i that is about package p alone
DirStep(i, p) ==
    /\ \A d \in Dir \ {<<i, p>>} :
          /\ dir'[d] = dir[d] /\ marker'[d] = marker[d] /\ task'[d] = task[d] /\ entry'[d] = entry[d]
          /\ d \in torn' <=> d \in torn
          /\ d \in rerun' <=> d \in rerun
    /\ \A j \in Project \ {i} : run'[j] = run[j]
    /\ run'[i].phase = run[i].phase /\ run'[i].node = run[i].node /\ run'[i].placed = run[i].placed
    /\ run[i].jobs \subseteq run'[i].jobs
    /\ run'[i].todo \cup run'[i].jobs \subseteq run[i].todo \cup run[i].jobs \cup {p}
    /\ DOMAIN local \subseteq DOMAIN local'

LEMMA DirStepShape ==
    ASSUME ShapeInv, TypeOK', NEW i \in Project, NEW p \in Package, DirStep(i, p),
           dir'[<<i, p>>] # NONE,
           LET t == task'[<<i, p>>]
               e == entry'[<<i, p>>]
           IN  /\ t = "restore" => run[i].phase = "walk" /\ e \in DOMAIN local'
               /\ t \in {"script", "save", "copied", "done"} => run[i].phase \in Running /\ p \in run[i].jobs
               /\ t \in {"save", "copied"} => e # NONE
               /\ e # NONE => run[i].phase \in {"walk", "run"}
    PROVE  ShapeInv' /\ Apart(i)
<1>1. \A j \in Project, q \in Package : (j # i \/ q # p) =>
         <<j, q>> \in Dir \ {<<i, p>>}
  BY DEF Dir
<1>2. Present'
  BY <1>1 DEF ShapeInv, Present, DirStep
<1>3. TasksFit'
  <2> SUFFICES ASSUME NEW j \in Project, NEW q \in Package
               PROVE  LET t == task'[<<j, q>>]
                          e == entry'[<<j, q>>]
                      IN  /\ t = "restore" => run'[j].phase = "walk" /\ e \in DOMAIN local'
                          /\ t \in {"script", "save", "copied", "done"} =>
                                run'[j].phase \in Running /\ q \in run'[j].jobs
                          /\ t \in {"save", "copied"} => e # NONE
                          /\ e # NONE => run'[j].phase \in {"walk", "run"}
    BY DEF TasksFit
  <2>1. run'[j].phase = run[j].phase /\ run[j].jobs \subseteq run'[j].jobs
    BY DEF DirStep
  <2>2. CASE j = i /\ q = p
    BY <2>1, <2>2
  <2>3. CASE ~(j = i /\ q = p)
    <3>1. task'[<<j, q>>] = task[<<j, q>>] /\ entry'[<<j, q>>] = entry[<<j, q>>]
      BY <1>1, <2>3 DEF DirStep
    <3> QED
      BY <2>1, <3>1 DEF ShapeInv, TasksFit, DirStep
  <2> QED
    BY <2>2, <2>3
<1>4. Apart(i)
  BY <1>1 DEF Apart, DirStep
<1> QED
  BY <1>2, <1>3, <1>4 DEF ShapeInv

\* What the walk knows of a package that it meets
LEMMA Meeting ==
    ASSUME ShapeInv, NEW i \in Project, NEW p \in Package, Walking(i), p \in run[i].todo
    PROVE  LET d == <<i, p>>
               k == CacheKey(run[i].node, d)
           IN  /\ d \in Dir /\ dir[d] \in Content /\ k \in Key /\ k[1] = run[i].node /\ k[2] = p
               /\ k[3] = InputHash(d) /\ k[3] \in Content
               /\ task[d] = "off" /\ run[i] \in Run
<1>1. dir[<<i, p>>] # NONE /\ <<i, p>> \in Dir
  BY DEF ShapeInv, Present, Dir
<1>2. task[<<i, p>>] = "off"
  BY <1>1 DEF ShapeInv, TypeOK, TasksFit, Walking, Running
<1> QED
  BY <1>1, <1>2, KeyType DEF ShapeInv, TypeOK

LEMMA MetStep ==
    ASSUME TypeOK, NEW i \in Project, NEW p \in Package, p \in run[i].todo, Met(i, p) \/ MetJob(i, p)
    PROVE  /\ run' \in [Project -> Run] /\ \A j \in Project \ {i} : run'[j] = run[j]
           /\ run'[i].phase = run[i].phase /\ run'[i].node = run[i].node /\ run'[i].placed = run[i].placed
           /\ run'[i].failed = run[i].failed /\ run'[i].threads = run[i].threads
           /\ run'[i].todo = run[i].todo \ {p}
           /\ Met(i, p) => run'[i].jobs = run[i].jobs
           /\ MetJob(i, p) => run'[i].jobs = run[i].jobs \cup {p}
           /\ run[i].jobs \subseteq run'[i].jobs /\ run'[i].jobs \subseteq run[i].jobs \cup {p}
           /\ run'[i].todo \cup run'[i].jobs \subseteq run[i].todo \cup run[i].jobs
<1>1. run[i] \in Run /\ run \in [Project -> Run]
  BY DEF TypeOK
<1>2. CASE Met(i, p)
  BY <1>1, <1>2 DEF Met, MetJob, Run
<1>3. CASE MetJob(i, p) /\ ~Met(i, p)
  <2>1. run' = [run EXCEPT ![i] = [run[i] EXCEPT !.todo = @ \ {p}, !.jobs = @ \cup {p}]]
    BY <1>1, <1>3 DEF MetJob
  <2>2. [run[i] EXCEPT !.todo = @ \ {p}, !.jobs = @ \cup {p}] \in Run
    BY <1>1 DEF Run
  <2> QED
    BY <1>1, <1>3, <2>1, <2>2 DEF Run
<1> QED
  BY <1>2, <1>3


FaultType == begun' \in 0..MaxRuns /\ faults' \in 0..MaxFaults /\ faults <= faults'

LEMMA FaultTypes ==
    ASSUME TypeOK, Fault \/ UNCHANGED counts
    PROVE  FaultType
  BY LifecycleAssumption DEF TypeOK, Fault, counts, FaultType

\* The ways in which the walk meets a package whose scripts may run: it becomes a
\* job, its scripts need not run, a slot is being copied, or an object was unpacked.
InspectJob(i, p) ==
    p \in run'[i].jobs /\ UNCHANGED <<dir, marker, torn, rerun, task>>
InspectApplied(i, p) ==
    marker[<<i, p>>] # NONE /\ UNCHANGED <<dir, marker, torn, rerun, task>>
InspectRestore(i, p, k) ==
    LET d == <<i, p>> IN
    /\ k \in DOMAIN local /\ entry'[d] = k /\ local[k] \in Content
    /\ dir' = [dir EXCEPT ![d] = [local[k] EXCEPT !.whole = FALSE]]
    /\ marker' = [marker EXCEPT ![d] = k[3]] /\ task' = [task EXCEPT ![d] = "restore"]
    /\ UNCHANGED <<torn, rerun>>
InspectUnpack(i, p, k) ==
    LET d == <<i, p>> IN
    /\ k \in DOMAIN remote /\ entry'[d] = k /\ remote[k] \in Content
    /\ dir' = [dir EXCEPT ![d] = remote[k]]
    /\ marker' = [marker EXCEPT ![d] = k[3]]
    /\ torn' = torn \ {d} /\ rerun' = rerun \ {d} /\ UNCHANGED task

LEMMA InspectStep ==
    ASSUME ShapeInv, NEW i \in Project, NEW p \in Package, Inspect(i, p)
    PROVE  LET d == <<i, p>>
               k == CacheKey(run[i].node, d)
           IN  /\ TypeOK' /\ DirStep(i, p) /\ UNCHANGED <<remote, spoiled>> /\ faults <= faults'
               /\ run[i].phase = "walk" /\ run'[i].todo = run[i].todo \ {p}
               /\ run'[i].failed = run[i].failed /\ p \in run[i].todo
               /\ entry'[d] \in {entry[d], k}
               /\ \A x \in DOMAIN local' :
                     \/ x \in DOMAIN local /\ local'[x] = local[x]
                     \/ x = k /\ k \in DOMAIN remote /\ local'[x] = remote[k]
               /\ \/ InspectJob(i, p) \/ InspectApplied(i, p)
                  \/ InspectRestore(i, p, k) \/ InspectUnpack(i, p, k)
<1> DEFINE d == <<i, p>>
           k == CacheKey(run[i].node, d)
<1>1. Walking(i) /\ p \in run[i].todo /\ run[i].phase = "walk"
  BY DEF Inspect, Walking
<1>2. /\ d \in Dir /\ dir[d] \in Content /\ k \in Key
      /\ k[3] \in Content /\ k[3] # NONE /\ task[d] = "off"
  BY <1>1, Meeting, ContentFacts
<1>3. TypeOK /\ Cache(local) /\ Cache(remote)
  BY DEF ShapeInv, TypeOK
<1> HIDE DEF d, k
<1>4. ASSUME UNCHANGED <<files, caches, task>>, Fault \/ UNCHANGED counts, Met(i, p) \/ MetJob(i, p),
             entry' = entry \/ entry' = [entry EXCEPT ![d] = k]
      PROVE  TypeOK' /\ DirStep(i, p) /\ UNCHANGED <<remote, spoiled>> /\ faults <= faults'
             /\ entry'[d] \in {entry[d], k}
  <2>1. FaultType
    BY <1>3, <1>4, FaultTypes
  <2>2. entry' \in [Dir -> Key \cup {NONE}] /\ (\A x \in Dir \ {d} : entry'[x] = entry[x])
        /\ entry'[d] \in {entry[d], k}
    BY <1>2, <1>3, <1>4 DEF TypeOK
  <2>3. TypeOK'
    BY <1>1, <1>3, <1>4, <2>1, <2>2, MetStep DEF TypeOK, files, caches, FaultType, Cache
  <2>4. DirStep(i, p)
    BY <1>1, <1>3, <1>4, <2>2, MetStep DEF DirStep, files, caches, d
  <2> QED
    BY <1>4, <2>1, <2>2, <2>3, <2>4 DEF caches, FaultType
<1>5. CASE p \notin Versioned
  <2>1. MetJob(i, p) /\ UNCHANGED <<files, caches, task, entry, counts>>
    BY <1>5 DEF Inspect
  <2> QED
    BY <1>1, <1>3, <1>4, <2>1, MetStep DEF d, k, files, caches, InspectJob
<1>6. CASE p \in Versioned
  <2>1. entry' = [entry EXCEPT ![d] = k] /\ RestoreIfAvailable(i, p, d, k)
    BY <1>6 DEF Inspect, d, k
  <2>2. CASE marker[d] = k[3] /\ k \in DOMAIN local /\ Met(i, p) /\ UNCHANGED <<files, caches, task, counts>>
    BY <1>1, <1>2, <1>3, <1>4, <2>1, <2>2, MetStep DEF d, k, files, caches, InspectApplied
  <2>3. CASE /\ k \notin DOMAIN local /\ RemoteMisses(k)
             /\ MetJob(i, p) /\ UNCHANGED <<files, caches, task>>
    <3>1. Fault \/ UNCHANGED counts
      BY <2>3 DEF RemoteMisses
    <3> QED
      BY <1>1, <1>3, <1>4, <2>1, <2>3, <3>1, MetStep DEF d, k, files, caches, InspectJob
  <2>4. CASE /\ marker[d] # k[3] /\ k \in DOMAIN local
             /\ dir' = [dir EXCEPT ![d] = [local[k] EXCEPT !.whole = FALSE]]
             /\ marker' = [marker EXCEPT ![d] = k[3]]
             /\ task' = [task EXCEPT ![d] = "restore"]
             /\ Met(i, p) /\ UNCHANGED <<caches, torn, rerun, counts>>
    <3>1. local[k] \in Content /\ entry'[d] = k
      BY <1>2, <1>3, <2>1, <2>4 DEF Cache, TypeOK
    <3>2. TypeOK'
      BY <1>1, <1>2, <1>3, <2>1, <2>4, <3>1, MetStep, ContentFacts DEF TypeOK, caches, counts, Cache
    <3>3. DirStep(i, p)
      BY <1>1, <1>2, <1>3, <2>1, <2>4, MetStep DEF TypeOK, DirStep, caches, d
    <3>4. InspectRestore(i, p, k)
      BY <2>4, <3>1 DEF InspectRestore, d
    <3> QED
      BY <1>1, <1>3, <2>4, <3>1, <3>2, <3>3, <3>4, MetStep DEF d, k, caches, counts, TypeOK
  <2>5. CASE /\ k \notin DOMAIN local /\ k \in DOMAIN remote
             /\ Unpacked(d, k) /\ Promoted(k)
             /\ Met(i, p) /\ UNCHANGED <<remote, spoiled, task>>
    <3>1. remote[k] \in Content /\ entry'[d] = k
      BY <1>2, <1>3, <2>1, <2>5 DEF Cache, TypeOK
    <3>2. /\ Cache(local') /\ DOMAIN local \subseteq DOMAIN local'
          /\ \A x \in DOMAIN local' : \/ x \in DOMAIN local /\ local'[x] = local[x]
                                      \/ x = k /\ local'[x] = remote[k]
      <4>1. local' = local \/ local' = Put(local, k, remote[k])
        BY <2>5 DEF Promoted
      <4>2. /\ Cache(Put(local, k, remote[k])) /\ DOMAIN Put(local, k, remote[k]) = DOMAIN local \cup {k}
            /\ \A x \in DOMAIN Put(local, k, remote[k]) : Put(local, k, remote[k])[x] = IF x = k THEN remote[k] ELSE local[x]
        BY <1>2, <1>3, <3>1 DEF Cache, Put
      <4>3. CASE local' = local
        BY <1>3, <4>3
      <4>4. CASE local' = Put(local, k, remote[k])
        BY <4>2, <4>4
      <4> QED
        BY <4>1, <4>3, <4>4
    <3>3. FaultType
      BY <1>3, <2>5, FaultTypes DEF Promoted
    <3>4. TypeOK'
      BY <1>1, <1>2, <1>3, <2>1, <2>5, <3>1, <3>2, <3>3, MetStep DEF TypeOK, Unpacked, FaultType
    <3>5. DirStep(i, p)
      BY <1>1, <1>2, <1>3, <2>1, <2>5, <3>2, MetStep DEF TypeOK, DirStep, Unpacked, d
    <3>6. InspectUnpack(i, p, k)
      BY <2>5, <3>1 DEF InspectUnpack, Unpacked, d
    <3> QED
      BY <1>1, <1>3, <2>5, <3>1, <3>2, <3>3, <3>4, <3>5, <3>6, MetStep DEF d, k, FaultType
  <2> QED
    BY <2>1, <2>2, <2>3, <2>4, <2>5 DEF RestoreIfAvailable
<1> QED
  BY <1>5, <1>6

LEMMA InspectShape ==
    ASSUME ShapeInv, NEW i \in Project, NEW p \in Package, Inspect(i, p)
    PROVE  ShapeInv' /\ Apart(i)
<1> DEFINE d == <<i, p>>
           k == CacheKey(run[i].node, d)
<1>1. Walking(i) /\ p \in run[i].todo /\ run[i].phase = "walk"
  BY DEF Inspect, Walking
<1>2. d \in Dir /\ dir[d] \in Content /\ task[d] = "off" /\ dir \in [Dir -> Content \cup {NONE}]
      /\ task \in [Dir -> {"off", "restore", "script", "save", "copied", "done"}]
  BY <1>1, Meeting DEF ShapeInv, TypeOK
<1>3. /\ dir'[d] \in Content
      /\ task'[d] = "off" \/ (task'[d] = "restore" /\ entry'[d] \in DOMAIN local)
      /\ DOMAIN local \subseteq DOMAIN local'
  <2>1. \/ InspectJob(i, p) \/ InspectApplied(i, p) \/ InspectRestore(i, p, k) \/ InspectUnpack(i, p, k)
    BY InspectStep
  <2>2. CASE InspectJob(i, p) \/ InspectApplied(i, p)
    BY <1>2, <2>2, InspectStep DEF InspectJob, InspectApplied, DirStep
  <2>3. CASE InspectRestore(i, p, k)
    BY <1>2, <2>3, InspectStep, ContentFacts DEF InspectRestore, DirStep
  <2>4. CASE InspectUnpack(i, p, k)
    BY <1>2, <2>4, InspectStep DEF InspectUnpack, DirStep
  <2> QED
    BY <2>1, <2>2, <2>3, <2>4
<1> QED
  BY <1>1, <1>3, InspectStep, DirStepShape, ContentFacts


LEMMA RestoreEndsStep ==
    ASSUME ShapeInv, NEW i \in Project, NEW p \in Package, RestoreEnds(i, p)
    PROVE  LET d == <<i, p>> IN
           /\ TypeOK' /\ DirStep(i, p) /\ UNCHANGED <<marker, caches, entry>> /\ faults <= faults'
           /\ d \in Dir /\ task'[d] = "off" /\ run[i].phase = "walk" /\ run'[i].failed = run[i].failed
           /\ run'[i].todo = run[i].todo
           /\ entry[d] \in DOMAIN local /\ entry[d] \in Key /\ local[entry[d]] \in Content
           /\ \/ /\ dir' = [dir EXCEPT ![d] = local[entry[d]]]
                 /\ torn' = torn \ {d} /\ rerun' = rerun \ {d} /\ run' = run
              \/ torn' = torn \cup {d} /\ UNCHANGED <<dir, rerun>> /\ p \in run'[i].jobs
<1> DEFINE d == <<i, p>>
<1>1. task[d] = "restore" /\ task' = [task EXCEPT ![d] = "off"] /\ UNCHANGED <<marker, caches, entry>>
  BY DEF RestoreEnds
<1>2. d \in Dir /\ run[i].phase = "walk" /\ entry[d] \in DOMAIN local
  BY <1>1 DEF ShapeInv, TasksFit, Dir
<1>3. TypeOK /\ Cache(local) /\ Cache(remote) /\ run \in [Project -> Run] /\ run[i] \in Run
  BY DEF ShapeInv, TypeOK
<1>4. entry[d] \in Key /\ local[entry[d]] \in Content
  BY <1>2, <1>3 DEF Cache
<1>5. CASE /\ dir' = [dir EXCEPT ![d] = local[entry[d]]]
           /\ torn' = torn \ {d} /\ rerun' = rerun \ {d}
           /\ UNCHANGED <<run, counts>>
  <2>1. TypeOK'
    BY <1>1, <1>2, <1>3, <1>4, <1>5 DEF TypeOK, caches, counts, Cache
  <2>2. DirStep(i, p)
    BY <1>1, <1>2, <1>3, <1>5 DEF TypeOK, DirStep, caches
  <2> QED
    BY <1>1, <1>2, <1>3, <1>4, <1>5, <2>1, <2>2 DEF TypeOK, counts
<1>6. CASE /\ Fault /\ torn' = torn \cup {d}
           /\ run' = [run EXCEPT ![i].jobs = @ \cup {p}]
           /\ UNCHANGED <<dir, rerun>>
  <2>1. FaultType
    BY <1>3, <1>6, FaultTypes
  <2>2. /\ run' \in [Project -> Run] /\ \A j \in Project \ {i} : run'[j] = run[j]
        /\ run'[i].phase = run[i].phase /\ run'[i].node = run[i].node /\ run'[i].placed = run[i].placed
        /\ run'[i].todo = run[i].todo /\ run'[i].failed = run[i].failed
        /\ run'[i].jobs = run[i].jobs \cup {p}
    BY <1>3, <1>6 DEF Run
  <2>3. TypeOK'
    BY <1>1, <1>2, <1>3, <1>6, <2>1, <2>2 DEF TypeOK, caches, FaultType, Cache
  <2> QED
    BY <1>1, <1>2, <1>3, <1>4, <1>6, <2>1, <2>2, <2>3 DEF TypeOK, DirStep, caches, FaultType
<1> QED
  BY <1>1, <1>5, <1>6 DEF RestoreEnds

LEMMA RestoreEndsShape ==
    ASSUME ShapeInv, NEW i \in Project, NEW p \in Package, RestoreEnds(i, p)
    PROVE  ShapeInv' /\ Apart(i)
<1>1. dir[<<i, p>>] # NONE /\ (entry[<<i, p>>] # NONE => run[i].phase \in {"walk", "run"})
  BY DEF ShapeInv, Present, TasksFit, RestoreEnds
<1>2. dir'[<<i, p>>] # NONE
  BY <1>1, RestoreEndsStep, ContentFacts DEF ShapeInv, TypeOK
<1> QED
  BY <1>1, <1>2, RestoreEndsStep, DirStepShape DEF caches


\* A job that a worker has
LEMMA Working ==
    ASSUME ShapeInv, NEW i \in Project, NEW p \in Package,
           task[<<i, p>>] \in {"script", "save", "copied"}
    PROVE  /\ <<i, p>> \in Dir /\ run[i].phase \in Running /\ p \in run[i].jobs
           /\ dir[<<i, p>>] \in Content /\ run[i] \in Run /\ entry[<<i, p>>] \in Key \cup {NONE}
           /\ task[<<i, p>>] \in {"save", "copied"} => entry[<<i, p>>] \in Key
           /\ entry[<<i, p>>] # NONE => run[i].phase = "run"
<1>1. run[i].phase \in Running /\ p \in run[i].jobs /\ <<i, p>> \in Dir
  BY DEF ShapeInv, TasksFit, Dir
<1>2. dir[<<i, p>>] # NONE
  BY <1>1 DEF ShapeInv, Present
<1> QED
  BY <1>1, <1>2 DEF ShapeInv, TypeOK, TasksFit, Running

LEMMA ScheduleStep ==
    ASSUME ShapeInv, NEW i \in Project, Schedule(i)
    PROVE  /\ ShapeInv' /\ Apart(i) /\ UNCHANGED <<dir, marker, local, remote, task, entry, torn, rerun, spoiled, faults>>
           /\ run[i].phase = "walk" /\ run[i].todo = {} /\ run'[i].phase = "run"
           /\ run'[i].node = run[i].node /\ run'[i].placed = run[i].placed /\ run'[i].failed = run[i].failed
           /\ run'[i].jobs \in OfEachName(run[i].jobs)
           /\ \A p \in Package : task[<<i, p>>] = "off"
<1>1. PICK kept \in OfEachName(run[i].jobs) :
          run' = [run EXCEPT ![i].phase = "run", ![i].jobs = kept, ![i].threads = Threads]
  BY DEF Schedule
<1>2. run[i] \in Run /\ run \in [Project -> Run]
  BY DEF ShapeInv, TypeOK
<1>3. kept \subseteq run[i].jobs
  BY DEF OfEachName
<1>4. [run[i] EXCEPT !.phase = "run", !.jobs = kept, !.threads = Threads] \in Run
  BY <1>2, <1>3, LifecycleAssumption DEF Run, Phase
<1>5. run' = [run EXCEPT ![i] = [run[i] EXCEPT !.phase = "run", !.jobs = kept, !.threads = Threads]]
  BY <1>1, <1>2
<1>6. /\ run' \in [Project -> Run] /\ run'[i].phase = "run" /\ run'[i].jobs = kept
      /\ run'[i].node = run[i].node /\ run'[i].placed = run[i].placed /\ run'[i].failed = run[i].failed
      /\ run'[i].todo = run[i].todo /\ \A j \in Project \ {i} : run'[j] = run[j]
  BY <1>2, <1>4, <1>5 DEF Run
<1>7. run[i].phase = "walk" /\ run[i].todo = {} /\ UNCHANGED <<files, caches, task, entry, counts>>
  BY DEF Schedule, Walking
<1>8. \A p \in Package : task[<<i, p>>] = "off"
  BY <1>7 DEF ShapeInv, TypeOK, TasksFit, Schedule, Walking, Running, Dir
<1>9. \A p \in Package : run'[i].phase = "patch" \/ p \in run'[i].todo \cup run'[i].jobs => dir[<<i, p>>] # NONE
  BY <1>3, <1>6 DEF ShapeInv, Present
<1>10. begun' \in 0..MaxRuns /\ faults' \in 0..MaxFaults
  BY <1>7 DEF ShapeInv, TypeOK, counts
<1> QED
  BY <1>1, <1>6, <1>7, <1>8, <1>9, <1>10, QuietStep DEF files, caches, counts

LEMMA RebuildStep ==
    ASSUME ShapeInv, NEW i \in Project, NEW n \in Node, Rebuild(i, n)
    PROVE  /\ ShapeInv' /\ Apart(i) /\ UNCHANGED <<dir, marker, local, remote, task, entry, torn, rerun, spoiled, faults>>
           /\ run'[i].phase = "rebuild" /\ run'[i].placed = {}
           /\ \A p \in Package : task[<<i, p>>] = "off" /\ entry[<<i, p>>] = NONE
<1> DEFINE jobs == {p \in Scripted : RebuildAllowed(i, p) /\ dir[<<i, p>>] # NONE}
<1>1. jobs \subseteq Package /\ \A p \in jobs : dir[<<i, p>>] # NONE
  BY LifecycleAssumption
<1>2. run' = [run EXCEPT ![i] = [Idle("rebuild") EXCEPT !.node = n, !.jobs = jobs]]
  BY DEF Rebuild
<1> HIDE DEF jobs
<1>3. Idle("rebuild") \in Run /\ Idle("rebuild").phase = "rebuild" /\ Idle("rebuild").placed = {}
      /\ Idle("rebuild").todo = {}
  BY IdleType DEF Phase
<1>4. run \in [Project -> Run]
  BY DEF ShapeInv, TypeOK
<1>5. /\ run' \in [Project -> Run] /\ run'[i].phase = "rebuild" /\ run'[i].jobs = jobs
      /\ run'[i].placed = {} /\ run'[i].todo = {} /\ \A j \in Project \ {i} : run'[j] = run[j]
  BY <1>1, <1>2, <1>3, <1>4 DEF Run
<1>6. \A p \in Package : task[<<i, p>>] = "off" /\ entry[<<i, p>>] = NONE
  BY DEF ShapeInv, TypeOK, TasksFit, Rebuild, Ended, Running, Dir
<1>7. begun' \in 0..MaxRuns /\ faults' \in 0..MaxFaults
  BY LifecycleAssumption DEF ShapeInv, TypeOK, Rebuild
<1>8. UNCHANGED <<dir, marker, local, remote, task, entry, torn, rerun, spoiled, faults>>
  BY DEF Rebuild, files, caches
<1> QED
  BY <1>1, <1>5, <1>6, <1>7, <1>8, QuietStep

LEMMA ScriptStartsStep ==
    ASSUME ShapeInv, NEW i \in Project, NEW p \in Package, ScriptStarts(i, p)
    PROVE  LET d == <<i, p>> IN
           /\ ShapeInv' /\ Apart(i) /\ DirStep(i, p) /\ UNCHANGED <<marker, torn, caches, run, entry, faults>>
           /\ run[i].phase \in Running /\ p \in Chunk(i) /\ p \in run[i].jobs
           /\ d \in Dir /\ task[d] = "off" /\ task'[d] = "script"
           /\ dir[d] \in Content /\ dir'[d] = [dir[d] EXCEPT !.built = BROKEN]
           /\ rerun' = IF marker[d] # NONE THEN rerun \cup {d} ELSE rerun
<1> DEFINE d == <<i, p>>
<1>1. run[i].phase \in Running /\ p \in Chunk(i) /\ task[d] = "off"
  BY DEF ScriptStarts, Running
<1>2. p \in run[i].jobs
  BY <1>1 DEF Chunk, Level
<1>3. d \in Dir /\ dir[d] \in Content
  BY <1>2 DEF ShapeInv, TypeOK, Present, Dir
<1>4. /\ task' = [task EXCEPT ![d] = "script"] /\ UNCHANGED <<marker, torn, caches, run, entry, counts>>
      /\ rerun' = IF marker[d] # NONE THEN rerun \cup {d} ELSE rerun
      /\ dir' = [dir EXCEPT ![d] = [dir[d] EXCEPT !.built = BROKEN]]
  BY DEF ScriptStarts
<1>5. [dir[d] EXCEPT !.built = BROKEN] \in Content
  BY <1>3, ContentFacts
<1>6. TypeOK'
  BY <1>3, <1>4, <1>5 DEF ShapeInv, TypeOK, caches, counts, Cache
<1>7. DirStep(i, p)
  BY <1>3, <1>4 DEF ShapeInv, TypeOK, DirStep, caches
<1>8. dir'[d] # NONE /\ task'[d] = "script" /\ dir'[d] = [dir[d] EXCEPT !.built = BROKEN]
  BY <1>3, <1>4, <1>5, ContentFacts DEF ShapeInv, TypeOK
<1>9. entry'[d] # NONE => run[i].phase \in {"walk", "run"}
  BY <1>4 DEF ShapeInv, TasksFit
<1>10. ShapeInv' /\ Apart(i)
  BY <1>1, <1>2, <1>6, <1>7, <1>8, <1>9, DirStepShape
<1> QED
  BY <1>1, <1>2, <1>3, <1>4, <1>7, <1>8, <1>10 DEF counts


LEMMA ScriptEndsStep ==
    ASSUME ShapeInv, NEW i \in Project, NEW p \in Package, ScriptEnds(i, p)
    PROVE  LET d == <<i, p>> IN
           /\ ShapeInv' /\ Apart(i) /\ DirStep(i, p) /\ UNCHANGED <<marker, torn, rerun, caches, entry>>
           /\ d \in Dir /\ task[d] = "script" /\ dir[d] \in Content /\ run[i].phase \in Running
           /\ run'[i].jobs = run[i].jobs /\ faults <= faults'
           /\ \/ /\ dir'[d] = [dir[d] EXCEPT !.built = run[i].node]
                 /\ task'[d] \in {"save", "done"} /\ run' = run
              \/ task'[d] = "done" /\ run'[i].failed /\ dir' = dir
<1> DEFINE d == <<i, p>>
<1>1. task[d] = "script" /\ UNCHANGED <<marker, torn, rerun, caches, entry>>
  BY DEF ScriptEnds
<1>2. /\ d \in Dir /\ dir[d] \in Content /\ run[i].phase \in Running /\ p \in run[i].jobs
      /\ run[i] \in Run /\ run[i].node \in Node
      /\ entry[d] # NONE => run[i].phase = "run"
  BY <1>1, Working DEF Run
<1>3. TypeOK /\ run \in [Project -> Run]
  BY DEF ShapeInv, TypeOK
<1>4. CASE /\ dir' = [dir EXCEPT ![d].built = run[i].node]
           /\ task' = [task EXCEPT ![d] = IF entry[d] # NONE THEN "save" ELSE "done"]
           /\ UNCHANGED <<run, counts>>
  <2>1. [dir[d] EXCEPT !.built = run[i].node] \in Content /\ dir' = [dir EXCEPT ![d] = [dir[d] EXCEPT !.built = run[i].node]]
    BY <1>2, <1>4, ContentFacts
  <2>2. TypeOK'
    BY <1>1, <1>2, <1>3, <1>4, <2>1 DEF TypeOK, caches, counts, Cache
  <2>3. DirStep(i, p)
    BY <1>1, <1>2, <1>3, <1>4, <2>1 DEF TypeOK, DirStep, caches
  <2>4. /\ dir'[d] # NONE /\ dir'[d] = [dir[d] EXCEPT !.built = run[i].node]
        /\ task'[d] = (IF entry[d] # NONE THEN "save" ELSE "done")
    BY <1>2, <1>3, <1>4, <2>1, ContentFacts DEF TypeOK
  <2>5. ShapeInv' /\ Apart(i)
    BY <1>1, <1>2, <2>2, <2>3, <2>4, DirStepShape
  <2> QED
    BY <1>1, <1>2, <1>3, <1>4, <2>3, <2>4, <2>5 DEF counts, TypeOK
<1>5. CASE /\ Fault
           /\ task' = [task EXCEPT ![d] = "done"]
           /\ run' = [run EXCEPT ![i].failed = TRUE]
           /\ UNCHANGED dir
  <2>1. FaultType
    BY <1>3, <1>5, FaultTypes
  <2>2. /\ run' \in [Project -> Run] /\ \A j \in Project \ {i} : run'[j] = run[j]
        /\ run'[i].phase = run[i].phase /\ run'[i].node = run[i].node /\ run'[i].placed = run[i].placed
        /\ run'[i].todo = run[i].todo /\ run'[i].jobs = run[i].jobs /\ run'[i].failed
    BY <1>2, <1>3, <1>5 DEF Run
  <2>3. TypeOK'
    BY <1>1, <1>2, <1>3, <1>5, <2>1, <2>2 DEF TypeOK, caches, FaultType, Cache
  <2>4. DirStep(i, p)
    BY <1>1, <1>2, <1>3, <1>5, <2>2 DEF TypeOK, DirStep, caches
  <2>5. dir'[d] # NONE /\ task'[d] = "done"
    BY <1>2, <1>3, <1>5, ContentFacts DEF TypeOK
  <2>6. ShapeInv' /\ Apart(i)
    BY <1>1, <1>2, <2>3, <2>4, <2>5, DirStepShape
  <2> QED
    BY <1>1, <1>2, <1>5, <2>1, <2>2, <2>4, <2>5, <2>6 DEF FaultType
<1> QED
  BY <1>4, <1>5 DEF ScriptEnds

LEMMA SaveStep ==
    ASSUME ShapeInv, NEW i \in Project, NEW p \in Package, Save(i, p)
    PROVE  LET d == <<i, p>> IN
           /\ ShapeInv' /\ Apart(i) /\ DirStep(i, p) /\ UNCHANGED <<dir, torn, rerun, caches, run, entry>>
           /\ d \in Dir /\ task[d] = "save" /\ dir[d] \in Content /\ run[i].phase \in Running
           /\ entry[d] \in Key /\ task'[d] \in {"copied", "done"} /\ faults <= faults'
           /\ marker'[d] \in {marker[d], entry[d][3]}
<1> DEFINE d == <<i, p>>
<1>1. task[d] = "save" /\ UNCHANGED <<dir, torn, rerun, caches, run, entry>>
  BY DEF Save
<1>2. /\ d \in Dir /\ dir[d] \in Content /\ run[i].phase \in Running /\ p \in run[i].jobs
      /\ entry[d] \in Key /\ entry[d] # NONE
      /\ run[i].phase = "run"
  BY <1>1, Working DEF ShapeInv, TasksFit
<1>3. TypeOK /\ entry[d][3] \in Content
  BY <1>2 DEF ShapeInv, TypeOK, Key
<1>4. FaultType
  BY <1>3, FaultTypes DEF Save
<1>5. PICK h \in {marker[d], entry[d][3]}, t \in {"copied", "done"} :
         marker' = [marker EXCEPT ![d] = h] /\ task' = [task EXCEPT ![d] = t]
  <2>1. CASE marker' = [marker EXCEPT ![d] = entry[d][3]]
    BY <2>1 DEF Save
  <2>2. CASE marker' = marker /\ task' = [task EXCEPT ![d] = "done"]
    BY <1>3, <2>2 DEF TypeOK
  <2> QED
    BY <2>1, <2>2 DEF Save
<1>6. TypeOK'
  BY <1>1, <1>2, <1>3, <1>4, <1>5 DEF TypeOK, caches, Cache, FaultType
<1>7. DirStep(i, p)
  BY <1>1, <1>2, <1>3, <1>5 DEF TypeOK, DirStep, caches
<1>8. dir'[d] # NONE /\ task'[d] = t /\ marker'[d] = h
  BY <1>1, <1>2, <1>3, <1>5, ContentFacts DEF TypeOK
<1>9. ShapeInv' /\ Apart(i)
  BY <1>1, <1>2, <1>5, <1>6, <1>7, <1>8, DirStepShape
<1> QED
  BY <1>1, <1>2, <1>4, <1>5, <1>7, <1>8, <1>9 DEF FaultType

\* What save leaves in a cache
SavedIn(f, g, k, c) ==
    /\ Cache(g) /\ DOMAIN f \subseteq DOMAIN g
    /\ \A x \in DOMAIN g :
          \/ x \in DOMAIN f /\ g[x] = f[x]
          \/ x = k /\ g[x] = c

LEMMA SaveEndsStep ==
    ASSUME ShapeInv, NEW i \in Project, NEW p \in Package, SaveEnds(i, p)
    PROVE  LET d == <<i, p>> IN
           /\ ShapeInv' /\ Apart(i) /\ DirStep(i, p) /\ UNCHANGED <<files, run, entry>>
           /\ d \in Dir /\ task[d] = "copied" /\ dir[d] \in Content /\ run[i].phase \in Running
           /\ entry[d] \in Key /\ task'[d] = "done" /\ faults <= faults'
           /\ SavedIn(local, local', entry[d], dir[d]) /\ SavedIn(remote, remote', entry[d], dir[d])
           /\ \/ UNCHANGED caches
              \/ spoiled' = IF d \in torn THEN spoiled \cup {p} ELSE spoiled
<1> DEFINE d == <<i, p>>
<1>1. task[d] = "copied" /\ task' = [task EXCEPT ![d] = "done"] /\ UNCHANGED <<files, run, entry>>
  BY DEF SaveEnds
<1>2. /\ d \in Dir /\ dir[d] \in Content /\ run[i].phase \in Running /\ p \in run[i].jobs
      /\ entry[d] \in Key /\ entry[d] # NONE
      /\ run[i].phase = "run"
  BY <1>1, Working DEF ShapeInv, TasksFit
<1>3. TypeOK /\ Cache(local) /\ Cache(remote)
  BY DEF ShapeInv, TypeOK
<1>4. FaultType
  BY <1>3, FaultTypes DEF SaveEnds
<1>5. SavedIn(local, local, entry[d], dir[d]) /\ SavedIn(remote, remote, entry[d], dir[d])
  BY <1>3 DEF SavedIn
<1>6. /\ SavedIn(local, Put(local, entry[d], dir[d]), entry[d], dir[d])
      /\ SavedIn(remote, Put(remote, entry[d], dir[d]), entry[d], dir[d])
  BY <1>2, <1>3 DEF SavedIn, Cache, Put
<1>7. /\ local' = local \/ local' = Put(local, entry[d], dir[d])
      /\ remote' = remote \/ remote' = Put(remote, entry[d], dir[d])
      /\ spoiled' \subseteq Package
      /\ \/ UNCHANGED caches
         \/ spoiled' = IF d \in torn THEN spoiled \cup {p} ELSE spoiled
  BY <1>3 DEF SaveEnds, Kept, Uploaded, caches, TypeOK
<1>8. SavedIn(local, local', entry[d], dir[d]) /\ SavedIn(remote, remote', entry[d], dir[d])
  BY <1>3, <1>5, <1>6, <1>7
<1>9. TypeOK'
  BY <1>1, <1>2, <1>3, <1>4, <1>7, <1>8 DEF TypeOK, files, SavedIn, FaultType
<1>10. DirStep(i, p)
  BY <1>1, <1>2, <1>3, <1>8 DEF TypeOK, DirStep, files, SavedIn
<1>11. dir'[d] # NONE /\ task'[d] = "done"
  BY <1>1, <1>2, <1>3, ContentFacts DEF TypeOK, files
<1>12. ShapeInv' /\ Apart(i)
  BY <1>1, <1>2, <1>9, <1>10, <1>11, DirStepShape
<1> QED
  BY <1>1, <1>2, <1>4, <1>7, <1>8, <1>10, <1>11, <1>12 DEF FaultType

LEMMA NextChunkStep ==
    ASSUME ShapeInv, NEW i \in Project, NextChunk(i)
    PROVE  /\ ShapeInv' /\ Apart(i) /\ UNCHANGED <<dir, marker, local, remote, task, entry, torn, rerun, spoiled, faults>>
           /\ run[i].phase \in Running /\ run'[i] = [run[i] EXCEPT !.placed = run[i].placed \cup Chunk(i)]
           /\ run[i] \in Run
<1>1. run[i] \in Run /\ run \in [Project -> Run]
  BY DEF ShapeInv, TypeOK
<1>2. run' = [run EXCEPT ![i] = [run[i] EXCEPT !.placed = run[i].placed \cup Chunk(i)]]
  BY <1>1 DEF NextChunk
<1>3. Chunk(i) \subseteq Package
  BY <1>1 DEF Chunk, Level, Run
<1>4. [run[i] EXCEPT !.placed = run[i].placed \cup Chunk(i)] \in Run
  BY <1>1, <1>3 DEF Run
<1>5. /\ run' \in [Project -> Run] /\ run'[i].phase = run[i].phase /\ run'[i].jobs = run[i].jobs
      /\ run'[i].todo = run[i].todo /\ \A j \in Project \ {i} : run'[j] = run[j]
      /\ run'[i] = [run[i] EXCEPT !.placed = run[i].placed \cup Chunk(i)]
  BY <1>1, <1>2, <1>4 DEF Run
<1>6. \A p \in Package : run'[i].phase = "patch" \/ p \in run'[i].todo \cup run'[i].jobs => dir[<<i, p>>] # NONE
  BY <1>5 DEF ShapeInv, Present
<1>7. UNCHANGED <<dir, marker, local, remote, task, entry, torn, rerun, spoiled, faults, begun>>
  BY DEF NextChunk, files, caches, counts
<1>8. begun' \in 0..MaxRuns /\ faults' \in 0..MaxFaults
  BY <1>7 DEF ShapeInv, TypeOK
<1> QED
  BY <1>1, <1>5, <1>6, <1>7, <1>8, QuietStep DEF NextChunk, Running

LEMMA ExitsShape ==
    ASSUME ShapeInv, NEW i \in Project, NEW result \in {"idle", "ok", "failed"}, Exits(i, result),
           UNCHANGED <<dir, marker, rerun, caches>>, torn' \subseteq Dir,
           \A j \in Project \ {i}, p \in Package : <<j, p>> \in torn' <=> <<j, p>> \in torn,
           Fault \/ UNCHANGED counts
    PROVE  ShapeInv' /\ Apart(i) /\ faults <= faults'
<1>1. TypeOK /\ result \in Phase
  BY DEF ShapeInv, Phase
<1>2. FaultType
  BY <1>1, FaultTypes
<1>3. TypeOK'
  BY <1>1, <1>2, ExitsStep DEF TypeOK, Cache, caches, FaultType
<1>4. Present' /\ TasksFit'
  BY <1>1, ExitsStep, IdleType DEF ShapeInv, Present, TasksFit, caches
<1>5. Apart(i)
  <2>1. \A j \in Project \ {i} :
           /\ run'[j] = run[j]
           /\ \A p \in Package : task'[<<j, p>>] = task[<<j, p>>] /\ entry'[<<j, p>>] = entry[<<j, p>>]
    BY <1>1, ExitsStep
  <2> QED
    BY <2>1 DEF Apart
<1> QED
  BY <1>2, <1>3, <1>4, <1>5 DEF ShapeInv, FaultType

LEMMA FinishStep ==
    ASSUME ShapeInv, NEW i \in Project, Finish(i)
    PROVE  /\ ShapeInv' /\ Apart(i) /\ UNCHANGED <<files, caches, counts>>
           /\ run[i].phase \in Running /\ Busy(i) = {}
           /\ \E result \in {"idle", "ok", "failed"} :
                 /\ Exits(i, result)
                 /\ result = "ok" => run[i].phase = "run" /\ ~run[i].failed /\ run[i].placed = run[i].jobs
<1>1. /\ run[i].phase \in Running /\ Busy(i) = {} /\ UNCHANGED <<files, caches, counts>>
      /\ \E result \in {"idle", "ok", "failed"} :
            /\ Exits(i, result)
            /\ result = "ok" => run[i].phase = "run" /\ ~run[i].failed /\ run[i].placed = run[i].jobs
  BY DEF Finish, Running
<1>2. torn' \subseteq Dir /\ UNCHANGED <<dir, marker, rerun, caches, torn>>
  BY <1>1 DEF ShapeInv, TypeOK, files
<1> QED
  BY <1>1, <1>2, ExitsShape

LEMMA KillStep ==
    ASSUME ShapeInv, NEW i \in Project, Kill(i)
    PROVE  ShapeInv' /\ Apart(i) /\ faults <= faults'
  BY ExitsShape DEF Kill, ShapeInv, TypeOK, Dir

LEMMA EvictStep ==
    ASSUME ShapeInv, Evict
    PROVE  ShapeInv' /\ faults <= faults'
<1>1. \A i \in Project, p \in Package : task[<<i, p>>] # "restore"
  BY DEF ShapeInv, TasksFit, Evict, Ended
<1>2. FaultType
  BY FaultTypes DEF Evict, ShapeInv
<1>3. TypeOK'
  BY <1>2 DEF ShapeInv, TypeOK, Evict, files, FaultType, Cache
<1>4. Present' /\ TasksFit'
  BY <1>1 DEF ShapeInv, Present, TasksFit, Evict, files
<1> QED
  BY <1>2, <1>3, <1>4 DEF ShapeInv, FaultType


LEMMA ShapeNext ==
    ASSUME ShapeInv, [Next]_vars
    PROVE  ShapeInv'
<1>1. CASE UNCHANGED vars
  BY <1>1 DEF vars, ShapeInv, TypeOK, Present, TasksFit, Cache
<1>2. ASSUME NEW i \in Project, NEW p \in Package, PackageStep(i, p) PROVE ShapeInv'
  BY <1>2, PatchShape, SkipShape, InspectShape, RestoreEndsShape, ScriptStartsStep, ScriptEndsStep,
     SaveStep, SaveEndsStep DEF PackageStep
<1>3. ASSUME NEW i \in Project, Walk(i) \/ Schedule(i) \/ NextChunk(i) \/ Finish(i) \/ Kill(i) PROVE ShapeInv'
  BY <1>3, WalkShape, ScheduleStep, NextChunkStep, FinishStep, KillStep
<1>4. ASSUME NEW i \in Project, NEW n \in Node, Start(i, n) \/ Rebuild(i, n) PROVE ShapeInv'
  BY <1>4, StartShape, RebuildStep
<1>5. CASE Evict
  BY <1>5, EvictStep
<1> QED
  BY <1>1, <1>2, <1>3, <1>4, <1>5 DEF Next, ProjectStep

\* In every state, directories, markers, entries, tasks and runs are of the kinds
\* the code keeps, whatever the interleaving of installs, failures and kills.
THEOREM TypeCorrect == Spec => []TypeOK
<1>1. Init => ShapeInv
  BY InitShape
<1>2. ShapeInv /\ [Next]_vars => ShapeInv'
  BY ShapeNext
<1>3. ShapeInv => TypeOK
  BY DEF ShapeInv
<1> QED
  BY <1>1, <1>2, <1>3, PTL DEF Spec

-----------------------------------------------------------------------------
(* The cache *)

\* EntriesFit and DirsWhole, for one directory
FitsAt(i, p) ==
    LET d == <<i, p>> IN
    /\ entry[d] # NONE => /\ entry[d][1] = run[i].node /\ entry[d][2] = p
                          /\ entry[d][3].src = dir[d].src
    /\ marker[d] # NONE => dir[d] # NONE /\ marker[d].src = dir[d].src
    /\ task[d] \in {"save", "copied"} => dir[d].built = run[i].node
    /\ dir[d] # NONE => dir[d].whole \/ d \in torn \/ task[d] = "restore" \/ p \in spoiled

LEMMA FitsEverywhere ==
    EntriesFit /\ DirsWhole <=> \A i \in Project, p \in Package : FitsAt(i, p)
  BY DEF EntriesFit, DirsWhole, FitsAt

LEMMA FitsApart ==
    ASSUME CacheInv, NEW i \in Project, Apart(i), spoiled \subseteq spoiled'
    PROVE  \A j \in Project \ {i}, p \in Package : FitsAt(j, p)'
<1>1. \A j \in Project, p \in Package : FitsAt(j, p)
  BY FitsEverywhere DEF CacheInv
<1> SUFFICES ASSUME NEW j \in Project \ {i}, NEW p \in Package PROVE FitsAt(j, p)'
  OBVIOUS
<1>2. /\ run'[j] = run[j] /\ dir'[<<j, p>>] = dir[<<j, p>>] /\ marker'[<<j, p>>] = marker[<<j, p>>]
      /\ task'[<<j, p>>] = task[<<j, p>>] /\ entry'[<<j, p>>] = entry[<<j, p>>]
      /\ <<j, p>> \in torn' <=> <<j, p>> \in torn
  BY DEF Apart
<1>3. FitsAt(j, p)
  BY <1>1
<1> QED
  BY <1>2, <1>3 DEF FitsAt

LEMMA FitsBeside ==
    ASSUME CacheInv, NEW i \in Project, NEW p \in Package, DirStep(i, p), spoiled \subseteq spoiled',
           FitsAt(i, p)'
    PROVE  (EntriesFit /\ DirsWhole)'
<1>1. \A j \in Project, q \in Package : FitsAt(j, q)
  BY FitsEverywhere DEF CacheInv
<1>2. ASSUME NEW j \in Project, NEW q \in Package, ~(j = i /\ q = p) PROVE FitsAt(j, q)'
  <2>1. <<j, q>> \in Dir \ {<<i, p>>} /\ run'[j].node = run[j].node
    BY <1>2 DEF Dir, DirStep
  <2> QED
    BY <1>1, <2>1 DEF DirStep, FitsAt
<1>3. \A j \in Project, q \in Package : FitsAt(j, q)'
  BY <1>2
<1> QED
  BY <1>3 DEF EntriesFit, DirsWhole, FitsAt

\* A run that goes on with the files and the entries it had
LEMMA CacheQuiet ==
    ASSUME CacheInv, ShapeInv', NEW i \in Project, Apart(i),
           UNCHANGED <<dir, marker, local, remote, task, entry, torn, spoiled>>,
           \A p \in Package : (task[<<i, p>>] = "off" /\ entry[<<i, p>>] = NONE) \/ run'[i].node = run[i].node
    PROVE  CacheInv'
<1>1. \A j \in Project, p \in Package : FitsAt(j, p)
  BY FitsEverywhere DEF CacheInv
<1>2. \A p \in Package : FitsAt(i, p)'
  BY <1>1 DEF FitsAt
<1>3. \A j \in Project, p \in Package : FitsAt(j, p)'
  BY <1>2, FitsApart
<1>4. (EntriesFit /\ DirsWhole)'
  BY <1>3 DEF EntriesFit, DirsWhole, FitsAt
<1>5. SlotsHold'
  BY DEF CacheInv, SlotsHold
<1> QED
  BY <1>4, <1>5 DEF CacheInv

LEMMA SlotsPut ==
    ASSUME CacheInv, NEW k \in Key, NEW c,
           c.src = k[3].src, c.built = k[1], c.whole \/ k[2] \in spoiled', spoiled \subseteq spoiled',
           \A x \in DOMAIN local' : \/ x \in DOMAIN local /\ local'[x] = local[x]
                                    \/ x = k /\ local'[x] = c,
           \A x \in DOMAIN remote' : \/ x \in DOMAIN remote /\ remote'[x] = remote[x]
                                     \/ x = k /\ remote'[x] = c
    PROVE  SlotsHold'
  BY DEF CacheInv, SlotsHold


LEMMA StartCache ==
    ASSUME CacheInv, NEW i \in Project, NEW n \in Node, Start(i, n)
    PROVE  CacheInv'
<1>1. ShapeInv' /\ Apart(i)
  BY StartShape DEF CacheInv
<1>2. UNCHANGED <<local, remote, spoiled, task, entry, torn>>
  BY DEF Start, caches
<1>3. \A p \in Package : task[<<i, p>>] = "off" /\ entry[<<i, p>>] = NONE
  BY DEF CacheInv, ShapeInv, TypeOK, TasksFit, Start, Ended, Running, Dir
<1>4. \A p \in Package : FitsAt(i, p)
  BY FitsEverywhere DEF CacheInv
<1>5. \A p \in Package : IF dir[<<i, p>>] = NONE THEN dir'[<<i, p>>] = Fresh /\ marker'[<<i, p>>] = NONE
                         ELSE dir'[<<i, p>>] = dir[<<i, p>>] /\ marker'[<<i, p>>] = marker[<<i, p>>]
  BY DEF Start, Dir
<1>6. \A p \in Package : FitsAt(i, p)'
  BY <1>2, <1>3, <1>4, <1>5 DEF FitsAt, Fresh
<1>7. \A j \in Project, p \in Package : FitsAt(j, p)'
  BY <1>1, <1>2, <1>6, FitsApart
<1>8. (EntriesFit /\ DirsWhole)'
  BY <1>7 DEF EntriesFit, DirsWhole, FitsAt
<1>9. SlotsHold'
  BY <1>2 DEF CacheInv, SlotsHold
<1> QED
  BY <1>1, <1>8, <1>9 DEF CacheInv

LEMMA PatchCache ==
    ASSUME CacheInv, NEW i \in Project, NEW p \in Package, Patch(i, p)
    PROVE  CacheInv'
<1>1. ShapeInv' /\ Apart(i)
  BY PatchShape DEF CacheInv
<1>2. UNCHANGED <<local, remote, spoiled, task, entry>>
  BY DEF Patch, caches
<1>3. \A q \in Package : task[<<i, q>>] = "off" /\ entry[<<i, q>>] = NONE
  BY DEF CacheInv, ShapeInv, TypeOK, TasksFit, Patch, Running, Dir
<1>4. \A q \in Package : FitsAt(i, q)
  BY FitsEverywhere DEF CacheInv
<1>5. \A q \in Package : q # p =>
         /\ dir'[<<i, q>>] = dir[<<i, q>>] /\ marker'[<<i, q>>] = marker[<<i, q>>]
         /\ <<i, q>> \in torn' <=> <<i, q>> \in torn
  BY DEF CacheInv, ShapeInv, TypeOK, Patch, Materialized, Dir
<1>6. marker'[<<i, p>>] = NONE /\ dir'[<<i, p>>] # NONE => dir'[<<i, p>>].whole
  BY DEF CacheInv, ShapeInv, TypeOK, Patch, Materialized, Dir, Fresh
<1>7. marker'[<<i, p>>] = NONE
  BY DEF CacheInv, ShapeInv, TypeOK, Patch, Materialized, Dir
<1>8. \A q \in Package : FitsAt(i, q)'
  BY <1>2, <1>3, <1>4, <1>5, <1>6, <1>7 DEF FitsAt
<1>9. \A j \in Project, q \in Package : FitsAt(j, q)'
  BY <1>1, <1>2, <1>8, FitsApart
<1>10. (EntriesFit /\ DirsWhole)'
  BY <1>9 DEF EntriesFit, DirsWhole, FitsAt
<1>11. SlotsHold'
  BY <1>2 DEF CacheInv, SlotsHold
<1> QED
  BY <1>1, <1>10, <1>11 DEF CacheInv

\* The hash a key is made of is that of the source that is there.
LEMMA HashSrc ==
    ASSUME CacheInv, NEW i \in Project, NEW p \in Package
    PROVE  InputHash(<<i, p>>).src = dir[<<i, p>>].src
<1>1. FitsAt(i, p)
  BY FitsEverywhere DEF CacheInv
<1> QED
  BY <1>1 DEF FitsAt, InputHash

LEMMA InspectCache ==
    ASSUME CacheInv, NEW i \in Project, NEW p \in Package, Inspect(i, p)
    PROVE  CacheInv'
<1> DEFINE d == <<i, p>>
           k == CacheKey(run[i].node, d)
<1>1. ShapeInv' /\ ShapeInv /\ DirStep(i, p) /\ UNCHANGED <<remote, spoiled>> /\ TypeOK
  BY InspectShape, InspectStep DEF CacheInv, ShapeInv
<1>2. Walking(i) /\ p \in run[i].todo
  BY DEF Inspect
<1>3. /\ d \in Dir /\ dir[d] \in Content /\ k \in Key /\ k[1] = run[i].node /\ k[2] = p
      /\ k[3] = InputHash(d) /\ k[3] \in Content /\ task[d] = "off"
  BY <1>1, <1>2, Meeting
<1>4. k[3].src = dir[d].src
  BY <1>3, HashSrc
<1>5. FitsAt(i, p)
  BY FitsEverywhere DEF CacheInv
<1>6. /\ entry'[d] \in {entry[d], k} /\ run'[i].node = run[i].node
      /\ \A x \in DOMAIN local' :
            \/ x \in DOMAIN local /\ local'[x] = local[x]
            \/ x = k /\ k \in DOMAIN remote /\ local'[x] = remote[k]
      /\ \/ InspectJob(i, p) \/ InspectApplied(i, p)
         \/ InspectRestore(i, p, k) \/ InspectUnpack(i, p, k)
  BY <1>1, InspectStep DEF DirStep
<1> HIDE DEF k
<1>7. SlotsHold'
  BY <1>1, <1>6 DEF CacheInv, SlotsHold
<1>8. /\ \A x \in DOMAIN local : x = k => local[k].src = k[3].src
      /\ \A x \in DOMAIN remote : x = k => remote[k].src = k[3].src /\ (remote[k].whole \/ p \in spoiled)
  BY <1>3 DEF CacheInv, SlotsHold
<1>9. FitsAt(i, p)'
  <2>1. CASE InspectJob(i, p) \/ InspectApplied(i, p)
    BY <1>1, <1>3, <1>4, <1>5, <1>6, <2>1 DEF FitsAt, InspectJob, InspectApplied
  <2>2. CASE InspectRestore(i, p, k)
    <3>1. /\ dir'[d].src = k[3].src /\ dir'[d] \in Content /\ marker'[d] = k[3] /\ task'[d] = "restore"
          /\ entry'[d] = k
      BY <1>1, <1>3, <1>8, <2>2, ContentFacts DEF InspectRestore, Content, TypeOK
    <3> QED
      BY <1>3, <1>6, <3>1, ContentFacts DEF FitsAt
  <2>3. CASE InspectUnpack(i, p, k)
    <3>1. /\ dir'[d].src = k[3].src /\ dir'[d] \in Content /\ marker'[d] = k[3] /\ task'[d] = "off"
          /\ entry'[d] = k /\ (dir'[d].whole \/ p \in spoiled)
      BY <1>1, <1>3, <1>8, <2>3 DEF InspectUnpack, TypeOK
    <3> QED
      BY <1>1, <1>3, <1>6, <3>1, ContentFacts DEF FitsAt
  <2> QED
    BY <1>6, <2>1, <2>2, <2>3
<1>10. (EntriesFit /\ DirsWhole)'
  BY <1>1, <1>9, FitsBeside
<1> QED
  BY <1>1, <1>7, <1>10 DEF CacheInv

LEMMA RestoreEndsCache ==
    ASSUME CacheInv, NEW i \in Project, NEW p \in Package, RestoreEnds(i, p)
    PROVE  CacheInv'
<1> DEFINE d == <<i, p>>
<1>1. ShapeInv' /\ DirStep(i, p) /\ UNCHANGED <<marker, caches, entry>> /\ TypeOK
  BY RestoreEndsShape, RestoreEndsStep DEF CacheInv, ShapeInv
<1>2. /\ d \in Dir /\ task'[d] = "off" /\ entry[d] \in DOMAIN local /\ entry[d] \in Key
      /\ local[entry[d]] \in Content /\ run'[i].node = run[i].node
      /\ \/ /\ dir' = [dir EXCEPT ![d] = local[entry[d]]]
            /\ torn' = torn \ {d}
         \/ torn' = torn \cup {d} /\ dir' = dir
  BY <1>1, RestoreEndsStep DEF CacheInv, DirStep
<1>3. FitsAt(i, p)
  BY FitsEverywhere DEF CacheInv
<1>4. /\ local[entry[d]].src = entry[d][3].src
      /\ local[entry[d]].whole \/ entry[d][2] \in spoiled
  BY <1>2 DEF CacheInv, SlotsHold
<1>5. entry[d] # NONE => entry[d][2] = p /\ entry[d][3].src = dir[d].src
  BY <1>3 DEF FitsAt
<1>6. entry[d] # NONE
  BY <1>2, LifecycleAssumption
<1>7. FitsAt(i, p)'
  <2>1. CASE dir' = [dir EXCEPT ![d] = local[entry[d]]] /\ torn' = torn \ {d}
    <3>1. dir'[d] = local[entry[d]]
      BY <1>1, <1>2, <2>1 DEF TypeOK
    <3> QED
      BY <1>1, <1>2, <1>3, <1>4, <1>5, <1>6, <3>1, ContentFacts DEF FitsAt, caches
  <2>2. CASE torn' = torn \cup {d} /\ dir' = dir
    BY <1>1, <1>2, <1>3, <2>2 DEF FitsAt, caches
  <2> QED
    BY <1>2, <2>1, <2>2
<1>8. (EntriesFit /\ DirsWhole)'
  BY <1>1, <1>7, FitsBeside DEF caches
<1>9. SlotsHold'
  BY <1>1 DEF CacheInv, SlotsHold, caches
<1> QED
  BY <1>1, <1>8, <1>9 DEF CacheInv


LEMMA ScriptCache ==
    ASSUME CacheInv, NEW i \in Project, NEW p \in Package, ScriptStarts(i, p) \/ ScriptEnds(i, p)
    PROVE  CacheInv'
<1> DEFINE d == <<i, p>>
<1>1. /\ ShapeInv' /\ DirStep(i, p) /\ UNCHANGED <<marker, torn, caches, entry>>
      /\ dir[d] \in Content /\ task'[d] \in {"script", "save", "done"}
      /\ run'[i].node = run[i].node
  <2>1. CASE ScriptStarts(i, p)
    BY <2>1, ScriptStartsStep DEF CacheInv
  <2>2. CASE ScriptEnds(i, p)
    <3>1. /\ ShapeInv' /\ DirStep(i, p) /\ UNCHANGED <<marker, torn, caches, entry>>
          /\ dir[d] \in Content /\ task'[d] \in {"save", "done"}
      BY <2>2, ScriptEndsStep DEF CacheInv
    <3> QED
      BY <3>1 DEF DirStep
  <2> QED
    BY <2>1, <2>2
<1>2. FitsAt(i, p) /\ task[d] # "restore"
  BY FitsEverywhere DEF CacheInv, ScriptStarts, ScriptEnds
<1>n. run[i].node \in Node
  BY DEF CacheInv, ShapeInv, TypeOK, Run
<1>3. /\ dir'[d] \in Content /\ dir'[d].src = dir[d].src /\ dir'[d].whole = dir[d].whole
      /\ task'[d] = "save" => dir'[d].built = run[i].node
  <2>1. CASE ScriptStarts(i, p)
    <3>1. dir'[d] = [dir[d] EXCEPT !.built = BROKEN] /\ task'[d] = "script"
      BY <2>1, ScriptStartsStep DEF CacheInv
    <3> QED
      BY <1>1, <3>1, ContentFacts DEF Content
  <2>2. CASE ScriptEnds(i, p)
    <3>1. \/ dir'[d] = [dir[d] EXCEPT !.built = run[i].node]
          \/ task'[d] = "done" /\ dir'[d] = dir[d]
      BY <2>2, ScriptEndsStep DEF CacheInv
    <3> QED
      BY <1>1, <1>n, <3>1, ContentFacts DEF Content
  <2> QED
    BY <2>1, <2>2
<1>4. FitsAt(i, p)'
  BY <1>1, <1>2, <1>3, ContentFacts DEF FitsAt, caches
<1>5. (EntriesFit /\ DirsWhole)'
  BY <1>1, <1>4, FitsBeside DEF caches
<1>6. SlotsHold'
  BY <1>1 DEF CacheInv, SlotsHold, caches
<1> QED
  BY <1>1, <1>5, <1>6 DEF CacheInv

LEMMA SaveCache ==
    ASSUME CacheInv, NEW i \in Project, NEW p \in Package, Save(i, p)
    PROVE  CacheInv'
<1> DEFINE d == <<i, p>>
<1>1. /\ ShapeInv' /\ DirStep(i, p) /\ UNCHANGED <<dir, torn, caches, run, entry>>
      /\ task[d] = "save" /\ dir[d] \in Content /\ entry[d] \in Key /\ task'[d] \in {"copied", "done"}
      /\ marker'[d] \in {marker[d], entry[d][3]}
  BY SaveStep DEF CacheInv
<1>2. FitsAt(i, p) /\ entry[d] # NONE
  BY <1>1, FitsEverywhere, LifecycleAssumption DEF CacheInv
<1>3. FitsAt(i, p)'
  BY <1>1, <1>2, ContentFacts DEF FitsAt, caches
<1>4. (EntriesFit /\ DirsWhole)'
  BY <1>1, <1>3, FitsBeside DEF caches
<1>5. SlotsHold'
  BY <1>1 DEF CacheInv, SlotsHold, caches
<1> QED
  BY <1>1, <1>4, <1>5 DEF CacheInv

LEMMA SaveEndsCache ==
    ASSUME CacheInv, NEW i \in Project, NEW p \in Package, SaveEnds(i, p)
    PROVE  CacheInv'
<1> DEFINE d == <<i, p>>
<1>1. /\ ShapeInv' /\ DirStep(i, p) /\ UNCHANGED <<files, run, entry>>
      /\ task[d] = "copied" /\ dir[d] \in Content /\ entry[d] \in Key /\ task'[d] = "done"
      /\ SavedIn(local, local', entry[d], dir[d]) /\ SavedIn(remote, remote', entry[d], dir[d])
      /\ \/ UNCHANGED caches
         \/ spoiled' = IF d \in torn THEN spoiled \cup {p} ELSE spoiled
  BY SaveEndsStep DEF CacheInv
<1>2. FitsAt(i, p) /\ entry[d] # NONE /\ dir[d] # NONE
  BY <1>1, FitsEverywhere, LifecycleAssumption, ContentFacts DEF CacheInv
<1>3. spoiled \subseteq spoiled'
  BY <1>1 DEF caches
<1>4. FitsAt(i, p)'
  BY <1>1, <1>2, <1>3 DEF FitsAt, files
<1>5. (EntriesFit /\ DirsWhole)'
  BY <1>1, <1>3, <1>4, FitsBeside
<1>6. CASE UNCHANGED caches
  BY <1>1, <1>5, <1>6 DEF CacheInv, SlotsHold, caches
<1>7. CASE spoiled' = IF d \in torn THEN spoiled \cup {p} ELSE spoiled
  <2>1. dir[d].src = entry[d][3].src /\ dir[d].built = entry[d][1] /\ (dir[d].whole \/ entry[d][2] \in spoiled')
    BY <1>1, <1>2, <1>7 DEF FitsAt
  <2>2. SlotsHold'
    BY <1>1, <1>3, <2>1, SlotsPut DEF SavedIn
  <2> QED
    BY <1>1, <1>5, <2>2 DEF CacheInv
<1> QED
  BY <1>1, <1>6, <1>7

LEMMA ExitsCache ==
    ASSUME CacheInv, ShapeInv', NEW i \in Project, NEW result \in {"idle", "ok", "failed"}, Exits(i, result), Apart(i),
           UNCHANGED <<dir, marker, caches>>, torn \subseteq torn',
           \A p \in Package : task[<<i, p>>] = "restore" => <<i, p>> \in torn'
    PROVE  CacheInv'
<1>1. \A p \in Package : FitsAt(i, p)
  BY FitsEverywhere DEF CacheInv
<1>2. \A p \in Package : task'[<<i, p>>] = "off" /\ entry'[<<i, p>>] = NONE
  BY DEF Exits, Dir
<1>3. \A p \in Package : FitsAt(i, p)'
  BY <1>1, <1>2 DEF FitsAt, caches
<1>4. \A j \in Project, q \in Package : FitsAt(j, q)'
  BY <1>3, FitsApart DEF caches
<1>5. (EntriesFit /\ DirsWhole)'
  BY <1>4 DEF EntriesFit, DirsWhole, FitsAt
<1>6. SlotsHold'
  BY DEF CacheInv, SlotsHold, caches
<1> QED
  BY <1>5, <1>6 DEF CacheInv

LEMMA CacheNext ==
    ASSUME CacheInv, [Next]_vars
    PROVE  CacheInv'
<1>0. ShapeInv /\ ShapeInv' /\ TypeOK
  BY ShapeNext DEF CacheInv, ShapeInv
<1>1. CASE UNCHANGED vars
  BY <1>0, <1>1 DEF vars, CacheInv, SlotsHold, EntriesFit, DirsWhole
<1>2. ASSUME NEW i \in Project, NEW p \in Package, PackageStep(i, p) PROVE CacheInv'
  <2>1. CASE Skip(i, p)
    <3>1. UNCHANGED <<dir, marker, local, remote, task, entry, torn, spoiled>> /\ run'[i].node = run[i].node /\ Apart(i)
      BY <1>0, <2>1, SkipShape, MetStep DEF Skip, files, caches
    <3> QED
      BY <1>0, <3>1, CacheQuiet
  <2> QED
    BY <1>2, <2>1, PatchCache, InspectCache, RestoreEndsCache, ScriptCache, SaveCache, SaveEndsCache DEF PackageStep
<1>3. ASSUME NEW i \in Project, Walk(i) PROVE CacheInv'
  <2>1. UNCHANGED <<dir, marker, local, remote, task, entry, torn, spoiled>> /\ Apart(i)
    BY <1>0, <1>3, WalkShape DEF Walk, files, caches
  <2>2. \A p \in Package : task[<<i, p>>] = "off" /\ entry[<<i, p>>] = NONE
    BY <1>0, <1>3 DEF ShapeInv, TypeOK, TasksFit, Walk, Running, Dir
  <2> QED
    BY <1>0, <2>1, <2>2, CacheQuiet
<1>4. ASSUME NEW i \in Project, Schedule(i) \/ NextChunk(i) PROVE CacheInv'
  <2>1. /\ UNCHANGED <<dir, marker, local, remote, task, entry, torn, spoiled>> /\ Apart(i)
        /\ run'[i].node = run[i].node
    BY <1>0, <1>4, ScheduleStep, NextChunkStep DEF Run
  <2> QED
    BY <1>0, <2>1, CacheQuiet
<1>5. ASSUME NEW i \in Project, NEW n \in Node, Rebuild(i, n) PROVE CacheInv'
  BY <1>0, <1>5, RebuildStep, CacheQuiet
<1>6. ASSUME NEW i \in Project, Finish(i) PROVE CacheInv'
  <2>1. PICK result \in {"idle", "ok", "failed"} : Exits(i, result)
    BY <1>0, <1>6, FinishStep
  <2>2. UNCHANGED <<dir, marker, caches, torn>> /\ Apart(i) /\ run[i].phase \in Running
    BY <1>0, <1>6, FinishStep DEF files
  <2>3. \A p \in Package : task[<<i, p>>] # "restore"
    BY <1>0, <2>2 DEF ShapeInv, TasksFit, Running
  <2> QED
    BY <1>0, <2>1, <2>2, <2>3, ExitsCache
<1>7. ASSUME NEW i \in Project, Kill(i) PROVE CacheInv'
  <2>1. Exits(i, "failed") /\ UNCHANGED <<dir, marker, caches>> /\ Apart(i)
    BY <1>0, <1>7, KillStep DEF Kill
  <2>2. torn \subseteq torn' /\ \A p \in Package : task[<<i, p>>] = "restore" => <<i, p>> \in torn'
    BY <1>7 DEF Kill, Dir
  <2> QED
    BY <1>0, <2>1, <2>2, ExitsCache
<1>8. CASE Evict
  BY <1>0, <1>8 DEF Evict, files, CacheInv, SlotsHold, EntriesFit, DirsWhole
<1>9. ASSUME NEW i \in Project, NEW n \in Node, Start(i, n) PROVE CacheInv'
  BY <1>9, StartCache
<1> QED
  BY <1>1, <1>2, <1>3, <1>4, <1>5, <1>6, <1>7, <1>8, <1>9 DEF Next, ProjectStep

LEMMA InitCache == ASSUME Init PROVE CacheInv
  BY InitShape DEF Init, CacheInv, SlotsHold, EntriesFit, DirsWhole, Dir

\* The side-effects cache can be trusted: whatever races, failing scripts, cut-off
\* restores, changes of Node, patches, kills and deletions of the cache there were, a
\* slot or an object of the remote cache holds what its key names.
THEOREM CacheSoundCorrect == Spec => []CacheSound
<1>1. Init => CacheInv
  BY InitCache
<1>2. CacheInv /\ [Next]_vars => CacheInv'
  BY CacheNext
<1>3. CacheInv => CacheSound
  BY DEF CacheInv, ShapeInv, CacheSound
<1> QED
  BY <1>1, <1>2, <1>3, PTL DEF Spec


-----------------------------------------------------------------------------
(* The order of scripts *)

\* ChunksFit and RunsFresh, for one project
OrderAt(i) ==
    /\ run[i].phase \in Running =>
          /\ run[i].placed \subseteq run[i].jobs
          /\ \A p \in run[i].placed : task[<<i, p>>] = "done"
          /\ \A p \in Package : task[<<i, p>>] # "off" => p \in run[i].placed \cup Chunk(i)
    /\ run[i].phase \notin Running => run[i].placed = {} /\ ~run[i].failed

LEMMA OrderEverywhere ==
    ChunksFit /\ RunsFresh <=> \A i \in Project : OrderAt(i)
  BY DEF ChunksFit, RunsFresh, OrderAt

\* The other projects go on as they were.
LEMMA OrderApart ==
    ASSUME OrderInv, ShapeInv', NEW i \in Project, Apart(i), OrderAt(i)'
    PROVE  OrderInv'
<1>1. ASSUME NEW j \in Project \ {i} PROVE OrderAt(j)'
  <2>1. run'[j] = run[j] /\ \A p \in Package : task'[<<j, p>>] = task[<<j, p>>]
    BY <1>1 DEF Apart
  <2>2. OrderAt(j) /\ run[j] \in Run
    BY OrderEverywhere DEF OrderInv, ShapeInv, TypeOK
  <2>3. Chunk(j)' = Chunk(j)
    BY <2>1 DEF Chunk, Level
  <2> QED
    BY <2>1, <2>2, <2>3 DEF OrderAt, Run
<1>2. \A j \in Project : OrderAt(j)'
  BY <1>1
<1>3. (ChunksFit /\ RunsFresh)'
  BY <1>2 DEF ChunksFit, RunsFresh, OrderAt
<1> QED
  BY <1>3 DEF OrderInv

\* Before the jobs run and after they end
LEMMA OrderFresh ==
    ASSUME OrderInv, ShapeInv', NEW i \in Project, Apart(i),
           run'[i].phase \notin Running \/ \A p \in Package : task'[<<i, p>>] = "off",
           run'[i].placed = {}, run'[i].phase \in Running \/ ~run'[i].failed
    PROVE  OrderInv'
<1>1. OrderAt(i)'
  BY DEF OrderAt
<1> QED
  BY <1>1, OrderApart

\* While they run
LEMMA OrderJob ==
    ASSUME OrderInv, ShapeInv', NEW i \in Project, NEW p \in Package, Apart(i), DirStep(i, p),
           run[i].phase \in Running, run'[i].jobs = run[i].jobs,
           p \in Chunk(i) \/ task[<<i, p>>] # "off", task[<<i, p>>] # "done"
    PROVE  OrderInv'
<1>1. OrderAt(i) /\ run[i] \in Run
  BY OrderEverywhere DEF OrderInv, ShapeInv, TypeOK
<1>2. run'[i].phase = run[i].phase /\ run'[i].placed = run[i].placed
  BY DEF DirStep
<1>3. Chunk(i)' = Chunk(i)
  BY <1>2 DEF Chunk, Level
<1>4. \A q \in Package : q # p => task'[<<i, q>>] = task[<<i, q>>]
  BY DEF DirStep, Dir
<1>5. p \notin run[i].placed /\ p \in Chunk(i)
  BY <1>1 DEF OrderAt
<1>6. OrderAt(i)'
  BY <1>1, <1>2, <1>3, <1>4, <1>5 DEF OrderAt, Run
<1> QED
  BY <1>6, OrderApart

LEMMA OrderNext ==
    ASSUME OrderInv, [Next]_vars
    PROVE  OrderInv'
<1>0. ShapeInv /\ ShapeInv' /\ TypeOK /\ \A i \in Project : OrderAt(i)
  BY ShapeNext, OrderEverywhere DEF OrderInv, ShapeInv
<1>1. CASE UNCHANGED vars
  BY <1>0, <1>1 DEF vars, OrderInv, ChunksFit, RunsFresh, Chunk, Level
<1>2. ASSUME NEW i \in Project, NEW p \in Package, Patch(i, p) \/ Skip(i, p) \/ Inspect(i, p) \/ RestoreEnds(i, p)
      PROVE  OrderInv'
  <2>1. Apart(i)
    BY <1>0, <1>2, PatchShape, SkipShape, InspectShape, RestoreEndsShape
  <2>2. run'[i].phase = run[i].phase /\ run'[i].placed = run[i].placed /\ run'[i].failed = run[i].failed
    <3>1. CASE Patch(i, p)
      BY <1>0, <3>1 DEF Patch, TypeOK, Run
    <3>2. CASE Skip(i, p)
      BY <1>0, <3>2, MetStep DEF Skip
    <3>3. CASE Inspect(i, p)
      BY <1>0, <3>3, InspectStep DEF DirStep
    <3>4. CASE RestoreEnds(i, p)
      BY <1>0, <3>4, RestoreEndsStep DEF DirStep
    <3> QED
      BY <1>2, <3>1, <3>2, <3>3, <3>4
  <2>3. run[i].phase \notin Running
    <3>1. task[<<i, p>>] = "restore" => run[i].phase = "walk"
      BY <1>0 DEF ShapeInv, TasksFit
    <3> QED
      BY <1>2, <3>1 DEF Patch, Skip, Inspect, RestoreEnds, Walking, Running
  <2> QED
    BY <1>0, <2>1, <2>2, <2>3, OrderFresh DEF OrderAt
<1>3. ASSUME NEW i \in Project, NEW p \in Package,
             ScriptStarts(i, p) \/ ScriptEnds(i, p) \/ Save(i, p) \/ SaveEnds(i, p)
      PROVE  OrderInv'
  <2>1. CASE ScriptStarts(i, p)
    BY <1>0, <2>1, ScriptStartsStep, OrderJob
  <2>2. CASE ScriptEnds(i, p)
    BY <1>0, <2>2, ScriptEndsStep, OrderJob
  <2>3. CASE Save(i, p)
    BY <1>0, <2>3, SaveStep, OrderJob
  <2>4. CASE SaveEnds(i, p)
    BY <1>0, <2>4, SaveEndsStep, OrderJob
  <2> QED
    BY <1>3, <2>1, <2>2, <2>3, <2>4
<1>4. ASSUME NEW i \in Project, Walk(i) PROVE OrderInv'
  <2>1. /\ Apart(i) /\ run'[i].phase = "walk" /\ run[i].phase = "patch"
        /\ run'[i].placed = run[i].placed /\ run'[i].failed = run[i].failed
    BY <1>0, <1>4, WalkShape DEF Walk, TypeOK, Run
  <2> QED
    BY <1>0, <2>1, OrderFresh DEF OrderAt, Running
<1>5. ASSUME NEW i \in Project, Schedule(i) PROVE OrderInv'
  BY <1>0, <1>5, ScheduleStep, OrderFresh DEF OrderAt, Running
<1>6. ASSUME NEW i \in Project, NEW n \in Node, Rebuild(i, n) PROVE OrderInv'
  BY <1>0, <1>6, RebuildStep, OrderFresh DEF Running
<1>7. ASSUME NEW i \in Project, NEW n \in Node, Start(i, n) PROVE OrderInv'
  BY <1>0, <1>7, StartShape, OrderFresh DEF Running
<1>8. ASSUME NEW i \in Project, NextChunk(i) PROVE OrderInv'
  <2>1. /\ Apart(i) /\ run[i].phase \in Running /\ task' = task /\ run[i] \in Run
        /\ run'[i] = [run[i] EXCEPT !.placed = run[i].placed \cup Chunk(i)]
        /\ \A p \in Chunk(i) : task[<<i, p>>] = "done"
    BY <1>0, <1>8, NextChunkStep DEF NextChunk
  <2>2. /\ run'[i].phase = run[i].phase /\ run'[i].jobs = run[i].jobs
        /\ run'[i].placed = run[i].placed \cup Chunk(i)
    BY <2>1 DEF Run
  <2>3. Chunk(i) \subseteq run[i].jobs
    BY DEF Chunk, Level
  <2>4. OrderAt(i)'
    BY <1>0, <2>1, <2>2, <2>3 DEF OrderAt
  <2> QED
    BY <1>0, <2>1, <2>4, OrderApart
<1>9. ASSUME NEW i \in Project, NEW result \in {"idle", "ok", "failed"}, Exits(i, result), Apart(i)
      PROVE  OrderInv'
  <2>1. run'[i] = Idle(result) /\ result \in Phase
    BY <1>0, <1>9, ExitsStep DEF Phase
  <2>2. run'[i].phase = result /\ run'[i].placed = {} /\ ~run'[i].failed
    BY <2>1, IdleType
  <2> QED
    BY <1>0, <1>9, <2>2, OrderFresh DEF Running
<1>10. ASSUME NEW i \in Project, Finish(i) \/ Kill(i) PROVE OrderInv'
  BY <1>0, <1>9, <1>10, FinishStep, KillStep DEF Kill
<1>11. CASE Evict
  BY <1>0, <1>11 DEF Evict, OrderInv, ChunksFit, RunsFresh, Chunk, Level
<1> QED
  BY <1>1, <1>2, <1>3, <1>4, <1>5, <1>6, <1>7, <1>8, <1>10, <1>11 DEF Next, ProjectStep, PackageStep

LEMMA InitOrder == ASSUME Init PROVE OrderInv
<1>1. Idle("idle").phase = "idle" /\ Idle("idle").placed = {} /\ ~Idle("idle").failed
  BY IdleType DEF Phase
<1> QED
  BY <1>1, InitShape DEF Init, OrderInv, ChunksFit, RunsFresh, Running


\* What a job reaches is closed under producers, and is the least such set.
LEMMA ReachesClosed ==
    ASSUME NEW jobs, NEW p \in jobs
    PROVE  /\ Reaches(jobs, p) \subseteq jobs
           /\ Producers(jobs, p) \subseteq Reaches(jobs, p)
           /\ \A q \in Reaches(jobs, p) : Producers(jobs, q) \subseteq Reaches(jobs, p)
           /\ \A S \in SUBSET jobs : Producers(jobs, p) \subseteq S /\ Closed(jobs, S) => Reaches(jobs, p) \subseteq S
<1>1. \A q : Producers(jobs, q) \subseteq jobs
  BY DEF Producers
<1> QED
  BY <1>1 DEF Reaches, Closed

LEMMA ReachesFurther ==
    ASSUME NEW jobs, NEW p \in jobs, NEW q \in Reaches(jobs, p)
    PROVE  Reaches(jobs, q) \subseteq Reaches(jobs, p)
<1>1. q \in jobs /\ Reaches(jobs, p) \in SUBSET jobs /\ Producers(jobs, q) \subseteq Reaches(jobs, p)
      /\ Closed(jobs, Reaches(jobs, p))
  BY ReachesClosed DEF Closed
<1> QED
  BY <1>1, ReachesClosed

\* Jobs each of which waits for another one of them are behind a cycle: take one
\* of those that a job reaches that reaches the fewest itself.
LEMMA WaitingIsBehindCycle ==
    ASSUME NEW jobs, IsFiniteSet(jobs), NEW U \in SUBSET jobs,
           \A u \in U : Producers(jobs, u) \cap U # {}, NEW q \in U
    PROVE  BehindCycle(jobs, q)
<1> SUFFICES ASSUME ~BehindCycle(jobs, q) PROVE FALSE
  OBVIOUS
<1> DEFINE W == U \cap (Reaches(jobs, q) \cup {q})
           Size(u) == Cardinality(Reaches(jobs, u))
           T == {Size(u) : u \in W}
<1>1. \A u \in W : u \notin Reaches(jobs, u)
  BY DEF BehindCycle
<1>2. \A u \in W : Size(u) \in Nat /\ IsFiniteSet(Reaches(jobs, u))
  BY ReachesClosed, FS_Subset, FS_CardinalityType
<1>3. q \in W /\ T \in SUBSET Nat /\ T # {}
  BY <1>2
<1>4. PICK n \in T : \A m \in T : ~(<<m, n>> \in OpToRel(<, Nat))
  BY <1>3, WFMin, NatLessThanWellFounded
<1>5. PICK u \in W : n = Size(u)
  BY <1>4
<1>6. PICK t \in U : t \in Producers(jobs, u)
  BY <1>5
<1>7. t \in Reaches(jobs, u) /\ t \in W
  <2>1. t \in Reaches(jobs, u)
    BY <1>5, <1>6, ReachesClosed
  <2>2. CASE u = q
    BY <1>6, <2>1, <2>2
  <2>3. CASE u \in Reaches(jobs, q)
    BY <1>6, <2>1, <2>3, ReachesFurther
  <2> QED
    BY <1>5, <2>1, <2>2, <2>3
<1>8. Reaches(jobs, t) \subseteq Reaches(jobs, u) /\ t \notin Reaches(jobs, t)
  BY <1>1, <1>5, <1>7, ReachesFurther
<1>9. Size(t) < Size(u)
  <2>1. Reaches(jobs, t) # Reaches(jobs, u) /\ IsFiniteSet(Reaches(jobs, u))
    BY <1>2, <1>5, <1>7, <1>8
  <2>2. Size(t) <= Size(u) /\ (Size(t) = Size(u) => Reaches(jobs, t) = Reaches(jobs, u))
    BY <1>8, <2>1, FS_Subset
  <2> QED
    BY <1>2, <1>5, <1>7, <2>1, <2>2
<1>10. <<Size(t), Size(u)>> \in OpToRel(<, Nat)
  BY <1>2, <1>5, <1>7, <1>9 DEF OpToRel
<1> QED
  BY <1>4, <1>5, <1>7, <1>10

\* What topological_chunks and run_jobs are for
LEMMA OrderHolds == ASSUME OrderInv PROVE ProducersFirst
<1> SUFFICES ASSUME NEW i \in Project, run[i].phase = "run",
                    NEW p \in run[i].jobs, NEW q \in run[i].jobs,
                    task[<<i, p>>] = "script", q \in Producers(run[i].jobs, p), task[<<i, q>>] # "done"
             PROVE  BehindCycle(run[i].jobs, q)
  BY DEF ProducersFirst
<1> DEFINE jobs == run[i].jobs
           placed == run[i].placed
<1>1. OrderAt(i) /\ jobs \subseteq Package /\ IsFiniteSet(jobs)
  <2>1. OrderAt(i) /\ jobs \subseteq Package
    BY OrderEverywhere DEF OrderInv, ShapeInv, TypeOK, Run
  <2> QED
    BY <2>1, LifecycleAssumption, FS_Subset
<1>2. p \in Level(jobs, placed) /\ q \notin placed
  BY <1>1 DEF OrderAt, Running, Chunk, Level
<1>3. Level(jobs, placed) = jobs \ placed /\ \A u \in jobs \ placed : ~(Producers(jobs, u) \subseteq placed)
  BY <1>2 DEF Level
<1>4. \A u \in jobs \ placed : Producers(jobs, u) \cap (jobs \ placed) # {}
  BY <1>3 DEF Producers
<1> QED
  BY <1>1, <1>2, <1>4, WaitingIsBehindCycle

\* While the scripts of a package run in an install, those of what it depends on have
\* ended, unless they are behind a cycle: the chunks of topological_chunks, taken in
\* turn by run_jobs, put producers first for any graph of packages.
THEOREM ProducersFirstCorrect == Spec => []ProducersFirst
<1>1. Init => OrderInv
  BY InitOrder
<1>2. OrderInv /\ [Next]_vars => OrderInv'
  BY OrderNext
<1>3. OrderInv => ProducersFirst
  BY OrderHolds
<1> QED
  BY <1>1, <1>2, <1>3, PTL DEF Spec


-----------------------------------------------------------------------------
(* What an install that ended well has built *)

\* MarkedBuilt, PatchesHold and BuiltOrLeft, for one directory
BuiltAt(i, p) ==
    LET d == <<i, p>> IN
    /\ marker[d] # NONE /\ d \notin rerun => dir[d].built \in Node
    /\ /\ p \in Patched[i] /\ faults = 0
       /\ \/ run[i].phase \in {"walk", "run", "ok"}
          \/ run[i].phase = "patch" /\ p \notin run[i].todo
       => dir[d] # NONE /\ dir[d].src = "patched"
    /\ p \in Scripted /\ Allowed(i, p) /\ ~Twin(p) /\ d \notin rerun =>
          Left(i, p) \/ (dir[d] # NONE /\ dir[d].built \in Node)

LEMMA BuiltEverywhere ==
    MarkedBuilt /\ PatchesHold /\ BuiltOrLeft <=> \A i \in Project, p \in Package : BuiltAt(i, p)
<1>1. MarkedBuilt <=> \A i \in Project, p \in Package :
         marker[<<i, p>>] # NONE /\ <<i, p>> \notin rerun => dir[<<i, p>>].built \in Node
  BY DEF MarkedBuilt, Dir
<1>2. Scripted \subseteq Package /\ \A i \in Project : Patched[i] \subseteq Package
  BY LifecycleAssumption
<1> QED
  BY <1>1, <1>2 DEF PatchesHold, BuiltOrLeft, BuiltAt

\* The other projects go on as they were; faults only make the promise weaker.
LEMMA BuiltApart ==
    ASSUME BuildInv, CacheInv', OrderInv', NEW i \in Project, Apart(i), faults <= faults', TypeOK',
           \A p \in Package : BuiltAt(i, p)'
    PROVE  BuildInv'
<1>1. \A j \in Project, p \in Package : BuiltAt(j, p)
  BY BuiltEverywhere DEF BuildInv
<1>2. ASSUME NEW j \in Project \ {i}, NEW p \in Package PROVE BuiltAt(j, p)'
  <2>1. /\ run'[j] = run[j] /\ dir'[<<j, p>>] = dir[<<j, p>>] /\ marker'[<<j, p>>] = marker[<<j, p>>]
        /\ task'[<<j, p>>] = task[<<j, p>>] /\ (<<j, p>> \in rerun' <=> <<j, p>> \in rerun)
    BY DEF Apart
  <2>2. faults' = 0 => faults = 0
    BY DEF BuildInv, CacheInv, ShapeInv, TypeOK
  <2>3. Left(j, p)' <=> Left(j, p)
    BY <2>1 DEF Left
  <2>4. BuiltAt(j, p)
    BY <1>1
  <2> QED
    BY <2>1, <2>2, <2>3, <2>4 DEF BuiltAt, Allowed
<1>3. \A j \in Project, p \in Package : BuiltAt(j, p)'
  BY <1>2
<1>4. (MarkedBuilt /\ PatchesHold /\ BuiltOrLeft)'
  <2>1. MarkedBuilt'
    BY <1>3 DEF MarkedBuilt, BuiltAt, Dir
  <2>2. Scripted \subseteq Package /\ \A j \in Project : Patched[j] \subseteq Package
    BY LifecycleAssumption
  <2>3. PatchesHold' /\ BuiltOrLeft'
    BY <1>3, <2>2 DEF PatchesHold, BuiltOrLeft, BuiltAt
  <2> QED
    BY <2>1, <2>3
<1> QED
  BY <1>4 DEF BuildInv

\* In a step about one package, only that package has to be looked at.
LEMMA BuiltBeside ==
    ASSUME BuildInv, CacheInv', OrderInv', TypeOK', NEW i \in Project, NEW p \in Package,
           Apart(i), DirStep(i, p), faults <= faults',
           run[i].failed => run'[i].failed,
           run'[i].phase = "patch" => run'[i].todo = run[i].todo,
           run'[i].todo = run[i].todo \/ run'[i].todo = run[i].todo \ {p},
           BuiltAt(i, p)'
    PROVE  BuildInv'
<1>1. \A q \in Package : BuiltAt(i, q)
  BY BuiltEverywhere DEF BuildInv
<1>2. ASSUME NEW q \in Package, q # p PROVE BuiltAt(i, q)'
  <2>1. <<i, q>> \in Dir \ {<<i, p>>}
    BY <1>2 DEF Dir
  <2>2. /\ run'[i].phase = run[i].phase /\ dir'[<<i, q>>] = dir[<<i, q>>] /\ marker'[<<i, q>>] = marker[<<i, q>>]
        /\ task'[<<i, q>>] = task[<<i, q>>] /\ (<<i, q>> \in rerun' <=> <<i, q>> \in rerun)
        /\ run[i].jobs \subseteq run'[i].jobs
    BY <2>1 DEF DirStep
  <2>3. faults' = 0 => faults = 0
    BY DEF BuildInv, CacheInv, ShapeInv, TypeOK
  <2>4. Left(i, q) => Left(i, q)'
    BY <1>2, <2>2 DEF Left
  <2>5. BuiltAt(i, q)
    BY <1>1
  <2> QED
    BY <2>2, <2>3, <2>4, <2>5 DEF BuiltAt, Allowed
<1>3. \A q \in Package : BuiltAt(i, q)'
  BY <1>2
<1> QED
  BY <1>3, BuiltApart

LEMMA AllowedCanRun ==
    ASSUME NEW i \in Project, NEW p \in Package, Allowed(i, p)
    PROVE  CanAnyScriptsRun(i)
  BY DEF Allowed, CanAnyScriptsRun


LEMMA StartBuilt ==
    ASSUME BuildInv, CacheInv', OrderInv', NEW i \in Project, NEW n \in Node, Start(i, n)
    PROVE  BuildInv'
<1>1. ShapeInv' /\ Apart(i) /\ run'[i].phase = "patch" /\ run'[i].todo = Patched[i]
  BY StartShape DEF BuildInv, CacheInv
<1>2. \A p \in Package : BuiltAt(i, p)
  BY BuiltEverywhere DEF BuildInv
<1>3. \A p \in Package : IF dir[<<i, p>>] = NONE THEN dir'[<<i, p>>] = Fresh /\ marker'[<<i, p>>] = NONE
                         ELSE dir'[<<i, p>>] = dir[<<i, p>>] /\ marker'[<<i, p>>] = marker[<<i, p>>]
  BY DEF Start, Dir
<1>4. \A p \in Package : Left(i, p)'
  BY <1>1 DEF Left
<1>5. \A p \in Package : BuiltAt(i, p)'
  BY <1>1, <1>2, <1>3, <1>4 DEF BuiltAt, Start
<1>6. faults <= faults' /\ TypeOK'
  BY <1>1 DEF Start, ShapeInv, TypeOK, BuildInv, CacheInv
<1> QED
  BY <1>1, <1>5, <1>6, BuiltApart

LEMMA PatchBuilt ==
    ASSUME BuildInv, CacheInv', OrderInv', NEW i \in Project, NEW p \in Package, Patch(i, p)
    PROVE  BuildInv'
<1>1. ShapeInv /\ ShapeInv' /\ Apart(i) /\ TypeOK /\ TypeOK'
  BY PatchShape DEF BuildInv, CacheInv, ShapeInv
<1>2. run[i].phase = "patch" /\ run'[i].phase = "patch" /\ run'[i].todo = run[i].todo \ {p}
  BY <1>1 DEF Patch, TypeOK, Run
<1>3. \A q \in Package : BuiltAt(i, q)
  BY BuiltEverywhere DEF BuildInv
<1>4. \A q \in Package : q # p =>
         /\ dir'[<<i, q>>] = dir[<<i, q>>] /\ marker'[<<i, q>>] = marker[<<i, q>>]
         /\ <<i, q>> \in rerun' <=> <<i, q>> \in rerun
  BY <1>1 DEF TypeOK, Patch, Materialized, Dir
<1>5. marker'[<<i, p>>] = NONE
  BY <1>1 DEF TypeOK, Patch, Materialized, Dir
<1>6. faults <= faults'
  BY <1>1, FaultTypes DEF Patch, FaultType
<1>7. faults' = 0 => faults = 0 /\ dir'[<<i, p>>] # NONE /\ dir'[<<i, p>>].src = "patched"
  <2>1. CASE dir' = [dir EXCEPT ![<<i, p>>] = [Fresh EXCEPT !.src = "patched"]] /\ UNCHANGED counts
    <3>1. dir'[<<i, p>>] = [Fresh EXCEPT !.src = "patched"]
      BY <1>1, <2>1 DEF TypeOK, Dir
    <3> QED
      BY <2>1, <3>1, ContentFacts DEF Fresh, counts
  <2>2. CASE Fault
    BY <1>1, <2>2 DEF Fault, TypeOK
  <2> QED
    BY <2>1, <2>2 DEF Patch
<1>8. \A q \in Package : Left(i, q)'
  BY <1>2 DEF Left
<1>9. \A q \in Package : BuiltAt(i, q)'
  BY <1>2, <1>3, <1>4, <1>5, <1>7, <1>8 DEF BuiltAt
<1> QED
  BY <1>1, <1>6, <1>9, BuiltApart

\* A run that goes on with the files it had, and still has to build what it had to
LEMMA BuiltQuiet ==
    ASSUME BuildInv, CacheInv', OrderInv', TypeOK', NEW i \in Project, Apart(i), faults <= faults',
           UNCHANGED <<dir, marker, rerun>>,
           \A p \in Package : p \in Scripted /\ Allowed(i, p) /\ ~Twin(p) /\ Left(i, p) /\ <<i, p>> \notin rerun =>
              Left(i, p)',
           \/ run'[i].phase \in {"rebuild", "idle", "failed"}
           \/ run[i].phase \in {"walk", "run", "ok"}
           \/ run[i].phase = "patch" /\ run[i].todo = {}
    PROVE  BuildInv'
<1>1. \A p \in Package : BuiltAt(i, p)
  BY BuiltEverywhere DEF BuildInv
<1>2. faults' = 0 => faults = 0
  BY DEF BuildInv, CacheInv, ShapeInv, TypeOK
<1>3. \A p \in Package : BuiltAt(i, p)'
  BY <1>1, <1>2 DEF BuiltAt, Allowed
<1> QED
  BY <1>3, BuiltApart

LEMMA WalkBuilt ==
    ASSUME BuildInv, CacheInv', OrderInv', NEW i \in Project, Walk(i)
    PROVE  BuildInv'
<1>1. ShapeInv /\ ShapeInv' /\ Apart(i) /\ TypeOK /\ TypeOK'
  BY WalkShape DEF BuildInv, CacheInv, ShapeInv
<1>2. /\ run[i].phase = "patch" /\ run[i].todo = {} /\ run'[i].phase = "walk"
      /\ CanAnyScriptsRun(i) => run'[i].todo = Package
  <2>1. PICK todo : todo = IF CanAnyScriptsRun(i) THEN Package ELSE {}
    OBVIOUS
  <2>2. run' = [run EXCEPT ![i].phase = "walk", ![i].todo = todo] /\ run \in [Project -> Run]
    BY <1>1, <2>1 DEF Walk, TypeOK
  <2>3. run' = [run EXCEPT ![i] = [run[i] EXCEPT !.phase = "walk", !.todo = todo]] /\ run[i] \in Run
    BY <2>2
  <2> QED
    BY <2>1, <2>2, <2>3 DEF Walk, Run
<1>3. \A p \in Package : Allowed(i, p) => Left(i, p)'
  BY <1>2, AllowedCanRun DEF Left
<1>4. UNCHANGED <<dir, marker, rerun, faults>> /\ faults <= faults'
  BY <1>1 DEF Walk, files, counts, TypeOK
<1> QED
  BY <1>1, <1>2, <1>3, <1>4, BuiltQuiet

LEMMA SkipBuilt ==
    ASSUME BuildInv, CacheInv', OrderInv', NEW i \in Project, NEW p \in Package, Skip(i, p)
    PROVE  BuildInv'
<1>1. ShapeInv /\ ShapeInv' /\ Apart(i) /\ TypeOK /\ TypeOK'
  BY SkipShape DEF BuildInv, CacheInv, ShapeInv
<1>2. /\ run[i].phase = "walk" /\ run'[i].phase = "walk" /\ run'[i].todo = run[i].todo \ {p}
      /\ run'[i].jobs = run[i].jobs /\ (p \notin Scripted \/ ~Allowed(i, p))
  BY <1>1, MetStep DEF Skip, Walking
<1>3. UNCHANGED <<dir, marker, rerun, faults>> /\ faults <= faults'
  BY <1>1 DEF Skip, files, counts, TypeOK
<1>4. \A q \in Package : q \in Scripted /\ Allowed(i, q) /\ Left(i, q) => Left(i, q)'
  BY <1>2 DEF Left
<1> QED
  BY <1>1, <1>2, <1>3, <1>4, BuiltQuiet

LEMMA InspectBuilt ==
    ASSUME BuildInv, CacheInv', OrderInv', NEW i \in Project, NEW p \in Package, Inspect(i, p)
    PROVE  BuildInv'
<1> DEFINE d == <<i, p>>
           k == CacheKey(run[i].node, d)
<1>1. ShapeInv /\ ShapeInv' /\ Apart(i) /\ TypeOK /\ TypeOK' /\ CacheInv /\ DirStep(i, p)
  BY InspectShape, InspectStep DEF BuildInv, CacheInv, ShapeInv
<1>2. Walking(i) /\ p \in run[i].todo
  BY DEF Inspect
<1>3. /\ d \in Dir /\ dir[d] \in Content /\ k \in Key /\ k[1] = run[i].node /\ k[1] \in Node
      /\ k[3] = InputHash(d) /\ k[3].src = dir[d].src /\ run[i].phase = "walk" /\ run'[i].phase = "walk"
  BY <1>1, <1>2, Meeting, HashSrc DEF Walking, DirStep, Run
<1>4. /\ run'[i].todo = run[i].todo \ {p} /\ run'[i].failed = run[i].failed /\ faults <= faults'
      /\ \/ InspectJob(i, p) \/ InspectApplied(i, p)
         \/ InspectRestore(i, p, k) \/ InspectUnpack(i, p, k)
  BY <1>1, InspectStep
<1> HIDE DEF k
<1>5. BuiltAt(i, p)
  BY BuiltEverywhere DEF BuildInv
<1>6. faults' = 0 => faults = 0
  BY <1>1, <1>4 DEF TypeOK
<1>7. /\ \A x \in DOMAIN local : x = k => local[k].src = k[3].src /\ local[k].built = k[1]
      /\ \A x \in DOMAIN remote : x = k => remote[k].src = k[3].src /\ remote[k].built = k[1]
  BY <1>1 DEF CacheInv, SlotsHold
<1>8. BuiltAt(i, p)'
  <2>1. CASE InspectJob(i, p)
    <3>1. Left(i, p)'
      BY <1>3, <2>1 DEF Left, InspectJob
    <3> QED
      BY <1>3, <1>5, <1>6, <2>1, <3>1 DEF BuiltAt, InspectJob
  <2>2. CASE InspectApplied(i, p)
    BY <1>3, <1>5, <1>6, <2>2, ContentFacts DEF BuiltAt, InspectApplied
  <2>3. CASE InspectRestore(i, p, k)
    <3>1. dir'[d].src = dir[d].src /\ dir'[d].built \in Node /\ dir'[d] \in Content
      <4>1. /\ local[k] \in Content /\ local[k].src = k[3].src /\ local[k].built = k[1]
            /\ dir'[d] = [local[k] EXCEPT !.whole = FALSE]
        BY <1>1, <1>3, <1>7, <2>3 DEF InspectRestore, TypeOK
      <4>2. [local[k] EXCEPT !.whole = FALSE].src = local[k].src /\ [local[k] EXCEPT !.whole = FALSE].built = local[k].built
        BY <4>1 DEF Content
      <4> QED
        BY <1>3, <4>1, <4>2, ContentFacts
    <3> QED
      BY <1>3, <1>5, <1>6, <3>1, ContentFacts DEF BuiltAt
  <2>4. CASE InspectUnpack(i, p, k)
    <3>1. dir'[d].src = dir[d].src /\ dir'[d].built \in Node /\ dir'[d] \in Content
      BY <1>1, <1>3, <1>7, <2>4 DEF InspectUnpack, TypeOK
    <3> QED
      BY <1>3, <1>5, <1>6, <3>1, ContentFacts DEF BuiltAt
  <2> QED
    BY <1>4, <2>1, <2>2, <2>3, <2>4
<1> QED
  BY <1>1, <1>3, <1>4, <1>8, BuiltBeside

LEMMA RestoreEndsBuilt ==
    ASSUME BuildInv, CacheInv', OrderInv', NEW i \in Project, NEW p \in Package, RestoreEnds(i, p)
    PROVE  BuildInv'
<1> DEFINE d == <<i, p>>
<1>1. ShapeInv /\ ShapeInv' /\ Apart(i) /\ TypeOK /\ TypeOK' /\ CacheInv /\ DirStep(i, p)
  BY RestoreEndsShape, RestoreEndsStep DEF BuildInv, CacheInv, ShapeInv
<1>2. /\ d \in Dir /\ run[i].phase = "walk" /\ run'[i].phase = "walk" /\ run'[i].todo = run[i].todo
      /\ run'[i].failed = run[i].failed /\ faults <= faults' /\ marker' = marker
      /\ entry[d] \in DOMAIN local /\ entry[d] \in Key /\ local[entry[d]] \in Content
      /\ \/ dir' = [dir EXCEPT ![d] = local[entry[d]]]
         \/ UNCHANGED <<dir, rerun>> /\ p \in run'[i].jobs
  BY <1>1, RestoreEndsStep DEF DirStep
<1>3. BuiltAt(i, p) /\ FitsAt(i, p)
  BY BuiltEverywhere, FitsEverywhere DEF BuildInv, CacheInv
<1>4. faults' = 0 => faults = 0
  BY <1>1, <1>2 DEF TypeOK
<1>5. /\ local[entry[d]].src = entry[d][3].src /\ local[entry[d]].built = entry[d][1]
      /\ entry[d] # NONE /\ entry[d][1] \in Node
  BY <1>1, <1>2, LifecycleAssumption DEF CacheInv, SlotsHold, Key
<1>6. BuiltAt(i, p)'
  <2>1. CASE dir' = [dir EXCEPT ![d] = local[entry[d]]]
    <3>1. dir'[d].src = dir[d].src /\ dir'[d].built \in Node /\ dir'[d] \in Content
      BY <1>1, <1>2, <1>3, <1>5, <2>1 DEF FitsAt, TypeOK
    <3> QED
      BY <1>2, <1>3, <1>4, <3>1, ContentFacts DEF BuiltAt
  <2>2. CASE UNCHANGED <<dir, rerun>> /\ p \in run'[i].jobs
    <3>1. Left(i, p)'
      BY <1>2, <2>2 DEF Left
    <3> QED
      BY <1>2, <1>3, <1>4, <2>2, <3>1 DEF BuiltAt
  <2> QED
    BY <1>2, <2>1, <2>2
<1> QED
  BY <1>1, <1>2, <1>6, BuiltBeside


\* A package that shares its name with no other is not dropped from the jobs.
LEMMA KeptUnlessTwin ==
    ASSUME NEW jobs \in SUBSET Package, NEW kept \in OfEachName(jobs), NEW p \in jobs, ~Twin(p)
    PROVE  p \in kept
<1>1. kept \subseteq jobs /\ Cardinality({q \in kept : NameOf[q] = NameOf[p]}) = 1
  BY DEF OfEachName
<1>2. {q \in kept : NameOf[q] = NameOf[p]} \subseteq {p}
  BY <1>1 DEF Twin
<1>3. {q \in kept : NameOf[q] = NameOf[p]} # {}
  BY <1>1, FS_EmptySet
<1> QED
  BY <1>2, <1>3

LEMMA ScheduleBuilt ==
    ASSUME BuildInv, CacheInv', OrderInv', NEW i \in Project, Schedule(i)
    PROVE  BuildInv'
<1>1. ShapeInv /\ ShapeInv' /\ Apart(i) /\ TypeOK /\ TypeOK' /\ run[i].jobs \in SUBSET Package
  BY ScheduleStep DEF BuildInv, CacheInv, ShapeInv, TypeOK, Run
<1>2. /\ UNCHANGED <<dir, marker, rerun, task, faults>> /\ run[i].phase = "walk" /\ run[i].todo = {}
      /\ run'[i].phase = "run" /\ run'[i].jobs \in OfEachName(run[i].jobs)
      /\ \A p \in Package : task[<<i, p>>] = "off"
  BY <1>1, ScheduleStep
<1>3. \A p \in Package : ~Twin(p) /\ Left(i, p) => Left(i, p)'
  BY <1>1, <1>2, KeptUnlessTwin DEF Left
<1>4. faults <= faults'
  BY <1>1, <1>2 DEF TypeOK
<1> QED
  BY <1>1, <1>2, <1>3, <1>4, BuiltQuiet

LEMMA RebuildBuilt ==
    ASSUME BuildInv, CacheInv', OrderInv', NEW i \in Project, NEW n \in Node, Rebuild(i, n)
    PROVE  BuildInv'
<1>1. ShapeInv /\ ShapeInv' /\ Apart(i) /\ TypeOK /\ TypeOK'
  BY RebuildStep DEF BuildInv, CacheInv, ShapeInv
<1>2. UNCHANGED <<dir, marker, rerun, faults>> /\ run'[i].phase = "rebuild" /\ faults <= faults'
  BY <1>1, RebuildStep DEF TypeOK
<1>3. \A p \in Package : Left(i, p)'
  BY <1>2 DEF Left
<1> QED
  BY <1>1, <1>2, <1>3, BuiltQuiet

LEMMA ScriptBuilt ==
    ASSUME BuildInv, CacheInv', OrderInv', NEW i \in Project, NEW p \in Package,
           ScriptStarts(i, p) \/ ScriptEnds(i, p)
    PROVE  BuildInv'
<1> DEFINE d == <<i, p>>
<1>1. ShapeInv /\ ShapeInv' /\ TypeOK /\ TypeOK'
  BY ScriptStartsStep, ScriptEndsStep DEF BuildInv, CacheInv, ShapeInv
<1>2. BuiltAt(i, p) /\ run[i].node \in Node
  BY <1>1, BuiltEverywhere DEF BuildInv, TypeOK, Run
<1>3. CASE ScriptStarts(i, p)
  <2>1. /\ Apart(i) /\ DirStep(i, p) /\ UNCHANGED <<marker, run, faults>> /\ run[i].phase \in Running
        /\ p \in run[i].jobs /\ task'[d] = "script"
        /\ dir[d] \in Content /\ dir'[d] = [dir[d] EXCEPT !.built = BROKEN]
        /\ rerun' = IF marker[d] # NONE THEN rerun \cup {d} ELSE rerun
    BY <1>1, <1>3, ScriptStartsStep
  <2>2. Left(i, p)'
    BY <2>1 DEF Left, Running
  <2>3. dir'[d] # NONE /\ dir'[d].src = dir[d].src
    BY <2>1, ContentFacts DEF Content
  <2>4. BuiltAt(i, p)'
    BY <1>2, <2>1, <2>2, <2>3 DEF BuiltAt
  <2>5. faults <= faults'
    BY <1>1, <2>1 DEF TypeOK
  <2> QED
    BY <1>1, <2>1, <2>4, <2>5, BuiltBeside
<1>4. CASE ScriptEnds(i, p)
  <2>1. /\ Apart(i) /\ DirStep(i, p) /\ UNCHANGED <<marker, rerun>> /\ run[i].phase \in Running
        /\ dir[d] \in Content /\ faults <= faults'
        /\ \/ dir'[d] = [dir[d] EXCEPT !.built = run[i].node] /\ run' = run
           \/ run'[i].failed /\ dir' = dir
    BY <1>1, <1>4, ScriptEndsStep
  <2>2. run'[i].phase = run[i].phase /\ (faults' = 0 => faults = 0)
    BY <1>1, <2>1 DEF DirStep, TypeOK
  <2>3. CASE dir'[d] = [dir[d] EXCEPT !.built = run[i].node] /\ run' = run
    <3>1. dir'[d] # NONE /\ dir'[d].src = dir[d].src /\ dir'[d].built \in Node
      BY <1>2, <2>1, <2>3, ContentFacts DEF Content
    <3>2. BuiltAt(i, p)'
      BY <1>2, <2>1, <2>2, <2>3, <3>1 DEF BuiltAt
    <3> QED
      BY <1>1, <2>1, <2>3, <3>2, BuiltBeside
  <2>4. CASE run'[i].failed /\ dir' = dir
    <3>1. Left(i, p)'
      BY <2>1, <2>2, <2>4 DEF Left, Running
    <3>2. BuiltAt(i, p)'
      BY <1>2, <2>1, <2>2, <2>4, <3>1 DEF BuiltAt, Running
    <3>3. run'[i].todo = run[i].todo
      BY <1>1, <1>4 DEF ScriptEnds, TypeOK, Run
    <3> QED
      BY <1>1, <2>1, <2>2, <2>4, <3>2, <3>3, BuiltBeside
  <2> QED
    BY <2>1, <2>3, <2>4
<1> QED
  BY <1>3, <1>4

LEMMA SaveBuilt ==
    ASSUME BuildInv, CacheInv', OrderInv', NEW i \in Project, NEW p \in Package,
           Save(i, p) \/ SaveEnds(i, p)
    PROVE  BuildInv'
<1> DEFINE d == <<i, p>>
<1>1. ShapeInv /\ ShapeInv' /\ TypeOK /\ TypeOK'
  BY SaveStep, SaveEndsStep DEF BuildInv, CacheInv, ShapeInv
<1>2. BuiltAt(i, p) /\ FitsAt(i, p) /\ run[i].node \in Node
  BY <1>1, BuiltEverywhere, FitsEverywhere DEF BuildInv, CacheInv, TypeOK, Run
<1>3. /\ Apart(i) /\ DirStep(i, p) /\ UNCHANGED <<dir, rerun, run>> /\ faults <= faults'
      /\ dir[d] \in Content /\ task[d] \in {"save", "copied"}
  BY <1>1, SaveStep, SaveEndsStep DEF files
<1>4. dir[d].built \in Node /\ dir[d] # NONE /\ (faults' = 0 => faults = 0)
  BY <1>1, <1>2, <1>3, ContentFacts DEF FitsAt, TypeOK
<1>5. BuiltAt(i, p)'
  BY <1>2, <1>3, <1>4 DEF BuiltAt
<1> QED
  BY <1>1, <1>3, <1>5, BuiltBeside

LEMMA NextChunkBuilt ==
    ASSUME BuildInv, CacheInv', OrderInv', NEW i \in Project, NextChunk(i)
    PROVE  BuildInv'
<1>1. ShapeInv /\ ShapeInv' /\ Apart(i) /\ TypeOK /\ TypeOK'
  BY NextChunkStep DEF BuildInv, CacheInv, ShapeInv
<1>2. /\ UNCHANGED <<dir, marker, rerun, task, faults>> /\ run[i] \in Run /\ run[i].phase \in Running
      /\ run'[i] = [run[i] EXCEPT !.placed = run[i].placed \cup Chunk(i)]
  BY <1>1, NextChunkStep
<1>3. run'[i].phase = run[i].phase /\ run'[i].jobs = run[i].jobs /\ run'[i].failed = run[i].failed
  BY <1>2 DEF Run
<1>4. \A p \in Package : Left(i, p) => Left(i, p)'
  BY <1>2, <1>3 DEF Left, Running
<1>5. faults <= faults'
  BY <1>1, <1>2 DEF TypeOK
<1> QED
  BY <1>1, <1>2, <1>3, <1>4, <1>5, BuiltQuiet DEF Running

LEMMA FinishBuilt ==
    ASSUME BuildInv, CacheInv', OrderInv', NEW i \in Project, Finish(i)
    PROVE  BuildInv'
<1>1. ShapeInv /\ ShapeInv' /\ Apart(i) /\ TypeOK /\ TypeOK' /\ OrderAt(i)
  BY FinishStep, OrderEverywhere DEF BuildInv, CacheInv, ShapeInv, OrderInv
<1>2. UNCHANGED <<dir, marker, rerun, faults>> /\ faults <= faults' /\ run[i].phase \in Running /\ Busy(i) = {}
  BY <1>1, FinishStep DEF files, counts, TypeOK
<1>3. PICK result \in {"idle", "ok", "failed"} :
         /\ Exits(i, result)
         /\ result = "ok" => run[i].phase = "run" /\ ~run[i].failed /\ run[i].placed = run[i].jobs
  BY <1>1, FinishStep
<1>4. run'[i].phase = result
  BY <1>1, <1>3, ExitsStep, IdleType DEF Phase
<1>5. CASE result = "ok"
  <2>1. \A p \in Package : ~Left(i, p)
    BY <1>1, <1>3, <1>5 DEF OrderAt, Running, Left
  <2> QED
    BY <1>1, <1>2, <1>3, <1>5, <2>1, BuiltQuiet
<1>6. CASE result # "ok"
  <2>1. \A p \in Package : Left(i, p)'
    BY <1>4, <1>6 DEF Left
  <2> QED
    BY <1>1, <1>2, <1>4, <1>6, <2>1, BuiltQuiet
<1> QED
  BY <1>5, <1>6

LEMMA KillBuilt ==
    ASSUME BuildInv, CacheInv', OrderInv', NEW i \in Project, Kill(i)
    PROVE  BuildInv'
<1>1. ShapeInv /\ ShapeInv' /\ Apart(i) /\ TypeOK /\ TypeOK' /\ faults <= faults'
  BY KillStep DEF BuildInv, CacheInv, ShapeInv
<1>2. run'[i].phase = "failed" /\ UNCHANGED <<dir, marker, rerun>>
  BY <1>1, ExitsStep, IdleType DEF Phase, Kill
<1>3. \A p \in Package : Left(i, p)'
  BY <1>2 DEF Left
<1> QED
  BY <1>1, <1>2, <1>3, BuiltQuiet

LEMMA BuildNext ==
    ASSUME BuildInv, [Next]_vars
    PROVE  BuildInv'
<1>0. CacheInv' /\ OrderInv'
  BY CacheNext, OrderNext DEF BuildInv
<1>1. CASE UNCHANGED vars
  BY <1>0, <1>1 DEF vars, BuildInv, MarkedBuilt, PatchesHold, BuiltOrLeft, Left, Allowed
<1>2. ASSUME NEW i \in Project, NEW p \in Package, PackageStep(i, p) PROVE BuildInv'
  BY <1>0, <1>2, PatchBuilt, SkipBuilt, InspectBuilt, RestoreEndsBuilt, ScriptBuilt, SaveBuilt DEF PackageStep
<1>3. ASSUME NEW i \in Project, Walk(i) \/ Schedule(i) \/ NextChunk(i) \/ Finish(i) \/ Kill(i) PROVE BuildInv'
  BY <1>0, <1>3, WalkBuilt, ScheduleBuilt, NextChunkBuilt, FinishBuilt, KillBuilt
<1>4. ASSUME NEW i \in Project, NEW n \in Node, Start(i, n) \/ Rebuild(i, n) PROVE BuildInv'
  BY <1>0, <1>4, StartBuilt, RebuildBuilt
<1>5. CASE Evict
  <2>1. UNCHANGED <<dir, marker, rerun, run, task>> /\ faults' = faults + 1 /\ faults \in Nat
    BY <1>5 DEF Evict, files, Fault, BuildInv, CacheInv, ShapeInv, TypeOK
  <2>2. MarkedBuilt' /\ PatchesHold'
    BY <2>1 DEF BuildInv, MarkedBuilt, PatchesHold
  <2>3. BuiltOrLeft'
    BY <2>1 DEF BuildInv, BuiltOrLeft, Left, Allowed
  <2> QED
    BY <1>0, <2>2, <2>3 DEF BuildInv
<1> QED
  BY <1>1, <1>2, <1>3, <1>4, <1>5 DEF Next, ProjectStep

LEMMA InitBuild == ASSUME Init PROVE BuildInv
<1>1. Idle("idle").phase = "idle"
  BY IdleType DEF Phase
<1>2. MarkedBuilt
  BY DEF Init, MarkedBuilt
<1>3. PatchesHold /\ BuiltOrLeft
  BY <1>1 DEF Init, PatchesHold, BuiltOrLeft, Left
<1> QED
  BY <1>2, <1>3, InitCache, InitOrder DEF BuildInv

\* After an install that ended well, every package whose scripts may run is built from
\* the source the project wants, whatever was restored, run again, killed, failed or
\* deleted before, and whole unless a restore was cut off.
THEOREM EachBuiltCorrect == Spec => []EachBuilt
<1>1. Init => BuildInv
  BY InitBuild
<1>2. BuildInv /\ [Next]_vars => BuildInv'
  BY BuildNext
<1>3. ASSUME BuildInv PROVE EachBuilt
  <2> SUFFICES ASSUME NEW i \in Project, NEW p \in Scripted, run[i].phase = "ok",
                      Allowed(i, p), ~Twin(p), <<i, p>> \notin rerun
               PROVE  /\ dir[<<i, p>>].built \in Node
                      /\ dir[<<i, p>>].whole \/ <<i, p>> \in torn \/ p \in spoiled
                      /\ p \in Patched[i] /\ faults = 0 => dir[<<i, p>>].src = "patched"
    BY DEF EachBuilt
  <2>1. p \in Package /\ BuiltAt(i, p) /\ FitsAt(i, p)
    BY <1>3, LifecycleAssumption, BuiltEverywhere, FitsEverywhere DEF BuildInv, CacheInv
  <2>2. task[<<i, p>>] # "restore"
    BY <1>3, <2>1 DEF BuildInv, CacheInv, ShapeInv, TasksFit
  <2> QED
    BY <2>1, <2>2 DEF BuiltAt, FitsAt, Left
<1> QED
  BY <1>1, <1>2, <1>3, PTL DEF Spec

=============================================================================
