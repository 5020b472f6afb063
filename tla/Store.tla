------------------------------- MODULE Store -------------------------------
(***************************************************************************)
(* The content store of snpm (snpm-core/src/store): the package            *)
(* directories that every project on a machine shares, the tarball blob    *)
(* cache next to them, and ensure_package, the one operation that fills    *)
(* them.                                                                   *)
(*                                                                         *)
(* Tasks of several processes run ensure_package for the packages they     *)
(* Wanted; `snpm store prune` may run beside them.  A step is one          *)
(* filesystem call, so everything a task checks can be stale when it acts  *)
(* on it.  A package's tarball is abstracted to the set File of the        *)
(* entries it holds and to one datum, "good" (the published bytes) or      *)
(* "bad" (anything else); a tree maps each entry to what lies on disk.     *)
(***************************************************************************)
EXTENDS Naturals, FiniteSets

CONSTANTS
    Process,          \* running snpm commands
    Task,             \* the store tasks of those commands
    Owner,            \* Owner[t]: the process that task t belongs to
    Package,          \* package ids; each has one directory in the store
    File,             \* entries of a package tarball
    Wanted,           \* Wanted[t]: packages that task t may be asked for
    Integrity,        \* Integrity[p]: "none", "supported" or "unsupported"
    Local,            \* packages whose tarball is a file:// path
    OfflineTask,      \* tasks that run under OfflineMode::Offline
    Pruner,           \* running `snpm store prune` commands
    DownloadPermits,  \* download_semaphore, per process
    ExtractPermits    \* extraction_semaphore, per process

ASSUME StoreAssumption ==
    /\ Owner \in [Task -> Process]
    /\ Wanted \in [Task -> SUBSET Package]
    /\ Integrity \in [Package -> {"none", "supported", "unsupported"}]
    /\ Local \subseteq Package
    /\ OfflineTask \subseteq Task
    /\ Package # {}
    /\ File # {}
    /\ ".snpm-package-metadata.json" \notin File
    /\ DownloadPermits \in Nat \ {0}
    /\ ExtractPermits \in Nat \ {0}

Tarball == {"good", "bad"}
Data    == Tarball \cup {"none"}
Tree    == [File -> Data]
Empty   == [f \in File |-> "none"]

\* The metadata file lists itself among the files of the package, so that {}
\* can stand for a package without metadata.
MetadataFile == ".snpm-package-metadata.json"

\* Where a task stands in ensure_package_with_offline and its callees.
PC == {"idle", "backfill", "lookup", "awaitDownload", "download",
       "awaitExtract", "check", "mkdir", "unpack", "wipe", "stage",
       "unpackStaged", "rename", "recheck", "clear", "rename2", "mark",
       "persist", "done", "failed"}

VARIABLES
    dirs,     \* packages whose directory exists
    tree,     \* tree[p]: the entries of p that are in it
    marked,   \* packages whose directory holds .snpm_complete
    shape,    \* shape[p]: files the metadata in it lists, {} if there is none
    blob,     \* blob[p]: the cached tarball of p, or "none"
    pc,       \* pc[t]
    pkg,      \* pkg[t]: package that t ensures
    data,     \* data[t]: content of the tarball t holds
    todo,     \* todo[t]: entries t has still to unpack
    staged,   \* staged[t]: the tree in t's .snpm-extract- directory
    target    \* target[r]: {} or the one directory r is about to remove

disk == <<dirs, tree, marked, shape>>
local == <<pkg, data, todo, staged>>
vars == <<dirs, tree, marked, shape, blob, pc, pkg, data, todo, staged, target>>

Init ==
    /\ dirs = {}
    /\ tree = [p \in Package |-> Empty]
    /\ marked = {}
    /\ shape = [p \in Package |-> {}]
    /\ blob = [p \in Package |-> "none"]
    /\ pc = [t \in Task |-> "idle"]
    /\ pkg = [t \in Task |-> CHOOSE p \in Package : TRUE]
    /\ data = [t \in Task |-> "bad"]
    /\ todo = [t \in Task |-> {}]
    /\ staged = [t \in Task |-> Empty]
    /\ target = [r \in Pruner |-> {}]

Goto(t, label) == pc' = [pc EXCEPT ![t] = label]

-----------------------------------------------------------------------------
(* What is on disk *)

\* A rename may land on a missing directory or on an empty one.
Vacant(p) == tree[p] = Empty /\ p \notin marked /\ shape[p] = {}

Present(tr) == {f \in File : tr[f] # "none"}

\* Mutated forms of Accepts: an algorithm that is not known is ignored; the
\* digest is never compared.
AcceptsUnknown(p, d) == Integrity[p] = "supported" => d = "good"
AcceptsWithoutDigest(p, d) == Integrity[p] # "unsupported"

\* Integrity verification of a tarball: no integrity accepts everything, an
\* integrity that names no supported algorithm accepts nothing.
Accepts(p, d) ==
    \/ Integrity[p] = "none"
    \/ Integrity[p] = "supported" /\ d = "good"

\* persist_package_metadata: list what the tree holds now, write that list.
\* Every error on the way is ignored by both callers.
PersistMetadata(p) ==
    \/ p \in dirs /\ shape' = [shape EXCEPT ![p] = Present(tree[p]) \cup {MetadataFile}]
    \/ UNCHANGED shape

\* One unlink of a remove_dir_all that runs on p's directory.
RemoveEntry(p) ==
    \/ \E f \in Present(tree[p]) :
         /\ tree' = [tree EXCEPT ![p][f] = "none"]
         /\ UNCHANGED <<dirs, marked, shape>>
    \/ /\ p \in marked
       /\ marked' = marked \ {p}
       /\ UNCHANGED <<dirs, tree, shape>>
    \/ /\ shape[p] # {}
       /\ shape' = [shape EXCEPT ![p] = {}]
       /\ UNCHANGED <<dirs, tree, marked>>

\* Its last call, rmdir: it fails on a directory that is not empty, and so
\* does remove_dir_all as a whole; every caller ignores that failure.
RemoveDir(p) ==
    /\ dirs' = IF Vacant(p) THEN dirs \ {p} ELSE dirs
    /\ UNCHANGED <<tree, marked, shape>>

-----------------------------------------------------------------------------
(* ensure_package: the marker decides *)

\* Mutated form of EnsureHit: the directory is taken for the marker.
EnsureHitOnDir(t, p) ==
    /\ pc[t] = "idle"
    /\ p \in Wanted[t]
    /\ p \in dirs
    /\ Goto(t, "backfill")
    /\ pkg' = [pkg EXCEPT ![t] = p]
    /\ UNCHANGED <<disk, blob, data, todo, staged, target>>

EnsureHit(t, p) ==
    /\ pc[t] = "idle"
    /\ p \in Wanted[t]
    /\ p \in marked
    /\ Goto(t, "backfill")
    /\ pkg' = [pkg EXCEPT ![t] = p]
    /\ UNCHANGED <<disk, blob, data, todo, staged, target>>

EnsureMiss(t, p) ==
    /\ pc[t] = "idle"
    /\ p \in Wanted[t]
    /\ p \notin marked
    /\ Goto(t, CASE t \in OfflineTask -> "failed"
                 [] t \notin OfflineTask /\ p \in Local -> "awaitExtract"
                 [] OTHER -> "lookup")
    /\ pkg' = [pkg EXCEPT ![t] = p]
    /\ UNCHANGED <<disk, blob, data, todo, staged, target>>

\* A hit leaves metadata that is already there alone.
Backfill(t) ==
    /\ pc[t] = "backfill"
    /\ Goto(t, "done")
    /\ IF shape[pkg[t]] = {} THEN PersistMetadata(pkg[t])
                                  ELSE UNCHANGED shape
    /\ UNCHANGED <<dirs, tree, marked, blob, local, target>>

-----------------------------------------------------------------------------
(* The tarball: blob cache, download, verification *)

\* Mutated form of BlobHit: is_file is not asked.
BlobHitUnchecked(t) ==
    /\ pc[t] = "lookup"
    /\ Integrity[pkg[t]] = "supported"
    /\ data' = [data EXCEPT ![t] = blob[pkg[t]]]
    /\ Goto(t, "awaitExtract")
    /\ UNCHANGED <<disk, blob, pkg, todo, staged, target>>

\* Only a package with a usable integrity has a place in the blob cache; a
\* blob found there is taken as it is.
BlobHit(t) ==
    /\ pc[t] = "lookup"
    /\ Integrity[pkg[t]] = "supported"
    /\ blob[pkg[t]] # "none"
    /\ data' = [data EXCEPT ![t] = blob[pkg[t]]]
    /\ Goto(t, "awaitExtract")
    /\ UNCHANGED <<disk, blob, pkg, todo, staged, target>>

BlobMiss(t) ==
    /\ pc[t] = "lookup"
    /\ Integrity[pkg[t]] = "supported" => blob[pkg[t]] = "none"
    /\ Goto(t, "awaitDownload")
    /\ UNCHANGED <<disk, blob, local, target>>

\* Mutated form of Extracting: a permit is taken before the semaphore is
\* asked for one.
ExtractingEarly ==
    {"awaitExtract", "check", "mkdir", "unpack", "wipe", "stage",
     "unpackStaged", "rename", "recheck", "clear", "rename2"}

\* Where a task holds a permit of the one and of the other semaphore
Downloading == {"download"}
Extracting  == {"check", "mkdir", "unpack", "wipe", "stage", "unpackStaged",
                "rename", "recheck", "clear", "rename2"}

\* A semaphore of t's process has a permit left.
PermitFree(t, holding, permits) ==
    Cardinality({u \in Task : Owner[u] = Owner[t] /\ pc[u] \in holding})
        < permits

AcquireDownload(t) ==
    /\ pc[t] = "awaitDownload"
    /\ PermitFree(t, Downloading, DownloadPermits)
    /\ Goto(t, "download")
    /\ UNCHANGED <<disk, blob, local, target>>

\* Mutated form of DownloadOk: the blob is cached before it is verified.
DownloadOkUnverified(t, d) ==
    /\ pc[t] = "download"
    /\ data' = [data EXCEPT ![t] = d]
    /\ blob' = [blob EXCEPT ![pkg[t]] = d]
    /\ Goto(t, IF Accepts(pkg[t], d) THEN "awaitExtract" ELSE "failed")
    /\ UNCHANGED <<disk, pkg, todo, staged, target>>

\* The body arrived.  A verified tarball is renamed into the blob cache (or,
\* when that rename fails and another task's blob is there, dropped for it);
\* one without integrity is unpacked from the temporary file.
DownloadOk(t, d) ==
    /\ pc[t] = "download"
    /\ Accepts(pkg[t], d)
    /\ Goto(t, "awaitExtract")
    /\ \/ /\ data' = [data EXCEPT ![t] = d]
          /\ blob' = IF Integrity[pkg[t]] = "supported"
                     THEN [blob EXCEPT ![pkg[t]] = d] ELSE blob
       \/ /\ Integrity[pkg[t]] = "supported"
          /\ blob[pkg[t]] # "none"
          /\ data' = [data EXCEPT ![t] = blob[pkg[t]]]
          /\ UNCHANGED blob
    /\ UNCHANGED <<disk, pkg, todo, staged, target>>

\* Network failure after the retries, a body that fails verification, or a
\* temporary file that cannot be written or renamed.
DownloadFail(t) ==
    /\ pc[t] = "download"
    /\ Goto(t, "failed")
    /\ UNCHANGED <<disk, blob, local, target>>

AcquireExtract(t) ==
    /\ pc[t] = "awaitExtract"
    /\ PermitFree(t, Extracting, ExtractPermits)
    /\ Goto(t, IF pkg[t] \in Local THEN "stage" ELSE "check")
    /\ UNCHANGED <<disk, blob, local, target>>

-----------------------------------------------------------------------------
(* stage_unpack_finalize: straight into the package directory if it is new *)

\* final_dir.exists()
CheckExists(t) ==
    /\ pc[t] = "check"
    /\ Goto(t, IF pkg[t] \in dirs THEN "stage" ELSE "mkdir")
    /\ UNCHANGED <<disk, blob, local, target>>

\* create_dir; AlreadyExists falls back to staging.
MakeDir(t) ==
    /\ pc[t] = "mkdir"
    /\ \/ /\ pkg[t] \in dirs
          /\ Goto(t, "stage")
          /\ UNCHANGED <<dirs, todo>>
       \/ /\ pkg[t] \notin dirs
          /\ Goto(t, "unpack")
          /\ dirs' = dirs \cup {pkg[t]}
          /\ todo' = [todo EXCEPT ![t] = File]
    /\ UNCHANGED <<tree, marked, shape, blob, pkg, data, staged, target>>

\* One archive entry: ensure_parent_dir makes the directories above it, the
\* package directory itself included if somebody has removed it.
Unpack(t, f) ==
    /\ pc[t] = "unpack"
    /\ f \in todo[t]
    /\ dirs' = dirs \cup {pkg[t]}
    /\ tree' = [tree EXCEPT ![pkg[t]][f] = data[t]]
    /\ todo' = [todo EXCEPT ![t] = @ \ {f}]
    /\ Goto(t, IF todo[t] = {f} THEN "mark" ELSE "unpack")
    /\ UNCHANGED <<marked, shape, blob, pkg, data, staged, target>>

\* Mutated form of UnpackFail: the error is dropped.
UnpackFailIgnored(t) ==
    /\ pc[t] = "unpack"
    /\ Goto(t, "mark")
    /\ UNCHANGED <<disk, blob, local, target>>

\* A truncated archive, a forbidden entry, a full disk.
UnpackFail(t) ==
    /\ pc[t] = "unpack"
    /\ Goto(t, "wipe")
    /\ UNCHANGED <<disk, blob, local, target>>

WipeEntry(t) ==
    /\ pc[t] = "wipe"
    /\ RemoveEntry(pkg[t])
    /\ UNCHANGED <<blob, pc, local, target>>

WipeEnd(t) ==
    /\ pc[t] = "wipe"
    /\ RemoveDir(pkg[t])
    /\ Goto(t, "failed")
    /\ UNCHANGED <<blob, local, target>>

-----------------------------------------------------------------------------
(* staged_finalize: a private sibling directory, then a rename *)

\* For a file:// package the tarball is read, and verified, only here.
Stage(t) ==
    /\ pc[t] = "stage"
    /\ \E d \in IF pkg[t] \in Local THEN Tarball ELSE {data[t]} :
         /\ pkg[t] \in Local => Accepts(pkg[t], d)
         /\ data' = [data EXCEPT ![t] = d]
    /\ staged' = [staged EXCEPT ![t] = Empty]
    /\ todo' = [todo EXCEPT ![t] = File]
    /\ Goto(t, "unpackStaged")
    /\ UNCHANGED <<disk, blob, pkg, target>>

UnpackStaged(t, f) ==
    /\ pc[t] = "unpackStaged"
    /\ f \in todo[t]
    /\ staged' = [staged EXCEPT ![t][f] = data[t]]
    /\ todo' = [todo EXCEPT ![t] = @ \ {f}]
    /\ Goto(t, IF todo[t] = {f} THEN "rename" ELSE "unpackStaged")
    /\ UNCHANGED <<disk, blob, pkg, data, target>>

\* No staging directory, a failed verification of a local tarball or a failed
\* unpack: the staging directory goes, the package directory is not touched.
StagedFail(t) ==
    /\ pc[t] \in {"stage", "unpackStaged"}
    /\ staged' = [staged EXCEPT ![t] = Empty]
    /\ Goto(t, "failed")
    /\ UNCHANGED <<disk, blob, pkg, data, todo, target>>

RenameOk(t) ==
    /\ Vacant(pkg[t])
    /\ dirs' = dirs \cup {pkg[t]}
    /\ tree' = [tree EXCEPT ![pkg[t]] = staged[t]]
    /\ staged' = [staged EXCEPT ![t] = Empty]
    /\ Goto(t, "mark")
    /\ UNCHANGED <<marked, shape, blob, pkg, data, todo, target>>

\* An empty staged tree may mean that its directory is gone.
RenameRefused(t) == ~Vacant(pkg[t]) \/ staged[t] = Empty

\* atomic_finalize_extracted_dir, first rename
Rename(t) ==
    /\ pc[t] = "rename"
    /\ \/ RenameOk(t)
       \/ /\ RenameRefused(t)
          /\ Goto(t, "recheck")
          /\ UNCHANGED <<disk, blob, local, target>>

\* Another task finished first: its tree stays, ours goes.
Recheck(t) ==
    /\ pc[t] = "recheck"
    /\ \/ /\ pkg[t] \in marked
          /\ staged' = [staged EXCEPT ![t] = Empty]
          /\ Goto(t, "mark")
       \/ /\ pkg[t] \notin marked
          /\ Goto(t, "clear")
          /\ UNCHANGED staged
    /\ UNCHANGED <<disk, blob, pkg, data, todo, target>>

ClearEntry(t) ==
    /\ pc[t] = "clear"
    /\ RemoveEntry(pkg[t])
    /\ UNCHANGED <<blob, pc, local, target>>

ClearEnd(t) ==
    /\ pc[t] = "clear"
    /\ RemoveDir(pkg[t])
    /\ Goto(t, "rename2")
    /\ UNCHANGED <<blob, local, target>>

\* Second and last rename
RenameAgain(t) ==
    /\ pc[t] = "rename2"
    /\ \/ RenameOk(t)
       \/ /\ RenameRefused(t)
          /\ staged' = [staged EXCEPT ![t] = Empty]
          /\ Goto(t, "failed")
          /\ UNCHANGED <<disk, blob, pkg, data, todo, target>>

-----------------------------------------------------------------------------
(* Marker, metadata, result *)

\* fs::write(marker): it creates no directory.
Mark(t) ==
    /\ pc[t] = "mark"
    /\ \/ /\ pkg[t] \in dirs
          /\ marked' = marked \cup {pkg[t]}
          /\ Goto(t, "persist")
       \/ /\ Goto(t, "failed")
          /\ UNCHANGED marked
    /\ UNCHANGED <<dirs, tree, shape, blob, local, target>>

Persist(t) ==
    /\ pc[t] = "persist"
    /\ PersistMetadata(pkg[t])
    /\ Goto(t, "done")
    /\ UNCHANGED <<dirs, tree, marked, blob, local, target>>

\* The command that asked is finished with the answer and may ask again.
Release(t) ==
    /\ pc[t] \in {"done", "failed"}
    /\ Goto(t, "idle")
    /\ data' = [data EXCEPT ![t] = "bad"]
    /\ todo' = [todo EXCEPT ![t] = {}]
    /\ UNCHANGED <<disk, blob, pkg, staged, target>>

\* A process is killed: its tasks are gone, what they did to the disk stays.
\* (Their staging directories stay too, under names nobody looks for.)
Crash(q) ==
    /\ \E t \in Task : Owner[t] = q /\ pc[t] # "idle"
    /\ pc' = [t \in Task |-> IF Owner[t] = q THEN "idle" ELSE pc[t]]
    /\ data' = [t \in Task |-> IF Owner[t] = q THEN "bad" ELSE data[t]]
    /\ todo' = [t \in Task |-> IF Owner[t] = q THEN {} ELSE todo[t]]
    /\ staged' = [t \in Task |-> IF Owner[t] = q THEN Empty ELSE staged[t]]
    /\ UNCHANGED <<disk, blob, pkg, target>>

-----------------------------------------------------------------------------
(* snpm store prune *)

\* A directory without marker is condemned ...
PruneCheck(r, p) ==
    /\ target[r] = {}
    /\ p \in dirs /\ p \notin marked
    /\ target' = [target EXCEPT ![r] = {p}]
    /\ UNCHANGED <<disk, blob, pc, local>>

\* ... and removed, entry by entry.
PruneEntry(r, p) ==
    /\ p \in target[r]
    /\ RemoveEntry(p)
    /\ UNCHANGED <<blob, pc, local, target>>

PruneEnd(r, p) ==
    /\ p \in target[r]
    /\ RemoveDir(p)
    /\ target' = [target EXCEPT ![r] = {}]
    /\ UNCHANGED <<blob, pc, local>>

\* A staging directory is a version directory without marker too.
PruneStaging(r, t) ==
    /\ target[r] = {}
    /\ \E f \in Present(staged[t]) : staged' = [staged EXCEPT ![t][f] = "none"]
    /\ UNCHANGED <<disk, blob, pc, pkg, data, todo, target>>

-----------------------------------------------------------------------------

Ensure(t) == \E p \in Package : EnsureHit(t, p) \/ EnsureMiss(t, p)

\* What t's future and its blocking closure do once ensure_package is called.
Work(t) ==
    \/ Backfill(t) \/ BlobHit(t) \/ BlobMiss(t)
    \/ \E d \in Tarball : DownloadOk(t, d)
    \/ DownloadFail(t) \/ CheckExists(t) \/ MakeDir(t)
    \/ \E f \in File : Unpack(t, f) \/ UnpackStaged(t, f)
    \/ UnpackFail(t) \/ WipeEnd(t) \/ Stage(t) \/ StagedFail(t)
    \/ Rename(t) \/ Recheck(t) \/ ClearEnd(t) \/ RenameAgain(t)
    \/ Mark(t) \/ Persist(t)

Acquire(t) == AcquireDownload(t) \/ AcquireExtract(t)

Prune(r) == \/ \E p \in Package : PruneCheck(r, p) \/ PruneEntry(r, p)
                                    \/ PruneEnd(r, p)
            \/ \E t \in Task : PruneStaging(r, t)

Next ==
    \/ \E t \in Task : Ensure(t) \/ Work(t) \/ Acquire(t)
                         \/ WipeEntry(t) \/ ClearEntry(t) \/ Release(t)
    \/ \E q \in Process : Crash(q)
    \/ \E r \in Pruner : Prune(r)

\* The runtime polls every ready task, a blocking closure runs on its own
\* thread, and the tokio semaphores hand their permits out in the order of
\* the requests.  Nobody has to ask, to release, to crash or to prune.
Fairness == \A t \in Task : WF_vars(Work(t)) /\ SF_vars(Acquire(t))

Spec == Init /\ [][Next]_vars /\ Fairness

-----------------------------------------------------------------------------
(* Properties *)

\* The kinds of values the variables take; in particular a task never has a
\* tarball that is not there.
TypeOK ==
    /\ dirs \subseteq Package
    /\ tree \in [Package -> Tree]
    /\ marked \subseteq Package
    /\ shape \in [Package -> SUBSET (File \cup {MetadataFile})]
    /\ blob \in [Package -> Data]
    /\ pc \in [Task -> PC]
    /\ pkg \in [Task -> Package]
    /\ data \in [Task -> Tarball]
    /\ todo \in [Task -> SUBSET File]
    /\ staged \in [Task -> Tree]
    /\ target \in [Pruner -> SUBSET Package]

\* The blob cache holds verified tarballs only, whatever processes fill it at
\* the same time: BlobHit unpacks what it finds there without a second look.
BlobVerified ==
    \A p \in Package :
        blob[p] # "none" => Integrity[p] = "supported" /\ blob[p] = "good"

\* No unverified byte of a package that has an integrity ever reaches its
\* directory, no matter how extractions, wipes and prunes interleave.
OnlyVerifiedFiles ==
    \A p \in Package, f \in File :
        Integrity[p] # "none" =>
            \/ tree[p][f] = "none"
            \/ Integrity[p] = "supported" /\ tree[p][f] = "good"

Complete(p) ==
    /\ p \in dirs
    /\ \E d \in Tarball : tree[p] = [f \in File |-> d] /\ Accepts(p, d)

\* The promise of .snpm_complete: the directory holds every entry of one
\* tarball that passed verification.  EnsureHit relies on nothing else.
MarkedComplete == \A p \in Package : p \in marked => Complete(p)

\* The metadata of a package lists all of its files: the linker creates what
\* the list names and never looks at the directory again.
ShapeAccurate == \A p \in Package : shape[p] # {} => shape[p] = File \cup {MetadataFile}

\* A caller that was told Ok finds the whole package at the path it was given
\* for as long as it uses it ("store packages are immutable after
\* extraction").
HeldIntact == \A t \in Task : pc[t] = "done" => Complete(pkg[t])

\* No two tasks that may download want the same package, and no prune runs.
\* This is how the tasks of one install divide the store among themselves.
Exclusive ==
    /\ \A t, u \in Task \ OfflineTask : t # u => Wanted[t] \cap Wanted[u] = {}
    /\ Pruner = {}

\* What a reader of the store takes for the content of a package
Published == [p \in Package |-> IF p \in marked THEN tree[p] ELSE Empty]

Promise == INSTANCE StoreSpec WITH content <- Published

\* Under Exclusive the store keeps its promise through failures, crashes and
\* retries: ensure_package publishes a package in one step, as a whole, and
\* never touches it again.
KeepsPromise == Promise!Spec

\* Every call of ensure_package returns: no wait for a permit, no cleanup and
\* no retry of a rename goes on for ever.
EnsureEnds ==
    \A t \in Task : pc[t] # "idle" ~> pc[t] \in {"done", "failed", "idle"}

\* What a package directory says of itself is true under Exclusive, through failures, crashes
\* and retries: the marker means a whole verified tree, and the metadata file beside it
\* describes that tree (stage_unpack_finalize, persist_package_metadata).
MarkerSound == TypeOK /\ MarkedComplete /\ ShapeAccurate

\* Whatever installs and prunes share the store, nothing that failed the integrity check
\* stays in the blob cache or gets into a package directory (verify_integrity_file, download_blob).
VerifiedOnly == BlobVerified /\ OnlyVerifiedFiles

=============================================================================
