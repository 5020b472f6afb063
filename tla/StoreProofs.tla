---------------------------- MODULE StoreProofs ----------------------------
(***************************************************************************)
(* Theorems about Store, for any number of processes, tasks, packages,     *)
(* tarball entries and permits.                                            *)
(***************************************************************************)
EXTENDS Store, TLAPS

-----------------------------------------------------------------------------
(* Type correctness *)

LEMMA TypeInit == Init => TypeOK
BY StoreAssumption DEF Init, TypeOK, PC, Tree, Empty, Data, Tarball

LEMMA RemoveTyped ==
    ASSUME TypeOK, NEW p \in Package, RemoveEntry(p)
    PROVE  /\ dirs' \subseteq Package
           /\ tree' \in [Package -> Tree]
           /\ marked' \subseteq Package
           /\ shape' \in [Package -> SUBSET (File \cup {MetadataFile})]
<1>1. ASSUME NEW f \in File, tree' = [tree EXCEPT ![p][f] = "none"]
      PROVE tree' \in [Package -> Tree]
  BY <1>1 DEF TypeOK, Tree, Data
<1> QED
  BY <1>1 DEF TypeOK, RemoveEntry, Present

LEMMA TypeTask ==
    ASSUME TypeOK, NEW t \in Task,
           Ensure(t) \/ Work(t) \/ Acquire(t) \/ WipeEntry(t) \/ ClearEntry(t)
             \/ Release(t)
    PROVE  TypeOK'
<1> USE StoreAssumption DEF TypeOK, Goto, disk, local
<1> HIDE DEF PC
<1>labels. \A l \in {"idle", "backfill", "lookup", "awaitDownload", "download",
       "awaitExtract", "check", "mkdir", "unpack", "wipe", "stage",
       "unpackStaged", "rename", "recheck", "clear", "rename2", "mark",
       "persist", "done", "failed"} : l \in PC
  BY DEF PC
<1>empty. Empty \in Tree
  BY DEF Empty, Tree, Data
<1>1. ASSUME NEW p \in Package, EnsureHit(t, p) \/ EnsureMiss(t, p)
      PROVE TypeOK'
  BY <1>1, <1>labels DEF EnsureHit, EnsureMiss
<1>2. CASE Backfill(t)
  BY <1>2, <1>labels DEF Backfill, PersistMetadata, Present
<1>3. CASE BlobHit(t)
  BY <1>3, <1>labels DEF BlobHit, Data, Tarball
<1>4. CASE BlobMiss(t)
  BY <1>4, <1>labels DEF BlobMiss
<1>5. ASSUME NEW d \in Tarball, DownloadOk(t, d) PROVE TypeOK'
  BY <1>5, <1>labels DEF DownloadOk, Data, Tarball
<1>6. CASE DownloadFail(t)
  BY <1>6, <1>labels DEF DownloadFail
<1>7. CASE CheckExists(t)
  BY <1>7, <1>labels DEF CheckExists
<1>8. CASE MakeDir(t)
  BY <1>8, <1>labels DEF MakeDir
<1>9. ASSUME NEW f \in File, Unpack(t, f) PROVE TypeOK'
  BY <1>9, <1>labels DEF Unpack, Tree, Data
<1>10. ASSUME NEW f \in File, UnpackStaged(t, f) PROVE TypeOK'
  BY <1>10, <1>labels DEF UnpackStaged, Tree, Data
<1>11. CASE UnpackFail(t)
  BY <1>11, <1>labels DEF UnpackFail
<1>12. CASE WipeEnd(t)
  BY <1>12, <1>labels DEF WipeEnd, RemoveDir
<1>13. CASE Stage(t)
  BY <1>13, <1>labels, <1>empty DEF Stage
<1>14. CASE StagedFail(t)
  BY <1>14, <1>labels, <1>empty DEF StagedFail
<1>15. CASE Rename(t)
  BY <1>15, <1>labels, <1>empty DEF Rename, RenameOk
<1>16. CASE Recheck(t)
  BY <1>16, <1>labels, <1>empty DEF Recheck
<1>17. CASE ClearEnd(t)
  BY <1>17, <1>labels DEF ClearEnd, RemoveDir
<1>18. CASE RenameAgain(t)
  BY <1>18, <1>labels, <1>empty DEF RenameAgain, RenameOk
<1>19. CASE Mark(t)
  BY <1>19, <1>labels DEF Mark
<1>20. CASE Persist(t)
  BY <1>20, <1>labels DEF Persist, PersistMetadata, Present
<1>21. CASE Acquire(t)
  BY <1>21, <1>labels DEF Acquire, AcquireDownload, AcquireExtract
<1>22. CASE WipeEntry(t)
  BY <1>22, RemoveTyped DEF WipeEntry
<1>23. CASE ClearEntry(t)
  BY <1>23, RemoveTyped DEF ClearEntry
<1>24. CASE Release(t)
  BY <1>24, <1>labels DEF Release, Tarball
<1> QED
  BY <1>1, <1>2, <1>3, <1>4, <1>5, <1>6, <1>7, <1>8, <1>9, <1>10, <1>11,
     <1>12, <1>13, <1>14, <1>15, <1>16, <1>17, <1>18, <1>19, <1>20, <1>21,
     <1>22, <1>23, <1>24
  DEF Ensure, Work

LEMMA TypeEnv ==
    ASSUME TypeOK,
           (\E q \in Process : Crash(q)) \/ (\E r \in Pruner : Prune(r))
    PROVE  TypeOK'
<1> USE StoreAssumption DEF TypeOK, disk, local
<1>1. ASSUME NEW q \in Process, Crash(q) PROVE TypeOK'
  BY <1>1 DEF Crash, PC, Empty, Tree, Data, Tarball
<1>2. ASSUME NEW r \in Pruner, NEW p \in Package, PruneCheck(r, p) PROVE TypeOK'
  BY <1>2 DEF PruneCheck
<1>3. ASSUME NEW r \in Pruner, NEW p \in Package, PruneEntry(r, p) PROVE TypeOK'
  BY <1>3, RemoveTyped DEF PruneEntry
<1>4. ASSUME NEW r \in Pruner, NEW p \in Package, PruneEnd(r, p) PROVE TypeOK'
  BY <1>4 DEF PruneEnd, RemoveDir
<1>5. ASSUME NEW r \in Pruner, NEW t \in Task, PruneStaging(r, t) PROVE TypeOK'
  <2>1. PICK f \in File : staged' = [staged EXCEPT ![t][f] = "none"]
    BY <1>5 DEF PruneStaging, Present
  <2>2. staged' \in [Task -> Tree]
    BY <2>1 DEF Tree, Data
  <2> QED
    BY <1>5, <2>2 DEF PruneStaging
<1> QED
  BY <1>1, <1>2, <1>3, <1>4, <1>5 DEF Prune

LEMMA TypeNext == TypeOK /\ [Next]_vars => TypeOK'
<1> SUFFICES ASSUME TypeOK, [Next]_vars PROVE TypeOK'
  OBVIOUS
<1>1. CASE UNCHANGED vars
  BY <1>1 DEF vars, TypeOK
<1>2. CASE Next
  BY <1>2, TypeTask, TypeEnv DEF Next
<1> QED
  BY <1>1, <1>2

\* Every reachable state is well typed: no task ever holds a tarball that is
\* not there, no step writes outside the directories of known packages.
THEOREM StoreTypeCorrect == Spec => []TypeOK
  BY TypeInit, TypeNext, PTL DEF Spec

-----------------------------------------------------------------------------
(* Verification: what reaches the disk passed the integrity check, whatever  *)
(* the other processes and prune do.                                         *)

\* t holds a tarball that was fetched, or read, for pkg[t].
Fetched(t) ==
    \/ pc[t] \in Extracting \ {"stage"}
    \/ pc[t] \in {"awaitExtract", "stage"} /\ pkg[t] \notin Local

Staging(t) == pc[t] \in {"unpackStaged", "rename", "recheck", "clear", "rename2"}

DataVerified == \A t \in Task : Fetched(t) => Accepts(pkg[t], data[t])

StagedVerified ==
    \A t \in Task : Staging(t) =>
        \A f \in File : staged[t][f] # "none" => Accepts(pkg[t], staged[t][f])

TreeVerified ==
    \A p \in Package, f \in File :
        tree[p][f] # "none" => Accepts(p, tree[p][f])

\* OnlyVerifiedFiles is not inductive: it needs that every tarball in hand
\* and every staged tree is verified too.
VInv == TypeOK /\ BlobVerified /\ DataVerified /\ StagedVerified /\ TreeVerified

LEMMA VInit == Init => VInv
<1> SUFFICES ASSUME Init PROVE VInv
  OBVIOUS
<1>1. TypeOK
  BY TypeInit
<1>2. BlobVerified /\ DataVerified /\ StagedVerified /\ TreeVerified
  BY StoreAssumption DEF Init, BlobVerified, DataVerified, StagedVerified, TreeVerified, Fetched,
     Staging, Extracting, Empty
<1> QED
  BY <1>1, <1>2 DEF VInv

LEMMA RemoveVerified ==
    ASSUME TypeOK, TreeVerified, NEW p \in Package, RemoveEntry(p)
    PROVE  TreeVerified'
<1>1. ASSUME NEW f \in File, tree' = [tree EXCEPT ![p][f] = "none"]
      PROVE TreeVerified'
  BY <1>1 DEF TypeOK, TreeVerified, Tree, Accepts
<1> QED
  BY <1>1 DEF TreeVerified, RemoveEntry, Present, Accepts

LEMMA VTask ==
    ASSUME VInv, TypeOK', NEW t \in Task,
           Ensure(t) \/ Work(t) \/ Acquire(t) \/ WipeEntry(t) \/ ClearEntry(t)
             \/ Release(t)
    PROVE  VInv'
<1> USE StoreAssumption
    DEF VInv, TypeOK, BlobVerified, DataVerified, StagedVerified, TreeVerified,
        Fetched, Staging, Extracting, Goto, disk, local, Accepts
<1>ok. ASSUME RenameOk(t), pc[t] \in {"rename", "rename2"} PROVE VInv'
  <2> USE <1>ok DEF RenameOk
  <2>1. BlobVerified' /\ DataVerified'
    OBVIOUS
  <2>2. StagedVerified'
    BY DEF Empty
  <2>3. \A p \in Package, f \in File :
            tree'[p][f] = IF p = pkg[t] THEN staged[t][f] ELSE tree[p][f]
    OBVIOUS
  <2>4. TreeVerified'
    BY <2>3
  <2> QED
    BY <2>1, <2>2, <2>4
<1>1. ASSUME NEW p \in Package, EnsureHit(t, p) \/ EnsureMiss(t, p)
      PROVE VInv'
  <2>1. CASE EnsureHit(t, p)
    BY <2>1 DEF EnsureHit
  <2>2. CASE EnsureMiss(t, p)
    <3>1. PICK s \in {"failed", "awaitExtract", "lookup"} : Goto(t, s)
      BY <2>2 DEF EnsureMiss
    <3> QED
      BY <2>2, <3>1 DEF EnsureMiss
  <2> QED
    BY <1>1, <2>1, <2>2
<1>2. CASE Backfill(t)
  BY <1>2 DEF Backfill
<1>3. CASE BlobHit(t)
  BY <1>3 DEF BlobHit
<1>4. CASE BlobMiss(t)
  BY <1>4 DEF BlobMiss
<1>5. ASSUME NEW d \in Tarball, DownloadOk(t, d) PROVE VInv'
  BY <1>5 DEF DownloadOk
<1>6. CASE DownloadFail(t)
  BY <1>6 DEF DownloadFail
<1>7. CASE CheckExists(t)
  BY <1>7 DEF CheckExists
<1>8. CASE MakeDir(t)
  BY <1>8 DEF MakeDir
<1>9. ASSUME NEW f \in File, Unpack(t, f) PROVE VInv'
  BY <1>9 DEF Unpack, Tree
<1>10. ASSUME NEW f \in File, UnpackStaged(t, f) PROVE VInv'
  BY <1>10 DEF UnpackStaged, Tree
<1>11. CASE UnpackFail(t)
  BY <1>11 DEF UnpackFail
<1>12. CASE WipeEnd(t)
  BY <1>12 DEF WipeEnd, RemoveDir
<1>13. CASE Stage(t)
  BY <1>13 DEF Stage, Empty
<1>14. CASE StagedFail(t)
  BY <1>14 DEF StagedFail
<1>15. CASE Rename(t)
  <2>1. CASE RenameOk(t)
    BY <1>15, <2>1, <1>ok DEF Rename
  <2>2. CASE ~RenameOk(t)
    BY <1>15, <2>2 DEF Rename
  <2> QED
    BY <2>1, <2>2
<1>16. CASE Recheck(t)
  BY <1>16 DEF Recheck
<1>17. CASE ClearEnd(t)
  BY <1>17 DEF ClearEnd, RemoveDir
<1>18. CASE RenameAgain(t)
  <2>1. CASE RenameOk(t)
    BY <1>18, <2>1, <1>ok DEF RenameAgain
  <2>2. CASE ~RenameOk(t)
    BY <1>18, <2>2 DEF RenameAgain
  <2> QED
    BY <2>1, <2>2
<1>19. CASE Mark(t)
  BY <1>19 DEF Mark
<1>20. CASE Persist(t)
  BY <1>20 DEF Persist
<1>21. CASE Acquire(t)
  BY <1>21 DEF Acquire, AcquireDownload, AcquireExtract
<1>22. CASE WipeEntry(t) \/ ClearEntry(t)
  BY <1>22, RemoveVerified DEF WipeEntry, ClearEntry
<1>23. CASE Release(t)
  BY <1>23 DEF Release
<1> QED
  BY <1>1, <1>2, <1>3, <1>4, <1>5, <1>6, <1>7, <1>8, <1>9, <1>10, <1>11,
     <1>12, <1>13, <1>14, <1>15, <1>16, <1>17, <1>18, <1>19, <1>20, <1>21,
     <1>22, <1>23
  DEF Ensure, Work

LEMMA VEnv ==
    ASSUME VInv, TypeOK',
           (\E q \in Process : Crash(q)) \/ (\E r \in Pruner : Prune(r))
    PROVE  VInv'
<1> USE StoreAssumption
    DEF VInv, TypeOK, BlobVerified, DataVerified, StagedVerified, TreeVerified,
        Fetched, Staging, Extracting, disk, local, Accepts
<1>1. ASSUME NEW q \in Process, Crash(q) PROVE VInv'
  BY <1>1 DEF Crash
<1>2. ASSUME NEW r \in Pruner, NEW p \in Package,
             PruneCheck(r, p) \/ PruneEnd(r, p) PROVE VInv'
  BY <1>2 DEF PruneCheck, PruneEnd, RemoveDir
<1>3. ASSUME NEW r \in Pruner, NEW p \in Package, PruneEntry(r, p) PROVE VInv'
  BY <1>3, RemoveVerified DEF PruneEntry
<1>4. ASSUME NEW r \in Pruner, NEW t \in Task, PruneStaging(r, t) PROVE VInv'
  <2>1. PICK f \in File : staged' = [staged EXCEPT ![t][f] = "none"]
    BY <1>4 DEF PruneStaging, Present
  <2> QED
    BY <1>4, <2>1 DEF PruneStaging, Tree
<1> QED
  BY <1>1, <1>2, <1>3, <1>4 DEF Prune

LEMMA VNext == VInv /\ [Next]_vars => VInv'
<1> SUFFICES ASSUME VInv, [Next]_vars PROVE VInv'
  OBVIOUS
<1>1. TypeOK'
  BY TypeNext DEF VInv
<1>2. CASE UNCHANGED vars
  BY <1>2 DEF vars, VInv, TypeOK, BlobVerified, DataVerified, StagedVerified,
     TreeVerified, Fetched, Staging
<1>3. CASE Next
  BY <1>1, <1>3, VTask, VEnv DEF Next
<1> QED
  BY <1>2, <1>3

LEMMA VInvariant == Spec => []VInv
  BY VInit, VNext, PTL DEF Spec

\* Any number of processes may fill and read the blob cache at the same time:
\* it never holds a tarball that was not verified against the digest it is
\* filed under.
THEOREM StoreBlobVerified == Spec => []BlobVerified
<1>1. VInv => BlobVerified
  BY DEF VInv
<1> QED
  BY <1>1, VInvariant, PTL

\* No interleaving of extractions, wipes, clears, crashes and prunes puts an
\* unverified file into the directory of a package that has an integrity.
THEOREM StoreOnlyVerifiedFiles == Spec => []OnlyVerifiedFiles
<1>1. VInv => OnlyVerifiedFiles
  BY StoreAssumption DEF VInv, TreeVerified, OnlyVerifiedFiles, Accepts
<1> QED
  BY <1>1, VInvariant, PTL

-----------------------------------------------------------------------------
(* Exclusive: tasks that share no package keep the store's promise. *)

\* t has missed the marker and has not written it yet.
Busy(t) ==
    \/ pc[t] \in Extracting
    \/ pc[t] \in {"lookup", "awaitDownload", "download", "awaitExtract", "mark"}

\* A task works on what it was asked for, and only the one task that may
\* download a package works on it.
Ownership ==
    \A t \in Task :
        /\ pc[t] # "idle" => pkg[t] \in Wanted[t]
        /\ Busy(t) => t \notin OfflineTask

\* The marker is absent until a busy task writes it, and stays.
MarkerTracked ==
    \A t \in Task :
        /\ Busy(t) => pkg[t] \notin marked
        /\ pc[t] \in {"backfill", "persist", "done"} => pkg[t] \in marked

\* A directory under extraction holds every entry that is not to do.
Unpacking ==
    \A t \in Task : pc[t] = "unpack" =>
        /\ pkg[t] \in dirs
        /\ \A f \in File \ todo[t] : tree[pkg[t]][f] = data[t]

StagedUnpacking ==
    \A t \in Task : pc[t] = "unpackStaged" =>
        \A f \in File \ todo[t] : staged[t][f] = data[t]

StagedWhole ==
    \A t \in Task : pc[t] \in {"rename", "recheck", "clear", "rename2"} =>
        \A f \in File : staged[t][f] = data[t]

\* A task that is about to write the marker has the whole package in place.
ReadyToMark ==
    \A t \in Task : pc[t] = "mark" =>
        /\ pkg[t] \in dirs
        /\ \A f \in File : tree[pkg[t]][f] = data[t]
        /\ Accepts(pkg[t], data[t])

\* MarkedComplete, entry by entry
MarkedWhole ==
    \A p \in marked :
        /\ p \in dirs
        /\ \E d \in Tarball : (\A f \in File : tree[p][f] = d) /\ Accepts(p, d)

ShapeTracked ==
    \A p \in Package :
        /\ p \notin marked => shape[p] = {}
        /\ shape[p] # {} => shape[p] = File \cup {MetadataFile}

EInv == /\ VInv /\ Ownership /\ MarkerTracked /\ Unpacking /\ StagedUnpacking
        /\ StagedWhole /\ ReadyToMark /\ MarkedWhole /\ ShapeTracked

LEMMA EInit == Init => EInv
<1> SUFFICES ASSUME Init PROVE EInv
  OBVIOUS
<1>1. VInv
  BY VInit
<1>2. EInv
  BY <1>1, StoreAssumption DEF Init, EInv, Ownership, MarkerTracked, Unpacking,
     StagedUnpacking, StagedWhole, ReadyToMark, MarkedWhole, ShapeTracked,
     Busy, Extracting
<1> QED
  BY <1>2

\* No second task is busy with the package of a busy task.
LEMMA Alone ==
    ASSUME Exclusive, TypeOK, Ownership, NEW t \in Task, Busy(t)
    PROVE  \A u \in Task : u # t /\ Busy(u) => pkg[u] # pkg[t]
  BY StoreAssumption DEF Exclusive, TypeOK, Ownership, Busy, Extracting

LEMMA ETask ==
    ASSUME Exclusive, EInv, VInv', NEW t \in Task,
           Ensure(t) \/ Work(t) \/ Acquire(t) \/ WipeEntry(t) \/ ClearEntry(t)
             \/ Release(t)
    PROVE  EInv'
<1> USE StoreAssumption
    DEF EInv, TypeOK, Ownership, MarkerTracked, Unpacking, StagedUnpacking,
        StagedWhole, ReadyToMark, MarkedWhole, ShapeTracked, Busy, Extracting,
        Goto, disk, local
<1>type. TypeOK
  BY DEF VInv
<1>alone. Busy(t) => \A u \in Task : u # t /\ Busy(u) => pkg[u] # pkg[t]
  BY Alone, <1>type
<1>1. ASSUME NEW p \in Package, EnsureHit(t, p) \/ EnsureMiss(t, p)
      PROVE EInv'
  <2>1. CASE EnsureHit(t, p)
    BY <2>1, <1>type DEF EnsureHit
  <2>2. CASE EnsureMiss(t, p)
    <3>1. PICK s \in {"failed", "awaitExtract", "lookup"} : Goto(t, s)
      BY <2>2 DEF EnsureMiss
    <3> QED
      BY <2>2, <3>1, <1>type DEF EnsureMiss
  <2> QED
    BY <1>1, <2>1, <2>2
<1>2. CASE Backfill(t)
  BY <1>2, <1>type DEF Backfill, PersistMetadata, Present, Tarball
<1>3. CASE BlobHit(t)
  BY <1>3, <1>type DEF BlobHit
<1>4. CASE BlobMiss(t)
  BY <1>4, <1>type DEF BlobMiss
<1>5. ASSUME NEW d \in Tarball, DownloadOk(t, d) PROVE EInv'
  BY <1>5, <1>type DEF DownloadOk
<1>6. CASE DownloadFail(t)
  BY <1>6, <1>type DEF DownloadFail
<1>7. CASE CheckExists(t)
  BY <1>7, <1>type DEF CheckExists
<1>8. CASE MakeDir(t)
  BY <1>8, <1>type DEF MakeDir
<1>9. ASSUME NEW f \in File, Unpack(t, f) PROVE EInv'
  <2> USE <1>9, <1>type, <1>alone DEF Unpack
  <2>1. /\ \A p \in Package \ {pkg[t]} : tree'[p] = tree[p]
        /\ \A g \in File : tree'[pkg[t]][g] = IF g = f THEN data[t]
                                              ELSE tree[pkg[t]][g]
    BY DEF Tree
  <2>2. Accepts(pkg[t], data[t])
    BY DEF VInv, DataVerified, Fetched
  <2>3. Ownership' /\ MarkerTracked' /\ StagedUnpacking' /\ StagedWhole'
          /\ ShapeTracked'
    OBVIOUS
  <2>4. Unpacking'
    BY <2>1
  <2>5. ReadyToMark'
    BY <2>1, <2>2 DEF Accepts
  <2>6. MarkedWhole'
    BY <2>1 DEF Accepts
  <2> QED
    BY <2>3, <2>4, <2>5, <2>6
<1>10. ASSUME NEW f \in File, UnpackStaged(t, f) PROVE EInv'
  <2> USE <1>10, <1>type DEF UnpackStaged
  <2>1. /\ \A u \in Task \ {t} : staged'[u] = staged[u]
        /\ \A g \in File : staged'[t][g] = IF g = f THEN data[t]
                                            ELSE staged[t][g]
    BY DEF Tree
  <2>2. StagedUnpacking' /\ StagedWhole'
    BY <2>1
  <2>3. /\ Ownership' /\ MarkerTracked' /\ Unpacking'
        /\ ReadyToMark' /\ MarkedWhole' /\ ShapeTracked'
    BY DEF Accepts
  <2> QED
    BY <2>2, <2>3
<1>11. CASE UnpackFail(t)
  BY <1>11, <1>type DEF UnpackFail
<1>12. CASE WipeEnd(t)
  BY <1>12, <1>type, <1>alone DEF WipeEnd, RemoveDir, Vacant
<1>13. CASE Stage(t)
  BY <1>13, <1>type DEF Stage
<1>14. CASE StagedFail(t)
  BY <1>14, <1>type DEF StagedFail
<1>15. CASE Rename(t)
  <2> USE <1>15, <1>type, <1>alone DEF Rename
  <2>1. CASE RenameOk(t)
    <3> USE <2>1 DEF RenameOk
    <3>1. Accepts(pkg[t], data[t])
      BY DEF VInv, DataVerified, Fetched
    <3>2. /\ Ownership' /\ MarkerTracked' /\ StagedUnpacking' /\ StagedWhole'
          /\ ShapeTracked' /\ Unpacking'
      OBVIOUS
    <3>3. ReadyToMark'
      BY <3>1 DEF Accepts
    <3>4. MarkedWhole'
      BY DEF Accepts
    <3> QED
      BY <3>2, <3>3, <3>4
  <2>2. CASE ~RenameOk(t)
    BY <2>2
  <2> QED
    BY <2>1, <2>2
<1>16. CASE Recheck(t)
  BY <1>16, <1>type DEF Recheck
<1>17. CASE ClearEnd(t)
  BY <1>17, <1>type, <1>alone DEF ClearEnd, RemoveDir, Vacant
<1>18. CASE RenameAgain(t)
  <2> USE <1>18, <1>type, <1>alone DEF RenameAgain
  <2>1. CASE RenameOk(t)
    <3> USE <2>1 DEF RenameOk
    <3>1. Accepts(pkg[t], data[t])
      BY DEF VInv, DataVerified, Fetched
    <3>2. /\ Ownership' /\ MarkerTracked' /\ StagedUnpacking' /\ StagedWhole'
          /\ ShapeTracked' /\ Unpacking'
      OBVIOUS
    <3>3. ReadyToMark'
      BY <3>1 DEF Accepts
    <3>4. MarkedWhole'
      BY DEF Accepts
    <3> QED
      BY <3>2, <3>3, <3>4
  <2>2. CASE ~RenameOk(t)
    <3>1. Goto(t, "failed") /\ UNCHANGED <<disk, blob, pkg, data, todo, target>>
            /\ staged' = [staged EXCEPT ![t] = Empty]
      BY <2>2
    <3>2. Ownership' /\ MarkerTracked' /\ Unpacking' /\ ReadyToMark'
      BY <3>1 DEF Accepts
    <3>3. StagedUnpacking' /\ StagedWhole'
      BY <3>1
    <3>4. MarkedWhole' /\ ShapeTracked'
      BY <3>1 DEF Accepts
    <3> QED
      BY <3>2, <3>3, <3>4
  <2> QED
    BY <2>1, <2>2
<1>19. CASE Mark(t)
  BY <1>19, <1>type, <1>alone DEF Mark
<1>20. CASE Persist(t)
  BY <1>20, <1>type DEF Persist, PersistMetadata, Present, Tarball
<1>21. CASE Acquire(t)
  <2>1. CASE AcquireDownload(t)
    BY <2>1, <1>type DEF AcquireDownload
  <2>2. CASE AcquireExtract(t)
    BY <2>2, <1>type DEF AcquireExtract
  <2> QED
    BY <1>21, <2>1, <2>2 DEF Acquire
<1>22. CASE WipeEntry(t) \/ ClearEntry(t)
  <2> USE <1>22, <1>type, <1>alone DEF WipeEntry, ClearEntry
  <2>1. /\ \A p \in Package \ {pkg[t]} :
              tree'[p] = tree[p] /\ shape'[p] = shape[p]
        /\ shape'[pkg[t]] = {}
        /\ UNCHANGED <<dirs, marked>>
    BY DEF RemoveEntry, Tree
  <2> QED
    BY <2>1 DEF Accepts
<1>23. CASE Release(t)
  BY <1>23, <1>type DEF Release
<1> QED
  BY <1>1, <1>2, <1>3, <1>4, <1>5, <1>6, <1>7, <1>8, <1>9, <1>10, <1>11,
     <1>12, <1>13, <1>14, <1>15, <1>16, <1>17, <1>18, <1>19, <1>20, <1>21,
     <1>22, <1>23
  DEF Ensure, Work

LEMMA EEnv ==
    ASSUME Exclusive, EInv, VInv',
           (\E q \in Process : Crash(q)) \/ (\E r \in Pruner : Prune(r))
    PROVE  EInv'
<1>1. PICK q \in Process : Crash(q)
  BY DEF Exclusive
<1> QED
  BY <1>1, StoreAssumption
  DEF Crash, EInv, VInv, TypeOK, Ownership, MarkerTracked, Unpacking,
      StagedUnpacking, StagedWhole, ReadyToMark, MarkedWhole, ShapeTracked,
      Busy, Extracting, disk, Accepts

LEMMA ENext == Exclusive /\ EInv /\ [Next]_vars => EInv'
<1> SUFFICES ASSUME Exclusive, EInv, [Next]_vars PROVE EInv'
  OBVIOUS
<1>1. VInv'
  BY VNext DEF EInv
<1>2. CASE UNCHANGED vars
  BY <1>1, <1>2 DEF vars, EInv, Ownership, MarkerTracked, Unpacking,
     StagedUnpacking, StagedWhole, ReadyToMark, MarkedWhole, ShapeTracked, Busy
<1>3. CASE Next
  BY <1>1, <1>3, ETask, EEnv DEF Next
<1> QED
  BY <1>2, <1>3

LEMMA EInvariant == ASSUME Exclusive PROVE Spec => []EInv
<1>1. EInv /\ [Next]_vars => EInv'
  BY ENext
<1> QED
  BY <1>1, EInit, PTL DEF Spec

LEMMA MarkedTree ==
    ASSUME EInv, NEW p \in marked PROVE Complete(p)
<1> USE DEF EInv, VInv, TypeOK
<1>1. p \in Package
  OBVIOUS
<1>2. PICK d \in Tarball : (\A f \in File : tree[p][f] = d) /\ Accepts(p, d)
  BY DEF MarkedWhole
<1>3. tree[p] = [f \in File |-> d]
  BY <1>1, <1>2 DEF Tree
<1> QED
  BY <1>2, <1>3 DEF MarkedWhole, Complete

\* With exclusive tasks a marker means a complete package, whenever and
\* however often tasks fail and processes die.
THEOREM StoreMarkedComplete ==
    ASSUME Exclusive PROVE Spec => []MarkedComplete
<1>1. EInv => MarkedComplete
  BY MarkedTree DEF MarkedComplete
<1> QED
  BY <1>1, EInvariant, PTL

\* With exclusive tasks the metadata the linker trusts lists every file.
THEOREM StoreShapeAccurate ==
    ASSUME Exclusive PROVE Spec => []ShapeAccurate
<1>1. EInv => ShapeAccurate
  BY DEF EInv, ShapeTracked, ShapeAccurate
<1> QED
  BY <1>1, EInvariant, PTL

\* With exclusive tasks a path that ensure_package returned stays good for as
\* long as its caller uses it.
THEOREM StoreHeldIntact ==
    ASSUME Exclusive PROVE Spec => []HeldIntact
<1>1. EInv => HeldIntact
  BY MarkedTree DEF EInv, MarkerTracked, HeldIntact
<1> QED
  BY <1>1, EInvariant, PTL

-----------------------------------------------------------------------------
(* Refinement: Store implements StoreSpec. *)

LEMMA PromiseInit == Init => Promise!Init
  BY DEF Init, Promise!Init, Promise!Absent, Published, Empty

\* Every step but Mark leaves the set of marked packages and their trees alone.
LEMMA QuietStep ==
    ASSUME Exclusive, EInv, [Next]_vars, ~ \E t \in Task : Mark(t)
    PROVE  marked' = marked /\ \A p \in marked : tree'[p] = tree[p]
<1> USE DEF EInv, VInv, MarkerTracked, Busy, Extracting, disk, local
<1>type. TypeOK
  OBVIOUS
<1>1. CASE UNCHANGED vars
  BY <1>1 DEF vars
<1>2. ASSUME NEW q \in Process, Crash(q)
      PROVE  marked' = marked /\ \A p \in marked : tree'[p] = tree[p]
  BY <1>2 DEF Crash
<1>3. ASSUME NEW t \in Task, Ensure(t) \/ Acquire(t) \/ Release(t)
      PROVE  marked' = marked /\ \A p \in marked : tree'[p] = tree[p]
  BY <1>3 DEF Ensure, EnsureHit, EnsureMiss, Acquire, AcquireDownload,
              AcquireExtract, Release
<1>4. ASSUME NEW t \in Task, WipeEntry(t) \/ ClearEntry(t)
      PROVE  marked' = marked /\ \A p \in marked : tree'[p] = tree[p]
  BY <1>4, <1>type DEF WipeEntry, ClearEntry, RemoveEntry, TypeOK
<1>5. ASSUME NEW t \in Task, Work(t)
      PROVE  marked' = marked /\ \A p \in marked : tree'[p] = tree[p]
  <2>1. ASSUME NEW f \in File, Unpack(t, f)
        PROVE  marked' = marked /\ \A p \in marked : tree'[p] = tree[p]
    BY <2>1, <1>type DEF Unpack, TypeOK
  <2>2. CASE Rename(t) \/ RenameAgain(t)
    BY <2>2, <1>type DEF Rename, RenameAgain, RenameOk, Vacant, TypeOK
  <2> QED
    BY <1>5, <2>1, <2>2
    DEF Work, Backfill, BlobHit, BlobMiss, DownloadOk, DownloadFail,
        CheckExists, MakeDir, UnpackStaged, UnpackFail, WipeEnd, ClearEnd,
        RemoveDir, Stage, StagedFail, Recheck, Persist
<1> QED
  BY <1>1, <1>2, <1>3, <1>4, <1>5 DEF Next, Exclusive

LEMMA PromiseStep ==
    Exclusive /\ EInv /\ [Next]_vars => [Promise!Next]_Published
<1> SUFFICES ASSUME Exclusive, EInv, [Next]_vars
             PROVE  [Promise!Next]_Published
  OBVIOUS
<1>type. TypeOK
  BY DEF EInv, VInv
<1>1. CASE ~ \E t \in Task : Mark(t)
  <2>1. marked' = marked /\ \A p \in marked : tree'[p] = tree[p]
    BY <1>1, QuietStep
  <2> QED
    BY <2>1 DEF Published
<1>2. ASSUME NEW t \in Task, Mark(t) PROVE [Promise!Next]_Published
  <2> USE <1>2, <1>type
  <2> DEFINE p == pkg[t]
             whole == [f \in File |-> data[t]]
  <2>1. p \in Package /\ tree[p] = whole /\ p \notin marked
        /\ Accepts(p, data[t]) /\ data[t] \in Tarball
    BY DEF EInv, TypeOK, Tree, Mark, ReadyToMark, MarkerTracked, Busy
  <2>2. CASE UNCHANGED marked
    BY <2>2 DEF Mark, Published
  <2>3. CASE marked' = marked \cup {p}
    <3>1. Published[p] = Promise!Absent
      BY <2>1 DEF Published, Promise!Absent, Empty
    <3>2. data[t] \in Promise!Publishable(p)
      BY <2>1 DEF Promise!Publishable, Accepts, Tarball
    <3>3. Published' = [Published EXCEPT ![p] = whole]
      BY <2>1, <2>3 DEF Mark, Published
    <3> QED
      BY <2>1, <3>1, <3>2, <3>3 DEF Promise!Next, Promise!Publish
  <2> QED
    BY <2>2, <2>3 DEF Mark
<1> QED
  BY <1>1, <1>2

\* With exclusive tasks the store implements its promise: a package appears
\* in one step, whole and verified, and is never changed again.
THEOREM StoreKeepsPromise ==
    ASSUME Exclusive PROVE Spec => KeepsPromise
<1>1. EInv /\ [Next]_vars => [Promise!Next]_Published
  BY PromiseStep
<1> QED
  BY <1>1, PromiseInit, EInvariant, PTL DEF Spec, KeepsPromise, Promise!Spec

\* With exclusive tasks a package directory tells the truth about itself: marker,
\* files and metadata agree.
THEOREM StoreMarkerSound ==
    ASSUME Exclusive PROVE Spec => []MarkerSound
<1>1. TypeOK /\ MarkedComplete /\ ShapeAccurate => MarkerSound
  BY DEF MarkerSound
<1> QED
  BY <1>1, StoreTypeCorrect, StoreMarkedComplete, StoreShapeAccurate, PTL

\* Nothing unverified is kept, whoever shares the store.
THEOREM StoreVerifiedOnly == Spec => []VerifiedOnly
<1>1. BlobVerified /\ OnlyVerifiedFiles => VerifiedOnly
  BY DEF VerifiedOnly
<1> QED
  BY <1>1, StoreBlobVerified, StoreOnlyVerifiedFiles, PTL

=============================================================================
