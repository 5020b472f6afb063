-------------------------- MODULE VirtualStoreProofs --------------------------
(***************************************************************************)
(* Proofs about VirtualStore, for any number of projects, packages, graphs *)
(* and installs.                                                           *)
(***************************************************************************)
EXTENDS VirtualStore, TLAPS

-----------------------------------------------------------------------------
(* Types *)

LEMMA LocationType ==
    ASSUME NEW g \in Graph, NEW p \in Package
    PROVE  Slot[g][p] \in Shared /\ Slot[g][p] \in Location
  BY DEF Shared, Location

LEMMA UsesType ==
    ASSUME NEW g \in Graph, NEW p \in Package, NEW n \in Name
    PROVE  Uses(g, p, n) \in Package \cup {NONE}
  BY VirtualStoreAssumption DEF Uses

LEMMA TaskType ==
    ASSUME TypeOK, NEW t \in View
    PROVE  /\ t[1] \in Project /\ t[2] \in Package /\ t \in Location
           /\ GraphOf(t) \in Graph
           /\ SlotOf(t) \in Shared /\ SlotOf(t) \in Location
           /\ Place(t) \in Location
<1>1. t[1] \in Project /\ t[2] \in Package /\ t \in Location
  BY DEF View, Location
<1>2. GraphOf(t) \in Graph
  BY <1>1 DEF TypeOK, GraphOf, Job
<1>3. SlotOf(t) \in Shared /\ SlotOf(t) \in Location
  BY <1>1, <1>2, LocationType DEF SlotOf
<1> QED
  BY <1>1, <1>2, <1>3 DEF Place

LEMMA WantedType ==
    ASSUME TypeOK, NEW t \in View
    PROVE  Wanted(t) \in Links
<1>1. t[1] \in Project /\ t[2] \in Package /\ GraphOf(t) \in Graph
  BY TaskType
<1>2. \A d \in Package : Slot[GraphOf(t)][d] \in Location /\ <<t[1], d>> \in Location
  BY <1>1, LocationType DEF Location, View
<1>3. \A n \in Name : Uses(GraphOf(t), t[2], n) \in Package \cup {NONE}
  BY <1>1, UsesType
<1>4. \A n \in Name : Deps[GraphOf(t)][t[2]][n] \in Package \cup {NONE}
  BY <1>1, VirtualStoreAssumption
<1> QED
  BY <1>2, <1>3, <1>4 DEF Wanted, Links


LEMMA EntryTypes ==
    /\ Absent \in Entry
    /\ \A F \in SUBSET File : Dir(F) \in Entry
    /\ \A l \in Shared : Link(l) \in Entry
<1>1. NONE \notin Shared
  BY VirtualStoreAssumption DEF Location
<1> QED
  BY <1>1 DEF Absent, Dir, Link, Entry

\* What happens to the files of an entry
LEMMA FilesType ==
    ASSUME TypeOK, NEW l \in Location, NEW f \in File
    PROVE  /\ [at EXCEPT ![l].files = @ \ {f}, ![l].good = @ \ {f}]
                 \in [Location -> Entry]
           /\ [at EXCEPT ![l].files = @ \cup {f}, ![l].good = @ \cup {f}]
                 \in [Location -> Entry]
           /\ [at EXCEPT ![l].good = {}] \in [Location -> Entry]
<1>1. at \in [Location -> Entry] /\ at[l] \in Entry
  BY DEF TypeOK
<1>2. [at[l] EXCEPT !.files = at[l].files \ {f}, !.good = at[l].good \ {f}] \in Entry
  BY <1>1 DEF Entry
<1>3. [at[l] EXCEPT !.files = at[l].files \cup {f}, !.good = at[l].good \cup {f}] \in Entry
  BY <1>1 DEF Entry
<1>4. [at[l] EXCEPT !.good = {}] \in Entry
  BY <1>1 DEF Entry
<1> QED
  BY <1>1, <1>2, <1>3, <1>4

LEMMA TouchType ==
    ASSUME TypeOK, NEW l \in Location, NEW n, Touch(l, n)
    PROVE  gate' \in [Location -> Gate]
<1>1. gate \in [Location -> Gate] /\ gate[l] \in Gate
  BY DEF TypeOK
<1>2. [gate[l] EXCEPT !.current = gate[l].current /\ n \in Scoped] \in Gate
  BY <1>1 DEF Gate
<1> QED
  BY <1>1, <1>2 DEF Touch

LEMMA LinkType ==
    ASSUME TypeOK, NEW l \in Location, NEW n \in Name,
           NEW to \in Location \cup {NONE}
    PROVE  [dep EXCEPT ![l][n] = to] \in [Location -> Links]
<1>1. dep \in [Location -> Links] /\ dep[l] \in Links
  BY DEF TypeOK
<1>2. [dep[l] EXCEPT ![n] = to] \in Links
  BY <1>1 DEF Links
<1> QED
  BY <1>1, <1>2

LEMMA TypeInit == Init => TypeOK
<1> SUFFICES ASSUME Init PROVE TypeOK
  OBVIOUS
<1>1. NoLinks \in Links /\ NoGate \in Gate
  BY DEF NoLinks, NoGate, Links, Gate
<1>2. (CHOOSE g \in Graph : TRUE) \in Graph
  BY VirtualStoreAssumption
<1> QED
  BY <1>1, <1>2, EntryTypes, VirtualStoreAssumption DEF Init, TypeOK, Job, PC


LEMMA GotoType ==
    ASSUME TypeOK, NEW t \in View, NEW to \in PC, Goto(t, to)
    PROVE  pc' \in [View -> PC]
  BY DEF TypeOK, Goto

LEMMA TypeTask ==
    ASSUME TypeOK, NEW t \in View, Step(t)
    PROVE  TypeOK'
<1> DEFINE l == Place(t)
<1>t. /\ t[1] \in Project /\ t[2] \in Package /\ t \in Location
      /\ SlotOf(t) \in Shared /\ SlotOf(t) \in Location /\ l \in Location
  BY TaskType
<1>w. Wanted(t) \in Links
  BY WantedType
<1>c. Content[t[2]] \in SUBSET File /\ MaxFaults \in Nat /\ NONE \notin Name
  BY <1>t, VirtualStoreAssumption
<1>e. at \in [Location -> Entry] /\ gate \in [Location -> Gate] /\ dep \in [Location -> Links]
  BY DEF TypeOK
<1>1. CASE CheckReady(t)
  BY <1>1, GotoType DEF CheckReady, TypeOK, Unchanged, PC
<1>2. CASE Look(t)
  BY <1>2, GotoType DEF Look, TypeOK, Unchanged, PC
<1>3. CASE Clear(t)
  <2>1. ASSUME NEW f \in at[l].files,
               at' = [at EXCEPT ![l].files = @ \ {f}, ![l].good = @ \ {f}],
               UNCHANGED <<gate, pc>>
        PROVE  TypeOK'
    <3>1. f \in File
      BY <1>t, <1>e DEF Entry
    <3>2. at' \in [Location -> Entry]
      BY <2>1, <3>1, <1>t, FilesType
    <3> QED
      BY <1>3, <2>1, <3>2 DEF Clear, Unchanged, TypeOK
  <2>2. ASSUME at' = [at EXCEPT ![l] = Absent], Touch(l, t[2]),
               Goto(t, IF InShared(t) THEN "stage" ELSE "fill")
        PROVE  TypeOK'
    <3>1. at' \in [Location -> Entry]
      BY <2>2, <1>t, <1>e, EntryTypes
    <3>2. gate' \in [Location -> Gate] /\ pc' \in [View -> PC]
      BY <2>2, <1>t, TouchType, GotoType DEF PC
    <3> QED
      BY <1>3, <3>1, <3>2 DEF Clear, Unchanged, TypeOK
  <2> QED
    BY <1>3, <2>1, <2>2 DEF Clear
<1>4. ASSUME NEW f \in File, StageFile(t, f) PROVE TypeOK'
  <2>1. gate' \in [Location -> Gate]
    BY <1>4, <1>t, <1>e, TouchType DEF StageFile
  <2> QED
    BY <1>4, <2>1 DEF StageFile, TypeOK, Unchanged
<1>5. CASE StageFail(t)
  <2>1. gate' \in [Location -> Gate] /\ pc' \in [View -> PC]
    BY <1>5, <1>t, TouchType, GotoType DEF StageFail, PC
  <2> QED
    <3>1. faults' \in 0 .. MaxFaults
      BY <1>5, <1>c DEF StageFail, Fault, TypeOK
    <3> QED
      BY <1>5, <2>1, <3>1 DEF StageFail, TypeOK, Unchanged
<1>6. CASE Rename(t)
  <2>1. gate' \in [Location -> Gate] /\ pc' \in [View -> PC]
    BY <1>6, <1>t, TouchType, GotoType DEF Rename, PC
  <2>2. Dir(staged[t]) \in Entry
    BY EntryTypes DEF TypeOK
  <2>3. at' = at \/ at' = [at EXCEPT ![SlotOf(t)] = Dir(staged[t])]
    BY <1>6 DEF Rename
  <2>4. at' \in [Location -> Entry]
    BY <2>2, <2>3, <1>t, <1>e
  <2> QED
    BY <1>6, <2>1, <2>4 DEF Rename, TypeOK, Unchanged
<1>7. CASE Recheck(t)
  BY <1>7, GotoType DEF Recheck, TypeOK, Unchanged, PC
<1>8. CASE Wire(t)
  <2>1. NoGate \in Gate
    BY DEF NoGate, Gate, NoLinks, Links
  <2>2. gate' \in [Location -> Gate] /\ pc' \in [View -> PC]
    BY <1>8, <1>t, <1>e, <2>1, GotoType DEF Wire, PC
  <2> QED
    BY <1>8, <2>2 DEF Wire, TypeOK, Unchanged
<1>9. ASSUME NEW n \in Name, Inspect(t, n) PROVE TypeOK'
  <2>1. gate' \in [Location -> Gate]
    BY <1>9, <1>t, <1>e, TouchType DEF Inspect
  <2>2. dep' = dep \/ dep' = [dep EXCEPT ![l][n] = NONE]
    BY <1>9 DEF Inspect
  <2>3. dep' \in [Location -> Links]
    <3>1. [dep EXCEPT ![l][n] = NONE] \in [Location -> Links]
      BY <1>t, LinkType
    <3> QED
      BY <2>2, <3>1, <1>e
  <2>4. making' = making \/ making' = [making EXCEPT ![t] = n]
    BY <1>9 DEF Inspect
  <2>5. making' \in [View -> Name \cup {NONE}]
    BY <2>4 DEF TypeOK
  <2> QED
    BY <1>9, <2>1, <2>3, <2>5 DEF Inspect, TypeOK, Unchanged
<1>10. CASE Make(t)
  <2> DEFINE n == making[t]
             x == dep[l][n]
  <2>1. n \in Name
    BY <1>10 DEF Make, TypeOK
  <2>2. gate' \in [Location -> Gate]
    BY <1>10, <1>t, <1>e, TouchType DEF Make
  <2>3. Wanted(t)[n] \in Location \cup {NONE} /\ x \in Location \cup {NONE}
    BY <2>1, <1>w, <1>t, <1>e DEF Links
  <2>4. CASE x = NONE
    <3>1. dep' = [dep EXCEPT ![l][n] = Wanted(t)[n]] /\ UNCHANGED at
      BY <2>4, <1>10 DEF Make
    <3>2. dep' \in [Location -> Links]
      BY <3>1, <2>1, <2>3, <1>t, LinkType
    <3> QED
      BY <1>10, <2>2, <3>1, <3>2 DEF Make, TypeOK, Unchanged
  <2>5. CASE x # NONE
    <3>1. at' = [at EXCEPT ![x].good = {}] /\ UNCHANGED dep
      BY <2>5, <1>10 DEF Make
    <3>2. at[x] \in Entry
      BY <2>3, <2>5, <1>e
    <3>3. [at[x] EXCEPT !.good = {}] \in Entry
      BY <3>2 DEF Entry
    <3>4. at' \in [Location -> Entry]
      BY <3>1, <3>3, <2>3, <2>5, <1>e
    <3> QED
      BY <1>10, <2>2, <3>1, <3>4 DEF Make, TypeOK, Unchanged
  <2> QED
    BY <2>4, <2>5
<1>11. CASE WireFail(t)
  BY <1>11, <1>c, GotoType DEF WireFail, TypeOK, Unchanged, Fault, PC
<1>12. CASE WriteState(t)
  <2>1. gate' \in [Location -> Gate]
    BY <1>12, <1>t, <1>e, <1>w DEF WriteState, Gate
  <2> QED
    BY <1>12, <2>1, GotoType DEF WriteState, TypeOK, Unchanged, PC
<1>13. CASE CheckView(t)
  BY <1>13, GotoType DEF CheckView, TypeOK, Unchanged, PC
<1>14. CASE LinkView(t)
  <2>1. gate' \in [Location -> Gate] /\ pc' \in [View -> PC]
    BY <1>14, <1>t, TouchType, GotoType DEF LinkView, PC
  <2>2. at' \in [Location -> Entry]
    BY <1>14, <1>t, <1>e, EntryTypes DEF LinkView
  <2> QED
    BY <1>14, <2>1, <2>2 DEF LinkView, TypeOK, Unchanged
<1>15. CASE FillView(t)
  <2>1. gate' \in [Location -> Gate] /\ pc' \in [View -> PC]
    BY <1>15, <1>t, <1>e, TouchType, GotoType DEF FillView, PC, TypeOK
  <2>2. ASSUME NEW f \in Content[t[2]] \ at[t].files,
               at' = [at EXCEPT ![t].files = @ \cup {f}, ![t].good = @ \cup {f}]
        PROVE  at' \in [Location -> Entry]
    <3>1. f \in File
      BY <1>c
    <3> QED
      BY <2>2, <3>1, <1>t, FilesType
  <2>3. \/ at' = at \/ at' = [at EXCEPT ![t] = Dir({})]
        \/ \E f \in Content[t[2]] \ at[t].files :
              at' = [at EXCEPT ![t].files = @ \cup {f}, ![t].good = @ \cup {f}]
    BY <1>15 DEF FillView
  <2>4. at' \in [Location -> Entry]
    <3>1. Dir({}) \in Entry
      BY EntryTypes
    <3>2. CASE at' = [at EXCEPT ![t] = Dir({})]
      BY <1>t, <1>e, <3>1, <3>2
    <3> QED
      BY <1>e, <2>2, <2>3, <3>2
  <2> QED
    BY <1>15, <2>1, <2>4 DEF FillView, TypeOK, Unchanged
<1>16. CASE FillFail(t)
  BY <1>16, <1>c, GotoType DEF FillFail, TypeOK, Unchanged, Fault, PC
<1> QED
  BY <1>1, <1>2, <1>3, <1>4, <1>5, <1>6, <1>7, <1>8, <1>9, <1>10, <1>11, <1>12,
     <1>13, <1>14, <1>15, <1>16 DEF Step

LEMMA StartType ==
    ASSUME TypeOK, NEW i \in Project, NEW S
    PROVE  Start(i, S) \in [View -> PC]
  BY DEF TypeOK, Start, PC

LEMMA PhaseType ==
    ASSUME TypeOK, NEW i \in Project,
           NEW to \in {"idle", "shared", "view", "done", "failed"}
    PROVE  [job EXCEPT ![i].phase = to] \in [Project -> Job]
<1>1. job \in [Project -> Job] /\ job[i] \in Job
  BY DEF TypeOK
<1>2. [job[i] EXCEPT !.phase = to] \in Job
  BY <1>1 DEF Job
<1> QED
  BY <1>1, <1>2

LEMMA BinsType ==
    ASSUME TypeOK, NEW i \in Project, NEW S \in SUBSET Package, LinkBins(i, S)
    PROVE  bins' \subseteq Location /\ gate' \in [Location -> Gate]
<1>1. \A p \in Package : Place(<<i, p>>) \in Location
  BY TaskType DEF View
<1>2. \A l \in Location : [gate[l] EXCEPT !.current = FALSE] \in Gate
  BY DEF TypeOK, Gate
<1>3. bins' \subseteq Location
  <2>1. bins \subseteq Location
    BY DEF TypeOK
  <2>2. PICK T \in SUBSET Package : bins' = bins \cup {Place(<<i, p>>) : p \in T}
    BY DEF LinkBins
  <2> QED
    BY <1>1, <2>1, <2>2
<1>4. \A l \in Location : gate[l] \in Gate
  BY DEF TypeOK
<1>5. gate' \in [Location -> Gate]
  BY <1>2, <1>4 DEF LinkBins
<1> QED
  BY <1>3, <1>5

LEMMA TypeNext == TypeOK /\ [Next]_vars => TypeOK'
<1> SUFFICES ASSUME TypeOK, [Next]_vars PROVE TypeOK'
  OBVIOUS
<1> USE VirtualStoreAssumption
<1>1. CASE UNCHANGED vars
  BY <1>1 DEF vars, taskVars, TypeOK
<1>2. ASSUME NEW t \in View, Step(t) PROVE TypeOK'
  BY <1>2, TypeTask
<1>3. ASSUME NEW i \in Project, NEW g \in Graph, NEW unsafe \in Unsafe,
             Begin(i, g, unsafe)
      PROVE  TypeOK'
  <2>1. LocalIds(g, unsafe) \in SUBSET Package
    BY DEF LocalIds
  <2>2. job' \in [Project -> Job]
    BY <1>3, <2>1 DEF Begin, TypeOK, Job
  <2>3. raced' \subseteq Shared
    BY <1>3, LocationType DEF Begin, TypeOK, Entries
  <2> QED
    BY <1>3, <2>2, <2>3, StartType DEF Begin, TypeOK
<1>4. ASSUME NEW i \in Project, EndShared(i) PROVE TypeOK'
  <2>1. bins' \subseteq Location /\ gate' \in [Location -> Gate]
    <3>1. Packages[job[i].graph] \ job[i].local \in SUBSET Package
      BY DEF TypeOK, Job
    <3> QED
      BY <1>4, <3>1, BinsType DEF EndShared
  <2> QED
    <3>1. job' \in [Project -> Job] /\ pc' \in [View -> PC]
      BY <1>4, PhaseType, StartType DEF EndShared
    <3> QED
      BY <1>4, <2>1, <3>1 DEF EndShared, TypeOK
<1>5. ASSUME NEW i \in Project, EndView(i) PROVE TypeOK'
  <2>1. bins' \subseteq Location /\ gate' \in [Location -> Gate]
    <3>1. job[i].local \in SUBSET Package
      BY DEF TypeOK, Job
    <3> QED
      BY <1>5, <3>1, BinsType DEF EndView
  <2> QED
    BY <1>5, <2>1, PhaseType DEF EndView, TypeOK, taskVars
<1>6. ASSUME NEW i \in Project, Fail(i) PROVE TypeOK'
  BY <1>6, PhaseType DEF Fail, TypeOK, taskVars
<1>7. ASSUME NEW i \in Project, Crash(i) PROVE TypeOK'
  <2>1. job' \in [Project -> Job] /\ pc' \in [View -> PC]
    BY <1>7, StartType, PhaseType DEF Crash
  <2>2. faults' \in 0 .. MaxFaults
    BY <1>7 DEF Crash, Fault, TypeOK
  <2>3. /\ staged' \in [View -> SUBSET File]
        /\ todo' \in [View -> SUBSET Name]
        /\ making' \in [View -> Name \cup {NONE}]
    BY <1>7 DEF Crash, TypeOK
  <2> QED
    BY <1>7, <2>1, <2>2, <2>3 DEF Crash, TypeOK
<1> QED
  BY <1>1, <1>2, <1>3, <1>4, <1>5, <1>6, <1>7 DEF Next

\* Type correctness: links lead to locations, entries are what Entry says, and
\* the bounds hold, through every interleaving of tasks, failures and kills.
THEOREM VirtualStoreTypeOK == Spec => []TypeOK
  BY TypeInit, TypeNext, PTL DEF Spec

-----------------------------------------------------------------------------
(* Shared entries are whole.                                               *)
(*                                                                         *)
(* SharedWhole rests on who may change an entry: of the tasks that are     *)
(* about an entry that is not raced there is only one, so that what it     *)
(* found when it looked is still so when it acts.                          *)

Working(t) == pc[t] \notin {"off", "ok", "err"}

\* Tasks work in running installs, on packages of the phase; and what a shared
\* package uses is shared.
JobInv ==
    /\ \A t \in View :
          /\ Working(t) => job[t[1]].phase \in {"shared", "view"}
          /\ InShared(t) /\ pc[t] # "off" =>
                t[2] \in Packages[GraphOf(t)] \ job[t[1]].local
          /\ pc[t] \in {"look", "stage", "recheck"} => InShared(t)
          /\ pc[t] = "fill" => ~InShared(t)
          /\ making[t] # NONE => pc[t] = "links"
    /\ \A i \in Project : \A p \in Packages[job[i].graph] \ job[i].local, n \in Name :
          Uses(job[i].graph, p, n) # NONE =>
              Uses(job[i].graph, p, n) \in Packages[job[i].graph] \ job[i].local

\* Two installs that are about the same entry have raced, on the entry and on
\* all that it uses.
RaceInv ==
    /\ \A i, j \in Project :
          i # j /\ job[i].phase = "shared" /\ job[j].phase = "shared" =>
              Entries(job[i].graph, job[i].local)
                \cap Entries(job[j].graph, job[j].local) \subseteq raced
    /\ \A g \in Graph : \A p \in Packages[g], n \in Name :
          Slot[g][p] \in raced /\ Uses(g, p, n) # NONE =>
              Slot[g][Uses(g, p, n)] \in raced

\* A link of a shared entry leads where every graph that has the entry wants
\* it, and is not there while the task that owns the entry makes it.
LinkInv ==
    /\ \A g \in Graph : \A p \in Packages[g], n \in Name :
          dep[Slot[g][p]][n] # NONE =>
              Uses(g, p, n) # NONE /\ dep[Slot[g][p]][n] = Slot[g][Uses(g, p, n)]
    /\ \A t \in View :
          making[t] # NONE /\ Place(t) \notin raced => dep[Place(t)][making[t]] = NONE

\* Shared entries are directories; a task that is about to fill one finds it
\* empty; and one with files is whole.
WholeInv ==
    /\ \A l \in Shared : at[l].kind # "link"
    /\ \A t \in View :
          InShared(t) /\ pc[t] \in {"look", "clear", "stage"} /\ SlotOf(t) \notin raced =>
              at[SlotOf(t)].files = {}
    /\ \A g \in Graph : \A p \in Packages[g] :
          Slot[g][p] \notin raced /\ at[Slot[g][p]].files # {} => Whole(p, Slot[g][p])

SharedInv == TypeOK /\ JobInv /\ RaceInv /\ LinkInv /\ WholeInv

\* Where a task works depends on its install only.
LEMMA Frame ==
    ASSUME UNCHANGED job, NEW u \in View
    PROVE  /\ InShared(u)' = InShared(u) /\ GraphOf(u)' = GraphOf(u)
           /\ IsLocal(u)' = IsLocal(u) /\ SlotOf(u)' = SlotOf(u)
           /\ Place(u)' = Place(u) /\ Wanted(u)' = Wanted(u)
  BY DEF InShared, GraphOf, IsLocal, SlotOf, Place, Wanted

LEMMA StepFrame ==
    ASSUME NEW t \in View, Step(t)
    PROVE  UNCHANGED <<job, raced>>
  BY DEF Step, CheckReady, Look, Clear, StageFile, StageFail, Rename, Recheck,
     Wire, Inspect, Make, WireFail, WriteState, CheckView, LinkView, FillView,
     FillFail, Unchanged

\* The task that is about an entry which is not raced is alone there.
LEMMA SamePlace ==
    ASSUME TypeOK, JobInv, RaceInv, NEW t \in View, NEW u \in View,
           pc[t] # "off", pc[u] # "off", Place(t) = Place(u), Place(t) \notin raced
    PROVE  t = u
<1>1. /\ t = <<t[1], t[2]>> /\ u = <<u[1], u[2]>>
      /\ t[1] \in Project /\ u[1] \in Project /\ t[2] \in Package /\ u[2] \in Package
  BY DEF View
<1>2. CASE InShared(t) /\ InShared(u)
  <2>1. SlotOf(t) = SlotOf(u) /\ SlotOf(t) \notin raced
    BY <1>2 DEF Place
  <2>2. t[2] = u[2]
    BY <1>1, <2>1, TaskType, VirtualStoreAssumption DEF SlotOf
  <2>3. /\ SlotOf(t) \in Entries(job[t[1]].graph, job[t[1]].local)
        /\ SlotOf(u) \in Entries(job[u[1]].graph, job[u[1]].local)
    BY <1>2 DEF JobInv, Entries, SlotOf, GraphOf
  <2>4. t[1] = u[1]
    BY <1>1, <1>2, <2>1, <2>3 DEF RaceInv, InShared
  <2> QED
    BY <1>1, <2>2, <2>4
<1>3. CASE ~InShared(t) /\ ~InShared(u)
  BY <1>3 DEF Place
<1>4. SlotOf(t) \notin View /\ SlotOf(u) \notin View
  BY TaskType, VirtualStoreAssumption
<1>5. CASE InShared(t) /\ ~InShared(u)
  BY <1>4, <1>5 DEF Place
<1>6. CASE ~InShared(t) /\ InShared(u)
  BY <1>4, <1>6 DEF Place
<1> QED
  BY <1>2, <1>3, <1>5, <1>6

\* A step of a task leaves the other tasks where they are.
LEMMA StepOthers ==
    ASSUME TypeOK, NEW t \in View, Step(t)
    PROVE  /\ pc[t] # "off"
           /\ \A u \in View : u # t =>
                 pc'[u] = pc[u] /\ making'[u] = making[u] /\ todo'[u] = todo[u]
<1> SUFFICES ASSUME NEW u \in View, u # t
             PROVE  pc'[u] = pc[u] /\ making'[u] = making[u] /\ todo'[u] = todo[u]
  BY DEF Step, CheckReady, Look, Clear, StageFile, StageFail, Rename, Recheck,
     Wire, Inspect, Make, WireFail, WriteState, CheckView, LinkView, FillView,
     FillFail
<1>1. /\ pc \in [View -> PC] /\ making \in [View -> Name \cup {NONE}]
      /\ todo \in [View -> SUBSET Name]
  BY DEF TypeOK
<1>2. pc'[u] = pc[u]
  BY <1>1 DEF Step, CheckReady, Look, Clear, StageFile, StageFail, Rename, Recheck,
     Wire, Inspect, Make, WireFail, WriteState, CheckView, LinkView, FillView,
     FillFail, Goto
<1>3. making'[u] = making[u]
  BY <1>1 DEF Step, CheckReady, Look, Clear, StageFile, StageFail, Rename, Recheck,
     Wire, Inspect, Make, WireFail, WriteState, CheckView, LinkView, FillView,
     FillFail
<1>4. todo'[u] = todo[u]
  BY <1>1 DEF Step, CheckReady, Look, Clear, StageFile, StageFail, Rename, Recheck,
     Wire, Inspect, Make, WireFail, WriteState, CheckView, LinkView, FillView,
     FillFail
<1> QED
  BY <1>2, <1>3, <1>4

LEMMA JobStep ==
    ASSUME TypeOK, JobInv, NEW t \in View, Step(t)
    PROVE  JobInv'
<1>1. job' = job
  BY StepFrame
<1>2. \A u \in View : InShared(u)' = InShared(u) /\ GraphOf(u)' = GraphOf(u)
  BY <1>1, Frame
<1>3. \A u \in View : u # t => pc'[u] = pc[u] /\ making'[u] = making[u]
  BY StepOthers
<1>4. Working(t) /\ pc[t] # "off"
  <2>1. pc[t] \in {"start", "look", "clear", "stage", "recheck", "wire", "links", "fill"}
    BY DEF Step, CheckReady, Look, Clear, StageFile, StageFail, Rename, Recheck,
       Wire, Inspect, Make, WireFail, WriteState, CheckView, LinkView, FillView,
       FillFail
  <2> QED
    BY <2>1 DEF Working
<1>5. /\ pc'[t] \in {"look", "stage", "recheck"} => InShared(t)
      /\ pc'[t] = "fill" => ~InShared(t)
  <2>1. /\ pc[t] \in {"look", "stage", "recheck"} => InShared(t)
        /\ pc[t] = "fill" => ~InShared(t)
        /\ pc \in [View -> PC]
    BY DEF JobInv, TypeOK
  <2>2. pc'[t] \in {"look", "stage", "recheck"} => InShared(t)
    BY <2>1 DEF Step, CheckReady, Look, Clear, StageFile, StageFail, Rename, Recheck,
       Wire, Inspect, Make, WireFail, WriteState, CheckView, LinkView, FillView,
       FillFail, Goto
  <2>3. pc'[t] = "fill" => ~InShared(t)
    BY <2>1 DEF Step, CheckReady, Look, Clear, StageFile, StageFail, Rename, Recheck,
       Wire, Inspect, Make, WireFail, WriteState, CheckView, LinkView, FillView,
       FillFail, Goto
  <2> QED
    BY <2>2, <2>3
<1>6. making'[t] # NONE => pc'[t] = "links"
  BY DEF Step, CheckReady, Look, Clear, StageFile, StageFail, Rename, Recheck,
     Wire, Inspect, Make, WireFail, WriteState, CheckView, LinkView, FillView,
     FillFail, Unchanged, Goto, TypeOK, JobInv
<1>7. \A u \in View :
          /\ Working(u)' => job'[u[1]].phase \in {"shared", "view"}
          /\ InShared(u)' /\ pc'[u] # "off" =>
                u[2] \in Packages[GraphOf(u)'] \ job'[u[1]].local
  BY <1>1, <1>2, <1>3, <1>4 DEF JobInv, Working
<1>8. \A u \in View :
          /\ pc'[u] \in {"look", "stage", "recheck"} => InShared(u)'
          /\ pc'[u] = "fill" => ~InShared(u)'
          /\ making'[u] # NONE => pc'[u] = "links"
  BY <1>2, <1>3, <1>5, <1>6 DEF JobInv
<1> QED
  BY <1>1, <1>7, <1>8 DEF JobInv

\* What a step of a task does to links: nothing, or it removes one that it is
\* going to make, or makes it.
LEMMA StepLinks ==
    ASSUME TypeOK, NEW t \in View, Step(t)
    PROVE  \/ /\ UNCHANGED dep
              /\ making' = making \/ making' = [making EXCEPT ![t] = NONE]
           \/ \E n \in Name :
                 /\ pc[t] = "links" /\ dep' = [dep EXCEPT ![Place(t)][n] = NONE]
                 /\ making' = [making EXCEPT ![t] = n]
           \/ /\ pc[t] = "links" /\ making[t] \in Name
              /\ dep' = [dep EXCEPT ![Place(t)][making[t]] = Wanted(t)[making[t]]]
              /\ making' = [making EXCEPT ![t] = NONE]
<1>1. ASSUME NEW n \in Name, Inspect(t, n)
      PROVE  \/ UNCHANGED <<dep, making>>
             \/ /\ pc[t] = "links" /\ dep' = [dep EXCEPT ![Place(t)][n] = NONE]
                /\ making' = [making EXCEPT ![t] = n]
  BY <1>1 DEF Inspect
<1>2. CASE Make(t)
  BY <1>2 DEF Make, TypeOK
<1>3. CASE WireFail(t)
  BY <1>3 DEF WireFail
<1> QED
  BY <1>1, <1>2, <1>3 DEF Step, CheckReady, Look, Clear, StageFile, StageFail,
     Rename, Recheck, Wire, WriteState, CheckView, LinkView, FillView, FillFail

\* What the task of a shared package wants, every graph with the entry wants.
LEMMA WantedAgree ==
    ASSUME SlotsAgree, TypeOK, JobInv, NEW t \in View, InShared(t), pc[t] # "off",
           NEW g \in Graph, NEW p \in Packages[g], SlotOf(t) = Slot[g][p], NEW n \in Name
    PROVE  Wanted(t)[n] = IF Uses(g, p, n) = NONE THEN NONE
                                                  ELSE Slot[g][Uses(g, p, n)]
<1>1. p \in Package /\ GraphOf(t) \in Graph /\ t[2] \in Package
  BY TaskType, VirtualStoreAssumption
<1>2. p = t[2]
  BY <1>1, VirtualStoreAssumption DEF SlotOf
<1>3. p \in Packages[GraphOf(t)]
  BY <1>2 DEF JobInv
<1>4. Slot[GraphOf(t)][p] = Slot[g][p]
  BY <1>2 DEF SlotOf
<1>5. \/ Uses(GraphOf(t), p, n) = NONE /\ Uses(g, p, n) = NONE
      \/ /\ Uses(GraphOf(t), p, n) # NONE /\ Uses(g, p, n) # NONE
         /\ Slot[GraphOf(t)][Uses(GraphOf(t), p, n)] = Slot[g][Uses(g, p, n)]
  BY <1>1, <1>3, <1>4 DEF SlotsAgree
<1> QED
  BY <1>2, <1>5 DEF Wanted

LEMMA LinkStep ==
    ASSUME SlotsAgree, TypeOK, JobInv, RaceInv, LinkInv, NEW t \in View, Step(t)
    PROVE  LinkInv'
<1> DEFINE l == Place(t)
           k == making[t]
<1>1. /\ job' = job /\ raced' = raced
      /\ \A u \in View : Place(u)' = Place(u)
  BY StepFrame, Frame
<1>2. /\ l \in Location /\ SlotOf(t) \in Shared /\ SlotOf(t) \in Location
      /\ dep \in [Location -> Links] /\ making \in [View -> Name \cup {NONE}]
  BY TaskType DEF TypeOK
<1>3. \A u \in View : Place(u) \in Location
  BY TaskType
<1>4. \A g \in Graph : \A p \in Packages[g] : Slot[g][p] \in Location /\ Slot[g][p] \notin View
  BY LocationType, VirtualStoreAssumption
\* No other task makes a link beside the same entry.
<1>5. ASSUME pc[t] = "links", NEW u \in View, u # t, making[u] # NONE,
             Place(u) \notin raced
      PROVE  Place(u) # l
  BY <1>5, SamePlace DEF JobInv
<1>6. CASE UNCHANGED dep /\ (making' = making \/ making' = [making EXCEPT ![t] = NONE])
  BY <1>1, <1>2, <1>6 DEF LinkInv
<1>7. ASSUME NEW n \in Name, pc[t] = "links", dep' = [dep EXCEPT ![l][n] = NONE],
             making' = [making EXCEPT ![t] = n]
      PROVE  LinkInv'
  <2>1. ASSUME NEW g \in Graph, NEW p \in Packages[g], NEW m \in Name,
               dep'[Slot[g][p]][m] # NONE
        PROVE  Uses(g, p, m) # NONE /\ dep'[Slot[g][p]][m] = Slot[g][Uses(g, p, m)]
    <3>1. dep'[Slot[g][p]][m] = dep[Slot[g][p]][m]
      BY <1>2, <1>4, <1>7, <2>1 DEF Links
    <3> QED
      BY <2>1, <3>1 DEF LinkInv
  <2>2. ASSUME NEW u \in View, making'[u] # NONE, Place(u) \notin raced
        PROVE  dep'[Place(u)][making'[u]] = NONE
    <3>1. CASE u = t
      BY <1>2, <1>7, <3>1 DEF Links
    <3>2. CASE u # t
      <4>1. making'[u] = making[u] /\ Place(u) # l
        BY <1>2, <1>5, <1>7, <2>2, <3>2
      <4> QED
        BY <1>2, <1>3, <1>7, <2>2, <4>1 DEF LinkInv
    <3> QED
      BY <3>1, <3>2
  <2> QED
    BY <1>1, <2>1, <2>2 DEF LinkInv
<1>8. ASSUME pc[t] = "links", k \in Name, dep' = [dep EXCEPT ![l][k] = Wanted(t)[k]],
             making' = [making EXCEPT ![t] = NONE]
      PROVE  LinkInv'
  <2>1. ASSUME NEW g \in Graph, NEW p \in Packages[g], NEW m \in Name,
               dep'[Slot[g][p]][m] # NONE
        PROVE  Uses(g, p, m) # NONE /\ dep'[Slot[g][p]][m] = Slot[g][Uses(g, p, m)]
    <3>1. CASE Slot[g][p] = l /\ m = k
      <4>1. InShared(t) /\ SlotOf(t) = Slot[g][p]
        BY <1>4, <3>1 DEF Place
      <4>2. dep'[Slot[g][p]][m] = Wanted(t)[m]
        BY <1>2, <1>8, <3>1 DEF Links
      <4> QED
        BY <1>8, <2>1, <4>1, <4>2, WantedAgree
    <3>2. CASE ~(Slot[g][p] = l /\ m = k)
      <4>1. dep'[Slot[g][p]][m] = dep[Slot[g][p]][m]
        BY <1>2, <1>4, <1>8, <3>2 DEF Links
      <4> QED
        BY <2>1, <4>1 DEF LinkInv
    <3> QED
      BY <3>1, <3>2
  <2>2. ASSUME NEW u \in View, making'[u] # NONE, Place(u) \notin raced
        PROVE  dep'[Place(u)][making'[u]] = NONE
    <3>1. u # t /\ making'[u] = making[u]
      BY <1>2, <1>8, <2>2
    <3>2. Place(u) # l
      BY <1>5, <1>8, <2>2, <3>1
    <3> QED
      BY <1>2, <1>3, <1>8, <2>2, <3>1, <3>2 DEF LinkInv
  <2> QED
    BY <1>1, <2>1, <2>2 DEF LinkInv
<1> QED
  BY <1>6, <1>7, <1>8, StepLinks

\* What a step of a task does to a shared entry that is not raced: nothing, or
\* it is the entry of the task, and is emptied or filled.
LEMMA StepFiles ==
    ASSUME TypeOK, JobInv, RaceInv, LinkInv, WholeInv, NEW t \in View, Step(t),
           NEW s \in Shared \ raced
    PROVE  \/ at'[s] = at[s]
           \/ /\ s = Place(t) /\ InShared(t) /\ pc[t] = "clear"
              /\ at'[s] = Absent
           \/ /\ s = Place(t) /\ InShared(t) /\ pc[t] = "stage" /\ pc'[t] = "wire"
              /\ at'[s] = Dir(Content[t[2]])
<1> DEFINE l == Place(t)
<1>1. /\ l \in Location /\ SlotOf(t) \in Location /\ t \in Location /\ s \in Location
      /\ s \notin View /\ s # t
      /\ at \in [Location -> Entry] /\ dep \in [Location -> Links]
      /\ making \in [View -> Name \cup {NONE}] /\ pc \in [View -> PC]
  BY TaskType, VirtualStoreAssumption DEF TypeOK, Location
<1>2. CASE Clear(t)
  <2>1. CASE s # l
    BY <1>1, <1>2, <2>1 DEF Clear
  <2>2. CASE s = l
    <3>1. InShared(t) /\ SlotOf(t) = s
      BY <1>1, <2>2 DEF Place
    <3>2. at[s].files = {}
      BY <1>2, <3>1 DEF Clear, WholeInv
    <3> QED
      BY <1>1, <1>2, <2>2, <3>1, <3>2 DEF Clear
  <2> QED
    BY <2>1, <2>2
<1>3. CASE Rename(t)
  <2>1. InShared(t) /\ l = SlotOf(t)
    BY <1>3 DEF Rename, JobInv, Place
  <2> QED
    BY <1>1, <1>3, <2>1 DEF Rename, Goto
<1>4. CASE Make(t)
  <2> DEFINE k == making[t]
             x == dep[l][k]
  <2>1. CASE x = NONE
    BY <1>4, <2>1 DEF Make
  <2>2. CASE x # NONE
    <3>1. k \in Name /\ k # NONE
      BY <1>1, <1>4 DEF Make
    <3>2. l \in raced
      BY <2>2, <3>1 DEF LinkInv
    <3>3. InShared(t) /\ l = SlotOf(t)
      BY <1>1, <3>2, VirtualStoreAssumption DEF Place, TypeOK
    <3>4. GraphOf(t) \in Graph /\ t[2] \in Packages[GraphOf(t)]
      BY <1>4, <3>3, TaskType DEF Make, JobInv
    <3>5. x \in raced
      BY <2>2, <3>1, <3>2, <3>3, <3>4 DEF LinkInv, RaceInv, SlotOf
    <3>6. at' = [at EXCEPT ![x].good = {}]
      BY <1>4, <2>2 DEF Make
    <3> QED
      BY <1>1, <3>5, <3>6
  <2> QED
    BY <2>1, <2>2
<1>5. CASE LinkView(t)
  BY <1>1, <1>5 DEF LinkView
<1>6. CASE FillView(t)
  BY <1>1, <1>6 DEF FillView
<1>7. CASE UNCHANGED at
  BY <1>7
<1> QED
  BY <1>2, <1>3, <1>4, <1>5, <1>6, <1>7 DEF Step, CheckReady, Look, StageFile,
     StageFail, Recheck, Wire, Inspect, WireFail, WriteState, CheckView, FillFail

LEMMA WholeStep ==
    ASSUME TypeOK, JobInv, RaceInv, LinkInv, WholeInv, NEW t \in View, Step(t), TypeOK'
    PROVE  WholeInv'
<1>1. /\ job' = job /\ raced' = raced
      /\ \A u \in View : InShared(u)' = InShared(u) /\ SlotOf(u)' = SlotOf(u)
  BY StepFrame, Frame
<1>2. \A u \in View : SlotOf(u) \in Shared
  BY TaskType
\* An entry only becomes a link in a project.
<1>3. ASSUME NEW s \in Shared PROVE at'[s].kind # "link"
  <2>1. /\ Place(t) \in Location /\ SlotOf(t) \in Location /\ s \in Location /\ s # t
        /\ at \in [Location -> Entry] /\ dep \in [Location -> Links]
        /\ making \in [View -> Name \cup {NONE}]
    BY TaskType, VirtualStoreAssumption DEF TypeOK, Location
  <2>2. at[s].kind # "link" /\ at[s] \in Entry
    BY <2>1 DEF WholeInv
  <2>3. CASE Clear(t)
    <3>1. CASE at' = [at EXCEPT ![Place(t)] = Absent]
      BY <2>1, <2>2, <3>1 DEF Absent
    <3>2. ASSUME NEW f, at' = [at EXCEPT ![Place(t)].files = @ \ {f},
                                        ![Place(t)].good = @ \ {f}]
          PROVE  at'[s].kind # "link"
      <4>1. at'[s].kind = at[s].kind
        <5>1. CASE s = Place(t)
          BY <2>1, <2>2, <3>2, <5>1 DEF Entry
        <5>2. CASE s # Place(t)
          BY <2>1, <3>2, <5>2
        <5> QED
          BY <5>1, <5>2
      <4> QED
        BY <2>2, <4>1
    <3> QED
      BY <2>3, <3>1, <3>2 DEF Clear
  <2>4. CASE Rename(t)
    BY <2>1, <2>2, <2>4 DEF Rename, Dir
  <2>5. CASE Make(t)
    <3>1. at' = at \/ at' = [at EXCEPT ![dep[Place(t)][making[t]]].good = {}]
      BY <2>5 DEF Make
    <3> QED
      BY <2>1, <2>2, <3>1 DEF Entry
  <2>6. CASE LinkView(t)
    BY <2>1, <2>2, <2>6 DEF LinkView
  <2>7. CASE FillView(t)
    BY <2>1, <2>2, <2>7 DEF FillView
  <2>8. CASE UNCHANGED at
    BY <2>2, <2>8
  <2> QED
    BY <2>3, <2>4, <2>5, <2>6, <2>7, <2>8 DEF Step, CheckReady, Look, StageFile,
       StageFail, Recheck, Wire, Inspect, WireFail, WriteState, CheckView, FillFail
<1>4. ASSUME NEW u \in View, InShared(u), pc'[u] \in {"look", "clear", "stage"},
             SlotOf(u) \notin raced
      PROVE  at'[SlotOf(u)].files = {}
  <2> DEFINE s == SlotOf(u)
  <2>1. s \in Shared \ raced /\ Place(u) = s
    BY <1>2, <1>4 DEF Place
  <2>2. CASE u = t
    <3>1. at[s].files = {}
      <4>1. CASE CheckReady(t)
        <5>1. ~Ready(s)
          BY <1>4, <2>2, <4>1 DEF CheckReady, Goto, TypeOK
        <5>2. GraphOf(t) \in Graph /\ t[2] \in Packages[GraphOf(t)]
          BY <4>1, <2>2, <1>4, TaskType DEF CheckReady, JobInv
        <5> QED
          BY <2>1, <2>2, <5>1, <5>2 DEF WholeInv, Whole, Ready, SlotOf
      <4>2. CASE ~CheckReady(t)
        <5>1. pc[t] \in {"look", "clear", "stage"}
          BY <1>4, <2>2, <4>2 DEF Step, Look, Clear, StageFile, StageFail, Rename,
             Recheck, Wire, Inspect, Make, WireFail, WriteState, CheckView,
             LinkView, FillView, FillFail, Goto, TypeOK
        <5> QED
          BY <1>4, <2>2, <5>1 DEF WholeInv
      <4> QED
        BY <4>1, <4>2
    <3> QED
      BY <1>4, <2>1, <2>2, <3>1, StepFiles DEF Absent
  <2>3. CASE u # t
    <3>1. pc'[u] = pc[u] /\ pc[t] # "off"
      BY <2>3, StepOthers
    <3>2. at[s].files = {}
      BY <1>4, <3>1 DEF WholeInv
    <3>3. Place(t) # s
      BY <1>4, <2>1, <2>3, <3>1, SamePlace
    <3> QED
      BY <2>1, <3>2, <3>3, StepFiles
  <2> QED
    BY <2>2, <2>3
<1>5. ASSUME NEW g \in Graph, NEW p \in Packages[g], Slot[g][p] \notin raced,
             at'[Slot[g][p]].files # {}
      PROVE  Whole(p, Slot[g][p])'
  <2> DEFINE s == Slot[g][p]
  <2>1. s \in Shared \ raced /\ p \in Package
    BY <1>5, LocationType, VirtualStoreAssumption
  <2>2. CASE at'[s] = at[s]
    BY <1>5, <2>2 DEF WholeInv, Whole
  <2>3. CASE at'[s] = Absent
    BY <1>5, <2>3 DEF Absent
  <2>4. CASE InShared(t) /\ s = Place(t) /\ at'[s] = Dir(Content[t[2]])
    <3>1. p = t[2]
      BY <2>1, <2>4, TaskType, VirtualStoreAssumption DEF Place, SlotOf
    <3> QED
      BY <2>4, <3>1 DEF Whole, Dir
  <2> QED
    BY <2>1, <2>2, <2>3, <2>4, StepFiles
<1> QED
  BY <1>1, <1>3, <1>4, <1>5 DEF WholeInv

LEMMA SharedInit == Init => SharedInv
<1> SUFFICES ASSUME Init PROVE SharedInv
  OBVIOUS
<1>1. TypeOK
  BY TypeInit
<1>2. JobInv
  <2>1. \A i \in Project : job[i].phase = "idle" /\ job[i].local = {} /\ job[i].graph \in Graph
    BY VirtualStoreAssumption DEF Init
  <2>2. \A t \in View : t[1] \in Project /\ pc[t] = "off" /\ making[t] = NONE
    BY DEF Init, View
  <2>3. \A i \in Project : \A p \in Packages[job[i].graph], n \in Name :
           Uses(job[i].graph, p, n) # NONE => Uses(job[i].graph, p, n) \in Packages[job[i].graph]
    BY <2>1, VirtualStoreAssumption DEF Uses
  <2> QED
    BY <2>1, <2>2, <2>3 DEF JobInv, Working
<1>3. RaceInv
  BY DEF Init, RaceInv
<1>4. LinkInv
  <2>1. \A l \in Location, n \in Name : dep[l][n] = NONE
    BY DEF Init, NoLinks
  <2>2. \A g \in Graph, p \in Package : Slot[g][p] \in Location
    BY LocationType
  <2> QED
    BY <2>1, <2>2, VirtualStoreAssumption DEF LinkInv, Init
<1>5. WholeInv
  <2>1. \A l \in Shared : at[l].kind = "absent" /\ at[l].files = {}
    BY DEF Init, Absent, Location
  <2>2. \A g \in Graph : \A p \in Packages[g] : Slot[g][p] \in Shared
    BY LocationType, VirtualStoreAssumption
  <2> QED
    BY <2>1, <2>2 DEF WholeInv, Init
<1> QED
  BY <1>1, <1>2, <1>3, <1>4, <1>5 DEF SharedInv

\* The packages that are not local use none that is.
LEMMA LocalClosed ==
    ASSUME NEW g \in Graph, NEW unsafe \in Unsafe,
           NEW p \in Packages[g] \ LocalIds(g, unsafe), NEW n \in Name,
           Uses(g, p, n) # NONE
    PROVE  Uses(g, p, n) \in Packages[g] \ LocalIds(g, unsafe)
<1>1. Uses(g, p, n) \in Packages[g]
  BY VirtualStoreAssumption DEF Uses
<1>2. PICK S \in SUBSET Packages[g] :
         /\ Packages[g] \cap unsafe \subseteq S
         /\ \A q \in Packages[g] : (\E m \in Name : Uses(g, q, m) \in S) => q \in S
         /\ p \notin S
  BY DEF LocalIds
<1>3. Uses(g, p, n) \notin S
  BY <1>2
<1> QED
  BY <1>1, <1>2, <1>3 DEF LocalIds

\* An install begins.  What it shares with one that runs is raced, with all
\* that it uses, as graphs agree on that.
LEMMA SharedBegin ==
    ASSUME SlotsAgree, SharedInv, TypeOK', NEW i \in Project, NEW g \in Graph,
           NEW unsafe \in Unsafe, Begin(i, g, unsafe)
    PROVE  SharedInv'
<1> DEFINE local == LocalIds(g, unsafe)
<1>1. /\ \A j \in Project : j # i => job'[j] = job[j]
      /\ job'[i] = [phase |-> "shared", graph |-> g, local |-> local]
      /\ \A t \in View : pc'[t] = IF t[1] # i THEN pc[t]
                                 ELSE IF t[2] \in Packages[g] \ local THEN "start" ELSE "off"
      /\ making' = making /\ at' = at /\ dep' = dep /\ raced \subseteq raced'
      /\ job[i].phase \notin {"shared", "view"}
  BY DEF SharedInv, TypeOK, Begin, Start, Running
<1>2. \A t \in View : t[1] \in Project /\ t[2] \in Package
  BY DEF View
<1>3. \A t \in View : t[1] = i => making[t] = NONE
  BY <1>1, <1>2 DEF SharedInv, JobInv, Working
<1>4. \A t \in View : t[1] # i =>
          /\ InShared(t)' = InShared(t) /\ GraphOf(t)' = GraphOf(t)
          /\ SlotOf(t)' = SlotOf(t) /\ Place(t)' = Place(t) /\ Working(t)' = Working(t)
  BY <1>1, <1>2 DEF InShared, GraphOf, SlotOf, Place, Working
<1>5. JobInv'
  <2>1. ASSUME NEW t \in View
        PROVE  /\ Working(t)' => job'[t[1]].phase \in {"shared", "view"}
               /\ InShared(t)' /\ pc'[t] # "off" =>
                     t[2] \in Packages[GraphOf(t)'] \ job'[t[1]].local
               /\ pc'[t] \in {"look", "stage", "recheck"} => InShared(t)'
               /\ pc'[t] = "fill" => ~InShared(t)'
               /\ making'[t] # NONE => pc'[t] = "links"
    <3>1. CASE t[1] = i
      BY <1>1, <1>3, <3>1 DEF InShared, GraphOf
    <3>2. CASE t[1] # i
      BY <1>1, <1>2, <1>4, <3>2 DEF SharedInv, JobInv
    <3> QED
      BY <3>1, <3>2
  <2>2. ASSUME NEW j \in Project, NEW p \in Packages[job'[j].graph] \ job'[j].local,
               NEW n \in Name, Uses(job'[j].graph, p, n) # NONE
        PROVE  Uses(job'[j].graph, p, n) \in Packages[job'[j].graph] \ job'[j].local
    <3>1. CASE j = i
      BY <1>1, <2>2, <3>1, LocalClosed
    <3>2. CASE j # i
      BY <1>1, <2>2, <3>2 DEF SharedInv, JobInv
    <3> QED
      BY <3>1, <3>2
  <2> QED
    BY <2>1, <2>2 DEF JobInv
<1>6. RaceInv'
  <2>1. raced' = raced \cup {l \in Entries(g, local) : \E j \in Project :
                 /\ job[j].phase = "shared"
                 /\ l \in Entries(job[j].graph, job[j].local)}
    BY DEF Begin
  <2>2. ASSUME NEW j \in Project, NEW k \in Project, j # k,
               job'[j].phase = "shared", job'[k].phase = "shared",
               NEW l \in Entries(job'[j].graph, job'[j].local),
               l \in Entries(job'[k].graph, job'[k].local)
        PROVE  l \in raced'
    <3>1. CASE j = i
      BY <1>1, <2>1, <2>2, <3>1
    <3>2. CASE k = i
      BY <1>1, <2>1, <2>2, <3>2
    <3>3. CASE j # i /\ k # i
      BY <1>1, <2>2, <3>3 DEF SharedInv, RaceInv
    <3> QED
      BY <3>1, <3>2, <3>3
  \* The entries of an install are closed under uses, in any graph.
  <2>3. ASSUME NEW h \in Graph, NEW p \in Packages[h], NEW n \in Name,
               Uses(h, p, n) # NONE, NEW g1 \in Graph, NEW S \in SUBSET Package,
               \A q \in Packages[g1] \ S : Uses(g1, q, n) # NONE =>
                   Uses(g1, q, n) \in Packages[g1] \ S,
               Slot[h][p] \in Entries(g1, S)
        PROVE  Slot[h][Uses(h, p, n)] \in Entries(g1, S)
    <3>1. PICK q \in Packages[g1] \ S : Slot[h][p] = Slot[g1][q]
      BY <2>3 DEF Entries
    <3>2. p = q
      BY <3>1, VirtualStoreAssumption
    <3>3. Uses(g1, p, n) # NONE /\ Slot[h][Uses(h, p, n)] = Slot[g1][Uses(g1, p, n)]
      BY <2>3, <3>1, <3>2 DEF SlotsAgree
    <3> QED
      BY <2>3, <3>1, <3>2, <3>3 DEF Entries
  <2>4. ASSUME NEW h \in Graph, NEW p \in Packages[h], NEW n \in Name,
               Slot[h][p] \in raced', Uses(h, p, n) # NONE
        PROVE  Slot[h][Uses(h, p, n)] \in raced'
    <3>1. CASE Slot[h][p] \in raced
      BY <1>1, <2>4, <3>1 DEF SharedInv, RaceInv
    <3>2. CASE Slot[h][p] \notin raced
      <4>1. PICK j \in Project : /\ job[j].phase = "shared"
                                 /\ Slot[h][p] \in Entries(job[j].graph, job[j].local)
        BY <2>1, <2>4, <3>2
      <4>2. Slot[h][p] \in Entries(g, local)
        BY <2>1, <2>4, <3>2
      <4>3. local \in SUBSET Package /\ job[j].graph \in Graph /\ job[j].local \in SUBSET Package
        BY VirtualStoreAssumption DEF LocalIds, SharedInv, TypeOK, Job
      <4>4. Slot[h][Uses(h, p, n)] \in Entries(g, local)
        BY <2>3, <2>4, <4>2, <4>3, LocalClosed
      <4>5. Slot[h][Uses(h, p, n)] \in Entries(job[j].graph, job[j].local)
        BY <2>3, <2>4, <4>1, <4>3 DEF SharedInv, JobInv
      <4> QED
        BY <2>1, <4>1, <4>4, <4>5
    <3> QED
      BY <3>1, <3>2
  <2> QED
    BY <2>2, <2>4 DEF RaceInv
<1>7. LinkInv'
  BY <1>1, <1>3, <1>4 DEF SharedInv, LinkInv
<1>8. WholeInv'
  <2>1. \A t \in View : pc'[t] \in {"look", "clear", "stage"} => t[1] # i
    BY <1>1
  <2> QED
    BY <1>1, <1>4, <2>1 DEF SharedInv, WholeInv, Whole
<1> QED
  BY <1>5, <1>6, <1>7, <1>8 DEF SharedInv

\* The install of a project goes on to the next phase, or ends: no task of it
\* works then.
Moves(i, to) ==
    /\ job' = [job EXCEPT ![i].phase = to]
    /\ \A t \in View : t[1] # i => pc'[t] = pc[t] /\ making'[t] = making[t]
    /\ \A t \in View : t[1] = i =>
          /\ making'[t] = NONE
          /\ pc'[t] \in {"off", "ok", "err"} \/ (to = "view" /\ pc'[t] = "start")
    /\ UNCHANGED <<at, dep, raced>>

LEMMA SharedPhase ==
    ASSUME SharedInv, TypeOK', NEW i \in Project, NEW to \in {"view", "done", "failed"},
           Moves(i, to)
    PROVE  SharedInv'
<1> USE DEF Moves
<1>1. /\ \A j \in Project : j # i => job'[j] = job[j]
      /\ job'[i].phase = to /\ job'[i].graph = job[i].graph /\ job'[i].local = job[i].local
  BY DEF SharedInv, TypeOK, Job
<1>2. \A t \in View : t[1] \in Project
  BY DEF View
<1>3. \A t \in View : t[1] # i =>
          /\ InShared(t)' = InShared(t) /\ GraphOf(t)' = GraphOf(t)
          /\ SlotOf(t)' = SlotOf(t) /\ Place(t)' = Place(t) /\ Working(t)' = Working(t)
  BY <1>1, <1>2 DEF InShared, GraphOf, SlotOf, Place, Working
<1>4. \A t \in View : t[1] = i => ~InShared(t)'
  BY <1>1 DEF InShared
<1>5. JobInv'
  <2>1. ASSUME NEW t \in View
        PROVE  /\ Working(t)' => job'[t[1]].phase \in {"shared", "view"}
               /\ InShared(t)' /\ pc'[t] # "off" =>
                     t[2] \in Packages[GraphOf(t)'] \ job'[t[1]].local
               /\ pc'[t] \in {"look", "stage", "recheck"} => InShared(t)'
               /\ pc'[t] = "fill" => ~InShared(t)'
               /\ making'[t] # NONE => pc'[t] = "links"
    <3>1. CASE t[1] = i
      BY <1>1, <1>4, <3>1 DEF Working
    <3>2. CASE t[1] # i
      BY <1>1, <1>2, <1>3, <3>2 DEF SharedInv, JobInv
    <3> QED
      BY <3>1, <3>2
  <2>2. \A j \in Project : job'[j].graph = job[j].graph /\ job'[j].local = job[j].local
    BY <1>1
  <2> QED
    BY <2>1, <2>2 DEF SharedInv, JobInv
<1>6. RaceInv'
  <2>1. \A j \in Project : /\ job'[j].graph = job[j].graph /\ job'[j].local = job[j].local
                           /\ job'[j].phase = "shared" => job[j].phase = "shared"
    BY <1>1
  <2> QED
    BY <2>1 DEF SharedInv, RaceInv
<1>7. LinkInv'
  BY <1>3 DEF SharedInv, LinkInv
<1>8. WholeInv'
  BY <1>3, <1>4 DEF SharedInv, WholeInv, Whole
<1> QED
  BY <1>5, <1>6, <1>7, <1>8 DEF SharedInv

\* Tasks that have ended make no link.
LEMMA EndedMakes ==
    ASSUME SharedInv, NEW i \in Project, Ended(i), NEW t \in View, t[1] = i
    PROVE  making[t] = NONE /\ pc[t] \in {"off", "ok", "err"}
<1>1. t = <<i, t[2]>> /\ t[2] \in Package
  BY DEF View
<1> QED
  BY <1>1 DEF Ended, SharedInv, JobInv

LEMMA SharedNext == SlotsAgree /\ SharedInv /\ [Next]_vars => SharedInv'
<1> SUFFICES ASSUME SlotsAgree, SharedInv, [Next]_vars PROVE SharedInv'
  OBVIOUS
<1>0. TypeOK'
  BY TypeNext DEF SharedInv
<1>1. CASE UNCHANGED vars
  <2>1. UNCHANGED <<at, dep, raced, job, pc, making>>
    BY <1>1 DEF vars, taskVars
  <2>2. \A t \in View : /\ InShared(t)' = InShared(t) /\ GraphOf(t)' = GraphOf(t)
                        /\ SlotOf(t)' = SlotOf(t) /\ Place(t)' = Place(t)
    BY <2>1, Frame
  <2>3. JobInv' /\ RaceInv'
    BY <2>1, <2>2 DEF SharedInv, JobInv, RaceInv, Working
  <2>4. LinkInv' /\ WholeInv'
    BY <2>1, <2>2 DEF SharedInv, LinkInv, WholeInv, Whole
  <2> QED
    BY <1>0, <2>3, <2>4 DEF SharedInv
<1>2. ASSUME NEW t \in View, Step(t) PROVE SharedInv'
  <2>1. JobInv' /\ LinkInv' /\ WholeInv'
    BY <1>0, <1>2, JobStep, LinkStep, WholeStep DEF SharedInv
  <2>2. RaceInv'
    <3>1. job' = job /\ raced' = raced
      BY <1>2, StepFrame
    <3> QED
      BY <3>1 DEF SharedInv, RaceInv
  <2> QED
    BY <1>0, <2>1, <2>2 DEF SharedInv
<1>3. ASSUME NEW i \in Project, NEW g \in Graph, NEW unsafe \in Unsafe,
             Begin(i, g, unsafe)
      PROVE  SharedInv'
  BY <1>0, <1>3, SharedBegin
<1>4. ASSUME NEW i \in Project, EndShared(i) PROVE SharedInv'
  <2>1. Ended(i)
    BY <1>4 DEF EndShared, Done, Ended
  <2>2. \A t \in View : t[1] = i => making[t] = NONE
    BY <2>1, EndedMakes
  <2>3. \A t \in View : IF t[1] # i THEN pc'[t] = pc[t] ELSE pc'[t] \in {"start", "off"}
    BY <1>4 DEF EndShared, Start
  <2>4. job' = [job EXCEPT ![i].phase = "view"] /\ UNCHANGED <<at, dep, raced, making>>
    BY <1>4 DEF EndShared
  <2>m. Moves(i, "view")
    BY <2>2, <2>3, <2>4 DEF Moves
  <2> QED
    BY <1>0, <2>m, SharedPhase
<1>5. ASSUME NEW i \in Project, EndView(i) PROVE SharedInv'
  <2>1. Ended(i)
    BY <1>5 DEF EndView, Done, Ended
  <2>2. \A t \in View : t[1] = i => making[t] = NONE /\ pc[t] \in {"off", "ok", "err"}
    BY <2>1, EndedMakes
  <2>3. job' = [job EXCEPT ![i].phase = "done"] /\ UNCHANGED <<at, dep, raced, making, pc>>
    BY <1>5 DEF EndView, taskVars
  <2>m. Moves(i, "done")
    BY <2>2, <2>3 DEF Moves
  <2> QED
    BY <1>0, <2>m, SharedPhase
<1>6. ASSUME NEW i \in Project, Fail(i) PROVE SharedInv'
  <2>1. Ended(i)
    BY <1>6 DEF Fail
  <2>2. \A t \in View : t[1] = i => making[t] = NONE /\ pc[t] \in {"off", "ok", "err"}
    BY <2>1, EndedMakes
  <2>3. job' = [job EXCEPT ![i].phase = "failed"] /\ UNCHANGED <<at, dep, raced, making, pc>>
    BY <1>6 DEF Fail, taskVars
  <2>m. Moves(i, "failed")
    BY <2>2, <2>3 DEF Moves
  <2> QED
    BY <1>0, <2>m, SharedPhase
<1>7. ASSUME NEW i \in Project, Crash(i) PROVE SharedInv'
  <2>1. \A t \in View : IF t[1] # i THEN pc'[t] = pc[t] /\ making'[t] = making[t]
                                   ELSE pc'[t] = "off" /\ making'[t] = NONE
    BY <1>7 DEF Crash, Start
  <2>2. job' = [job EXCEPT ![i].phase = "failed"] /\ UNCHANGED <<at, dep, raced>>
    BY <1>7 DEF Crash
  <2>m. Moves(i, "failed")
    BY <2>1, <2>2 DEF Moves
  <2> QED
    BY <1>0, <2>m, SharedPhase
<1> QED
  BY <1>1, <1>2, <1>3, <1>4, <1>5, <1>6, <1>7 DEF Next

\* If the names of entries cover what the packages use (SlotsAgree), a shared
\* entry that virtual_package_ready takes for a package is one, whatever
\* installs run, fail or are killed beside each other, unless two of them were
\* about the entry at the same time.
THEOREM VirtualStoreSharedWhole == SlotsAgree /\ Spec => []SharedWhole
<1>1. SharedInv => SharedWhole
  <2>1. \A g \in Graph : \A p \in Packages[g] : Slot[g][p] \in Shared
    BY LocationType, VirtualStoreAssumption
  <2> QED
    BY <2>1 DEF SharedInv, WholeInv, SharedWhole, Ready
<1>2. SlotsAgree /\ Init => SlotsAgree /\ SharedInv
  BY SharedInit
<1>3. SlotsAgree /\ SharedInv /\ [Next]_vars => (SlotsAgree /\ SharedInv)'
  BY SharedNext
<1> QED
  BY <1>1, <1>2, <1>3, PTL DEF Spec

-----------------------------------------------------------------------------
(* State files tell the truth.                                             *)

\* The links that a task has still to make are the only ones that are not
\* there.
LinkedInv ==
    \A t \in View, n \in Name :
        /\ pc[t] = "links" /\ Place(t) \notin raced
        /\ Wanted(t)[n] # NONE /\ n \notin todo[t] /\ n # making[t]
        => dep[Place(t)][n] = Wanted(t)[n]

\* The state file of a shared entry, as long as it is current, is about the
\* links that every graph wants; so a task that looks at links has found it
\* out of date.
CurrentInv ==
    /\ \A g \in Graph : \A p \in Packages[g] : gate[Slot[g][p]].current =>
          \A n \in Name :
              gate[Slot[g][p]].links[n] =
                  IF Uses(g, p, n) = NONE THEN NONE ELSE Slot[g][Uses(g, p, n)]
    /\ \A t \in View :
          InShared(t) /\ pc[t] = "links" /\ SlotOf(t) \notin raced =>
              ~gate[SlotOf(t)].current

GateInv == SharedInv /\ LinkedInv /\ CurrentInv /\ GateTrue

\* What a step of a task does to state files: it may put the one of its entry
\* out of date, remove it or write it.
LEMMA StepGate ==
    ASSUME TypeOK, JobInv, NEW t \in View, Step(t), NEW s \in Location
    PROVE  \/ gate'[s] = gate[s]
           \/ /\ s = Place(t) /\ gate'[s].links = gate[s].links
              /\ gate'[s].current => gate[s].current
           \/ s = Place(t) /\ gate'[s] = NoGate
           \/ /\ s = Place(t) /\ WriteState(t)
              /\ gate'[s] = [links |-> Wanted(t), current |-> TRUE]
<1>1. /\ Place(t) \in Location /\ SlotOf(t) \in Location /\ t \in Location
      /\ gate \in [Location -> Gate] /\ gate[s] \in Gate
  BY TaskType DEF TypeOK
<1>2. /\ pc[t] = "stage" => Place(t) = SlotOf(t)
      /\ pc[t] = "fill" => Place(t) = t
  BY DEF JobInv, Place
<1>3. ASSUME NEW n, Touch(Place(t), n)
      PROVE  \/ gate'[s] = gate[s]
             \/ /\ s = Place(t) /\ gate'[s].links = gate[s].links
                /\ gate'[s].current => gate[s].current
  <2>1. CASE s # Place(t)
    BY <1>1, <1>3, <2>1 DEF Touch
  <2>2. CASE s = Place(t)
    <3>1. gate'[s] = [gate[s] EXCEPT !.current = @ /\ n \in Scoped]
      BY <1>1, <1>3, <2>2 DEF Touch
    <3>2. gate'[s].links = gate[s].links /\ gate'[s].current = (gate[s].current /\ n \in Scoped)
      BY <1>1, <3>1 DEF Gate
    <3> QED
      BY <2>2, <3>2
  <2> QED
    BY <2>1, <2>2
<1>4. CASE Wire(t)
  BY <1>1, <1>4 DEF Wire
<1>5. CASE WriteState(t)
  BY <1>1, <1>5 DEF WriteState
<1>6. CASE UNCHANGED gate
  BY <1>6
<1>7. CASE \E n : Touch(Place(t), n)
  BY <1>3, <1>7
<1>8. ASSUME ~Wire(t), ~WriteState(t) PROVE UNCHANGED gate \/ \E n : Touch(Place(t), n)
  <2>1. CASE Clear(t)
    BY <2>1 DEF Clear
  <2>2. CASE \E f \in File : StageFile(t, f)
    BY <1>2, <2>2 DEF StageFile
  <2>3. CASE StageFail(t)
    BY <1>2, <2>3 DEF StageFail
  <2>4. CASE Rename(t)
    BY <1>2, <2>4 DEF Rename
  <2>5. CASE \E n \in Name : Inspect(t, n)
    BY <2>5 DEF Inspect
  <2>6. CASE Make(t)
    BY <2>6 DEF Make
  <2>7. CASE LinkView(t)
    BY <1>2, <2>7 DEF LinkView
  <2>8. CASE FillView(t)
    BY <1>2, <2>8 DEF FillView
  <2> QED
    BY <1>8, <2>1, <2>2, <2>3, <2>4, <2>5, <2>6, <2>7, <2>8 DEF Step, CheckReady,
       Look, Recheck, WireFail, CheckView, FillFail
<1> QED
  BY <1>4, <1>5, <1>6, <1>7, <1>8

\* A link that changes puts the state file out of date, if its name has no
\* scope.
LEMMA StepTouch ==
    ASSUME TypeOK, NEW t \in View, Step(t), NEW n \in Name \ Scoped,
           dep'[Place(t)][n] # dep[Place(t)][n]
    PROVE  ~gate'[Place(t)].current
<1> DEFINE l == Place(t)
<1>1. /\ l \in Location /\ dep \in [Location -> Links] /\ dep[l] \in Links
      /\ gate \in [Location -> Gate] /\ gate[l] \in Gate
  BY TaskType DEF TypeOK
<1>2. ASSUME Touch(l, n) PROVE ~gate'[l].current
  BY <1>1, <1>2 DEF Touch, Gate
<1>3. ASSUME NEW m \in Name, Inspect(t, m) PROVE Touch(l, n)
  <2>1. dep' = [dep EXCEPT ![l][m] = NONE] /\ (dep[l][m] = NONE \/ Touch(l, m))
    BY <1>3 DEF Inspect
  <2>2. m = n /\ dep[l][m] # NONE
    BY <1>1, <2>1 DEF Links
  <2> QED
    BY <2>1, <2>2
<1>4. CASE Make(t)
  <2>1. making[t] = n /\ dep[l][making[t]] = NONE
    BY <1>1, <1>4 DEF Make, Links
  <2> QED
    BY <1>2, <1>4, <2>1 DEF Make
<1> QED
  BY <1>2, <1>3, <1>4 DEF Step, CheckReady, Look, Clear, StageFile, StageFail,
     Rename, Recheck, Wire, WireFail, WriteState, CheckView, LinkView, FillView,
     FillFail

\* Only the links beside the entry of the task change.
LEMMA StepDep ==
    ASSUME TypeOK, NEW t \in View, Step(t), NEW l \in Location, l # Place(t)
    PROVE  dep'[l] = dep[l]
  BY StepLinks, TaskType DEF TypeOK

LEMMA LinkedStep ==
    ASSUME SharedInv, LinkedInv, NEW t \in View, Step(t)
    PROVE  LinkedInv'
<1> DEFINE l == Place(t)
<1>1. /\ raced' = raced
      /\ \A u \in View : Place(u)' = Place(u) /\ Wanted(u)' = Wanted(u)
  BY StepFrame, Frame
<1>2. /\ l \in Location /\ dep \in [Location -> Links] /\ dep[l] \in Links
      /\ making \in [View -> Name \cup {NONE}] /\ todo \in [View -> SUBSET Name]
      /\ pc \in [View -> PC]
  BY TaskType DEF SharedInv, TypeOK
<1> SUFFICES ASSUME NEW u \in View, NEW n \in Name, pc'[u] = "links",
                    Place(u) \notin raced, Wanted(u)[n] # NONE, n \notin todo'[u],
                    n # making'[u]
             PROVE  dep'[Place(u)][n] = Wanted(u)[n]
  BY <1>1 DEF LinkedInv
<1>3. CASE u # t
  <2>1. /\ pc[t] # "off" /\ pc[u] = "links"
        /\ making'[u] = making[u] /\ todo'[u] = todo[u]
    BY <1>3, StepOthers DEF SharedInv
  <2>2. Place(u) # l
    BY <1>3, <2>1, SamePlace DEF SharedInv
  <2>3. dep'[Place(u)] = dep[Place(u)]
    BY <2>2, StepDep, TaskType DEF SharedInv
  <2> QED
    BY <2>1, <2>3 DEF LinkedInv
<1>4. CASE u = t
  <2>1. CASE Wire(t)
    <3>1. n \in todo'[t]
      BY <1>2, <1>4, <2>1 DEF Wire, Goto
    <3> QED
      BY <1>4, <3>1
  <2>2. ASSUME NEW m \in Name, Inspect(t, m) PROVE dep'[l][n] = Wanted(t)[n]
    <3>1. CASE UNCHANGED <<dep, making>> /\ dep[l][m] = Wanted(t)[m]
      <4>1. n = m \/ n \notin todo[t]
        BY <1>2, <1>4, <2>2 DEF Inspect
      <4> QED
        BY <1>4, <2>2, <3>1, <4>1 DEF LinkedInv, Inspect
    <3>2. CASE dep' = [dep EXCEPT ![l][m] = NONE] /\ making' = [making EXCEPT ![t] = m]
      <4>1. n # m /\ n \notin todo[t] /\ making[t] = NONE /\ pc[t] = "links"
        BY <1>2, <1>4, <2>2, <3>2 DEF Inspect
      <4>2. n # making[t]
        BY <4>1, VirtualStoreAssumption
      <4>3. dep'[l][n] = dep[l][n]
        BY <1>2, <3>2, <4>1 DEF Links
      <4> QED
        BY <1>4, <4>1, <4>2, <4>3 DEF LinkedInv
    <3> QED
      BY <2>2, <3>1, <3>2 DEF Inspect
  <2>3. CASE Make(t)
    <3>1. /\ pc[t] = "links" /\ making[t] \in Name /\ n \notin todo[t]
          /\ dep[l][making[t]] = NONE
      BY <1>2, <1>4, <2>3 DEF Make, SharedInv, LinkInv
    <3>2. dep' = [dep EXCEPT ![l][making[t]] = Wanted(t)[making[t]]]
      BY <2>3, <3>1 DEF Make
    <3>3. CASE n = making[t]
      BY <1>2, <1>4, <3>2, <3>3 DEF Links
    <3>4. CASE n # making[t]
      <4>1. dep'[l][n] = dep[l][n]
        BY <1>2, <3>1, <3>2, <3>4 DEF Links
      <4> QED
        BY <1>4, <3>1, <3>4, <4>1 DEF LinkedInv
    <3> QED
      BY <3>3, <3>4
  <2>4. CASE ~Wire(t) /\ ~Make(t) /\ \A m \in Name : ~Inspect(t, m)
    <3>1. pc'[t] # "links"
      BY <1>2, <2>4 DEF Step, CheckReady, Look, Clear, StageFile, StageFail, Rename,
         Recheck, WireFail, WriteState, CheckView, LinkView, FillView, FillFail, Goto
    <3> QED
      BY <1>4, <3>1
  <2> QED
    BY <1>4, <2>1, <2>2, <2>3, <2>4
<1> QED
  BY <1>3, <1>4

LEMMA CurrentStep ==
    ASSUME SlotsAgree, SharedInv, CurrentInv, NEW t \in View, Step(t)
    PROVE  CurrentInv'
<1>1. /\ raced' = raced
      /\ \A u \in View : InShared(u)' = InShared(u) /\ SlotOf(u)' = SlotOf(u)
  BY StepFrame, Frame
<1>2. \A g \in Graph : \A p \in Packages[g] : Slot[g][p] \in Location /\ Slot[g][p] \notin View
  BY LocationType, VirtualStoreAssumption
<1>3. ASSUME NEW g \in Graph, NEW p \in Packages[g], gate'[Slot[g][p]].current,
             NEW n \in Name
      PROVE  gate'[Slot[g][p]].links[n] =
                 IF Uses(g, p, n) = NONE THEN NONE ELSE Slot[g][Uses(g, p, n)]
  <2> DEFINE s == Slot[g][p]
  <2>1. CASE gate'[s].links = gate[s].links /\ gate[s].current
    BY <2>1 DEF CurrentInv
  <2>2. CASE gate'[s] = NoGate
    BY <1>3, <2>2 DEF NoGate
  <2>3. CASE s = Place(t) /\ WriteState(t)
             /\ gate'[s] = [links |-> Wanted(t), current |-> TRUE]
    <3>1. InShared(t) /\ SlotOf(t) = s /\ pc[t] # "off"
      BY <1>2, <2>3 DEF Place, WriteState
    <3>2. gate'[s].links = Wanted(t)
      BY <2>3
    <3> QED
      BY <3>1, <3>2, WantedAgree DEF SharedInv
  <2> QED
    BY <1>2, <1>3, <2>1, <2>2, <2>3, StepGate DEF SharedInv
<1>4. ASSUME NEW u \in View, InShared(u), pc'[u] = "links", SlotOf(u) \notin raced
      PROVE  ~gate'[SlotOf(u)].current
  <2> DEFINE s == SlotOf(u)
  <2>1. s \in Location /\ Place(u) = s
    BY <1>4, TaskType DEF SharedInv, Place
  <2>2. CASE u # t
    <3>1. pc[t] # "off" /\ pc[u] = "links"
      BY <1>4, <2>2, StepOthers DEF SharedInv
    <3>2. Place(t) # s
      BY <1>4, <2>1, <2>2, <3>1, SamePlace DEF SharedInv
    <3>3. gate'[s] = gate[s]
      BY <2>1, <3>2, StepGate DEF SharedInv
    <3> QED
      BY <1>4, <3>1, <3>3 DEF CurrentInv
  <2>3. CASE u = t /\ Wire(t)
    <3>1. gate' = [gate EXCEPT ![s] = @] /\ ~(gate[s].current /\ gate[s].links = Wanted(t))
      BY <1>4, <2>1, <2>3 DEF Wire, Goto, SharedInv, TypeOK
    <3>2. GraphOf(t) \in Graph /\ t[2] \in Packages[GraphOf(t)] /\ pc[t] # "off"
      BY <1>4, <2>3, TaskType DEF Wire, SharedInv, JobInv
    <3>3. gate \in [Location -> Gate] /\ gate[s] \in Gate /\ Wanted(t) \in Links
      BY <2>1, WantedType DEF SharedInv, TypeOK
    <3>4. ASSUME gate[s].current PROVE gate[s].links = Wanted(t)
      <4>1. \A n \in Name : gate[s].links[n] = Wanted(t)[n]
        BY <1>4, <2>3, <3>2, <3>4, WantedAgree DEF CurrentInv, SharedInv, SlotOf
      <4>2. gate[s].links \in Links
        BY <3>3 DEF Gate
      <4> QED
        BY <3>3, <4>1, <4>2 DEF Links
    <3>5. ~gate[s].current
      BY <3>1, <3>4
    <3> QED
      BY <2>1, <3>1, <3>3, <3>5
  <2>4. CASE u = t /\ ~Wire(t)
    <3>1. pc[t] = "links" /\ ~WriteState(t)
      BY <1>4, <2>4 DEF Step, CheckReady, Look, Clear, StageFile, StageFail, Rename,
         Recheck, Inspect, Make, WireFail, WriteState, CheckView, LinkView, FillView,
         FillFail, Goto, SharedInv, TypeOK
    <3>2. ~gate[s].current
      BY <1>4, <2>4, <3>1 DEF CurrentInv
    <3>3. gate'[s] = gate[s] \/ (gate'[s].current => gate[s].current) \/ gate'[s] = NoGate
      BY <2>1, <3>1, StepGate DEF SharedInv
    <3>4. NoGate.current = FALSE
      BY DEF NoGate
    <3>5. CASE gate'[s] = NoGate
      BY <3>4, <3>5
    <3>6. CASE gate'[s] = gate[s] \/ (gate'[s].current => gate[s].current)
      BY <3>2, <3>6
    <3> QED
      BY <3>3, <3>5, <3>6
  <2> QED
    BY <2>2, <2>3, <2>4
<1> QED
  BY <1>1, <1>3, <1>4 DEF CurrentInv

LEMMA GateStep ==
    ASSUME GateInv, NEW t \in View, Step(t)
    PROVE  GateTrue'
<1>1. raced' = raced
  BY StepFrame
<1> SUFFICES ASSUME NEW s \in Location \ raced, NEW n \in Name, gate'[s].current,
                    gate'[s].links[n] # NONE, s \in Shared \/ n \notin Scoped
             PROVE  dep'[s][n] = gate'[s].links[n]
  BY <1>1 DEF GateTrue
<1>2. CASE gate'[s].links = gate[s].links /\ gate[s].current
  <2>1. dep[s][n] = gate[s].links[n]
    BY <1>2 DEF GateInv, GateTrue
  <2>2. dep'[s][n] = dep[s][n]
    <3>1. CASE s # Place(t)
      BY <3>1, StepDep DEF GateInv, SharedInv
    <3>2. CASE s = Place(t) /\ s \in Shared
      <4>1. InShared(t) /\ SlotOf(t) = s
        BY <3>2, VirtualStoreAssumption DEF Place
      <4>2. pc[t] # "links"
        BY <1>2, <4>1 DEF GateInv, CurrentInv
      <4> QED
        BY <4>2, StepLinks DEF GateInv, SharedInv
    <3>3. CASE s = Place(t) /\ n \notin Scoped
      BY <3>3, StepTouch DEF GateInv, SharedInv
    <3> QED
      BY <3>1, <3>2, <3>3
  <2> QED
    BY <1>2, <2>1, <2>2
<1>3. CASE gate'[s] = NoGate
  BY <1>3 DEF NoGate
<1>4. CASE s = Place(t) /\ WriteState(t)
           /\ gate'[s] = [links |-> Wanted(t), current |-> TRUE]
  <2>1. pc[t] = "links" /\ n \notin todo[t] /\ making[t] = NONE /\ dep' = dep
    BY <1>4 DEF WriteState
  <2>2. n # making[t] /\ Wanted(t)[n] # NONE
    BY <1>4, <2>1, VirtualStoreAssumption
  <2> QED
    BY <1>4, <2>1, <2>2 DEF GateInv, LinkedInv
<1> QED
  BY <1>2, <1>3, <1>4, StepGate DEF GateInv, SharedInv

\* An install begins, goes on to the next phase or ends: no task of it works on
\* links then, and state files only get out of date.
LEMMA GateOther ==
    ASSUME GateInv, NEW i \in Project,
           \A t \in View : t[1] # i =>
               /\ pc'[t] = pc[t] /\ making'[t] = making[t] /\ todo'[t] = todo[t]
               /\ job'[t[1]] = job[t[1]],
           \A t \in View : t[1] = i => pc'[t] # "links",
           dep' = dep, raced \subseteq raced',
           \A l \in Location : /\ gate'[l].links = gate[l].links
                               /\ gate'[l].current => gate[l].current
    PROVE  LinkedInv' /\ CurrentInv' /\ GateTrue'
<1>1. ASSUME NEW t \in View, t[1] # i
      PROVE  /\ InShared(t)' = InShared(t) /\ SlotOf(t)' = SlotOf(t)
             /\ Place(t)' = Place(t) /\ Wanted(t)' = Wanted(t)
  <2>1. job'[t[1]] = job[t[1]]
    BY <1>1
  <2>2. InShared(t)' = InShared(t) /\ GraphOf(t)' = GraphOf(t)
    BY <2>1 DEF InShared, GraphOf
  <2> QED
    BY <2>2 DEF SlotOf, Place, Wanted
<1>2. LinkedInv'
  BY <1>1 DEF GateInv, LinkedInv
<1>3. CurrentInv'
  <2>1. \A g \in Graph : \A p \in Packages[g] : Slot[g][p] \in Location
    BY LocationType, VirtualStoreAssumption
  <2>2. \A t \in View : SlotOf(t) \in Location
    BY TaskType DEF GateInv, SharedInv
  <2>3. ASSUME NEW g \in Graph, NEW p \in Packages[g], gate'[Slot[g][p]].current,
               NEW n \in Name
        PROVE  gate'[Slot[g][p]].links[n] =
                   IF Uses(g, p, n) = NONE THEN NONE ELSE Slot[g][Uses(g, p, n)]
    BY <2>1, <2>3 DEF GateInv, CurrentInv
  <2>4. ASSUME NEW t \in View, InShared(t)', pc'[t] = "links", SlotOf(t)' \notin raced'
        PROVE  ~gate'[SlotOf(t)'].current
    BY <1>1, <2>2, <2>4 DEF GateInv, CurrentInv
  <2> QED
    BY <2>3, <2>4 DEF CurrentInv
<1>4. GateTrue'
  BY DEF GateInv, GateTrue
<1> QED
  BY <1>2, <1>3, <1>4

\* Launchers only put state files out of date.
LEMMA BinsGate ==
    ASSUME TypeOK, NEW i, NEW S, LinkBins(i, S), NEW l \in Location
    PROVE  gate'[l].links = gate[l].links /\ (gate'[l].current => gate[l].current)
<1>1. gate[l] \in Gate
  BY DEF TypeOK
<1>2. gate'[l] = gate[l] \/ gate'[l] = [gate[l] EXCEPT !.current = FALSE]
  BY DEF LinkBins
<1>3. [gate[l] EXCEPT !.current = FALSE].links = gate[l].links
      /\ [gate[l] EXCEPT !.current = FALSE].current = FALSE
  BY <1>1 DEF Gate
<1> QED
  BY <1>2, <1>3

LEMMA GateInit == Init => GateInv
<1> SUFFICES ASSUME Init PROVE GateInv
  OBVIOUS
<1>1. \A t \in View : pc[t] = "off"
  BY DEF Init
<1>2. \A l \in Location : gate[l].current = FALSE
  BY DEF Init, NoGate
<1>3. \A g \in Graph : \A p \in Packages[g] : Slot[g][p] \in Location
  BY LocationType, VirtualStoreAssumption
<1>4. LinkedInv /\ CurrentInv
  BY <1>1, <1>2, <1>3 DEF LinkedInv, CurrentInv
<1>5. GateTrue
  BY <1>2 DEF GateTrue
<1> QED
  BY <1>4, <1>5, SharedInit DEF GateInv

LEMMA GateNext == SlotsAgree /\ GateInv /\ [Next]_vars => GateInv'
<1> SUFFICES ASSUME SlotsAgree, GateInv, [Next]_vars PROVE GateInv'
  OBVIOUS
<1>0. SharedInv' /\ TypeOK
  BY SharedNext DEF GateInv, SharedInv
<1>v. \A t \in View : t[1] \in Project /\ t[2] \in Package /\ t = <<t[1], t[2]>>
  BY DEF View
<1>1. CASE UNCHANGED vars
  <2>1. UNCHANGED <<at, dep, gate, raced, job, pc, making, todo>>
    BY <1>1 DEF vars, taskVars
  <2>2. \A t \in View : /\ InShared(t)' = InShared(t) /\ SlotOf(t)' = SlotOf(t)
                        /\ Place(t)' = Place(t) /\ Wanted(t)' = Wanted(t)
    BY <2>1, Frame
  <2>3. LinkedInv'
    BY <2>1, <2>2 DEF GateInv, LinkedInv
  <2>4. CurrentInv'
    BY <2>1, <2>2 DEF GateInv, CurrentInv
  <2>5. GateTrue'
    BY <2>1 DEF GateInv, GateTrue
  <2> QED
    BY <1>0, <2>3, <2>4, <2>5 DEF GateInv
<1>2. ASSUME NEW t \in View, Step(t) PROVE GateInv'
  BY <1>0, <1>2, LinkedStep, CurrentStep, GateStep DEF GateInv
<1>3. ASSUME NEW i \in Project, NEW g \in Graph, NEW unsafe \in Unsafe,
             Begin(i, g, unsafe)
      PROVE  GateInv'
  <2>1. \A t \in View : IF t[1] # i THEN pc'[t] = pc[t] ELSE pc'[t] # "links"
    BY <1>3 DEF Begin, Start
  <2>2. /\ UNCHANGED <<making, todo, dep, gate>> /\ raced \subseteq raced'
        /\ \A j \in Project : j # i => job'[j] = job[j]
    BY <1>0, <1>3 DEF Begin, TypeOK
  <2> QED
    BY <1>0, <1>v, <2>1, <2>2, GateOther DEF GateInv
<1>4. ASSUME NEW i \in Project, EndShared(i) PROVE GateInv'
  <2>1. \A t \in View : IF t[1] # i THEN pc'[t] = pc[t] ELSE pc'[t] # "links"
    BY <1>4 DEF EndShared, Start
  <2>2. /\ UNCHANGED <<making, todo, dep, raced>>
        /\ \A j \in Project : j # i => job'[j] = job[j]
    BY <1>0, <1>4 DEF EndShared, TypeOK
  <2>3. \A l \in Location : gate'[l].links = gate[l].links
                             /\ (gate'[l].current => gate[l].current)
    BY <1>0, <1>4, BinsGate DEF EndShared
  <2> QED
    BY <1>0, <1>v, <2>1, <2>2, <2>3, GateOther DEF GateInv
<1>5. ASSUME NEW i \in Project, EndView(i) PROVE GateInv'
  <2>1. \A t \in View : t[1] = i => pc[t] # "links"
    BY <1>5, <1>v DEF EndView, Done
  <2>2. /\ UNCHANGED <<pc, making, todo, dep, raced>>
        /\ \A j \in Project : j # i => job'[j] = job[j]
    BY <1>0, <1>5 DEF EndView, TypeOK, taskVars
  <2>3. \A l \in Location : gate'[l].links = gate[l].links
                             /\ (gate'[l].current => gate[l].current)
    BY <1>0, <1>5, BinsGate DEF EndView
  <2> QED
    BY <1>0, <1>v, <2>1, <2>2, <2>3, GateOther DEF GateInv
<1>6. ASSUME NEW i \in Project, Fail(i) PROVE GateInv'
  <2>1. \A t \in View : t[1] = i => pc[t] # "links"
    BY <1>6, <1>v DEF Fail, Ended
  <2>2. /\ UNCHANGED <<pc, making, todo, dep, raced, gate>>
        /\ \A j \in Project : j # i => job'[j] = job[j]
    BY <1>0, <1>6 DEF Fail, TypeOK, taskVars
  <2> QED
    BY <1>0, <1>v, <2>1, <2>2, GateOther DEF GateInv
<1>7. ASSUME NEW i \in Project, Crash(i) PROVE GateInv'
  <2>1. \A t \in View : IF t[1] # i
                         THEN pc'[t] = pc[t] /\ making'[t] = making[t] /\ todo'[t] = todo[t]
                         ELSE pc'[t] # "links"
    BY <1>7 DEF Crash, Start
  <2>2. /\ UNCHANGED <<dep, raced, gate>>
        /\ \A j \in Project : j # i => job'[j] = job[j]
    BY <1>0, <1>7 DEF Crash, TypeOK
  <2> QED
    BY <1>0, <1>v, <2>1, <2>2, GateOther DEF GateInv
<1> QED
  BY <1>1, <1>2, <1>3, <1>4, <1>5, <1>6, <1>7 DEF Next

\* If the names of entries cover what the packages use (SlotsAgree), the state
\* file that lets an install skip the links of an entry tells the truth while
\* its time agrees, through failures and kills: in the project for names without
\* a scope, and in shared entries that no two installs were about at once.
THEOREM VirtualStoreGateTrue == SlotsAgree /\ Spec => []GateTrue
<1>1. SlotsAgree /\ Init => SlotsAgree /\ GateInv
  BY GateInit
<1>2. SlotsAgree /\ GateInv /\ [Next]_vars => (SlotsAgree /\ GateInv)'
  BY GateNext
<1>3. GateInv => GateTrue
  BY DEF GateInv
<1> QED
  BY <1>1, <1>2, <1>3, PTL DEF Spec

\* What an install takes for ready, entry or links, is as it should be.
THEOREM VirtualStoreEntriesHold == SlotsAgree /\ Spec => []EntriesHold
<1>1. TypeOK /\ SharedWhole /\ GateTrue => EntriesHold
  BY DEF EntriesHold
<1> QED
  BY <1>1, VirtualStoreTypeOK, VirtualStoreSharedWhole, VirtualStoreGateTrue, PTL

-----------------------------------------------------------------------------
(* What an install that is done finds.                                     *)

\* A package of the phase has a task, and that has ended well when the install
\* is done.
Begun(t) ==
    t[2] \in Packages[GraphOf(t)] \ job[t[1]].local =>
        /\ job[t[1]].phase \in {"shared", "view"} => pc[t] # "off"
        /\ job[t[1]].phase = "done" => pc[t] = "ok"

\* Links are made beside shared entries, and beside local ones of the project.
LocalWired(t) == pc[t] \in {"wire", "links"} => InShared(t) \/ IsLocal(t)

\* A task that has come to the links has the package, and one that has ended
\* well has the links; as long as the install is in this phase nobody else is
\* about the entry.
Readied(t) ==
    InShared(t) /\ SlotOf(t) \notin raced =>
        /\ pc[t] \in {"wire", "links", "ok"} => Whole(t[2], SlotOf(t))
        /\ pc[t] = "ok" => \A n \in Name :
              Wanted(t)[n] # NONE => dep[SlotOf(t)][n] = Wanted(t)[n]

Viewed(t) ==
    job[t[1]].phase \in {"view", "done"} /\ ~IsLocal(t) /\ pc[t] = "ok" =>
        at[t].to = SlotOf(t)

\* The entry is settled and what it uses is there: an install that comes back
\* to it takes it for ready, and finds every link right.
Firm(g, p) ==
    /\ Settled(g, p)
    /\ \A n \in Name :
          Uses(g, p, n) # NONE => Whole(Uses(g, p, n), Slot[g][Uses(g, p, n)])

Firmly(i) ==
    job[i].phase \in {"view", "done"} =>
        \A p \in Packages[job[i].graph] \ job[i].local :
            Calm(job[i].graph, p) => Firm(job[i].graph, p)

FindInv ==
    /\ GateInv
    /\ \A t \in View : Begun(t) /\ LocalWired(t) /\ Readied(t) /\ Viewed(t)
    /\ \A i \in Project : Firmly(i)

LEMMA UsesInGraph ==
    ASSUME NEW g \in Graph, NEW p \in Packages[g], NEW n \in Name, Uses(g, p, n) # NONE
    PROVE  Uses(g, p, n) \in Packages[g]
  BY VirtualStoreAssumption DEF Uses

\* A shared entry that is whole stays so: who finds it ready leaves it alone.
LEMMA WholeStays ==
    ASSUME SharedInv, NEW t \in View, Step(t), NEW g \in Graph, NEW p \in Packages[g],
           Slot[g][p] \notin raced, Whole(p, Slot[g][p])
    PROVE  Whole(p, Slot[g][p])'
<1> DEFINE s == Slot[g][p]
<1>1. s \in Shared \ raced /\ p \in Package /\ s \in Location
  BY LocationType, VirtualStoreAssumption
<1>2. CASE at'[s] = at[s]
  BY <1>2 DEF Whole
<1>3. CASE s = Place(t) /\ InShared(t) /\ pc[t] = "clear"
  <2>1. at[s].files = {}
    BY <1>1, <1>3 DEF SharedInv, WholeInv, Place
  <2>2. at[s] \in Entry
    BY <1>1 DEF SharedInv, TypeOK
  <2>3. at[s].good = {} /\ Content[p] # {}
    BY <1>1, <2>1, <2>2, VirtualStoreAssumption DEF Entry
  <2> QED
    BY <2>3 DEF Whole
<1>4. CASE s = Place(t) /\ InShared(t) /\ at'[s] = Dir(Content[t[2]])
  <2>1. p = t[2]
    BY <1>1, <1>4, TaskType, VirtualStoreAssumption DEF Place, SlotOf, SharedInv
  <2> QED
    BY <1>4, <2>1 DEF Whole, Dir
<1> QED
  BY <1>1, <1>2, <1>3, <1>4, StepFiles DEF SharedInv

\* Links change when a task inspects or makes one.
LEMMA DepChange ==
    ASSUME NEW t \in View, Step(t)
    PROVE  UNCHANGED dep \/ Make(t) \/ \E n \in Name : Inspect(t, n)
  BY DEF Step, CheckReady, Look, Clear, StageFile, StageFail, Rename, Recheck,
     Wire, WireFail, WriteState, CheckView, LinkView, FillView, FillFail

LEMMA FirmStep ==
    ASSUME SlotsAgree, GateInv, NEW t \in View, Step(t), NEW g \in Graph,
           NEW p \in Packages[g], Calm(g, p), Firm(g, p)
    PROVE  Firm(g, p)'
<1> DEFINE s == Slot[g][p]
<1>0. SharedInv /\ TypeOK /\ JobInv
  BY DEF GateInv, SharedInv
<1>1. s \notin raced /\ Whole(p, s)
  BY DEF Calm, Firm, Settled
<1>2. Whole(p, s)'
  BY <1>0, <1>1, WholeStays
<1>3. ASSUME NEW n \in Name, Uses(g, p, n) # NONE
      PROVE  /\ dep'[s][n] = Slot[g][Uses(g, p, n)]
             /\ Whole(Uses(g, p, n), Slot[g][Uses(g, p, n)])'
  <2> DEFINE d == Uses(g, p, n)
  <2>1. d \in Packages[g] /\ Slot[g][d] \notin raced /\ Whole(d, Slot[g][d])
    BY <1>3, UsesInGraph DEF Calm, Firm
  <2>2. Whole(d, Slot[g][d])'
    BY <1>0, <2>1, WholeStays
  <2>3. dep[s][n] = Slot[g][d]
    BY <1>3 DEF Firm, Settled
  <2>4. s \in Location /\ s \notin View /\ dep \in [Location -> Links] /\ dep[s] \in Links
    BY <1>0, LocationType, VirtualStoreAssumption DEF TypeOK
  <2>5. CASE Place(t) # s
    <3>1. dep'[s] = dep[s]
      BY <1>0, <2>4, <2>5, StepDep
    <3> QED
      BY <2>2, <2>3, <3>1
  <2>6. CASE Place(t) = s
    <3>1. InShared(t) /\ SlotOf(t) = s /\ pc[t] # "off"
      BY <1>0, <2>4, <2>6, StepOthers DEF Place
    <3>2. Wanted(t)[n] = Slot[g][d]
      BY <1>0, <1>3, <3>1, WantedAgree
    <3>3. Exists(Slot[g][d])
      BY <2>1 DEF Exists, Whole
    <3>4. ASSUME NEW m \in Name, Inspect(t, m) PROVE dep'[s][n] = dep[s][n]
      <4>1. CASE m = n
        BY <2>3, <2>6, <3>2, <3>3, <3>4, <4>1 DEF Inspect
      <4>2. CASE m # n
        <5>1. dep' = dep \/ dep' = [dep EXCEPT ![s][m] = NONE]
          BY <2>6, <3>4 DEF Inspect
        <5> QED
          BY <2>4, <4>2, <5>1 DEF Links
      <4> QED
        BY <4>1, <4>2
    <3>5. CASE Make(t)
      <4>1. dep' = dep \/ dep' = [dep EXCEPT ![s][making[t]] = Wanted(t)[making[t]]]
        BY <2>6, <3>5 DEF Make
      <4>2. dep'[s][n] = dep[s][n] \/ dep'[s][n] = Wanted(t)[n]
        BY <2>4, <4>1 DEF Links
      <4> QED
        BY <2>2, <2>3, <3>2, <4>2
    <3> QED
      BY <2>2, <2>3, <3>4, <3>5, DepChange
  <2> QED
    BY <2>2, <2>5, <2>6
<1> QED
  BY <1>2, <1>3 DEF Firm, Settled

\* A step of a task leaves the links of the other places in a project.
LEMMA ViewKept ==
    ASSUME TypeOK, JobInv, NEW t \in View, Step(t), NEW u \in View, u # t
    PROVE  at'[u].to = at[u].to
<1>1. /\ Place(t) \in Location /\ SlotOf(t) \in Location /\ SlotOf(t) # u /\ u \in Location
      /\ at \in [Location -> Entry] /\ dep \in [Location -> Links] /\ at[u] \in Entry
      /\ Place(t) # u
  BY TaskType, VirtualStoreAssumption DEF TypeOK, Location, Place
<1>2. CASE Clear(t)
  BY <1>1, <1>2 DEF Clear
<1>3. CASE Rename(t)
  BY <1>1, <1>3 DEF Rename
<1>4. CASE Make(t)
  <2>1. at' = at \/ at' = [at EXCEPT ![dep[Place(t)][making[t]]].good = {}]
    BY <1>4 DEF Make
  <2> QED
    BY <1>1, <2>1 DEF Entry
<1>5. CASE LinkView(t) \/ FillView(t)
  BY <1>1, <1>5 DEF LinkView, FillView
<1>6. CASE UNCHANGED at
  BY <1>6
<1> QED
  BY <1>2, <1>3, <1>4, <1>5, <1>6 DEF Step, CheckReady, Look, StageFile,
     StageFail, Recheck, Wire, Inspect, WireFail, WriteState, CheckView, FillFail

LEMMA ReadiedStep ==
    ASSUME SlotsAgree, GateInv, \A u \in View : Readied(u), NEW t \in View, Step(t), NEW u \in View
    PROVE  Readied(u)'
<1> DEFINE s == SlotOf(u)
<1>0. /\ SharedInv /\ TypeOK /\ JobInv /\ RaceInv
      /\ raced' = raced /\ InShared(u)' = InShared(u) /\ s' = s /\ Wanted(u)' = Wanted(u)
  BY StepFrame, Frame DEF GateInv, SharedInv
<1> SUFFICES ASSUME InShared(u), s \notin raced
             PROVE  /\ pc'[u] \in {"wire", "links", "ok"} => Whole(u[2], s)'
                    /\ pc'[u] = "ok" => \A n \in Name :
                          Wanted(u)[n] # NONE => dep'[s][n] = Wanted(u)[n]
  BY <1>0 DEF Readied, Whole
<1>1. /\ s \in Shared /\ s \in Location /\ Place(u) = s /\ u[2] \in Package
      /\ GraphOf(u) \in Graph /\ Slot[GraphOf(u)][u[2]] = s
  BY <1>0, TaskType DEF Place, SlotOf
<1>2. ASSUME Whole(u[2], s), pc[u] # "off" PROVE Whole(u[2], s)'
  <2>1. u[2] \in Packages[GraphOf(u)]
    BY <1>0, <1>2 DEF JobInv
  <2>2. ASSUME NEW g \in Graph, g = GraphOf(u) PROVE Whole(u[2], Slot[g][u[2]])'
    BY <1>0, <1>1, <1>2, <2>1, <2>2, WholeStays
  <2>3. PICK g \in Graph : g = GraphOf(u)
    BY <1>1
  <2>4. Slot[g][u[2]] = s
    BY <1>1, <2>3
  <2> QED
    BY <1>0, <2>2, <2>3, <2>4 DEF Whole
<1>3. CASE u # t
  <2>1. pc'[u] = pc[u] /\ pc[t] # "off"
    BY <1>0, <1>3, StepOthers
  <2>2. pc[u] # "off" => dep'[s] = dep[s]
    <3> HAVE pc[u] # "off"
    <3>1. Place(t) # s
      BY <1>0, <1>1, <1>3, <2>1, SamePlace
    <3> QED
      BY <1>0, <1>1, <3>1, StepDep
  <2> QED
    BY <1>2, <2>1, <2>2 DEF Readied
<1>4. CASE u = t
  <2>1. pc \in [View -> PC] /\ pc[t] # "off" /\ t[2] \in Packages[GraphOf(t)]
    BY <1>0, <1>4, StepOthers DEF TypeOK, JobInv
  <2>2. Ready(s) => Whole(t[2], s)
    BY <1>0, <1>1, <1>4, <2>1 DEF SharedInv, WholeInv, Ready
  <2>3. ASSUME pc'[t] \in {"wire", "links", "ok"} PROVE Whole(t[2], s)'
    <3>1. CASE Rename(t)
      <4>1. at'[s] = Dir(Content[t[2]])
        BY <1>0, <1>1, <1>4, <2>1, <2>3, <3>1 DEF Rename, Goto, TypeOK
      <4> QED
        BY <1>0, <4>1 DEF Whole, Dir
    <3>2. CASE CheckReady(t) \/ Recheck(t)
      <4>1. Ready(s)
        BY <1>4, <2>1, <2>3, <3>2 DEF CheckReady, Recheck, Goto
      <4> QED
        BY <1>2, <1>4, <2>1, <2>2, <4>1
    <3>3. CASE pc[t] \in {"wire", "links"}
      BY <1>2, <1>4, <2>1, <3>3 DEF Readied
    <3>4. ASSUME ~Rename(t), ~CheckReady(t), ~Recheck(t) PROVE pc[t] \in {"wire", "links"}
      BY <1>0, <1>4, <2>1, <2>3, <3>4 DEF Step, Look, Clear, StageFile, StageFail, Wire,
         Inspect, Make, WireFail, WriteState, CheckView, LinkView, FillView, FillFail,
         Goto, JobInv
    <3> QED
      BY <3>1, <3>2, <3>3, <3>4
  <2>4. ASSUME pc'[t] = "ok", NEW n \in Name, Wanted(t)[n] # NONE
        PROVE  dep'[s][n] = Wanted(t)[n]
    <3>1. CASE Wire(t)
      <4>1. gate[s].current /\ gate[s].links = Wanted(t) /\ dep' = dep
        BY <1>1, <1>4, <2>1, <2>4, <3>1 DEF Wire, Goto
      <4> QED
        BY <1>1, <2>4, <4>1 DEF GateInv, GateTrue
    <3>2. CASE WriteState(t)
      <4>1. /\ pc[t] = "links" /\ n \notin todo[t] /\ making[t] = NONE /\ dep' = dep
            /\ n # making[t]
        BY <3>2, VirtualStoreAssumption DEF WriteState
      <4> QED
        BY <1>1, <1>4, <2>4, <4>1 DEF GateInv, LinkedInv
    <3>3. ASSUME ~Wire(t), ~WriteState(t) PROVE FALSE
      BY <1>0, <1>4, <2>1, <2>4, <3>3 DEF Step, CheckReady, Look, Clear, StageFile, StageFail,
         Rename, Recheck, Inspect, Make, WireFail, CheckView, LinkView, FillView, FillFail,
         Goto, JobInv
    <3> QED
      BY <3>1, <3>2, <3>3
  <2> QED
    BY <1>4, <2>3, <2>4
<1> QED
  BY <1>3, <1>4

\* The other parts, for the task that takes the step and for the others
LEMMA ViewStep ==
    ASSUME TypeOK, JobInv, \A u \in View : Begun(u) /\ LocalWired(u) /\ Viewed(u),
           NEW t \in View, Step(t), NEW u \in View
    PROVE  Begun(u)' /\ LocalWired(u)' /\ Viewed(u)'
<1>1. /\ job' = job /\ InShared(u)' = InShared(u) /\ IsLocal(u)' = IsLocal(u)
      /\ GraphOf(u)' = GraphOf(u) /\ SlotOf(u)' = SlotOf(u)
  BY StepFrame, Frame
<1>2. Begun(u) /\ LocalWired(u) /\ Viewed(u)
  OBVIOUS
<1>3. CASE u # t
  <2>1. pc'[u] = pc[u] /\ at'[u].to = at[u].to
    BY <1>3, StepOthers, ViewKept
  <2> QED
    BY <1>1, <1>2, <2>1 DEF Begun, LocalWired, Viewed
<1>4. CASE u = t
  <2>1. /\ pc \in [View -> PC] /\ at \in [Location -> Entry] /\ t \in Location /\ t \in View
        /\ pc[t] \in {"look", "stage", "recheck"} => InShared(t)
        /\ pc[t] = "fill" => ~InShared(t)
    BY TaskType DEF TypeOK, JobInv
  <2>2. Working(t) /\ pc'[t] # "off"
    BY <2>1 DEF Step, CheckReady, Look, Clear, StageFile, StageFail, Rename, Recheck,
       Wire, Inspect, Make, WireFail, WriteState, CheckView, LinkView, FillView,
       FillFail, Goto, Working
  <2>3. job[t[1]].phase \in {"shared", "view"}
    BY <2>2 DEF JobInv
  <2>4. pc'[t] \in {"wire", "links"} => InShared(t) \/ IsLocal(t)
    <3>1. pc[t] \in {"wire", "links"} => InShared(t) \/ IsLocal(t)
      BY DEF LocalWired
    <3> QED
      BY <2>1, <3>1 DEF Step, CheckReady, Look, Clear, StageFile, StageFail, Rename, Recheck,
         Wire, Inspect, Make, WireFail, WriteState, CheckView, LinkView, FillView,
         FillFail, Goto
  <2>5. ASSUME job[t[1]].phase = "view", ~IsLocal(t), pc'[t] = "ok"
        PROVE  at'[t].to = SlotOf(t)
    <3>1. ~InShared(t) /\ pc[t] \notin {"wire", "links"}
      BY <2>5, <1>2, <1>4 DEF InShared, LocalWired
    <3>2. CASE CheckView(t)
      BY <2>1, <2>5, <3>2 DEF CheckView, Goto
    <3>3. CASE LinkView(t)
      BY <2>1, <3>3 DEF LinkView, Link
    <3>4. ASSUME ~CheckView(t), ~LinkView(t) PROVE FALSE
      BY <2>1, <2>5, <3>1, <3>4 DEF Step, CheckReady, Look, Clear, StageFile, StageFail, Rename,
         Recheck, Wire, Inspect, Make, WireFail, WriteState, FillView, FillFail, Goto
    <3> QED
      BY <3>2, <3>3, <3>4
  <2>6. Begun(t)'
    BY <1>1, <1>4, <2>2, <2>3 DEF Begun
  <2>7. LocalWired(t)'
    BY <1>1, <1>4, <2>4 DEF LocalWired
  <2>8. Viewed(t)'
    BY <1>1, <1>4, <2>3, <2>5 DEF Viewed
  <2> QED
    BY <1>4, <2>6, <2>7, <2>8
<1> QED
  BY <1>3, <1>4

LEMMA FindStep ==
    ASSUME SlotsAgree, FindInv, NEW t \in View, Step(t)
    PROVE  /\ \A u \in View : Begun(u)' /\ LocalWired(u)' /\ Readied(u)' /\ Viewed(u)'
           /\ \A i \in Project : Firmly(i)'
<1>0. GateInv /\ TypeOK /\ JobInv /\ job' = job /\ raced' = raced
  BY StepFrame DEF FindInv, GateInv, SharedInv
<1>1. ASSUME NEW u \in View PROVE Begun(u)' /\ LocalWired(u)' /\ Readied(u)' /\ Viewed(u)'
  <2>1. Readied(u)'
    BY <1>0, ReadiedStep DEF FindInv
  <2>2. Begun(u)' /\ LocalWired(u)' /\ Viewed(u)'
    BY <1>0, ViewStep DEF FindInv
  <2> QED
    BY <2>1, <2>2
<1>2. ASSUME NEW i \in Project, job[i].phase \in {"view", "done"}, NEW g \in Graph, g = job[i].graph,
             NEW p \in Packages[g] \ job[i].local, Calm(g, p)'
      PROVE  Firm(g, p)'
  <2>1. Calm(g, p)
    BY <1>0, <1>2 DEF Calm
  <2>2. Firm(g, p)
    BY <1>2, <2>1 DEF FindInv, Firmly
  <2> QED
    BY <1>0, <2>1, <2>2, FirmStep
<1>3. ASSUME NEW i \in Project PROVE Firmly(i)'
  <2>1. PICK g \in Graph : g = job[i].graph
    BY <1>0 DEF TypeOK, Job
  <2>2. job'[i].graph = g /\ job'[i].local = job[i].local /\ job'[i].phase = job[i].phase
    BY <1>0, <2>1
  <2> SUFFICES ASSUME job[i].phase \in {"view", "done"}, NEW p \in Packages[g] \ job[i].local,
                      Calm(g, p)'
               PROVE  Firm(g, p)'
    BY <2>2 DEF Firmly, Calm, Firm, Settled, Whole
  <2> QED
    BY <1>2, <2>1
<1> QED
  BY <1>1, <1>3

\* The tasks of another project, when an install begins, goes on or ends
LEMMA FindOther ==
    ASSUME FindInv, NEW t \in View, pc'[t] = pc[t], job'[t[1]] = job[t[1]],
           at' = at, dep' = dep, raced \subseteq raced'
    PROVE  Begun(t)' /\ LocalWired(t)' /\ Readied(t)' /\ Viewed(t)'
<1>1. /\ InShared(t)' = InShared(t) /\ IsLocal(t)' = IsLocal(t)
      /\ GraphOf(t)' = GraphOf(t)
  BY DEF InShared, IsLocal, GraphOf
<1>2. SlotOf(t)' = SlotOf(t) /\ Wanted(t)' = Wanted(t)
  BY <1>1 DEF SlotOf, Wanted
<1>3. Begun(t) /\ LocalWired(t) /\ Readied(t) /\ Viewed(t)
  BY DEF FindInv
<1>4. Begun(t)' /\ LocalWired(t)' /\ Viewed(t)'
  BY <1>1, <1>2, <1>3 DEF Begun, LocalWired, Viewed
<1>5. Readied(t)'
  BY <1>1, <1>2, <1>3 DEF Readied, Whole
<1> QED
  BY <1>4, <1>5

\* What was firm is, when an install begins, goes on or ends.
LEMMA FirmOther ==
    ASSUME TypeOK, NEW i \in Project, Firmly(i), at' = at, dep' = dep, raced \subseteq raced',
           job'[i].graph = job[i].graph, job'[i].local = job[i].local,
           job'[i].phase \in {"view", "done"} => job[i].phase \in {"view", "done"}
    PROVE  Firmly(i)'
<1>1. PICK g \in Graph : g = job[i].graph
  BY DEF TypeOK, Job
<1> SUFFICES ASSUME job[i].phase \in {"view", "done"}, NEW p \in Packages[g] \ job[i].local,
                    Calm(g, p)'
             PROVE  Firm(g, p)'
  BY <1>1 DEF Firmly, Calm, Firm, Settled, Whole
<1>2. Calm(g, p)
  BY DEF Calm
<1>3. Firm(g, p)
  BY <1>1, <1>2 DEF Firmly
<1> QED
  BY <1>3 DEF Firm, Settled, Whole

\* When all tasks of the shared phase have ended well, the entries are firm.
LEMMA FirmWhenShared ==
    ASSUME FindInv, NEW i \in Project, Done(i, "shared"), NEW g \in Graph, g = job[i].graph,
           NEW p \in Packages[g] \ job[i].local, Calm(g, p)
    PROVE  Firm(g, p)
<1>0. TypeOK /\ JobInv
  BY DEF FindInv, GateInv, SharedInv
<1>1. ASSUME NEW q \in Packages[g] \ job[i].local, Slot[g][q] \notin raced
      PROVE  /\ Whole(q, Slot[g][q])
             /\ \A n \in Name : Uses(g, q, n) # NONE =>
                   dep[Slot[g][q]][n] = Slot[g][Uses(g, q, n)]
  <2> DEFINE t == <<i, q>>
  <2>1. q \in Package /\ t \in View /\ t[1] = i /\ t[2] = q
    BY VirtualStoreAssumption DEF View
  <2>2. InShared(t) /\ GraphOf(t) = g /\ SlotOf(t) = Slot[g][q]
    BY <2>1 DEF Done, InShared, GraphOf, SlotOf
  <2>3. Begun(t) /\ Readied(t)
    BY <2>1 DEF FindInv
  <2>4. pc[t] \in {"off", "ok"} /\ job[i].phase = "shared"
    BY <2>1 DEF Done
  <2>5. pc[t] = "ok"
    BY <1>1, <2>1, <2>2, <2>3, <2>4 DEF Begun
  <2>6. \A n \in Name : Uses(g, q, n) # NONE =>
            Uses(g, q, n) \in Package /\ Wanted(t)[n] = Slot[g][Uses(g, q, n)]
    BY <2>1, <2>2, UsesType DEF Wanted
  <2>7. \A n \in Name : Uses(g, q, n) # NONE => Slot[g][Uses(g, q, n)] # NONE
    BY <2>6, LocationType, VirtualStoreAssumption
  <2> QED
    BY <1>1, <2>1, <2>2, <2>3, <2>5, <2>6, <2>7 DEF Readied
<1>2. \A n \in Name : Uses(g, p, n) # NONE =>
          /\ Uses(g, p, n) \in Packages[g] \ job[i].local
          /\ Slot[g][Uses(g, p, n)] \notin raced
  BY <1>0 DEF JobInv, Calm
<1> QED
  BY <1>1, <1>2 DEF Firm, Settled, Calm

LEMMA FindInit == Init => FindInv
<1> SUFFICES ASSUME Init PROVE FindInv
  OBVIOUS
<1>1. \A i \in Project : job[i].phase = "idle"
  BY DEF Init
<1>2. \A t \in View : pc[t] = "off" /\ t[1] \in Project
  BY DEF Init, View
<1>3. \A t \in View : Begun(t) /\ LocalWired(t) /\ Readied(t) /\ Viewed(t)
  BY <1>1, <1>2 DEF Begun, LocalWired, Readied, Viewed, InShared
<1>4. \A i \in Project : Firmly(i)
  BY <1>1 DEF Firmly
<1> QED
  BY <1>3, <1>4, GateInit DEF FindInv

LEMMA FindNext == SlotsAgree /\ FindInv /\ [Next]_vars => FindInv'
<1> SUFFICES ASSUME SlotsAgree, FindInv, [Next]_vars
             PROVE  /\ \A t \in View : Begun(t)' /\ LocalWired(t)' /\ Readied(t)' /\ Viewed(t)'
                    /\ \A i \in Project : Firmly(i)'
  BY GateNext DEF FindInv
<1>0. GateInv /\ SharedInv /\ TypeOK /\ JobInv /\ GateInv' /\ job \in [Project -> Job]
  BY GateNext DEF FindInv, GateInv, SharedInv, TypeOK
<1>v. \A t \in View : t[1] \in Project /\ t[2] \in Package /\ t = <<t[1], t[2]>>
  BY DEF View
\* An install does something: the others find what they found.
<1>o. ASSUME NEW i \in Project, at' = at, dep' = dep, raced \subseteq raced',
             \A t \in View : t[1] # i => pc'[t] = pc[t],
             \A j \in Project : j # i => job'[j] = job[j],
             \A t \in View : t[1] = i => Begun(t)' /\ LocalWired(t)' /\ Readied(t)' /\ Viewed(t)',
             Firmly(i)'
      PROVE  /\ \A t \in View : Begun(t)' /\ LocalWired(t)' /\ Readied(t)' /\ Viewed(t)'
             /\ \A j \in Project : Firmly(j)'
  <2>1. ASSUME NEW t \in View PROVE Begun(t)' /\ LocalWired(t)' /\ Readied(t)' /\ Viewed(t)'
    <3>1. CASE t[1] = i
      BY <1>o, <3>1
    <3>2. CASE t[1] # i
      BY <1>o, <1>v, <3>2, FindOther
    <3> QED
      BY <3>1, <3>2
  <2>2. ASSUME NEW j \in Project, j # i PROVE Firmly(j)'
    <3>1. Firmly(j) /\ job'[j] = job[j]
      BY <1>o, <2>2 DEF FindInv
    <3> QED
      BY <1>0, <1>o, <3>1, FirmOther
  <2> QED
    BY <1>o, <2>1, <2>2
<1>1. CASE UNCHANGED vars
  <2>1. UNCHANGED <<at, dep, raced, job, pc>>
    BY <1>1 DEF vars, taskVars
  <2>2. \A t \in View : Begun(t)' /\ LocalWired(t)' /\ Readied(t)' /\ Viewed(t)'
    BY <2>1, FindOther
  <2>3. \A i \in Project : Firmly(i)'
    BY <1>0, <2>1, FirmOther DEF FindInv
  <2> QED
    BY <2>2, <2>3
<1>2. ASSUME NEW t \in View, Step(t)
      PROVE  /\ \A u \in View : Begun(u)' /\ LocalWired(u)' /\ Readied(u)' /\ Viewed(u)'
             /\ \A i \in Project : Firmly(i)'
  BY <1>2, FindStep
<1>3. ASSUME NEW i \in Project, NEW g \in Graph, NEW unsafe \in Unsafe, Begin(i, g, unsafe)
      PROVE  /\ \A t \in View : Begun(t)' /\ LocalWired(t)' /\ Readied(t)' /\ Viewed(t)'
             /\ \A j \in Project : Firmly(j)'
  <2>1. /\ job'[i] = [phase |-> "shared", graph |-> g, local |-> LocalIds(g, unsafe)]
        /\ \A j \in Project : j # i => job'[j] = job[j]
        /\ at' = at /\ dep' = dep /\ raced \subseteq raced'
    BY <1>0, <1>3 DEF Begin
  <2>2. \A t \in View : pc'[t] = IF t[1] # i THEN pc[t]
            ELSE IF t[2] \in Packages[g] \ LocalIds(g, unsafe) THEN "start" ELSE "off"
    BY <1>3 DEF Begin, Start
  <2>3. ASSUME NEW t \in View, t[1] = i
        PROVE  Begun(t)' /\ LocalWired(t)' /\ Readied(t)' /\ Viewed(t)'
    <3>1. /\ job'[t[1]].phase = "shared" /\ job'[t[1]].local = LocalIds(g, unsafe)
          /\ GraphOf(t)' = g /\ pc'[t] \in {"start", "off"}
          /\ t[2] \in Packages[g] \ LocalIds(g, unsafe) => pc'[t] = "start"
      BY <2>1, <2>2, <2>3 DEF GraphOf
    <3> QED
      BY <3>1 DEF Begun, LocalWired, Readied, Viewed
  <2>4. Firmly(i)'
    BY <2>1 DEF Firmly
  <2>5. \A t \in View : t[1] # i => pc'[t] = pc[t]
    BY <2>2
  <2> QED
    BY <1>o, <2>1, <2>3, <2>4, <2>5
<1>4. ASSUME NEW i \in Project, EndShared(i)
      PROVE  /\ \A t \in View : Begun(t)' /\ LocalWired(t)' /\ Readied(t)' /\ Viewed(t)'
             /\ \A j \in Project : Firmly(j)'
  <2>1. /\ job'[i].phase = "view" /\ job'[i].graph = job[i].graph /\ job'[i].local = job[i].local
        /\ \A j \in Project : j # i => job'[j] = job[j]
        /\ at' = at /\ dep' = dep /\ raced' = raced /\ Done(i, "shared")
    BY <1>0, <1>4 DEF EndShared, Job
  <2>2. \A t \in View : pc'[t] = IF t[1] # i THEN pc[t]
            ELSE IF t[2] \in Packages[job[i].graph] THEN "start" ELSE "off"
    BY <1>4 DEF EndShared, Start
  <2>3. ASSUME NEW t \in View, t[1] = i
        PROVE  Begun(t)' /\ LocalWired(t)' /\ Readied(t)' /\ Viewed(t)'
    <3>1. /\ job'[t[1]].phase = "view" /\ GraphOf(t)' = job[i].graph /\ pc'[t] \in {"start", "off"}
          /\ t[2] \in Packages[job[i].graph] => pc'[t] = "start"
      BY <2>1, <2>2, <2>3 DEF GraphOf
    <3> QED
      BY <3>1 DEF Begun, LocalWired, Readied, Viewed, InShared
  <2>4. Firmly(i)'
    <3>1. PICK g \in Graph : g = job[i].graph
      BY <1>0 DEF Job
    <3> SUFFICES ASSUME NEW p \in Packages[g] \ job[i].local, Calm(g, p)' PROVE Firm(g, p)'
      BY <2>1, <3>1 DEF Firmly, Calm, Firm, Settled, Whole
    <3>2. Firm(g, p)
      BY <2>1, <3>1, FirmWhenShared DEF Calm
    <3> QED
      BY <2>1, <3>2 DEF Firm, Settled, Whole
  <2>5. \A t \in View : t[1] # i => pc'[t] = pc[t]
    BY <2>2
  <2> QED
    BY <1>o, <2>1, <2>3, <2>4, <2>5
<1>5. ASSUME NEW i \in Project, EndView(i)
      PROVE  /\ \A t \in View : Begun(t)' /\ LocalWired(t)' /\ Readied(t)' /\ Viewed(t)'
             /\ \A j \in Project : Firmly(j)'
  <2>1. /\ job'[i].phase = "done" /\ job'[i].graph = job[i].graph /\ job'[i].local = job[i].local
        /\ \A j \in Project : j # i => job'[j] = job[j]
        /\ at' = at /\ dep' = dep /\ raced' = raced /\ pc' = pc
        /\ job[i].phase = "view" /\ \A p \in Package : pc[<<i, p>>] \in {"off", "ok"}
    BY <1>0, <1>5 DEF EndView, Job, taskVars, Done
  <2>3. ASSUME NEW t \in View, t[1] = i
        PROVE  Begun(t)' /\ LocalWired(t)' /\ Readied(t)' /\ Viewed(t)'
    <3>1. /\ job'[t[1]].phase = "done" /\ GraphOf(t)' = GraphOf(t) /\ pc'[t] = pc[t]
          /\ job'[t[1]].local = job[t[1]].local /\ pc[t] \in {"off", "ok"}
          /\ SlotOf(t)' = SlotOf(t) /\ IsLocal(t)' = IsLocal(t) /\ job[t[1]].phase = "view"
      BY <1>v, <2>1, <2>3 DEF GraphOf, SlotOf, IsLocal
    <3>2. Begun(t) /\ Viewed(t)
      BY DEF FindInv
    <3>3. Begun(t)' /\ LocalWired(t)' /\ Readied(t)'
      BY <3>1, <3>2 DEF Begun, LocalWired, Readied, InShared
    <3>4. Viewed(t)'
      BY <2>1, <3>1, <3>2 DEF Viewed
    <3> QED
      BY <3>3, <3>4
  <2>4. Firmly(i)'
    BY <1>0, <2>1, FirmOther DEF FindInv
  <2> QED
    BY <1>o, <2>1, <2>3, <2>4
<1>6. ASSUME NEW i \in Project, Fail(i) \/ Crash(i)
      PROVE  /\ \A t \in View : Begun(t)' /\ LocalWired(t)' /\ Readied(t)' /\ Viewed(t)'
             /\ \A j \in Project : Firmly(j)'
  <2>1. /\ job'[i].phase = "failed"
        /\ \A j \in Project : j # i => job'[j] = job[j]
        /\ at' = at /\ dep' = dep /\ raced' = raced
    BY <1>0, <1>6 DEF Fail, Crash, Job
  <2>2. \A t \in View : IF t[1] # i THEN pc'[t] = pc[t] ELSE pc'[t] \in {"off", "ok", "err"}
    <3>1. CASE Fail(i)
      <4>1. \A p \in Package : pc[<<i, p>>] \in {"off", "ok", "err"}
        BY <3>1 DEF Fail, Ended
      <4>2. pc' = pc
        BY <3>1 DEF Fail, taskVars
      <4> QED
        BY <1>v, <4>1, <4>2
    <3>2. CASE Crash(i)
      BY <3>2 DEF Crash, Start
    <3> QED
      BY <1>6, <3>1, <3>2
  <2>3. ASSUME NEW t \in View, t[1] = i
        PROVE  Begun(t)' /\ LocalWired(t)' /\ Readied(t)' /\ Viewed(t)'
    BY <2>1, <2>2, <2>3 DEF Begun, LocalWired, Readied, Viewed, InShared
  <2>4. Firmly(i)'
    BY <2>1 DEF Firmly
  <2> QED
    BY <1>o, <2>1, <2>2, <2>3, <2>4
<1> QED
  BY <1>1, <1>2, <1>3, <1>4, <1>5, <1>6 DEF Next

\* If the names of entries cover what the packages use (SlotsAgree), an install
\* that is done finds every shared package of its graph from the project, whole
\* and linked to what was resolved, and keeps finding it while other installs
\* come back to the same entries, fail or are killed; entries that two installs
\* were about at the same time are left out (populate_virtual_store).
THEOREM VirtualStoreSharedFinds == SlotsAgree /\ Spec => []SharedFinds
<1>1. SlotsAgree /\ Init => SlotsAgree /\ FindInv
  BY FindInit
<1>2. SlotsAgree /\ FindInv /\ [Next]_vars => (SlotsAgree /\ FindInv)'
  BY FindNext
<1>3. FindInv => SharedFinds
  <2> SUFFICES ASSUME FindInv, NEW i \in Project, job[i].phase = "done",
                      NEW p \in Packages[job[i].graph] \ job[i].local, Calm(job[i].graph, p)
               PROVE  /\ at[<<i, p>>].to = Slot[job[i].graph][p]
                      /\ Settled(job[i].graph, p)
                      /\ \A n \in Name : Uses(job[i].graph, p, n) \notin job[i].local
    BY DEF SharedFinds
  <2>0. TypeOK /\ JobInv /\ job[i].graph \in Graph /\ job[i].local \subseteq Package
    BY DEF FindInv, GateInv, SharedInv, TypeOK, Job
  <2> DEFINE t == <<i, p>>
  <2>1. p \in Package /\ t \in View /\ t[1] = i /\ t[2] = p
    BY <2>0, VirtualStoreAssumption DEF View
  <2>2. Begun(t) /\ Viewed(t)
    BY <2>1 DEF FindInv
  <2>3. pc[t] = "ok"
    BY <2>1, <2>2 DEF Begun, GraphOf
  <2>4. at[t].to = Slot[job[i].graph][p]
    BY <2>1, <2>2, <2>3 DEF Viewed, IsLocal, SlotOf, GraphOf
  <2>5. Settled(job[i].graph, p)
    BY DEF FindInv, Firmly, Firm
  <2>6. \A n \in Name : Uses(job[i].graph, p, n) \notin job[i].local
    BY <2>0, VirtualStoreAssumption DEF JobInv
  <2> QED
    BY <2>4, <2>5, <2>6
<1> QED
  BY <1>1, <1>2, <1>3, PTL DEF Spec

=============================================================================
