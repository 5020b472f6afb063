--------------------------- MODULE ResolverProofs ---------------------------
(***************************************************************************)
(* Proofs about the resolution engine: about Resolver, for every           *)
(* dependency graph, every seed and every set of requests that may fail,   *)
(* and about PackumentFetch, for any number of calls, keys and permits.    *)
(***************************************************************************)
EXTENDS Resolver, PackumentFetch, TLAPS

Label == {"none", "start", "import", "selected", "deps", "ok", "seeded", "err"}

\* What a complete package reaches is in the seed and complete itself.
LEMMA CompleteInSeed ==
    ASSUME NEW p, Complete(p)
    PROVE  p \in Seed
  BY DEF Complete

LEMMA CompleteDown ==
    ASSUME NEW p, Complete(p), NEW q \in Targets(SeedDeps[p])
    PROVE  Complete(q)
<1>1. PICK S \in SUBSET Seed :
        p \in S /\ \A x \in S : Targets(SeedDeps[x]) \subseteq S
  BY DEF Complete
<1>2. q \in S
  BY <1>1
<1> QED
  BY <1>1, <1>2 DEF Complete

\* Goto moves one call and leaves the others where they are.
LEMMA GotoEffect ==
    ASSUME TypeOK, NEW c \in Caller, NEW n \in Name, NEW l \in Label,
           Goto(c, n, l)
    PROVE  /\ call' \in [Caller -> [Name -> Label]]
           /\ call'[c][n] = l
           /\ \A d \in Caller, m \in Name :
                d # c \/ m # n => call'[d][m] = call[d][m]
<1>1. call \in [Caller -> [Name -> Label]]
  BY DEF TypeOK, Label
<1>2. call' = [call EXCEPT ![c] = [call[c] EXCEPT ![n] = l]]
  BY DEF Goto
<1>3. [call[c] EXCEPT ![n] = l] \in [Name -> Label]
  BY <1>1
<1> QED
  BY <1>1, <1>2, <1>3

\* Insert starts the calls of the new package.
LEMMA InsertEffect ==
    ASSUME TypeOK, NEW c \in Caller, NEW n \in Name, Insert(c, n),
           Pick[c][n] \in Package
    PROVE  /\ call' \in [Caller -> [Name -> Label]]
           /\ call'[c][n] = "deps"
           /\ \A d \in Caller, m \in Name :
                d # c \/ m # n =>
                  call'[d][m] = IF d = Pick[c][n] THEN Calls(d)[m] ELSE call[d][m]
<1> DEFINE p == Pick[c][n]
           calls == [call EXCEPT ![p] = Calls(p)]
<1>1. call \in [Caller -> [Name -> Label]] /\ p \in Caller
  BY DEF TypeOK, Label, Caller
<1>2. Calls(p) \in [Name -> Label]
  BY DEF Calls, Label
<1>3. /\ calls \in [Caller -> [Name -> Label]]
      /\ \A d \in Caller : calls[d] = IF d = p THEN Calls(d) ELSE call[d]
  BY <1>1, <1>2
<1>4. call' = [calls EXCEPT ![c] = [calls[c] EXCEPT ![n] = "deps"]]
  BY DEF Insert
<1> HIDE DEF calls, p
<1>5. [calls[c] EXCEPT ![n] = "deps"] \in [Name -> Label]
  BY <1>3 DEF Label
<1> QED
  BY <1>3, <1>4, <1>5 DEF p

\* What a call's import has visited changes for that call alone.
NowVisited(c, n, V) == imported' = [imported EXCEPT ![c][n] = V]

LEMMA VisitEffect ==
    ASSUME TypeOK, NEW c \in Caller, NEW n \in Name, NEW V \in SUBSET Package,
           NowVisited(c, n, V)
    PROVE  /\ imported' \in [Caller -> [Name -> SUBSET Package]]
           /\ imported'[c][n] = V
           /\ \A d \in Caller, m \in Name :
                d # c \/ m # n => imported'[d][m] = imported[d][m]
<1>1. imported \in [Caller -> [Name -> SUBSET Package]]
  BY DEF TypeOK
<1>2. imported' = [imported EXCEPT ![c] = [imported[c] EXCEPT ![n] = V]]
  BY DEF NowVisited
<1>3. [imported[c] EXCEPT ![n] = V] \in [Name -> SUBSET Package]
  BY <1>1
<1> QED
  BY <1>1, <1>2, <1>3

LEMMA ImportClears ==
    ASSUME TypeOK, NEW c \in Caller, NEW n \in Name, StartImport(c, n) \/ EndImport(c, n)
    PROVE  /\ imported' \in [Caller -> [Name -> SUBSET Package]]
           /\ imported'[c][n] = {}
           /\ \A d \in Caller, m \in Name :
                d # c \/ m # n => imported'[d][m] = imported[d][m]
<1>1. NowVisited(c, n, {})
  BY DEF StartImport, EndImport, NowVisited
<1>2. {} \in SUBSET Package
  OBVIOUS
<1> QED
  BY <1>1, <1>2, VisitEffect

LEMMA ImportVisits ==
    ASSUME TypeOK, NEW c \in Caller, NEW n \in Name, NEW x \in Package, Import(c, n, x)
    PROVE  /\ imported' \in [Caller -> [Name -> SUBSET Package]]
           /\ imported'[c][n] = imported[c][n] \cup {x}
           /\ \A d \in Caller, m \in Name :
                d # c \/ m # n => imported'[d][m] = imported[d][m]
<1> DEFINE V == imported[c][n] \cup {x}
<1>1. NowVisited(c, n, V)
  BY DEF Import, NowVisited
<1>2. V \in SUBSET Package
  BY DEF TypeOK
<1> HIDE DEF V
<1>3. /\ imported' \in [Caller -> [Name -> SUBSET Package]]
      /\ imported'[c][n] = V
      /\ \A d \in Caller, m \in Name : d # c \/ m # n => imported'[d][m] = imported[d][m]
  BY <1>1, <1>2, VisitEffect
<1> QED
  BY <1>3 DEF V

\* Replacing the edges of one package keeps their type.
LEMMA EdgesType ==
    ASSUME TypeOK, NEW p \in Package, NEW e \in Edges
    PROVE  [edges EXCEPT ![p] = e] \in [Package -> Edges]
  BY DEF TypeOK

LEMMA NotifyType ==
    ASSUME TypeOK, NEW p \in Package, Notify(p)
    PROVE  /\ notified' \in [Package -> 0 .. MaxNotified]
           /\ notified'[p] = notified[p] + 1
           /\ \A q \in Package : q # p => notified'[q] = notified[q]
<1>1. notified[p] + 1 \in 0 .. MaxNotified
  BY ResolverAssumption DEF TypeOK, Notify
<1> QED
  BY <1>1 DEF TypeOK, Notify

LEMMA Constants ==
    /\ ROOT \in Caller /\ Package \subseteq Caller
    /\ \A c \in Caller, n \in Name : Pick[c][n] \in Package \cup {NONE}
    /\ \A c \in Caller, n \in Name : SeedDeps[c][n] \in Package \cup {NONE}
    /\ \A c \in Caller : SeedDeps[c] \in Edges
    /\ NoEdges \in Edges
    /\ \A c \in Caller : Answers(c) \in Edges
<1>1. \A c \in Caller, n \in Name : Pick[c][n] \in Package \cup {NONE}
  BY ResolverAssumption DEF Edges
<1>2. \A c \in Caller, n \in Name : SeedDeps[c][n] \in Package \cup {NONE}
  BY ResolverAssumption DEF Edges
<1>3. \A c \in Caller : Answers(c) \in Edges
  BY <1>1, <1>2 DEF Answers, Edges
<1> QED
  BY <1>1, <1>2, <1>3, ResolverAssumption DEF Caller, NoEdges, Edges

\* A call that got past the selection has selected something.
Picked ==
    \A c \in Caller, n \in Name :
        call[c][n] \in {"selected", "deps", "ok"} => Pick[c][n] \in Package

\* Every step keeps the types.
LEMMA TypeStep == TypeOK /\ Picked /\ [Next]_vars => TypeOK'
<1> SUFFICES ASSUME TypeOK, Picked, [Next]_vars
             PROVE  TypeOK'
    OBVIOUS
<1> USE ResolverAssumption, Constants
<1>1. ASSUME NEW c \in Caller, NEW n \in Name, Call(c, n)
      PROVE  TypeOK'
  <2>1. CASE StartImport(c, n) \/ EndImport(c, n)
    <3>1. imported' \in [Caller -> [Name -> SUBSET Package]]
      BY <2>1, ImportClears
    <3>2. call' \in [Caller -> [Name -> Label]]
      BY <2>1, GotoEffect DEF StartImport, EndImport, Label
    <3> QED
      BY <2>1, <3>1, <3>2 DEF StartImport, EndImport, TypeOK, Label
  <2>2. ASSUME NEW x \in Package, Import(c, n, x)
        PROVE  TypeOK'
    <3>2. imported' \in [Caller -> [Name -> SUBSET Package]]
      BY <2>2, ImportVisits
    <3>3. SeedDeps[x] \in Edges
      OBVIOUS
    <3>4. entry' \in [Package -> {"absent", "placeholder", "resolved"}]
      BY <2>2 DEF Import, TypeOK
    <3>5. edges' \in [Package -> Edges]
      <4>1. edges' = [edges EXCEPT ![x] = SeedDeps[x]] \/ edges' = edges
        BY <2>2 DEF Import
      <4>2. edges \in [Package -> Edges]
        BY DEF TypeOK
      <4> QED
        BY <4>1, <4>2, <3>3, EdgesType
    <3>6. notified' \in [Package -> 0 .. MaxNotified]
      <4>1. Notify(x) \/ notified' = notified
        BY <2>2 DEF Import
      <4> QED
        BY <4>1, NotifyType DEF TypeOK
    <3> QED
      BY <2>2, <3>2, <3>4, <3>5, <3>6 DEF Import, TypeOK
  <2>3. CASE Select(c, n) \/ SelectFail(c, n) \/ Found(c, n)
    <3>1. call' \in [Caller -> [Name -> Label]]
      BY <2>3, GotoEffect DEF Select, SelectFail, Found, Label
    <3>2. fetched' \subseteq Package
      BY <2>3 DEF Select, SelectFail, Found, TypeOK
    <3> QED
      BY <2>3, <3>1, <3>2 DEF Select, SelectFail, Found, TypeOK, Label
  <2>4. CASE Insert(c, n)
    <3>1. Pick[c][n] \in Package
      BY <2>4 DEF Insert, Picked
    <3>2. entry' \in [Package -> {"absent", "placeholder", "resolved"}]
      BY <2>4 DEF Insert, TypeOK
    <3>3. edges' \in [Package -> Edges]
      BY <2>4 DEF Insert, TypeOK
    <3>4. notified' \in [Package -> 0 .. MaxNotified]
      BY <2>4, <3>1, NotifyType DEF Insert
    <3>5. call' \in [Caller -> [Name -> Label]]
      BY <2>4, <3>1, InsertEffect
    <3> QED
      BY <2>4, <3>2, <3>3, <3>4, <3>5 DEF Insert, TypeOK, Label
  <2>5. CASE Finish(c, n) \/ FinishFail(c, n)
    <3>1. call' \in [Caller -> [Name -> Label]]
      BY <2>5, GotoEffect DEF Finish, FinishFail, Label
    <3>2. entry' \in [Package -> {"absent", "placeholder", "resolved"}]
      BY <2>5 DEF Finish, FinishFail, TypeOK
    <3>3. Pick[c][n] \in Package /\ Answers(Pick[c][n]) \in Edges
      BY <2>5 DEF Finish, FinishFail, Picked
    <3>4. edges' \in [Package -> Edges]
      BY <2>5, <3>3, EdgesType DEF Finish, FinishFail
    <3> QED
      BY <2>5, <3>1, <3>2, <3>4 DEF Finish, FinishFail, TypeOK, Label
  <2> QED
    BY <1>1, <2>1, <2>2, <2>3, <2>4, <2>5 DEF Call
<1>2. CASE FinishRoot
  BY <1>2 DEF FinishRoot, TypeOK
<1>3. CASE UNCHANGED vars
  BY <1>3 DEF vars, TypeOK
<1> QED
  BY <1>1, <1>2, <1>3 DEF Next

LEMMA TypeInit == Init => TypeOK
  BY ResolverAssumption DEF Init, TypeOK, Calls, NoEdges, Edges, Caller

-----------------------------------------------------------------------------
(* The calls form a tree *)

Active == {"start", "import", "selected", "deps"}

Owns(c, n, p) == call[c][n] = "deps" /\ Pick[c][n] = p

\* The packages that some call is resolving
Live == {p \in Package : \E c \in Caller, n \in Name : Owns(c, n, p)}

\* A call uses the seed or it does not, and there is one for each dependency.
Placed ==
    \A c \in Caller, n \in Name :
        /\ call[c][n] \in {"import", "seeded"} => Seeded(c, n)
        /\ call[c][n] \in {"selected", "deps", "ok", "err"} => ~Seeded(c, n)
        /\ call[c][n] # "none" => n \in Deps(c)

\* Placeholders are the packages that are being resolved.
LivePlaceholder == \A p \in Package : p \in Live <=> entry[p] = "placeholder"

UniqueOwner ==
    \A p \in Package : \A c, d \in Caller, n, m \in Name :
        Owns(c, n, p) /\ Owns(d, m, p) => c = d /\ n = m

\* Calls that have not returned are those of packages being resolved.
CallerLive ==
    \A c \in Package, n \in Name : call[c][n] \in Active => c \in Live

\* Ownership has no circles: every set of packages being resolved has a
\* member that is resolved on behalf of a caller outside.
Grounded ==
    \A X \in SUBSET Live :
        X # {} => \E p \in X, c \in Caller \ X, n \in Name : Owns(c, n, p)

RootReturned == result # "none" => Returned(ROOT)

TreeInv ==
    /\ TypeOK /\ Picked /\ Placed /\ LivePlaceholder /\ UniqueOwner
    /\ CallerLive /\ Grounded /\ RootReturned

\* When the project's own calls have returned, every call has.
LEMMA AllReturned ==
    ASSUME TreeInv, result # "none"
    PROVE  /\ Live = {}
           /\ \A c \in Caller, n \in Name : call[c][n] \notin Active
<1> USE Constants
<1>1. \A n \in Name : call[ROOT][n] \notin Active
  BY DEF TreeInv, RootReturned, Returned, Placed, Active
<1>2. Live = {}
  <2> SUFFICES ASSUME Live # {}
               PROVE  FALSE
      OBVIOUS
  <2>1. PICK p \in Live, c \in Caller \ Live, n \in Name : Owns(c, n, p)
    BY DEF TreeInv, Grounded
  <2>2. call[c][n] \in Active
    BY <2>1 DEF Owns, Active
  <2>3. c # ROOT
    BY <1>1, <2>2
  <2>4. c \in Package
    BY <2>1, <2>3 DEF Caller
  <2> QED
    BY <2>1, <2>2, <2>4 DEF TreeInv, CallerLive
<1> QED
  BY <1>1, <1>2 DEF TreeInv, CallerLive, Caller

LEMMA TreeInit == Init => TreeInv
<1> SUFFICES ASSUME Init
             PROVE  TreeInv
    OBVIOUS
<1> USE Constants, ResolverAssumption
<1>1. \A c \in Caller, n \in Name :
        call[c][n] = "none" \/ (c = ROOT /\ call[c][n] = "start" /\ n \in Deps(c))
  BY DEF Init, Calls
<1>2. Live = {}
  BY <1>1 DEF Live, Owns
<1>3. Picked /\ Placed /\ UniqueOwner
  BY <1>1 DEF Picked, Placed, UniqueOwner, Owns
<1>4. CallerLive
  BY <1>1 DEF CallerLive, Active, Caller
<1>5. LivePlaceholder /\ Grounded /\ RootReturned
  BY <1>2 DEF LivePlaceholder, Grounded, RootReturned, Init
<1> QED
  BY <1>3, <1>4, <1>5, TypeInit DEF TreeInv

\* A step that starts and ends no resolution of a package keeps the tree.
LEMMA SameTree ==
    ASSUME TreeInv,
           \A c \in Caller, n \in Name :
             /\ call'[c][n] = "deps" <=> call[c][n] = "deps"
             /\ call'[c][n] \in Active => call[c][n] \in Active,
           \A p \in Package : entry'[p] = "placeholder" <=> entry[p] = "placeholder"
    PROVE  LivePlaceholder' /\ UniqueOwner' /\ CallerLive' /\ Grounded'
<1>1. \A c \in Caller, n \in Name, p \in Package : Owns(c, n, p)' <=> Owns(c, n, p)
  BY DEF Owns
<1>2. Live' = Live
  BY <1>1 DEF Live
<1>3. LivePlaceholder' /\ CallerLive'
  BY <1>2, Constants DEF TreeInv, LivePlaceholder, CallerLive
<1>4. UniqueOwner'
  BY <1>1 DEF TreeInv, UniqueOwner
<1>5. Grounded'
  <2> SUFFICES ASSUME NEW X \in SUBSET Live, X # {}
               PROVE  \E p \in X, c \in Caller \ X, n \in Name : Owns(c, n, p)'
    BY <1>2 DEF Grounded
  <2>1. PICK p \in X, c \in Caller \ X, n \in Name : Owns(c, n, p)
    BY DEF TreeInv, Grounded
  <2>2. p \in Package
    BY DEF Live
  <2> QED
    BY <2>1, <2>2, <1>1
<1> QED
  BY <1>3, <1>4, <1>5

\* The resolution of a package starts.
LEMMA TreeInsert ==
    ASSUME TreeInv, NEW c \in Caller, NEW n \in Name, Insert(c, n), TypeOK'
    PROVE  TreeInv'
<1> DEFINE p == Pick[c][n]
<1> USE Constants
<1>1. p \in Package /\ call[c][n] = "selected" /\ entry[p] = "absent"
  BY DEF Insert, TreeInv, Picked
<1>2. /\ call'[c][n] = "deps"
      /\ \A d \in Caller, m \in Name : d # c \/ m # n =>
           call'[d][m] = IF d = p THEN Calls(d)[m] ELSE call[d][m]
  BY <1>1, InsertEffect DEF TreeInv
<1>3. \A m \in Name : Calls(p)[m] = IF m \in Deps(p) THEN "start" ELSE "none"
  BY DEF Calls
<1>4. p \notin Live
  BY <1>1 DEF TreeInv, LivePlaceholder
<1>5. \A m \in Name : call[p][m] \notin Active
  BY <1>1, <1>4 DEF TreeInv, CallerLive
<1>6. c # p
  BY <1>1, <1>5 DEF Active
<1>7. result = "none" /\ result' = result
  BY <1>1, AllReturned DEF Active, Insert, TreeInv, TypeOK
<1>8. \A d \in Caller, m \in Name, q \in Package :
        Owns(d, m, q)' <=> Owns(d, m, q) \/ (d = c /\ m = n /\ q = p)
  BY <1>1, <1>2, <1>3, <1>5 DEF Owns, Active
<1>9. Live' = Live \cup {p}
  BY <1>1, <1>8 DEF Live
<1>10. Picked' /\ Placed'
  BY <1>1, <1>2, <1>3 DEF TreeInv, Picked, Placed
<1>11. LivePlaceholder'
  BY <1>1, <1>9 DEF TreeInv, LivePlaceholder, Insert, TypeOK
<1>12. UniqueOwner'
  BY <1>1, <1>4, <1>8 DEF TreeInv, UniqueOwner, Live
<1>13. CallerLive'
  <2> SUFFICES ASSUME NEW d \in Package, NEW m \in Name, call'[d][m] \in Active
               PROVE  d \in Live'
    BY DEF CallerLive
  <2>1. CASE d = p
    BY <2>1, <1>9
  <2>2. CASE d # p
    <3>1. call[d][m] \in Active
      BY <2>2, <1>1, <1>2 DEF Active
    <3> QED
      BY <3>1, <1>9 DEF TreeInv, CallerLive
  <2> QED
    BY <2>1, <2>2
<1>14. Grounded'
  <2> SUFFICES ASSUME NEW X \in SUBSET Live', X # {}
               PROVE  \E q \in X, d \in Caller \ X, m \in Name : Owns(d, m, q)'
    BY DEF Grounded
  <2>1. CASE X \ {p} = {}
    <3>1. X = {p}
      BY <2>1
    <3> QED
      BY <3>1, <1>1, <1>6, <1>8
  <2>2. CASE X \ {p} # {}
    <3>1. PICK q \in X \ {p}, d \in Caller \ (X \ {p}), m \in Name : Owns(d, m, q)
      BY <2>2, <1>9 DEF TreeInv, Grounded
    <3>2. d # p
      BY <3>1, <1>5 DEF Owns, Active
    <3>3. q \in Package
      BY <3>1, <1>9 DEF Live
    <3> QED
      BY <3>1, <3>2, <3>3, <1>8
  <2> QED
    BY <2>1, <2>2
<1>15. RootReturned'
  BY <1>7 DEF RootReturned
<1> QED
  BY <1>10, <1>11, <1>12, <1>13, <1>14, <1>15 DEF TreeInv

\* The resolution of a package ends, well or not.
LEMMA TreeFinish ==
    ASSUME TreeInv, NEW c \in Caller, NEW n \in Name,
           Finish(c, n) \/ FinishFail(c, n), TypeOK'
    PROVE  TreeInv'
<1> DEFINE p == Pick[c][n]
<1> USE Constants
<1>1. p \in Package /\ call[c][n] = "deps" /\ Returned(p)
  BY DEF Finish, FinishFail, TreeInv, Picked
<1>2. /\ call'[c][n] \in {"ok", "err"}
      /\ \A d \in Caller, m \in Name : d # c \/ m # n => call'[d][m] = call[d][m]
  BY GotoEffect DEF Finish, FinishFail, TreeInv, Label
<1>3. Owns(c, n, p)
  BY <1>1 DEF Owns
<1>4. \A d \in Caller, m \in Name, q \in Package :
        Owns(d, m, q)' <=> Owns(d, m, q) /\ q # p
  BY <1>1, <1>2, <1>3 DEF Owns, TreeInv, UniqueOwner
<1>5. Live' = Live \ {p}
  BY <1>4 DEF Live
<1>6. Picked' /\ Placed'
  BY <1>1, <1>2 DEF TreeInv, Picked, Placed
<1>7. LivePlaceholder'
  BY <1>1, <1>5 DEF TreeInv, LivePlaceholder, Finish, FinishFail, TypeOK
<1>8. UniqueOwner'
  BY <1>4 DEF TreeInv, UniqueOwner
<1>9. CallerLive'
  <2> SUFFICES ASSUME NEW d \in Package, NEW m \in Name, call'[d][m] \in Active
               PROVE  d \in Live'
    BY DEF CallerLive
  <2>1. call[d][m] \in Active
    BY <1>1, <1>2 DEF Active
  <2>2. d # p
    BY <2>1, <1>1 DEF Returned, Active, TreeInv, Placed
  <2> QED
    BY <2>1, <2>2, <1>5 DEF TreeInv, CallerLive
<1>10. Grounded'
  <2> SUFFICES ASSUME NEW X \in SUBSET Live', X # {}
               PROVE  \E q \in X, d \in Caller \ X, m \in Name : Owns(d, m, q)'
    BY DEF Grounded
  <2>1. PICK q \in X, d \in Caller \ X, m \in Name : Owns(d, m, q)
    BY <1>5 DEF TreeInv, Grounded
  <2>2. q \in Package /\ q # p
    BY <1>5 DEF Live
  <2> QED
    BY <2>1, <2>2, <1>4
<1>11. RootReturned'
  <2>1. result = "none" /\ result' = result
    BY <1>1, AllReturned DEF Active, Finish, FinishFail, TreeInv, TypeOK
  <2> QED
    BY <2>1 DEF RootReturned
<1> QED
  BY <1>6, <1>7, <1>8, <1>9, <1>10, <1>11 DEF TreeInv

LEMMA TreeStep == TreeInv /\ [Next]_vars => TreeInv'
<1> SUFFICES ASSUME TreeInv, [Next]_vars
             PROVE  TreeInv'
    OBVIOUS
<1> USE Constants
<1>0. TypeOK /\ TypeOK'
  BY TypeStep DEF TreeInv
<1>1. ASSUME NEW c \in Caller, NEW n \in Name, Call(c, n)
      PROVE  TreeInv'
  <2>1. ASSUME NEW from \in {"start", "import", "selected"},
               NEW to \in {"import", "selected", "ok", "seeded", "err"},
               call[c][n] = from, Goto(c, n, to), UNCHANGED <<entry, result>>,
               to \in {"import", "seeded"} => Seeded(c, n),
               to \in {"selected", "ok", "err"} => ~Seeded(c, n),
               to \in {"selected", "ok"} => Pick[c][n] \in Package
        PROVE  TreeInv'
    <3>1. /\ call'[c][n] = to
          /\ \A d \in Caller, m \in Name : d # c \/ m # n => call'[d][m] = call[d][m]
      BY <2>1, <1>0, GotoEffect DEF Label
    <3>2. Picked' /\ Placed'
      BY <2>1, <3>1 DEF TreeInv, Picked, Placed
    <3>3. /\ call[c][n] \in Active /\ call[c][n] # "deps"
          /\ call'[c][n] # "deps"
      BY <2>1, <3>1 DEF Active
    <3>4. \A d \in Caller, m \in Name :
             /\ call'[d][m] = "deps" <=> call[d][m] = "deps"
             /\ call'[d][m] \in Active => call[d][m] \in Active
      BY <3>1, <3>3
    <3>5. LivePlaceholder' /\ UniqueOwner' /\ CallerLive' /\ Grounded'
      BY <2>1, <3>4, SameTree
    <3>6. RootReturned'
      BY <2>1, <3>3, AllReturned DEF RootReturned
    <3> QED
      BY <3>2, <3>5, <3>6, <1>0 DEF TreeInv
  <2>2. CASE StartImport(c, n)
    BY <2>1, <2>2 DEF StartImport
  <2>3. CASE EndImport(c, n)
    BY <2>1, <2>3 DEF EndImport, TreeInv, Placed
  <2>4. CASE Select(c, n)
    BY <2>1, <2>4 DEF Select
  <2>5. CASE SelectFail(c, n)
    BY <2>1, <2>5 DEF SelectFail
  <2>6. CASE Found(c, n)
    BY <2>1, <2>6 DEF Found, TreeInv, Placed, Picked
  <2>7. ASSUME NEW x \in Package, Import(c, n, x)
        PROVE  TreeInv'
    <3>1. UNCHANGED <<call, result>>
      BY <2>7 DEF Import
    <3>2. Picked' /\ Placed'
      BY <3>1 DEF TreeInv, Picked, Placed
    <3>3. \A p \in Package : entry'[p] = "placeholder" <=> entry[p] = "placeholder"
      BY <2>7, <1>0 DEF Import, TypeOK
    <3>4. LivePlaceholder' /\ UniqueOwner' /\ CallerLive' /\ Grounded'
      BY <3>1, <3>3, SameTree
    <3>5. RootReturned'
      BY <3>1 DEF TreeInv, RootReturned, Returned
    <3> QED
      BY <3>2, <3>4, <3>5, <1>0 DEF TreeInv
  <2>8. CASE Insert(c, n)
    BY <2>8, <1>0, TreeInsert
  <2>9. CASE Finish(c, n) \/ FinishFail(c, n)
    BY <2>9, <1>0, TreeFinish
  <2> QED
    BY <1>1, <2>2, <2>3, <2>4, <2>5, <2>6, <2>7, <2>8, <2>9 DEF Call
<1>2. CASE FinishRoot
  <2>1. UNCHANGED <<entry, call>> /\ Returned(ROOT)
    BY <1>2 DEF FinishRoot
  <2>2. Picked' /\ Placed'
    BY <2>1 DEF TreeInv, Picked, Placed
  <2>3. LivePlaceholder' /\ UniqueOwner' /\ CallerLive' /\ Grounded'
    BY <2>1, SameTree
  <2>4. RootReturned'
    BY <2>1 DEF RootReturned, Returned
  <2> QED
    BY <2>2, <2>3, <2>4, <1>0 DEF TreeInv
<1>3. CASE UNCHANGED vars
  <2>1. UNCHANGED <<entry, call, result>>
    BY <1>3 DEF vars
  <2>2. Picked' /\ Placed' /\ RootReturned'
    BY <2>1 DEF TreeInv, Picked, Placed, RootReturned, Returned
  <2>3. LivePlaceholder' /\ UniqueOwner' /\ CallerLive' /\ Grounded'
    BY <2>1, SameTree
  <2> QED
    BY <2>2, <2>3, <1>0 DEF TreeInv
<1> QED
  BY <1>1, <1>2, <1>3 DEF Next

-----------------------------------------------------------------------------
(* The seed and finished entries *)

\* An import visits complete packages only.
Visits == \A c \in Caller, n \in Name : \A x \in imported[c][n] : Complete(x)

\* An entry that counts as finished has its edges.
Full ==
    \A p \in Package : entry[p] = "resolved" =>
        \/ \A n \in Required[p] : edges[p][n] # NONE
        \/ p \in Seed /\ edges[p] = SeedDeps[p]

GraphInv == TreeInv /\ Visits /\ Full

LEMMA PendingMember ==
    ASSUME NEW c \in Caller, NEW n \in Name, NEW x
    PROVE  x \in Pending(c, n) <=>
             /\ x \notin imported[c][n]
             /\ \/ x = SeedDeps[c][n]
                \/ \E y \in imported[c][n] : x \in Targets(SeedDeps[y])
  BY DEF Pending

LEMMA PendingComplete ==
    ASSUME GraphInv, NEW c \in Caller, NEW n \in Name, call[c][n] = "import",
           NEW x \in Pending(c, n)
    PROVE  Complete(x)
<1>1. Complete(SeedDeps[c][n])
  BY DEF GraphInv, TreeInv, Placed, Seeded
<1>2. ASSUME NEW y \in imported[c][n], x \in Targets(SeedDeps[y])
      PROVE  Complete(x)
  BY <1>2, CompleteDown DEF GraphInv, Visits
<1> QED
  BY <1>1, <1>2, PendingMember

LEMMA GraphInit == Init => GraphInv
  BY TreeInit DEF Init, GraphInv, Visits, Full

LEMMA GraphStep == GraphInv /\ [Next]_vars => GraphInv'
<1> SUFFICES ASSUME GraphInv, [Next]_vars
             PROVE  GraphInv'
    OBVIOUS
<1> USE Constants
<1>0. TreeInv /\ TypeOK /\ TreeInv' /\ TypeOK'
  BY TreeStep DEF GraphInv, TreeInv
<1>1. ASSUME NEW c \in Caller, NEW n \in Name, Call(c, n)
      PROVE  Visits' /\ Full'
  <2>1. CASE StartImport(c, n) \/ EndImport(c, n)
    <3>1. Full'
      BY <2>1 DEF StartImport, EndImport, GraphInv, Full
    <3>2. /\ imported'[c][n] = {}
          /\ \A d \in Caller, m \in Name : d # c \/ m # n => imported'[d][m] = imported[d][m]
      BY <2>1, <1>0, ImportClears
    <3>3. Visits'
      BY <3>2, <1>0 DEF GraphInv, Visits
    <3> QED
      BY <3>1, <3>3
  <2>2. ASSUME NEW x \in Package, Import(c, n, x)
        PROVE  Visits' /\ Full'
    <3>1. Complete(x)
      BY <2>2, PendingComplete DEF Import
    <3>2. /\ imported'[c][n] = imported[c][n] \cup {x}
          /\ \A d \in Caller, m \in Name : d # c \/ m # n => imported'[d][m] = imported[d][m]
      BY <2>2, <1>0, ImportVisits
    <3>4. Visits'
      BY <3>1, <3>2, <1>0 DEF GraphInv, Visits
    <3>5. x \in Seed
      BY <3>1, CompleteInSeed
    <3>6. Full'
      BY <2>2, <3>5, <1>0 DEF Import, GraphInv, Full, TypeOK
    <3> QED
      BY <3>4, <3>6
  <2>3. CASE Select(c, n) \/ SelectFail(c, n) \/ Found(c, n)
    BY <2>3 DEF Select, SelectFail, Found, GraphInv, Visits, Full
  <2>4. CASE Insert(c, n)
    BY <2>4, <1>0 DEF Insert, GraphInv, Visits, Full, TypeOK
  <2>5. CASE FinishFail(c, n)
    BY <2>5, <1>0 DEF FinishFail, GraphInv, Visits, Full, TypeOK
  <2>6. CASE Finish(c, n)
    <3> DEFINE p == Pick[c][n]
    <3>1. p \in Package
      BY <2>6, <1>0 DEF Finish, TreeInv, Picked
    <3>2. ASSUME NEW m \in Required[p]
          PROVE  Answers(p)[m] # NONE
      <4>1. m \in Deps(p) /\ m \in Name
        BY <3>1, ResolverAssumption DEF Deps
      <4>2. call[p][m] \in {"ok", "seeded"}
        BY <2>6, <4>1 DEF Finish, Returned, RequiredFailed
      <4>3. CASE call[p][m] = "ok"
        BY <4>1, <4>3, <3>1, <1>0, ResolverAssumption DEF Answers, TreeInv, Picked
      <4>4. CASE call[p][m] = "seeded"
        BY <4>1, <4>4, <3>1, <1>0 DEF Answers, TreeInv, Placed, Seeded
      <4> QED
        BY <4>2, <4>3, <4>4
    <3>3. /\ entry' = [entry EXCEPT ![p] = "resolved"]
          /\ edges' = [edges EXCEPT ![p] = Answers(p)]
          /\ imported' = imported
      BY <2>6 DEF Finish
    <3>4. /\ edges'[p] = Answers(p)
          /\ \A q \in Package : q # p => edges'[q] = edges[q] /\ entry'[q] = entry[q]
      BY <3>1, <3>3, <1>0 DEF TypeOK
    <3> HIDE DEF p
    <3>5. Full'
      BY <3>2, <3>4 DEF GraphInv, Full
    <3> QED
      BY <3>3, <3>5 DEF GraphInv, Visits
  <2> QED
    BY <1>1, <2>1, <2>2, <2>3, <2>4, <2>5, <2>6 DEF Call
<1>2. CASE FinishRoot \/ UNCHANGED vars
  BY <1>0, <1>2 DEF FinishRoot, vars, GraphInv, Visits, Full
<1> QED
  BY <1>0, <1>1, <1>2 DEF Next, GraphInv

-----------------------------------------------------------------------------
(* Packages that cannot fail *)

Here(p) == entry[p] # "absent"

\* No call for a package of S fails, ...
NoneFails(S) ==
    \A c \in Caller, n \in Name : call[c][n] = "err" => Pick[c][n] \notin S

\* ... each of them is handed to the store when its entry is made, ...
OnceEach(S) ==
    \A p \in S : notified[p] = IF Here(p) THEN 1 ELSE 0

\* ... what was answered or visited is in the map, ...
AnswersHere(S) ==
    \A c \in Caller, n \in Name :
        /\ call[c][n] = "ok" /\ Pick[c][n] \in S => Here(Pick[c][n])
        /\ call[c][n] = "seeded" /\ SeedDeps[c][n] \in S => Here(SeedDeps[c][n])
        /\ \A x \in imported[c][n] \cap S : Here(x)

Importing(x) ==
    \E c \in Caller, n \in Name : call[c][n] = "import" /\ x \in Pending(c, n)

\* ... and an edge to one leads into the map, or will: it stems from the
\* seed and an import has its target on the stack.
Covered(S) ==
    \A p \in Package, n \in Name :
        Here(p) /\ edges[p][n] \in S =>
            Here(edges[p][n]) \/ Importing(edges[p][n])

SoundInv(S) == NoneFails(S) /\ OnceEach(S) /\ AnswersHere(S) /\ Covered(S)

LEMMA SoundInit ==
    ASSUME Init, NEW S \in SUBSET Package
    PROVE  SoundInv(S)
<1>1. NoneFails(S)
  BY DEF Init, NoneFails, Calls
<1>2. OnceEach(S) /\ Covered(S)
  BY DEF Init, OnceEach, Covered, Here
<1>3. AnswersHere(S)
  BY DEF Init, AnswersHere, Calls
<1> QED
  BY <1>1, <1>2, <1>3 DEF SoundInv

\* A call that moves, and neither starts nor ends an import, keeps what the
\* imports have to do.
LEMMA ImportsKept ==
    ASSUME UNCHANGED imported,
           \A c \in Caller, n \in Name : call[c][n] = "import" => call'[c][n] = "import"
    PROVE  \A x : Importing(x) => Importing(x)'
  BY DEF Importing, Pending

\* A call moves and no entry changes.
LEMMA SoundMove ==
    ASSUME GraphInv, NEW S \in SUBSET Package, SoundInv(S),
           NEW c \in Caller, NEW n \in Name, call[c][n] # "import",
           NEW to \in {"selected", "ok", "err"}, Goto(c, n, to),
           UNCHANGED <<entry, edges, imported, notified>>,
           to = "ok" /\ Pick[c][n] \in S => Here(Pick[c][n]),
           to = "err" => Pick[c][n] \notin S
    PROVE  SoundInv(S)'
<1>1. /\ call'[c][n] = to
      /\ \A d \in Caller, m \in Name : d # c \/ m # n => call'[d][m] = call[d][m]
  BY GotoEffect DEF Label, GraphInv, TreeInv
<1>2. NoneFails(S)' /\ OnceEach(S)'
  BY <1>1 DEF SoundInv, NoneFails, OnceEach, Here
<1>3. AnswersHere(S)'
  BY <1>1 DEF SoundInv, AnswersHere, Here
<1>4. Covered(S)'
  BY <1>1, ImportsKept DEF SoundInv, Covered, Here
<1> QED
  BY <1>2, <1>3, <1>4 DEF SoundInv

LEMMA SoundStartImport ==
    ASSUME GraphInv, NEW S \in SUBSET Package, SoundInv(S),
           NEW c \in Caller, NEW n \in Name, StartImport(c, n)
    PROVE  SoundInv(S)'
<1>1. /\ call'[c][n] = "import"
      /\ \A d \in Caller, m \in Name : d # c \/ m # n => call'[d][m] = call[d][m]
  BY GotoEffect DEF Label, GraphInv, TreeInv, StartImport
<1>2. /\ imported'[c][n] = {}
      /\ \A d \in Caller, m \in Name : d # c \/ m # n => imported'[d][m] = imported[d][m]
  <2>1. TypeOK
    BY DEF GraphInv, TreeInv
  <2> QED
    BY <2>1, ImportClears
<1>3. UNCHANGED <<entry, edges, notified>> /\ call[c][n] = "start"
  BY DEF StartImport
<1>4. NoneFails(S)' /\ OnceEach(S)'
  BY <1>1, <1>3 DEF SoundInv, NoneFails, OnceEach, Here
<1>5. AnswersHere(S)'
  BY <1>1, <1>2, <1>3 DEF SoundInv, AnswersHere, Here
<1>6. \A x : Importing(x) => Importing(x)'
  BY <1>1, <1>2, <1>3 DEF Importing, Pending
<1>7. Covered(S)'
  BY <1>3, <1>6 DEF SoundInv, Covered, Here
<1> QED
  BY <1>4, <1>5, <1>7 DEF SoundInv

LEMMA SoundEndImport ==
    ASSUME GraphInv, NEW S \in SUBSET Package, SoundInv(S),
           NEW c \in Caller, NEW n \in Name, EndImport(c, n)
    PROVE  SoundInv(S)'
<1>1. /\ call'[c][n] = "seeded"
      /\ \A d \in Caller, m \in Name : d # c \/ m # n => call'[d][m] = call[d][m]
  BY GotoEffect DEF Label, GraphInv, TreeInv, EndImport
<1>2. /\ imported'[c][n] = {}
      /\ \A d \in Caller, m \in Name : d # c \/ m # n => imported'[d][m] = imported[d][m]
  <2>1. TypeOK
    BY DEF GraphInv, TreeInv
  <2> QED
    BY <2>1, ImportClears
<1>3. UNCHANGED <<entry, edges, notified>> /\ Pending(c, n) = {}
  BY DEF EndImport
<1>4. NoneFails(S)' /\ OnceEach(S)'
  BY <1>1, <1>3 DEF SoundInv, NoneFails, OnceEach, Here
<1>5. SeedDeps[c][n] \in imported[c][n]
  BY <1>3, PendingMember
<1>6. AnswersHere(S)'
  BY <1>1, <1>2, <1>3, <1>5 DEF SoundInv, AnswersHere, Here
<1>7. \A x : Importing(x) => Importing(x)'
  BY <1>1, <1>2, <1>3 DEF Importing, Pending
<1>8. Covered(S)'
  BY <1>3, <1>7 DEF SoundInv, Covered, Here
<1> QED
  BY <1>4, <1>6, <1>8 DEF SoundInv

LEMMA SoundImport ==
    ASSUME GraphInv, NEW S \in SUBSET Package, SoundInv(S), TypeOK',
           NEW c \in Caller, NEW n \in Name, NEW x \in Package, Import(c, n, x)
    PROVE  SoundInv(S)'
<1>0. TypeOK
  BY DEF GraphInv, TreeInv
<1>2. /\ imported'[c][n] = imported[c][n] \cup {x}
      /\ \A d \in Caller, m \in Name : d # c \/ m # n => imported'[d][m] = imported[d][m]
  BY <1>0, ImportVisits
<1>3. call' = call /\ call[c][n] = "import" /\ x \in Pending(c, n)
  BY DEF Import
<1>4. \A p \in Package : Here(p)' <=> Here(p) \/ p = x
  BY <1>0 DEF Import, Here, TypeOK
<1>5. NoneFails(S)'
  BY <1>3 DEF SoundInv, NoneFails
<1>6. OnceEach(S)'
  <2>1. CASE entry[x] = "absent"
    <3>1. Notify(x)
      BY <2>1 DEF Import
    <3>2. /\ notified'[x] = notified[x] + 1
          /\ \A q \in Package : q # x => notified'[q] = notified[q]
      BY <1>0, <3>1, NotifyType
    <3> QED
      BY <2>1, <3>2, <1>4 DEF SoundInv, OnceEach, Here
  <2>2. CASE entry[x] # "absent"
    <3>1. UNCHANGED <<entry, notified>>
      BY <2>2 DEF Import
    <3> QED
      BY <3>1 DEF SoundInv, OnceEach, Here
  <2> QED
    BY <2>1, <2>2
<1>7. AnswersHere(S)'
  BY <1>2, <1>3, <1>4, Constants DEF SoundInv, AnswersHere
<1>8. \A y \in Package : Importing(y) => Importing(y)' \/ y = x
  BY <1>2, <1>3 DEF Importing, Pending
<1>9. \A y : y \in Targets(SeedDeps[x]) =>
        y \in imported'[c][n] \/ Importing(y)'
  BY <1>2, <1>3 DEF Importing, Pending
<1>10. ASSUME NEW p \in Package, NEW m \in Name, Here(p)', edges'[p][m] \in S
       PROVE  (Here(edges[p][m]) \/ Importing(edges[p][m]))'
  <2>1. CASE Here(p) /\ edges'[p] = edges[p]
    BY <2>1, <1>4, <1>8, <1>10 DEF SoundInv, Covered
  <2>2. CASE p = x /\ edges'[p] = SeedDeps[x]
    <3>1. edges'[p][m] \in Targets(SeedDeps[x])
      BY <2>2, <1>10, ResolverAssumption DEF Targets
    <3>2. \A y \in imported'[c][n] \cap S : Here(y)'
      BY <1>7 DEF AnswersHere
    <3> QED
      BY <3>1, <3>2, <1>9, <1>10
  <2>3. (Here(p) /\ edges'[p] = edges[p]) \/ (p = x /\ edges'[p] = SeedDeps[x])
    BY <1>0, <1>4, <1>10 DEF Import, Here, TypeOK
  <2> QED
    BY <2>1, <2>2, <2>3
<1>11. Covered(S)'
  BY <1>10 DEF Covered
<1> QED
  BY <1>5, <1>6, <1>7, <1>11 DEF SoundInv

LEMMA SoundInsert ==
    ASSUME GraphInv, NEW S \in SUBSET Package, SoundInv(S),
           NEW c \in Caller, NEW n \in Name, Insert(c, n)
    PROVE  SoundInv(S)'
<1> DEFINE p == Pick[c][n]
<1>0. TypeOK /\ TreeInv
  BY DEF GraphInv, TreeInv
<1>1. p \in Package /\ call[c][n] = "selected" /\ entry[p] = "absent"
  BY <1>0 DEF Insert, TreeInv, Picked
<1>2. /\ call'[c][n] = "deps"
      /\ \A d \in Caller, m \in Name : d # c \/ m # n =>
           call'[d][m] = IF d = p THEN Calls(d)[m] ELSE call[d][m]
  BY <1>0, <1>1, InsertEffect
<1>3. \A m \in Name : Calls(p)[m] \in {"start", "none"}
  BY DEF Calls
<1>4. \A m \in Name : call[p][m] \notin Active
  BY <1>0, <1>1 DEF TreeInv, CallerLive, LivePlaceholder
<1>5. UNCHANGED imported
  BY DEF Insert
<1>6. /\ \A q \in Package : Here(q)' <=> Here(q) \/ q = p
      /\ \A q \in Package : q # p => edges'[q] = edges[q]
      /\ \A m \in Name : edges'[p][m] = NONE
  BY <1>0, <1>1 DEF Insert, Here, TypeOK, NoEdges
<1>7. NoneFails(S)'
  BY <1>1, <1>2, <1>3 DEF SoundInv, NoneFails
<1>8. OnceEach(S)'
  <2>1. Notify(p)
    BY DEF Insert
  <2>2. /\ notified'[p] = notified[p] + 1
        /\ \A q \in Package : q # p => notified'[q] = notified[q]
    BY <1>0, <1>1, <2>1, NotifyType
  <2> QED
    BY <1>1, <1>6, <2>2 DEF SoundInv, OnceEach, Here
<1>9. AnswersHere(S)'
  BY <1>1, <1>2, <1>3, <1>5, <1>6 DEF SoundInv, AnswersHere
<1>10. \A x : Importing(x) => Importing(x)'
  BY <1>1, <1>2, <1>4, <1>5, ImportsKept DEF Active
<1>11. Covered(S)'
  BY <1>6, <1>10, ResolverAssumption DEF SoundInv, Covered
<1> QED
  BY <1>7, <1>8, <1>9, <1>11 DEF SoundInv

LEMMA SoundFinish ==
    ASSUME GraphInv, NEW S \in SUBSET Package, SoundInv(S),
           NEW c \in Caller, NEW n \in Name, Finish(c, n)
    PROVE  SoundInv(S)'
<1> DEFINE p == Pick[c][n]
<1>0. TypeOK /\ TreeInv
  BY DEF GraphInv, TreeInv
<1>1. p \in Package /\ call[c][n] = "deps"
  BY <1>0 DEF Finish, TreeInv, Picked
<1>2. /\ call'[c][n] = "ok"
      /\ \A d \in Caller, m \in Name : d # c \/ m # n => call'[d][m] = call[d][m]
  BY <1>0, GotoEffect DEF Finish, Label
<1>3. Here(p)
  <2>1. p \in Live
    BY <1>1 DEF Live, Owns
  <2> QED
    BY <1>0, <1>1, <2>1 DEF TreeInv, LivePlaceholder, Here
<1>4. UNCHANGED <<imported, notified>>
  BY DEF Finish
<1>5. /\ \A q \in Package : Here(q)' <=> Here(q)
      /\ \A q \in Package : q # p => edges'[q] = edges[q]
      /\ edges'[p] = Answers(p)
  BY <1>0, <1>1, <1>3 DEF Finish, Here, TypeOK
<1>6. NoneFails(S)' /\ OnceEach(S)'
  BY <1>2, <1>4, <1>5 DEF SoundInv, NoneFails, OnceEach
<1>7. AnswersHere(S)'
  BY <1>1, <1>2, <1>3, <1>4, <1>5, Constants DEF SoundInv, AnswersHere
<1>8. \A x : Importing(x) => Importing(x)'
  BY <1>1, <1>2, <1>4, ImportsKept
<1>9. \A m \in Name : Answers(p)[m] \in S => Here(Answers(p)[m])
  BY <1>1, Constants, ResolverAssumption DEF SoundInv, AnswersHere, Answers
<1>10. Covered(S)'
  <2> SUFFICES ASSUME NEW q \in Package, NEW m \in Name, Here(q)', edges'[q][m] \in S
               PROVE  (Here(edges[q][m]) \/ Importing(edges[q][m]))'
    BY DEF Covered
  <2>1. CASE q = p
    BY <2>1, <1>5, <1>9
  <2>2. CASE q # p
    BY <2>2, <1>5, <1>8 DEF SoundInv, Covered
  <2> QED
    BY <2>1, <2>2
<1> QED
  BY <1>6, <1>7, <1>10 DEF SoundInv

LEMMA SoundFinishFail ==
    ASSUME GraphInv, NEW S \in SUBSET Package, Sound(S), SoundInv(S),
           NEW c \in Caller, NEW n \in Name, FinishFail(c, n)
    PROVE  SoundInv(S)'
<1> DEFINE p == Pick[c][n]
<1>0. TypeOK /\ TreeInv
  BY DEF GraphInv, TreeInv
<1>1. p \in Package /\ call[c][n] = "deps"
  BY <1>0 DEF FinishFail, TreeInv, Picked
<1>2. p \notin S
  <2>1. PICK m \in Required[p] : call[p][m] = "err"
    BY DEF FinishFail, RequiredFailed
  <2>2. p \in Caller /\ m \in Name
    BY <1>1, <2>1, ResolverAssumption, Constants
  <2>3. ~Seeded(p, m) /\ Pick[p][m] \notin S
    BY <1>0, <2>1, <2>2 DEF TreeInv, Placed, SoundInv, NoneFails
  <2> QED
    BY <2>1, <2>3 DEF Sound
<1>3. /\ call'[c][n] = "err"
      /\ \A d \in Caller, m \in Name : d # c \/ m # n => call'[d][m] = call[d][m]
  BY <1>0, GotoEffect DEF FinishFail, Label
<1>4. UNCHANGED <<imported, notified>>
  BY DEF FinishFail
<1>5. /\ \A q \in Package : Here(q)' <=> Here(q) /\ q # p
      /\ \A q \in Package : q # p => edges'[q] = edges[q]
  BY <1>0, <1>1 DEF FinishFail, Here, TypeOK
<1>6. NoneFails(S)' /\ OnceEach(S)'
  BY <1>2, <1>3, <1>4, <1>5 DEF SoundInv, NoneFails, OnceEach
<1>7. AnswersHere(S)'
  BY <1>2, <1>3, <1>4, <1>5 DEF SoundInv, AnswersHere
<1>8. \A x : Importing(x) => Importing(x)'
  BY <1>1, <1>3, <1>4, ImportsKept
<1>9. Covered(S)'
  BY <1>2, <1>5, <1>8 DEF SoundInv, Covered
<1> QED
  BY <1>6, <1>7, <1>9 DEF SoundInv

LEMMA SoundStep ==
    ASSUME GraphInv, [Next]_vars, NEW S \in SUBSET Package, Sound(S), SoundInv(S)
    PROVE  SoundInv(S)'
<1>0. TypeOK /\ TypeOK' /\ TreeInv
  BY GraphStep DEF GraphInv, TreeInv
<1>1. ASSUME NEW c \in Caller, NEW n \in Name, Call(c, n)
      PROVE  SoundInv(S)'
  <2>1. CASE Select(c, n)
    BY <2>1, SoundMove DEF Select
  <2>2. CASE SelectFail(c, n)
    <3>1. Pick[c][n] \notin S
      BY <2>2, ResolverAssumption DEF SelectFail, Sound
    <3> QED
      BY <2>2, <3>1, SoundMove DEF SelectFail
  <2>3. CASE Found(c, n)
    BY <2>3, SoundMove DEF Found, Here
  <2>4. ASSUME NEW x \in Package, Import(c, n, x)
        PROVE  SoundInv(S)'
    BY <1>0, <2>4, SoundImport
  <2> QED
    BY <1>1, <2>1, <2>2, <2>3, <2>4, SoundStartImport, SoundEndImport, SoundInsert,
       SoundFinish, SoundFinishFail DEF Call
<1>2. CASE FinishRoot \/ UNCHANGED vars
  <2>1. UNCHANGED <<entry, edges, call, imported, notified>>
    BY <1>2 DEF FinishRoot, vars
  <2> QED
    BY <2>1 DEF SoundInv, NoneFails, OnceEach, AnswersHere, Covered, Here,
                Importing, Pending
<1> QED
  BY <1>1, <1>2 DEF Next

\* All that is proved about resolution, as one inductive invariant
ResolverInv ==
    GraphInv /\ \A S \in SUBSET Package : Sound(S) => SoundInv(S)

LEMMA ResolverInvariant == Spec => []ResolverInv
<1>1. Init => ResolverInv
  BY GraphInit, SoundInit DEF ResolverInv
<1>2. ResolverInv /\ [Next]_vars => ResolverInv'
  <2> SUFFICES ASSUME ResolverInv, [Next]_vars
               PROVE  ResolverInv'
    OBVIOUS
  <2>1. GraphInv'
    BY GraphStep DEF ResolverInv
  <2>2. ASSUME NEW S \in SUBSET Package, Sound(S)
        PROVE  SoundInv(S)'
    BY <2>2, SoundStep DEF ResolverInv
  <2> QED
    BY <2>1, <2>2 DEF ResolverInv, Sound
<1> QED
  BY <1>1, <1>2, PTL DEF Spec

-----------------------------------------------------------------------------

\* The variables of resolve_package's calls and of the package map keep their
\* types, and nothing that no version was found for is ever used.
THEOREM ResolverTypeCorrect == Spec => []TypeOK
<1>1. ResolverInv => TypeOK
  BY DEF ResolverInv, GraphInv, TreeInv
<1> QED
  BY <1>1, ResolverInvariant, PTL

\* import_seed_package_chain never gives up half way.
THEOREM ResolverImportComplete == Spec => []ImportComplete
<1>1. ResolverInv => ImportComplete
  BY PendingComplete, CompleteInSeed DEF ResolverInv, ImportComplete
<1> QED
  BY <1>1, ResolverInvariant, PTL

\* The finished graph has no placeholder and no package without its required
\* edges, whatever fails and in whatever order the calls run.
THEOREM ResolverNoHollow == Spec => []NoHollow
<1>1. ResolverInv => NoHollow
  <2> SUFFICES ASSUME ResolverInv, result # "none", NEW p \in Present
               PROVE  /\ entry[p] = "resolved"
                      /\ \/ \A n \in Required[p] : edges[p][n] # NONE
                         \/ p \in Seed /\ edges[p] = SeedDeps[p]
    BY DEF NoHollow
  <2>1. GraphInv /\ TreeInv /\ TypeOK /\ Full
    BY DEF ResolverInv, GraphInv, TreeInv
  <2>2. p \in Package /\ p \notin Live
    BY <2>1, AllReturned DEF Present
  <2>3. entry[p] = "resolved"
    BY <2>1, <2>2 DEF TreeInv, LivePlaceholder, TypeOK, Present
  <2> QED
    BY <2>1, <2>2, <2>3 DEF Full
<1> QED
  BY <1>1, ResolverInvariant, PTL

\* In the finished graph an edge can only dangle where its package can fail.
THEOREM ResolverEdgesHold == Spec => []EdgesHold
<1>1. ResolverInv => EdgesHold
  <2> SUFFICES ASSUME ResolverInv, result # "none",
                      NEW S \in SUBSET Package, Sound(S), NEW e \in Users,
                      NEW x \in Targets(e) \cap S
               PROVE  x \in Present
    BY DEF EdgesHold
  <2>1. TreeInv /\ SoundInv(S)
    BY DEF ResolverInv, GraphInv
  <2>2. ~Importing(x)
    BY <2>1, AllReturned DEF Importing, Active
  <2>3. PICK n \in Name : x = e[n]
    BY DEF Targets
  <2>4. CASE e = Answers(ROOT)
    BY <2>1, <2>3, <2>4, Constants, ResolverAssumption
       DEF SoundInv, AnswersHere, Answers, Here, Present
  <2>5. ASSUME NEW p \in Present, e = edges[p]
        PROVE  x \in Present
    BY <2>1, <2>2, <2>3, <2>5 DEF SoundInv, Covered, Here, Present
  <2> QED
    BY <2>4, <2>5 DEF Users
<1> QED
  BY <1>1, ResolverInvariant, PTL

\* A package that cannot fail gets one store task.
THEOREM ResolverOneTask == Spec => []OneTask
<1>1. ResolverInv => OneTask
  <2> SUFFICES ASSUME ResolverInv, NEW S \in SUBSET Package, Sound(S), NEW p \in S
               PROVE  notified[p] <= 1
    BY DEF OneTask
  <2>1. notified[p] = IF Here(p) THEN 1 ELSE 0
    BY DEF ResolverInv, SoundInv, OnceEach
  <2> QED
    BY <2>1
<1> QED
  BY <1>1, ResolverInvariant, PTL

\* No package is in the graph of a resolution without its dependencies, whether it
\* was imported or resolved.
THEOREM ResolverGraphComplete == Spec => []GraphComplete
<1>1. TypeOK /\ ImportComplete /\ NoHollow => GraphComplete
  BY DEF GraphComplete
<1> QED
  BY <1>1, ResolverTypeCorrect, ResolverImportComplete, ResolverNoHollow, PTL

-----------------------------------------------------------------------------
(* Nothing is left over *)

\* The manifest of a published version does not change: what the last install
\* recorded as an edge of a package is one of its dependencies.
SeedFits == \A p \in Seed, n \in Name : SeedDeps[p][n] # NONE => n \in Deps(p)

\* An error that makes the resolution other than Clean
Bad(c, n) == call[c][n] = "err" /\ ~(n \in Optional[c] /\ Pick[c][n] = NONE)

\* It is never forgotten: when the package it occurred in is given up, the
\* call that gives it up has such an error, and is itself one of the project
\* or of a package that is still there.
ErrorShown == \E c \in Caller, n \in Name : Bad(c, n) /\ (c = ROOT \/ Here(c))
ErrorShows == (\E c \in Caller, n \in Name : Bad(c, n)) => ErrorShown

\* What the call for dependency n of c leads to, and all of them
Target(c, n) == IF Seeded(c, n) THEN SeedDeps[c][n] ELSE Pick[c][n]
Wants(c) == {Target(c, n) : n \in Deps(c)} \ {NONE}

\* The edges of a package, known or still to come
Below(p) == IF entry[p] = "resolved" THEN Targets(edges[p]) ELSE Wants(p)

\* A finished entry has what its calls lead to, or what the seed has.
AsWanted ==
    \A p \in Package : entry[p] = "resolved" =>
        \/ Targets(edges[p]) = Wants(p)
        \/ Complete(p) /\ edges[p] = SeedDeps[p]

VisitedHere == \A c \in Caller, n \in Name : \A x \in imported[c][n] : Here(x)

\* Every entry is behind the project, at any time.
Reached ==
    \A S \in SUBSET Package :
        Wants(ROOT) \subseteq S /\ (\A p \in S \cap Present : Below(p) \subseteq S)
            => Present \subseteq S

OrphanInv ==
    /\ GraphInv /\ ErrorShows
    /\ Clean => AsWanted /\ VisitedHere /\ Reached

LEMMA CleanMeans == Clean <=> Stale = {} /\ \A c \in Caller, n \in Name : ~Bad(c, n)
  BY DEF Clean, Bad

\* The calls of a package that is in the seed with all that is below it lead
\* where the seed's edges lead.
LEMMA SeedWanted ==
    ASSUME SeedFits, Stale = {}, NEW y \in Package, Complete(y)
    PROVE  Targets(SeedDeps[y]) \subseteq Wants(y)
<1> SUFFICES ASSUME NEW x \in Targets(SeedDeps[y]) PROVE x \in Wants(y)
  OBVIOUS
<1>1. PICK n \in Name : x = SeedDeps[y][n] /\ x # NONE
  BY DEF Targets
<1>2. y \in Seed /\ n \in Deps(y)
  BY <1>1, CompleteInSeed DEF SeedFits
<1>3. Seeded(y, n)
  BY <1>1, <1>2, CompleteDown DEF Seeded
<1>4. Target(y, n) = x
  BY <1>1, <1>3 DEF Target
<1> QED
  BY <1>1, <1>2, <1>4 DEF Wants

LEMMA SeedBelow ==
    ASSUME SeedFits, Stale = {}, AsWanted, NEW y \in Package, Complete(y)
    PROVE  Targets(SeedDeps[y]) \subseteq Below(y)
  BY SeedWanted DEF AsWanted, Below

\* What the calls of c have answered is what they lead to.
LEMMA AnswersWanted ==
    ASSUME TreeInv, NEW c \in Caller, Returned(c), \A n \in Name : ~Bad(c, n)
    PROVE  Targets(Answers(c)) = Wants(c)
<1> USE Constants
<1>1. Deps(c) \subseteq Name
  BY ResolverAssumption DEF Deps
<1>2. \A n \in Deps(c) : Answers(c)[n] = Target(c, n)
  <2> TAKE n \in Deps(c)
  <2>1. n \in Name /\ call[c][n] \in {"ok", "seeded", "err"}
    BY <1>1 DEF Returned
  <2>2. CASE call[c][n] = "ok"
    BY <2>1, <2>2 DEF Answers, Target, TreeInv, Placed
  <2>3. CASE call[c][n] = "seeded"
    BY <2>1, <2>3 DEF Answers, Target, TreeInv, Placed
  <2>4. CASE call[c][n] = "err"
    BY <2>1, <2>4 DEF Answers, Target, TreeInv, Placed, Bad
  <2> QED
    BY <2>1, <2>2, <2>3, <2>4
<1>3. \A n \in Name \ Deps(c) : Answers(c)[n] = NONE
  BY DEF Answers, TreeInv, Placed
<1>4. Targets(Answers(c)) = {Answers(c)[n] : n \in Deps(c)} \ {NONE}
  BY <1>1, <1>3 DEF Targets
<1> QED
  BY <1>2, <1>4 DEF Wants

LEMMA OrphanInit == Init => OrphanInv
<1> SUFFICES ASSUME Init PROVE OrphanInv
  OBVIOUS
<1>1. \A c \in Caller, n \in Name : ~Bad(c, n) /\ imported[c][n] = {}
  BY DEF Init, Bad, Calls
<1>2. Present = {} /\ \A p \in Package : entry[p] = "absent"
  BY DEF Init, Present
<1> QED
  BY <1>1, <1>2, GraphInit DEF OrphanInv, ErrorShows, AsWanted, VisitedHere, Reached

\* A call that has not returned is one of the project or of a placeholder.
LEMMA ActiveHere ==
    ASSUME TreeInv, NEW c \in Caller, NEW n \in Name, call[c][n] \in Active
    PROVE  n \in Deps(c) /\ (c = ROOT \/ (c \in Package /\ entry[c] = "placeholder"))
  BY DEF TreeInv, Placed, CallerLive, LivePlaceholder, Active, Caller

\* A package that is given up is not the one that waits for it.
LEMMA OwnerApart ==
    ASSUME TreeInv, NEW c \in Caller, NEW n \in Name, call[c][n] = "deps", Returned(Pick[c][n])
    PROVE  c # Pick[c][n]
<1>1. n \in Deps(c)
  BY DEF TreeInv, Placed
<1> QED
  BY <1>1 DEF Returned

\* An error that shows does so for good.
LEMMA ShownStays ==
    ASSUME GraphInv, [Next]_vars, ErrorShown
    PROVE  ErrorShown'
<1> USE Constants
<1>0. TreeInv /\ TypeOK
  BY DEF GraphInv, TreeInv
<1>1. PICK d \in Caller, m \in Name : Bad(d, m) /\ (d = ROOT \/ Here(d))
  BY DEF ErrorShown
<1>2. ASSUME call'[d][m] = "err", d = ROOT \/ entry'[d] # "absent"
      PROVE  ErrorShown'
  BY <1>1, <1>2 DEF ErrorShown, Bad, Here
<1>3. call[d][m] = "err" /\ (d # ROOT => d \in Package /\ entry[d] # "absent")
  BY <1>1 DEF Bad, Here, Caller
<1>4. ASSUME NEW c \in Caller, NEW n \in Name, Call(c, n)
      PROVE  ErrorShown'
  <2>1. ASSUME NEW to \in Label, call[c][n] # "err", Goto(c, n, to), UNCHANGED entry
        PROVE  ErrorShown'
    BY <2>1, <1>0, <1>2, <1>3, GotoEffect
  <2>2. CASE \/ StartImport(c, n) \/ EndImport(c, n) \/ Select(c, n)
             \/ SelectFail(c, n) \/ Found(c, n)
    BY <2>1, <2>2 DEF StartImport, EndImport, Select, SelectFail, Found, Label
  <2>3. ASSUME NEW x \in Package, Import(c, n, x) PROVE ErrorShown'
    <3>1. call' = call /\ \A q \in Package : entry[q] # "absent" => entry'[q] # "absent"
      BY <2>3, <1>0 DEF Import, TypeOK
    <3> QED
      BY <3>1, <1>2, <1>3
  <2>4. CASE Insert(c, n)
    <3> DEFINE p == Pick[c][n]
    <3>1. p \in Package /\ call[c][n] = "selected" /\ entry[p] = "absent"
      BY <2>4, <1>0 DEF Insert, TreeInv, Picked
    <3>2. d # p
      BY <3>1, <1>3, ResolverAssumption
    <3>3. call'[d][m] = call[d][m]
      BY <2>4, <3>1, <3>2, <1>0, <1>3, InsertEffect
    <3>4. d # ROOT => entry'[d] # "absent"
      BY <2>4, <3>1, <1>0, <1>3 DEF Insert, TypeOK
    <3> QED
      BY <3>3, <3>4, <1>2, <1>3
  <2>5. CASE Finish(c, n)
    <3>1. call[c][n] = "deps" /\ Goto(c, n, "ok")
      BY <2>5 DEF Finish
    <3>2. call'[d][m] = call[d][m]
      BY <3>1, <1>0, <1>3, GotoEffect DEF Label
    <3>3. d # ROOT => entry'[d] # "absent"
      BY <2>5, <1>0, <1>3 DEF Finish, TypeOK
    <3> QED
      BY <3>2, <3>3, <1>2, <1>3
  <2>6. CASE FinishFail(c, n)
    <3> DEFINE p == Pick[c][n]
    <3>1. /\ call[c][n] = "deps" /\ Goto(c, n, "err") /\ Returned(p)
          /\ entry' = [entry EXCEPT ![p] = "absent"]
      BY <2>6 DEF FinishFail
    <3>2. p \in Package /\ c # p
      BY <3>1, <1>0, OwnerApart DEF TreeInv, Picked
    <3>3. call'[c][n] = "err"
      BY <3>1, <1>0, GotoEffect DEF Label
    <3>4. Bad(c, n)'
      BY <3>2, <3>3, ResolverAssumption DEF Bad
    <3>5. c = ROOT \/ (c \in Package /\ entry[c] = "placeholder")
      BY <3>1, <1>0, ActiveHere DEF Active
    <3>6. c = ROOT \/ entry'[c] # "absent"
      BY <3>1, <3>2, <3>5, <1>0 DEF TypeOK
    <3> QED
      BY <3>4, <3>6 DEF ErrorShown, Here
  <2> QED
    BY <1>4, <2>2, <2>3, <2>4, <2>5, <2>6 DEF Call
<1>5. CASE FinishRoot \/ UNCHANGED vars
  BY <1>5, <1>2, <1>3 DEF FinishRoot, vars
<1> QED
  BY <1>4, <1>5 DEF Next

\* An error shows when it occurs.
LEMMA NewShows ==
    ASSUME GraphInv, [Next]_vars, NEW d \in Caller, NEW m \in Name, ~Bad(d, m), Bad(d, m)'
    PROVE  ErrorShown'
<1> USE Constants
<1>0. TreeInv /\ TypeOK
  BY DEF GraphInv, TreeInv
<1>1. call[d][m] # "err" /\ call'[d][m] = "err"
  BY DEF Bad
<1>2. ASSUME d = ROOT \/ entry'[d] # "absent" PROVE ErrorShown'
  BY <1>2 DEF ErrorShown, Here
<1>3. ASSUME NEW c \in Caller, NEW n \in Name, Call(c, n)
      PROVE  ErrorShown'
  <2>1. CASE StartImport(c, n) \/ EndImport(c, n) \/ Select(c, n) \/ Found(c, n) \/ Finish(c, n)
    BY <2>1, <1>0, <1>1, GotoEffect DEF StartImport, EndImport, Select, Found, Finish, Label
  <2>2. ASSUME NEW x \in Package, Import(c, n, x) PROVE ErrorShown'
    BY <2>2, <1>1 DEF Import
  <2>3. CASE Insert(c, n)
    <3>1. Pick[c][n] \in Package
      BY <2>3, <1>0 DEF Insert, TreeInv, Picked
    <3>2. \A q \in Caller : Calls(q)[m] # "err"
      BY DEF Calls
    <3> QED
      BY <2>3, <3>1, <3>2, <1>0, <1>1, InsertEffect
  <2>4. CASE SelectFail(c, n)
    <3>1. d = c /\ m = n
      BY <2>4, <1>0, <1>1, GotoEffect DEF SelectFail, Label
    <3>2. c = ROOT \/ (c \in Package /\ entry[c] = "placeholder")
      BY <2>4, <1>0, ActiveHere DEF SelectFail, Active
    <3> QED
      BY <2>4, <3>1, <3>2, <1>2 DEF SelectFail
  <2>5. CASE FinishFail(c, n)
    <3>1. d = c /\ m = n
      BY <2>5, <1>0, <1>1, GotoEffect DEF FinishFail, Label
    <3>2. c = ROOT \/ (c \in Package /\ entry[c] = "placeholder")
      BY <2>5, <1>0, ActiveHere DEF FinishFail, Active
    <3>3. c # Pick[c][n]
      BY <2>5, <1>0, OwnerApart DEF FinishFail
    <3>4. c = ROOT \/ entry'[c] # "absent"
      BY <2>5, <3>2, <3>3, <1>0 DEF FinishFail, TypeOK
    <3> QED
      BY <3>1, <3>4, <1>2
  <2> QED
    BY <1>3, <2>1, <2>2, <2>3, <2>4, <2>5 DEF Call
<1>4. CASE FinishRoot \/ UNCHANGED vars
  BY <1>4, <1>1 DEF FinishRoot, vars
<1> QED
  BY <1>3, <1>4 DEF Next

LEMMA ErrorStep ==
    ASSUME GraphInv, ErrorShows, [Next]_vars
    PROVE  ErrorShows' /\ (Clean' => Clean)
<1>1. CASE ErrorShown
  <2>1. ErrorShown'
    BY <1>1, ShownStays
  <2>2. ~Clean'
    BY <2>1 DEF ErrorShown, Clean, Bad
  <2> QED
    BY <2>1, <2>2 DEF ErrorShows
<1>2. CASE ~ErrorShown
  <2>1. \A c \in Caller, n \in Name : ~Bad(c, n)
    BY <1>2 DEF ErrorShows
  <2>2. ErrorShows'
    BY <2>1, NewShows DEF ErrorShows
  <2>3. Clean' => Clean
    BY <2>1, CleanMeans DEF Clean
  <2> QED
    BY <2>2, <2>3
<1> QED
  BY <1>1, <1>2

\* No entry and no edge changes.
LEMMA ReachedKept ==
    ASSUME AsWanted, Reached, UNCHANGED <<entry, edges>>
    PROVE  AsWanted' /\ Reached'
<1>1. Present' = Present /\ \A p : Below(p)' = Below(p)
  BY DEF Present, Below
<1> QED
  BY <1>1 DEF AsWanted, Reached

\* An entry is made for a package that the project, or an entry, leads to.
LEMMA ReachedAdd ==
    ASSUME Reached, NEW x \in Package, entry[x] = "absent", entry'[x] # "absent",
           \A q \in Package : q # x => entry'[q] = entry[q] /\ edges'[q] = edges[q],
           x \in Wants(ROOT) \/ \E y \in Present : x \in Below(y)
    PROVE  Reached'
<1>1. Present' = Present \cup {x} /\ x \notin Present
  BY DEF Present
<1>2. \A q \in Present : Below(q)' = Below(q)
  <2> TAKE q \in Present
  <2>1. q \in Package /\ q # x
    BY <1>1 DEF Present
  <2> QED
    BY <2>1 DEF Below
<1> SUFFICES ASSUME NEW S \in SUBSET Package, Wants(ROOT) \subseteq S,
                    \A p \in S \cap Present' : Below(p)' \subseteq S
             PROVE  Present' \subseteq S
  BY DEF Reached
<1>3. Present \subseteq S
  <2>1. \A p \in S \cap Present : Below(p) \subseteq S
    BY <1>1, <1>2
  <2> QED
    BY <2>1 DEF Reached
<1>4. x \in S
  BY <1>1, <1>2, <1>3
<1> QED
  BY <1>1, <1>3, <1>4

LEMMA CleanImport ==
    ASSUME SeedFits, GraphInv, AsWanted, VisitedHere, Reached, Stale = {},
           NEW c \in Caller, NEW n \in Name, NEW x \in Package, Import(c, n, x)
    PROVE  AsWanted' /\ VisitedHere' /\ Reached'
<1> USE Constants
<1>0. TreeInv /\ TypeOK
  BY DEF GraphInv, TreeInv
<1>1. Complete(x)
  BY PendingComplete DEF Import
<1>2. \/ /\ entry[x] = "absent" /\ entry'[x] = "resolved" /\ edges'[x] = SeedDeps[x]
         /\ \A q \in Package : q # x => entry'[q] = entry[q] /\ edges'[q] = edges[q]
      \/ entry[x] # "absent" /\ UNCHANGED <<entry, edges>>
  BY <1>0 DEF Import, TypeOK
<1>3. VisitedHere'
  <2>3. /\ imported'[c][n] = imported[c][n] \cup {x}
        /\ \A e \in Caller, m \in Name : e # c \/ m # n => imported'[e][m] = imported[e][m]
    BY <1>0, ImportVisits
  <2>4. \A e \in Caller, m \in Name : imported[e][m] \subseteq Package
    BY <1>0 DEF TypeOK
  <2>5. \A q \in Package : Here(q) => Here(q)'
    BY <1>2 DEF Here
  <2>6. Here(x)'
    BY <1>2 DEF Here
  <2> QED
    BY <2>3, <2>4, <2>5, <2>6 DEF VisitedHere
<1>4. CASE entry[x] # "absent"
  BY <1>2, <1>3, <1>4, ReachedKept
<1>5. CASE entry[x] = "absent"
  <2>1. AsWanted'
    BY <1>1, <1>2, <1>5 DEF AsWanted
  <2>2. x \in Wants(ROOT) \/ \E y \in Present : x \in Below(y)
    <3>1. CASE x = SeedDeps[c][n]
      <4>1. call[c][n] = "import" /\ Seeded(c, n)
        BY <1>0 DEF Import, TreeInv, Placed
      <4>2. n \in Deps(c) /\ (c = ROOT \/ (c \in Package /\ entry[c] = "placeholder"))
        BY <4>1, <1>0, ActiveHere DEF Active
      <4>3. x \in Wants(c)
        BY <3>1, <4>1, <4>2, ResolverAssumption DEF Wants, Target
      <4> QED
        BY <4>2, <4>3 DEF Present, Below
    <3>2. ASSUME NEW y \in imported[c][n], x \in Targets(SeedDeps[y])
          PROVE  \E z \in Present : x \in Below(z)
      <4>1. y \in Package /\ Complete(y) /\ Here(y)
        BY <1>0 DEF TypeOK, GraphInv, Visits, VisitedHere
      <4>2. x \in Below(y)
        BY <3>2, <4>1, SeedBelow
      <4> QED
        BY <4>1, <4>2 DEF Present, Here
    <3> QED
      BY <3>1, <3>2, PendingMember DEF Import
  <2>3. Reached'
    BY <1>2, <1>5, <2>2, ReachedAdd
  <2> QED
    BY <1>3, <2>1, <2>3
<1> QED
  BY <1>4, <1>5

LEMMA CleanInsert ==
    ASSUME GraphInv, AsWanted, VisitedHere, Reached,
           NEW c \in Caller, NEW n \in Name, Insert(c, n)
    PROVE  AsWanted' /\ VisitedHere' /\ Reached'
<1> USE Constants
<1> DEFINE p == Pick[c][n]
<1>0. TreeInv /\ TypeOK
  BY DEF GraphInv, TreeInv
<1>1. p \in Package /\ call[c][n] = "selected" /\ entry[p] = "absent"
  BY <1>0 DEF Insert, TreeInv, Picked
<1>2. /\ entry'[p] = "placeholder"
      /\ \A q \in Package : q # p => entry'[q] = entry[q] /\ edges'[q] = edges[q]
  BY <1>0, <1>1 DEF Insert, TypeOK
<1>3. n \in Deps(c) /\ ~Seeded(c, n) /\ (c = ROOT \/ (c \in Package /\ entry[c] = "placeholder"))
  BY <1>0, <1>1, ActiveHere DEF Active, TreeInv, Placed
<1>4. p \in Wants(c)
  BY <1>1, <1>3, ResolverAssumption DEF Wants, Target
<1>5. p \in Wants(ROOT) \/ \E y \in Present : p \in Below(y)
  BY <1>3, <1>4 DEF Present, Below
<1> HIDE DEF p
<1>6. Reached'
  BY <1>1, <1>2, <1>5, ReachedAdd
<1>7. AsWanted'
  BY <1>2 DEF AsWanted
<1>8. VisitedHere'
  <2>1. imported' = imported /\ \A d \in Caller, m \in Name : imported[d][m] \subseteq Package
    BY <1>0 DEF Insert, TypeOK
  <2>2. \A q \in Package : Here(q) => Here(q)'
    BY <1>1, <1>2 DEF Here
  <2> QED
    BY <2>1, <2>2 DEF VisitedHere
<1> QED
  BY <1>6, <1>7, <1>8

LEMMA CleanFinish ==
    ASSUME GraphInv, AsWanted, VisitedHere, Reached, Clean,
           NEW c \in Caller, NEW n \in Name, Finish(c, n)
    PROVE  AsWanted' /\ VisitedHere' /\ Reached'
<1> USE Constants
<1> DEFINE p == Pick[c][n]
<1>0. TreeInv /\ TypeOK
  BY DEF GraphInv, TreeInv
<1>1. p \in Package /\ call[c][n] = "deps" /\ Returned(p)
  BY <1>0 DEF Finish, TreeInv, Picked
<1>2. entry[p] = "placeholder"
  BY <1>0, <1>1 DEF TreeInv, LivePlaceholder, Live, Owns
<1>3. /\ entry'[p] = "resolved" /\ edges'[p] = Answers(p)
      /\ \A q \in Package : q # p => entry'[q] = entry[q] /\ edges'[q] = edges[q]
  BY <1>0, <1>1 DEF Finish, TypeOK
<1>4. Targets(Answers(p)) = Wants(p)
  BY <1>0, <1>1, CleanMeans, AnswersWanted
<1> HIDE DEF p
<1>5. \A q \in Package : Below(q)' = Below(q) /\ (Here(q)' <=> Here(q))
  <2> TAKE q \in Package
  <2>1. CASE q = p
    BY <2>1, <1>2, <1>3, <1>4 DEF Below, Here
  <2>2. CASE q # p
    BY <2>2, <1>3 DEF Below, Here
  <2> QED
    BY <2>1, <2>2
<1>6. Present' = Present
  BY <1>5 DEF Present, Here
<1>7. Reached'
  BY <1>5, <1>6 DEF Reached
<1>8. AsWanted'
  BY <1>3, <1>4 DEF AsWanted
<1>9. VisitedHere'
  <2>1. imported' = imported /\ \A d \in Caller, m \in Name : imported[d][m] \subseteq Package
    BY <1>0 DEF Finish, TypeOK
  <2> QED
    BY <2>1, <1>5 DEF VisitedHere
<1> QED
  BY <1>7, <1>8, <1>9

LEMMA OrphanStep ==
    ASSUME SeedFits
    PROVE  OrphanInv /\ [Next]_vars => OrphanInv'
<1> SUFFICES ASSUME OrphanInv, [Next]_vars PROVE OrphanInv'
  OBVIOUS
<1> USE Constants
<1>0. GraphInv /\ TreeInv /\ TypeOK /\ GraphInv' /\ ErrorShows' /\ (Clean' => Clean)
  BY GraphStep, ErrorStep DEF OrphanInv, GraphInv, TreeInv
<1> SUFFICES ASSUME Clean' PROVE AsWanted' /\ VisitedHere' /\ Reached'
  BY <1>0 DEF OrphanInv
<1>1. Clean /\ AsWanted /\ VisitedHere /\ Reached /\ Stale = {}
  BY <1>0 DEF OrphanInv, Clean
<1>2. ASSUME NEW c \in Caller, NEW n \in Name, Call(c, n)
      PROVE  AsWanted' /\ VisitedHere' /\ Reached'
  <2>1. CASE StartImport(c, n) \/ EndImport(c, n)
    <3>1. imported' = [imported EXCEPT ![c][n] = {}] /\ UNCHANGED <<entry, edges>>
      BY <2>1 DEF StartImport, EndImport
    <3>2. /\ imported'[c][n] = {}
          /\ \A d \in Caller, m \in Name : d # c \/ m # n => imported'[d][m] = imported[d][m]
      BY <2>1, <1>0, ImportClears
    <3>3. VisitedHere'
      BY <3>1, <3>2, <1>1 DEF VisitedHere, Here
    <3> QED
      BY <3>1, <3>3, <1>1, ReachedKept
  <2>2. ASSUME NEW x \in Package, Import(c, n, x)
        PROVE  AsWanted' /\ VisitedHere' /\ Reached'
    BY <2>2, <1>0, <1>1, CleanImport
  <2>3. CASE Select(c, n) \/ SelectFail(c, n) \/ Found(c, n)
    <3>1. UNCHANGED <<entry, edges, imported>>
      BY <2>3 DEF Select, SelectFail, Found
    <3> QED
      BY <3>1, <1>1, ReachedKept DEF VisitedHere, Here
  <2>4. CASE Insert(c, n)
    BY <2>4, <1>0, <1>1, CleanInsert
  <2>5. CASE Finish(c, n)
    BY <2>5, <1>0, <1>1, CleanFinish
  <2>6. CASE FinishFail(c, n)
    <3>1. PICK m \in Required[Pick[c][n]] : call[Pick[c][n]][m] = "err"
      BY <2>6 DEF FinishFail, RequiredFailed
    <3>2. Pick[c][n] \in Caller
      BY <2>6, <1>0 DEF FinishFail, TreeInv, Picked, Caller
    <3>3. m \in Name /\ m \notin Optional[Pick[c][n]]
      BY <3>1, <3>2, ResolverAssumption
    <3> QED
      BY <3>1, <3>2, <3>3, <1>1 DEF Clean
  <2> QED
    BY <1>2, <2>1, <2>2, <2>3, <2>4, <2>5, <2>6 DEF Call
<1>3. CASE FinishRoot \/ UNCHANGED vars
  <2>1. UNCHANGED <<entry, edges, imported>>
    BY <1>3 DEF FinishRoot, vars
  <2> QED
    BY <2>1, <1>1, ReachedKept DEF VisitedHere, Here
<1> QED
  BY <1>2, <1>3 DEF Next

\* If what the last install recorded of a package are dependencies of it, the
\* graph of a clean resolution holds only what the project reaches: imports
\* from the seed bring in nothing that a call in the same package would not
\* have asked for (import_seed_package_chain beside resolve_package).
THEOREM ResolverNoOrphans == SeedFits => (Spec => []NoOrphans)
<1> SUFFICES ASSUME SeedFits PROVE Spec => []NoOrphans
  OBVIOUS
<1>1. OrphanInv /\ [Next]_vars => OrphanInv'
  BY OrphanStep
<1>2. OrphanInv => NoOrphans
  <2> SUFFICES ASSUME OrphanInv, result = "ok", Clean, NEW S \in SUBSET Package,
                      Targets(Answers(ROOT)) \subseteq S,
                      \A p \in S \cap Present : Targets(edges[p]) \subseteq S
               PROVE  Present \subseteq S
    BY DEF NoOrphans
  <2>1. TreeInv /\ Reached
    BY DEF OrphanInv, GraphInv
  <2>2. Live = {} /\ Returned(ROOT)
    BY <2>1, AllReturned DEF TreeInv, RootReturned
  <2>3. Targets(Answers(ROOT)) = Wants(ROOT)
    BY <2>1, <2>2, CleanMeans, AnswersWanted, Constants
  <2>4. \A p \in Present : Below(p) = Targets(edges[p])
    BY <2>1, <2>2 DEF TreeInv, TypeOK, LivePlaceholder, Present, Below
  <2> QED
    BY <2>1, <2>3, <2>4 DEF Reached
<1> QED
  BY <1>1, <1>2, OrphanInit, PTL DEF Spec

-----------------------------------------------------------------------------
(* The fetches of packuments (PackumentFetch) *)

\* Fetches that refer to a lock
Referring == {"lock", "check", "permit", "recheck", "request", "cleanup", "return"}

\* The inductive invariant behind SingleFlight and NoRefetch.  LockShared is
\* the point: as long as a key is not cached, every fetch that wants it
\* refers to the lock that is in the map.
HasLock == \A f \in Fetch : pc[f] \in Referring <=> mine[f] # Nil

LockShared ==
    \A f \in Fetch :
        mine[f] # Nil /\ KeyFor(f) \notin cache => locks[KeyFor(f)] = mine[f]

Excluded == \A f, g \in Guarding : mine[f] = mine[g] => f = g

CleanupCached ==
    \A f \in Fetch : pc[f] \in {"cleanup", "return"} => KeyFor(f) \in cache

LockInv ==
    FetchTypeOK /\ HasLock /\ LockShared /\ Excluded /\ CleanupCached /\ NoRefetch

LEMMA KeyForType == \A f \in Fetch : KeyFor(f) \in Key
  BY FetchAssumption DEF KeyFor, Fetch

\* Every step keeps the types.
LEMMA FetchTypeStep == FetchTypeOK /\ [FetchNext]_fetchVars => FetchTypeOK'
<1> SUFFICES ASSUME FetchTypeOK, [FetchNext]_fetchVars
             PROVE  FetchTypeOK'
    OBVIOUS
<1> USE FetchAssumption, KeyForType
<1>1. ASSUME NEW f \in Fetch, Step(f)
      PROVE  FetchTypeOK'
  <2>1. CASE Hit(f) \/ Lock(f) \/ Check(f) \/ AcquirePermit(f) \/ Recheck(f)
    BY <2>1 DEF Hit, Lock, Check, AcquirePermit, Recheck, FetchTypeOK, FetchTo,
                lockVars, prefetchVars
  <2>2. CASE GetLock(f)
    BY <2>2 DEF GetLock, FetchTypeOK, FetchTo, prefetchVars
  <2>3. CASE RequestOk(f) \/ RequestFail(f) \/ Return(f)
    BY <2>3 DEF RequestOk, RequestFail, Return, FetchTypeOK, FetchTo, prefetchVars
  <2>4. CASE Cleanup(f)
    BY <2>4 DEF Cleanup, FetchTypeOK, FetchTo, prefetchVars
  <2> QED
    BY <1>1, <2>1, <2>2, <2>3, <2>4 DEF Step
<1>2. ASSUME NEW c \in Asker, Plan(c)
      PROVE  FetchTypeOK'
  <2>1. ASSUME NEW k \in Key, Skip(c, k) \/ NotCached(c, k)
        PROVE  FetchTypeOK'
    BY <2>1 DEF Skip, NotCached, FetchTypeOK, lockVars, prefetchVars
  <2>2. CASE Schedule(c)
    BY <2>2 DEF Schedule, FetchTypeOK, lockVars
  <2>3. CASE Leave(c)
    BY <2>3 DEF Leave, FetchTypeOK, FetchTo, lockVars, prefetchVars, Fetch
  <2> QED
    BY <1>2, <2>1, <2>2, <2>3 DEF Plan
<1>3. CASE DropSenders
  BY <1>3 DEF DropSenders, FetchTypeOK, lockVars
<1>4. CASE Prefetch
  <2>1. CASE ReceiveNone \/ EndPrefetcher
    BY <2>1 DEF ReceiveNone, EndPrefetcher, FetchTypeOK, lockVars
  <2>2. ASSUME NEW k \in Key, Receive(k) \/ JoinNext(k)
        PROVE  FetchTypeOK'
    BY <2>2 DEF Receive, JoinNext, FetchTypeOK, FetchTo, lockVars, Fetch
  <2> QED
    BY <1>4, <2>1, <2>2 DEF Prefetch
<1>5. CASE UNCHANGED fetchVars
  BY <1>5 DEF fetchVars, FetchTypeOK, lockVars, prefetchVars
<1> QED
  BY <1>1, <1>2, <1>3, <1>4, <1>5 DEF FetchNext

\* The inductive invariant behind PrefetchOnce: the JoinSet holds only keys
\* that were taken out of the queue.
PrefetchInv ==
    /\ FetchTypeOK
    /\ queue \subseteq scheduled
    /\ spawned \subseteq scheduled \ queue
    /\ \A k \in Key : At(k, "idle") <=> k \notin scheduled \/ k \in queue

LEMMA PrefetchInit == FetchInit => PrefetchInv
<1> SUFFICES ASSUME FetchInit
             PROVE  PrefetchInv
    OBVIOUS
<1>1. FetchTypeOK
  BY FetchAssumption DEF FetchInit, FetchTypeOK, Fetch
<1> QED
  BY <1>1, FetchAssumption DEF FetchInit, PrefetchInv, At, Fetch

LEMMA PrefetchStep == PrefetchInv /\ [FetchNext]_fetchVars => PrefetchInv'
<1> SUFFICES ASSUME PrefetchInv, [FetchNext]_fetchVars
             PROVE  PrefetchInv'
    OBVIOUS
<1> USE FetchAssumption
<1>0. FetchTypeOK /\ FetchTypeOK'
  BY FetchTypeStep DEF PrefetchInv
<1>1. ASSUME NEW f \in Fetch, Step(f)
      PROVE  PrefetchInv'
  <2>1. UNCHANGED prefetchVars
    BY <1>1 DEF Step, Hit, GetLock, Lock, Check, AcquirePermit, Recheck,
                RequestOk, RequestFail, Cleanup, Return
  <2>2. \A g \in Fetch : pc'[g] = "idle" <=> pc[g] = "idle"
    BY <1>1, <1>0 DEF Step, Hit, GetLock, Lock, Check, AcquirePermit, Recheck,
         RequestOk, RequestFail, Cleanup, Return, FetchTypeOK, FetchTo, At
  <2> QED
    BY <2>1, <2>2, <1>0 DEF PrefetchInv, prefetchVars, At, Fetch
<1>2. ASSUME NEW c \in Asker, Plan(c)
      PROVE  PrefetchInv'
  <2>1. ASSUME NEW k \in Key, Skip(c, k) \/ NotCached(c, k)
        PROVE  PrefetchInv'
    BY <2>1, <1>0 DEF Skip, NotCached, PrefetchInv, prefetchVars, At
  <2>2. CASE Schedule(c)
    BY <2>2, <1>0 DEF Schedule, PrefetchInv, At, FetchTypeOK
  <2>3. CASE Leave(c)
    BY <2>3, <1>0 DEF Leave, FetchTo, PrefetchInv, prefetchVars, At, FetchTypeOK, Fetch
  <2> QED
    BY <1>2, <2>1, <2>2, <2>3 DEF Plan
<1>3. CASE DropSenders
  BY <1>3, <1>0 DEF DropSenders, PrefetchInv, At
<1>4. CASE Prefetch
  <2>1. CASE ReceiveNone \/ EndPrefetcher
    BY <2>1, <1>0 DEF ReceiveNone, EndPrefetcher, PrefetchInv, At
  <2>2. ASSUME NEW k \in Key, Receive(k) \/ JoinNext(k)
        PROVE  PrefetchInv'
    BY <2>2, <1>0 DEF Receive, JoinNext, FetchTo, PrefetchInv, At, FetchTypeOK, Fetch
  <2> QED
    BY <1>4, <2>1, <2>2 DEF Prefetch
<1>5. CASE UNCHANGED fetchVars
  BY <1>5, <1>0 DEF fetchVars, prefetchVars, PrefetchInv, At
<1> QED
  BY <1>1, <1>2, <1>3, <1>4, <1>5 DEF FetchNext

LEMMA LockInit == FetchInit => LockInv
<1> SUFFICES ASSUME FetchInit
             PROVE  LockInv
    OBVIOUS
<1> USE FetchAssumption
<1>1. FetchTypeOK
  BY DEF FetchInit, FetchTypeOK, Fetch
<1>2. HasLock /\ LockShared /\ CleanupCached
  BY DEF FetchInit, HasLock, LockShared, CleanupCached, Referring, Fetch
<1>3. Excluded /\ NoRefetch
  BY DEF FetchInit, Excluded, NoRefetch, Guarding, At, Fetch
<1> QED
  BY <1>1, <1>2, <1>3 DEF LockInv

\* A step that leaves locks, references and cache alone, and moves a fetch
\* that refers to no lock to a place where it refers to none, is harmless.
LEMMA Harmless ==
    ASSUME LockInv, FetchTypeOK', UNCHANGED lockVars,
           \A f \in Fetch : pc'[f] = pc[f] \/ (pc[f] \notin Referring
                                               /\ pc'[f] \notin Referring)
    PROVE  LockInv'
<1>1. HasLock' /\ CleanupCached'
  BY DEF LockInv, HasLock, CleanupCached, Referring, lockVars, KeyFor
<1>2. LockShared'
  BY DEF LockInv, LockShared, lockVars, KeyFor
<1>3. Excluded' /\ NoRefetch'
  BY DEF LockInv, Excluded, NoRefetch, Guarding, Referring, At, lockVars, KeyFor
<1> QED
  BY <1>1, <1>2, <1>3 DEF LockInv

LEMMA LockStep == LockInv /\ PrefetchInv /\ [FetchNext]_fetchVars => LockInv'
<1> SUFFICES ASSUME LockInv, PrefetchInv, [FetchNext]_fetchVars
             PROVE  LockInv'
    OBVIOUS
<1> USE FetchAssumption, KeyForType
<1>0. FetchTypeOK /\ FetchTypeOK'
  BY FetchTypeStep DEF LockInv
<1>1. ASSUME NEW f \in Fetch, Step(f)
      PROVE  LockInv'
  <2>1. CASE Hit(f)
    BY <2>1, <1>0, Harmless DEF Hit, At, FetchTo, Referring, FetchTypeOK
  <2>2. CASE GetLock(f)
    <3>1. HasLock' /\ CleanupCached' /\ NoRefetch'
      BY <2>2, <1>0 DEF GetLock, LockInv, HasLock, CleanupCached, NoRefetch,
                        Referring, At, FetchTo, FetchTypeOK, KeyFor
    <3>2. LockShared'
      BY <2>2, <1>0 DEF GetLock, LockInv, LockShared, FetchTypeOK, KeyFor
    <3>3. Excluded'
      BY <2>2, <1>0 DEF GetLock, LockInv, Excluded, Guarding, At, FetchTo, FetchTypeOK
    <3> QED
      BY <3>1, <3>2, <3>3, <1>0 DEF LockInv
  <2>3. CASE Lock(f) \/ Check(f) \/ AcquirePermit(f) \/ Recheck(f)
    <3>0. UNCHANGED lockVars
      BY <2>3 DEF Lock, Check, AcquirePermit, Recheck
    <3>1. HasLock' /\ CleanupCached' /\ NoRefetch'
      BY <2>3, <3>0, <1>0 DEF Lock, Check, AcquirePermit, Recheck, LockInv,
           HasLock, CleanupCached, NoRefetch, Referring, At, FetchTo, FetchTypeOK,
           KeyFor, lockVars
    <3>2. LockShared'
      BY <3>0 DEF LockInv, LockShared, KeyFor, lockVars
    <3>3. Excluded'
      BY <2>3, <3>0, <1>0 DEF Lock, Check, AcquirePermit, Recheck, LockInv,
           Excluded, Guarding, At, FetchTo, FetchTypeOK, lockVars
    <3> QED
      BY <3>1, <3>2, <3>3, <1>0 DEF LockInv
  <2>4. CASE RequestOk(f)
    <3>1. HasLock' /\ CleanupCached'
      BY <2>4, <1>0 DEF RequestOk, LockInv, HasLock, CleanupCached, Referring,
                        At, FetchTo, FetchTypeOK, KeyFor
    <3>2. LockShared'
      BY <2>4, <1>0 DEF RequestOk, LockInv, LockShared, FetchTypeOK, KeyFor
    <3>3. Excluded'
      BY <2>4, <1>0 DEF RequestOk, LockInv, Excluded, Guarding, At, FetchTo, FetchTypeOK
    <3>4. ASSUME NEW g \in Fetch, g # f, At(g, "request"), KeyFor(g) = KeyFor(f)
          PROVE  FALSE
      <4>1. mine[f] # Nil /\ mine[g] # Nil
        BY <2>4, <3>4 DEF RequestOk, LockInv, HasLock, Referring, At
      <4>2. KeyFor(f) \notin cache
        BY <2>4 DEF RequestOk, LockInv, NoRefetch
      <4>3. mine[f] = mine[g]
        BY <4>1, <4>2, <3>4 DEF LockInv, LockShared
      <4> QED
        BY <4>3, <2>4, <3>4 DEF RequestOk, LockInv, Excluded, Guarding, At
    <3>5. NoRefetch'
      BY <2>4, <3>4, <1>0 DEF RequestOk, LockInv, NoRefetch, At, FetchTo, FetchTypeOK, KeyFor
    <3> QED
      BY <3>1, <3>2, <3>3, <3>5, <1>0 DEF LockInv
  <2>5. CASE RequestFail(f) \/ Return(f)
    <3>1. HasLock' /\ CleanupCached' /\ NoRefetch'
      BY <2>5, <1>0 DEF RequestFail, Return, LockInv, HasLock, CleanupCached,
           NoRefetch, Referring, At, FetchTo, FetchTypeOK, KeyFor
    <3>2. LockShared'
      BY <2>5, <1>0 DEF RequestFail, Return, LockInv, LockShared, FetchTypeOK, KeyFor
    <3>3. Excluded'
      BY <2>5, <1>0 DEF RequestFail, Return, LockInv, Excluded, Guarding, At,
                        FetchTo, FetchTypeOK
    <3> QED
      BY <3>1, <3>2, <3>3, <1>0 DEF LockInv
  <2>6. CASE Cleanup(f)
    <3>1. HasLock' /\ CleanupCached' /\ NoRefetch'
      BY <2>6, <1>0 DEF Cleanup, LockInv, HasLock, CleanupCached, NoRefetch,
           Referring, At, FetchTo, FetchTypeOK, KeyFor
    <3>2. LockShared'
      <4>1. KeyFor(f) \in cache
        BY <2>6 DEF Cleanup, At, LockInv, CleanupCached
      <4> QED
        BY <4>1, <2>6, <1>0 DEF Cleanup, LockInv, LockShared, FetchTypeOK, KeyFor
    <3>3. Excluded'
      BY <2>6, <1>0 DEF Cleanup, LockInv, Excluded, Guarding, At, FetchTo, FetchTypeOK
    <3> QED
      BY <3>1, <3>2, <3>3, <1>0 DEF LockInv
  <2> QED
    BY <1>1, <2>1, <2>2, <2>3, <2>4, <2>5, <2>6 DEF Step
<1>2. ASSUME NEW c \in Asker, Plan(c)
      PROVE  LockInv'
  BY <1>2, <1>0, Harmless DEF Plan, Skip, NotCached, Schedule, Leave, FetchTo, At,
                              Referring, FetchTypeOK
<1>3. CASE DropSenders
  BY <1>3, <1>0, Harmless DEF DropSenders
<1>4. CASE Prefetch
  <2>1. CASE ReceiveNone \/ EndPrefetcher
    BY <2>1, <1>0, Harmless DEF ReceiveNone, EndPrefetcher
  <2>2. ASSUME NEW k \in Key, JoinNext(k)
        PROVE  LockInv'
    BY <2>2, <1>0, Harmless DEF JoinNext, FetchTo, Referring, FetchTypeOK
  <2>3. ASSUME NEW k \in Key, Receive(k)
        PROVE  LockInv'
    <3>1. pc[k] = "idle"
      BY <2>3 DEF Receive, PrefetchInv, At
    <3> QED
      BY <2>3, <3>1, <1>0, Harmless DEF Receive, FetchTo, Referring, FetchTypeOK
  <2> QED
    BY <1>4, <2>1, <2>2, <2>3 DEF Prefetch
<1>5. CASE UNCHANGED fetchVars
  BY <1>5, <1>0, Harmless DEF fetchVars
<1> QED
  BY <1>1, <1>2, <1>3, <1>4, <1>5 DEF FetchNext

-----------------------------------------------------------------------------

\* The variables of the packument cache, the lock map and the prefetcher
\* keep their types; only prefetchable keys are ever scheduled.
THEOREM FetchTypeCorrect == FetchSpec => []FetchTypeOK
<1>1. FetchInit => FetchTypeOK
  BY LockInit DEF LockInv
<1> QED
  BY <1>1, FetchTypeStep, PTL DEF FetchSpec

\* run_metadata_prefetcher runs one task for each scheduled key and loses
\* none, for any number of calls that schedule the same keys.
THEOREM FetchPrefetchOnce == FetchSpec => []PrefetchOnce
<1>1. PrefetchInv => PrefetchOnce
  BY DEF PrefetchInv, PrefetchOnce
<1> QED
  BY <1>1, PrefetchInit, PrefetchStep, PTL DEF FetchSpec

\* fetch_registry_package_cached never has two requests for one packument in
\* flight, although cleanup_package_fetch_lock takes locks out of the map.
THEOREM FetchSingleFlight == FetchSpec => []SingleFlight
<1>1. LockInv => SingleFlight
  <2> SUFFICES ASSUME LockInv, NEW f \in Fetch, NEW g \in Fetch,
                      At(f, "request"), At(g, "request"), KeyFor(f) = KeyFor(g)
               PROVE  f = g
    BY DEF SingleFlight
  <2>1. mine[f] # Nil /\ mine[g] # Nil
    BY DEF LockInv, HasLock, Referring, At
  <2>2. mine[f] = mine[g]
    BY <2>1 DEF LockInv, LockShared, NoRefetch
  <2> QED
    BY <2>2 DEF LockInv, Excluded, Guarding, At
<1> QED
  BY <1>1, LockInit, LockStep, PrefetchInit, PrefetchStep, PTL DEF FetchSpec

\* fetch_registry_package_cached never requests a packument that is cached.
THEOREM FetchNoRefetch == FetchSpec => []NoRefetch
<1>1. LockInv => NoRefetch
  BY DEF LockInv
<1> QED
  BY <1>1, LockInit, LockStep, PrefetchInit, PrefetchStep, PTL DEF FetchSpec

\* One request per packument, at a time and in all.
THEOREM FetchOneRequest == FetchSpec => []OneRequest
<1>1. FetchTypeOK /\ SingleFlight /\ NoRefetch => OneRequest
  BY DEF OneRequest
<1> QED
  BY <1>1, FetchTypeCorrect, FetchSingleFlight, FetchNoRefetch, PTL

=============================================================================
