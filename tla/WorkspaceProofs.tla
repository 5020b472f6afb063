--------------------------- MODULE WorkspaceProofs ---------------------------
(***************************************************************************)
(* Proofs about Workspace, for any members, packages, versions, manifests  *)
(* and number of installs, edits and faults.                               *)
(***************************************************************************)
EXTENDS Workspace, WellFoundedInduction, NaturalsInduction, FiniteSetTheorems, TLAPS

-----------------------------------------------------------------------------
(* Numbers and sets of them *)

\* The least of some numbers
LEMMA Least ==
    ASSUME NEW at, at \subseteq Nat, at # {}
    PROVE  \E i \in at : \A j \in at : i <= j
<1> DEFINE R == OpToRel(<, Nat)
<1>1. IsWellFoundedOn(R, Nat)
  BY NatLessThanWellFounded
<1>2. \A i, j \in Nat : i < j => <<i, j>> \in R
  BY DEF OpToRel
<1> HIDE DEF R
<1>3. PICK i \in at : \A j \in at : ~ (<<j, i>> \in R)
  BY <1>1, WFMin
<1>4. ASSUME NEW j \in at PROVE i <= j
  <2>1. ~ (j < i)
    BY <1>2, <1>3, <1>4
  <2> QED
    BY <2>1
<1> QED
  BY <1>4

\* Some versions have a newest one: of the sets of those above a version, the smallest is
\* empty.
LEMMA Newest ==
    ASSUME NEW S, S \subseteq Version, S # {}
    PROVE  \E v \in S : \A w \in S : w <= v
<1> DEFINE Above(v) == {w \in S : w > v}
           sizes == {Cardinality(Above(v)) : v \in S}
<1>1. IsFiniteSet(S) /\ S \subseteq Nat
  BY FS_Subset, WorkspaceAssumption
<1>2. \A v \in S : IsFiniteSet(Above(v)) /\ Cardinality(Above(v)) \in Nat
  <2>1. \A v \in S : Above(v) \subseteq S
    OBVIOUS
  <2> QED
    BY <1>1, <2>1, FS_Subset, FS_CardinalityType
<1>3. sizes \subseteq Nat /\ sizes # {}
  BY <1>2
<1>4. PICK c \in sizes : \A d \in sizes : c <= d
  BY <1>3, Least
<1>5. PICK v \in S : c = Cardinality(Above(v))
  OBVIOUS
<1>6. ASSUME NEW w \in S PROVE w <= v
  <2>1. SUFFICES ASSUME w > v PROVE FALSE
    BY <1>1, <1>6
  <2>2. Above(w) \subseteq Above(v) /\ w \in Above(v) /\ w \notin Above(w)
    <3>1. v \in Nat /\ w \in Nat /\ ~ (w > w)
      BY <1>1, <1>6
    <3>2. \A u \in S : u > w => u > v
      BY <1>1, <2>1, <3>1
    <3> QED
      BY <2>1, <3>1, <3>2
  <2>3. Cardinality(Above(w)) < Cardinality(Above(v))
    BY <1>2, <2>2, FS_Subset
  <2>4. Cardinality(Above(v)) <= Cardinality(Above(w))
    BY <1>4, <1>5
  <2>5. Cardinality(Above(v)) \in Nat /\ Cardinality(Above(w)) \in Nat
    BY <1>2
  <2> HIDE DEF Above
  <2> QED
    BY <2>3, <2>4, <2>5
<1> QED
  BY <1>6

-----------------------------------------------------------------------------
(* The specs of all members, merged *)

Block == [spec : AnySpec, exclusive : BOOLEAN, conflict : BOOLEAN]
Blocks == [required : Block, optional : Block]
Ask == [spec : AnySpec, optional : BOOLEAN]

LEMMA VersionNat == 0 \notin Version /\ \A v \in Version \cup {0} : v \in Nat
  BY WorkspaceAssumption

LEMMA SpecType ==
    /\ NoSpec \in AnySpec
    /\ \A s \in AnySpec : /\ s.base \in Nat /\ s.base \in Version \cup {0}
                          /\ s # NoSpec <=> s.kind # "none"
                          /\ s = Spec(s.kind, s.base)
    /\ \A v \in Version \cup {0} : Spec("exact", v) \in AnySpec /\ Spec("exact", v) # NoSpec
  BY VersionNat DEF NoSpec, AnySpec, Spec

LEMMA MergeType ==
    ASSUME NEW old \in AnySpec, NEW new \in AnySpec
    PROVE  /\ MergeRanges(old, new).spec \in {old, new}
           /\ MergeRanges(old, new).kind \in {"compatible", "conflict", "exclusive"}
  BY DEF MergeRanges, Merged, ChooseMoreSpecific

\* What the range r admits, the spec s admits.
Admits(r, s) ==
    \/ r = s
    \/ IsRange(r) /\ IsRange(s) /\ \A v \in Nat : Matches(r, v) => Matches(s, v)

\* Ranges without a lower bound are merged into one that both admit.
LEMMA MergeAdmits ==
    ASSUME NEW old \in AnySpec, NEW new \in AnySpec, old.kind # "gte", new.kind # "gte",
           MergeRanges(old, new).kind = "compatible"
    PROVE  Admits(MergeRanges(old, new).spec, old) /\ Admits(MergeRanges(old, new).spec, new)
<1>1. CASE old = new
  BY <1>1 DEF MergeRanges, Merged, Admits
<1>2. CASE old # new
  <2>1. IsRange(old) /\ IsRange(new)
    BY <1>2 DEF MergeRanges, Merged
  <2>2. /\ old.kind \in {"caret", "exact"} /\ new.kind \in {"caret", "exact"}
        /\ old.base \in Nat /\ new.base \in Nat
    BY <2>1, SpecType DEF IsRange
  <2>3. /\ old = Spec(old.kind, old.base) /\ new = Spec(new.kind, new.base)
    BY SpecType
  <2>4. CASE Matches(old, new.base) /\ ~Matches(new, old.base)
    <3>1. MergeRanges(old, new).spec = new
      BY <1>2, <2>1, <2>4 DEF MergeRanges, Merged
    <3>2. \A v \in Nat : Matches(new, v) => Matches(old, v)
      BY <2>2, <2>4 DEF Matches
    <3> QED
      BY <2>1, <3>1, <3>2 DEF Admits
  <2>5. CASE ~Matches(old, new.base) /\ Matches(new, old.base)
    <3>1. MergeRanges(old, new).spec = old
      BY <1>2, <2>1, <2>5 DEF MergeRanges, Merged
    <3>2. \A v \in Nat : Matches(old, v) => Matches(new, v)
      BY <2>2, <2>5 DEF Matches
    <3> QED
      BY <2>1, <3>1, <3>2 DEF Admits
  <2>6. CASE Matches(old, new.base) /\ Matches(new, old.base)
    <3>1. MergeRanges(old, new).spec = ChooseMoreSpecific(old, new)
      BY <1>2, <2>1, <2>6 DEF MergeRanges, Merged
    <3>2. old.base = new.base
      BY <2>2, <2>6 DEF Matches
    <3>3. old.kind # new.kind
      BY <1>2, <2>3, <3>2
    <3>4. CASE new.kind = "exact"
      <4>1. ChooseMoreSpecific(old, new) = new
        BY <2>2, <3>2, <3>3, <3>4 DEF ChooseMoreSpecific, Rank
      <4>2. \A v \in Nat : Matches(new, v) => Matches(old, v)
        BY <2>2, <2>6, <3>2, <3>4 DEF Matches
      <4> QED
        BY <2>1, <3>1, <4>1, <4>2 DEF Admits
    <3>5. CASE old.kind = "exact"
      <4>1. ChooseMoreSpecific(old, new) = old
        BY <2>2, <3>2, <3>3, <3>5 DEF ChooseMoreSpecific, Rank
      <4>2. \A v \in Nat : Matches(old, v) => Matches(new, v)
        BY <2>2, <2>6, <3>2, <3>5 DEF Matches
      <4> QED
        BY <2>1, <3>1, <4>1, <4>2 DEF Admits
    <3> QED
      BY <2>2, <3>3, <3>4, <3>5
  <2>7. CASE ~Matches(old, new.base) /\ ~Matches(new, old.base)
    BY <1>2, <2>1, <2>7 DEF MergeRanges, Merged
  <2> QED
    BY <2>4, <2>5, <2>6, <2>7
<1> QED
  BY <1>1, <1>2

LEMMA InsertType ==
    ASSUME NEW acc \in Block, NEW spec \in AnySpec, spec # NoSpec
    PROVE  Insert(acc, spec) \in Block /\ Insert(acc, spec).spec # NoSpec
<1>1. CASE acc.spec = NoSpec
  BY <1>1 DEF Insert, Block
<1>2. CASE acc.spec # NoSpec
  BY <1>2, MergeType DEF Insert, Block
<1> QED
  BY <1>1, <1>2

LEMMA JoinType ==
    ASSUME NEW acc \in Blocks, NEW ask \in Ask
    PROVE  Join(acc, ask) \in Blocks
<1>1. acc.required \in Block /\ acc.optional \in Block /\ ask.spec \in AnySpec
  BY DEF Blocks, Ask
<1>2. CASE ask.spec = NoSpec
  BY <1>2 DEF Join
<1>3. CASE ask.spec # NoSpec
  <2>1. Insert(acc.required, ask.spec) \in Block /\ Insert(acc.optional, ask.spec) \in Block
    BY <1>1, <1>3, InsertType
  <2>2. \/ Join(acc, ask) = [acc EXCEPT !.optional = Insert(@, ask.spec)]
        \/ Join(acc, ask) = [acc EXCEPT !.required = Insert(@, ask.spec)]
    BY <1>3 DEF Join
  <2> HIDE DEF Block
  <2> QED
    BY <2>1, <2>2 DEF Blocks
<1> QED
  BY <1>2, <1>3

LEMMA NoneYetType == NoneYet \in Blocks
  BY SpecType DEF NoneYet, Blocks, Block

\* The blocks that member after member leaves, up to the last
Grows(f, asks, k) ==
    /\ f \in [0 .. k -> Blocks] /\ f[0] = NoneYet
    /\ \A i \in 1 .. k : f[i] = Join(f[i - 1], asks[i])

LEMMA GrowsExists ==
    ASSUME NEW asks \in Seq(Ask), NEW k \in 0 .. Len(asks)
    PROVE  \E f : Grows(f, asks, k)
<1> DEFINE bad == {i \in 0 .. Len(asks) : ~ \E f : Grows(f, asks, i)}
<1>1. SUFFICES bad = {}
  OBVIOUS
<1>2. SUFFICES ASSUME bad # {} PROVE FALSE
  OBVIOUS
<1>3. PICK b \in bad : \A i \in bad : b <= i
  <2>1. bad \subseteq Nat
    OBVIOUS
  <2> QED
    BY <1>2, <2>1, Least
<1>4. CASE b = 0
  <2> DEFINE f == [i \in 0 .. 0 |-> NoneYet]
  <2>1. Grows(f, asks, 0)
    BY NoneYetType DEF Grows
  <2> QED
    BY <1>4, <2>1
<1>5. CASE b # 0
  <2>1. b \in 1 .. Len(asks) /\ b - 1 \in 0 .. Len(asks) /\ b - 1 \notin bad
    BY <1>3, <1>5
  <2>2. PICK f : Grows(f, asks, b - 1)
    BY <2>1
  <2> DEFINE g == [i \in 0 .. b |-> IF i = b THEN Join(f[b - 1], asks[b]) ELSE f[i]]
  <2>3. \A i \in 0 .. (b - 1) : f[i] \in Blocks
    BY <2>2 DEF Grows
  <2>4. Join(f[b - 1], asks[b]) \in Blocks
    BY <2>1, <2>3, JoinType
  <2>5. \A i \in 0 .. b : i # b => i \in 0 .. (b - 1)
    BY <2>1
  <2>6. g \in [0 .. b -> Blocks]
    BY <2>3, <2>4, <2>5
  <2>7. g[0] = NoneYet
    BY <2>1, <2>2 DEF Grows
  <2>8. ASSUME NEW i \in 1 .. b PROVE g[i] = Join(g[i - 1], asks[i])
    <3>1. i - 1 \in 0 .. b /\ i - 1 # b /\ i \in 0 .. b
      BY <2>1, <2>8
    <3>2. g[i - 1] = f[i - 1]
      BY <3>1
    <3>3. CASE i = b
      BY <3>1, <3>2, <3>3
    <3>4. CASE i # b
      <4>1. i \in 1 .. (b - 1)
        BY <2>1, <2>8, <3>4
      <4> QED
        BY <2>2, <3>1, <3>2, <3>4, <4>1 DEF Grows
    <3> QED
      BY <3>3, <3>4
  <2>9. Grows(g, asks, b)
    BY <2>6, <2>7, <2>8 DEF Grows
  <2> QED
    BY <2>9
<1> QED
  BY <1>4, <1>5

\* The recursive definition of Collect has a solution, so that it is one.
LEMMA CollectGrows ==
    ASSUME NEW asks \in Seq(Ask)
    PROVE  \E f : Grows(f, asks, Len(asks)) /\ Collect(asks) = f[Len(asks)]
<1> DEFINE Body(f) == [i \in 0 .. Len(asks) |->
                          IF i = 0 THEN NoneYet ELSE Join(f[i - 1], asks[i])]
           upTo == CHOOSE f : f = Body(f)
<1>1. Collect(asks) = upTo[Len(asks)]
  BY DEF Collect
<1>2. Len(asks) \in Nat
  OBVIOUS
<1>3. PICK f : Grows(f, asks, Len(asks))
  BY <1>2, GrowsExists
<1>4. f = Body(f)
  <2>1. \A i \in 0 .. Len(asks) : i # 0 => i \in 1 .. Len(asks)
    BY <1>2
  <2> QED
    BY <1>3, <2>1 DEF Grows
<1>5. upTo = Body(upTo)
  BY <1>4
<1> HIDE DEF upTo
<1>6. upTo[0] = NoneYet /\ \A i \in 1 .. Len(asks) : upTo[i] = Join(upTo[i - 1], asks[i])
  <2>1. 0 \in 0 .. Len(asks) /\ \A i \in 1 .. Len(asks) : i \in 0 .. Len(asks) /\ i # 0
    BY <1>2
  <2> QED
    BY <1>5, <2>1
<1> DEFINE bad == {i \in 0 .. Len(asks) : upTo[i] \notin Blocks}
<1>7. bad = {}
  <2>1. SUFFICES ASSUME bad # {} PROVE FALSE
    OBVIOUS
  <2>2. PICK b \in bad : \A i \in bad : b <= i
    <3>1. bad \subseteq Nat
      OBVIOUS
    <3> QED
      BY <2>1, <3>1, Least
  <2>3. b # 0
    BY <1>6, NoneYetType
  <2>4. b \in 1 .. Len(asks) /\ b - 1 \in 0 .. Len(asks) /\ b - 1 \notin bad
    BY <1>2, <2>2, <2>3
  <2>5. upTo[b - 1] \in Blocks /\ asks[b] \in Ask
    BY <2>4
  <2>6. upTo[b] \in Blocks
    BY <1>6, <2>4, <2>5, JoinType
  <2> QED
    BY <2>6
<1>8. upTo \in [0 .. Len(asks) -> Blocks]
  BY <1>5, <1>7
<1>9. Grows(upTo, asks, Len(asks))
  BY <1>6, <1>8 DEF Grows
<1> QED
  BY <1>1, <1>9

LEMMA CollectType ==
    ASSUME NEW asks \in Seq(Ask)
    PROVE  Collect(asks) \in Blocks
<1>1. PICK f : Grows(f, asks, Len(asks)) /\ Collect(asks) = f[Len(asks)]
  BY CollectGrows
<1>2. Len(asks) \in 0 .. Len(asks)
  OBVIOUS
<1> QED
  BY <1>1, <1>2 DEF Grows

\* A block speaks for a spec: it asks for no more, or it is known not to.
Held(b, spec, low) ==
    b.spec # NoSpec /\ (b.conflict \/ b.exclusive \/ low \/ Admits(b.spec, spec))

LEMMA InsertHolds ==
    ASSUME NEW b \in Block, NEW new \in AnySpec, new # NoSpec, NEW low \in BOOLEAN,
           ~low => new.kind # "gte" /\ b.spec.kind # "gte"
    PROVE  /\ Held(Insert(b, new), new, low)
           /\ ~low => Insert(b, new).spec.kind # "gte"
           /\ \A spec \in AnySpec : Held(b, spec, low) => Held(Insert(b, new), spec, low)
<1>1. Insert(b, new).spec # NoSpec /\ b.spec \in AnySpec /\ Insert(b, new) \in Block
  BY InsertType DEF Block
<1>2. CASE b.spec = NoSpec
  <2>1. Insert(b, new).spec = new
    BY <1>2 DEF Insert, Block
  <2> QED
    BY <1>1, <1>2, <2>1 DEF Held, Admits
<1>3. CASE b.spec # NoSpec
  <2> DEFINE r == MergeRanges(b.spec, new)
  <2>1. r.spec \in {b.spec, new} /\ r.kind \in {"compatible", "conflict", "exclusive"}
    BY <1>1, MergeType
  <2>2. /\ Insert(b, new).spec = r.spec
        /\ Insert(b, new).exclusive = (b.exclusive \/ r.kind = "exclusive")
        /\ Insert(b, new).conflict = (b.conflict \/ r.kind = "conflict")
    BY <1>3 DEF Insert
  <2>3. CASE low \/ b.conflict \/ b.exclusive \/ r.kind # "compatible"
    BY <1>1, <2>1, <2>2, <2>3 DEF Held
  <2>4. CASE ~low /\ r.kind = "compatible"
    <3>1. Admits(r.spec, b.spec) /\ Admits(r.spec, new)
      BY <1>1, <2>4, MergeAdmits
    <3>2. ASSUME NEW spec \in AnySpec, Admits(b.spec, spec) PROVE Admits(r.spec, spec)
      BY <3>1, <3>2 DEF Admits
    <3> HIDE DEF r
    <3> QED
      BY <1>1, <2>1, <2>2, <2>4, <3>1, <3>2 DEF Held
  <2> QED
    BY <2>3, <2>4
<1> QED
  BY <1>2, <1>3

\* What is collected up to the i-th member holds for the members up to there.
Holds(c, asks, i, low) ==
    /\ ~low => c.required.spec.kind # "gte" /\ c.optional.spec.kind # "gte"
    /\ \A j \in 1 .. i : asks[j].spec # NoSpec =>
          \/ Held(c.required, asks[j].spec, low)
          \/ asks[j].optional /\ Held(c.optional, asks[j].spec, low)

LEMMA JoinHolds ==
    ASSUME NEW asks \in Seq(Ask), NEW i \in 1 .. Len(asks), NEW acc \in Blocks,
           NEW low \in BOOLEAN, ~low => asks[i].spec.kind # "gte", Holds(acc, asks, i - 1, low)
    PROVE  Holds(Join(acc, asks[i]), asks, i, low)
<1>1. /\ acc.required \in Block /\ acc.optional \in Block /\ asks[i] \in Ask
      /\ asks[i].spec \in AnySpec /\ asks[i].optional \in BOOLEAN
      /\ \A j \in 1 .. i : asks[j].spec \in AnySpec
  <2>1. \A j \in 1 .. i : j \in 1 .. Len(asks)
    OBVIOUS
  <2>2. \A j \in 1 .. Len(asks) : asks[j] \in Ask
    OBVIOUS
  <2> QED
    BY <2>1, <2>2 DEF Blocks, Ask
<1>2. \A j \in 1 .. i : j = i \/ j \in 1 .. (i - 1)
  OBVIOUS
<1> DEFINE new == asks[i].spec
<1>3. CASE new = NoSpec
  BY <1>2, <1>3 DEF Join, Holds
<1>4. CASE new # NoSpec /\ asks[i].optional /\ acc.required.spec = NoSpec
  <2>1. Join(acc, asks[i]) = [acc EXCEPT !.optional = Insert(@, new)]
    BY <1>4 DEF Join
  <2>2. Join(acc, asks[i]).required = acc.required /\ Join(acc, asks[i]).optional = Insert(acc.optional, new)
    BY <2>1 DEF Blocks
  <2>3. /\ Held(Insert(acc.optional, new), new, low)
        /\ ~low => Insert(acc.optional, new).spec.kind # "gte"
        /\ \A spec \in AnySpec : Held(acc.optional, spec, low) => Held(Insert(acc.optional, new), spec, low)
    BY <1>1, <1>4, InsertHolds DEF Holds
  <2> QED
    BY <1>1, <1>2, <1>4, <2>2, <2>3 DEF Holds
<1>5. CASE new # NoSpec /\ ~ (asks[i].optional /\ acc.required.spec = NoSpec)
  <2>1. Join(acc, asks[i]) = [acc EXCEPT !.required = Insert(@, new)]
    BY <1>5 DEF Join
  <2>2. Join(acc, asks[i]).optional = acc.optional /\ Join(acc, asks[i]).required = Insert(acc.required, new)
    BY <2>1 DEF Blocks
  <2>3. /\ Held(Insert(acc.required, new), new, low)
        /\ ~low => Insert(acc.required, new).spec.kind # "gte"
        /\ \A spec \in AnySpec : Held(acc.required, spec, low) => Held(Insert(acc.required, new), spec, low)
    BY <1>1, <1>5, InsertHolds DEF Holds
  <2> QED
    BY <1>1, <1>2, <2>2, <2>3 DEF Holds
<1> QED
  BY <1>3, <1>4, <1>5

\* Whatever the members and their order, the merged specs speak for each of theirs.
LEMMA CollectHolds ==
    ASSUME NEW asks \in Seq(Ask), NEW low \in BOOLEAN,
           ~low => \A j \in 1 .. Len(asks) : asks[j].spec.kind # "gte"
    PROVE  Holds(Collect(asks), asks, Len(asks), low)
<1>1. PICK f : Grows(f, asks, Len(asks)) /\ Collect(asks) = f[Len(asks)]
  BY CollectGrows
<1>2. Len(asks) \in Nat
  OBVIOUS
<1> DEFINE bad == {i \in 0 .. Len(asks) : ~Holds(f[i], asks, i, low)}
<1>3. SUFFICES ASSUME bad # {} PROVE FALSE
  BY <1>1, <1>2
<1>4. PICK b \in bad : \A i \in bad : b <= i
  <2>1. bad \subseteq Nat
    OBVIOUS
  <2> QED
    BY <1>3, <2>1, Least
<1>5. b # 0
  <2>1. Holds(NoneYet, asks, 0, low)
    BY DEF Holds, NoneYet, NoSpec
  <2> QED
    BY <1>1, <2>1 DEF Grows
<1>6. b \in 1 .. Len(asks) /\ b - 1 \in 0 .. Len(asks) /\ b - 1 \notin bad
  BY <1>2, <1>4, <1>5
<1>7. Holds(f[b - 1], asks, b - 1, low) /\ f[b - 1] \in Blocks /\ f[b] = Join(f[b - 1], asks[b])
  BY <1>1, <1>6 DEF Grows
<1>8. Holds(f[b], asks, b, low)
  BY <1>6, <1>7, JoinHolds
<1> QED
  BY <1>8

-----------------------------------------------------------------------------
(* What depends on the manifests and versions of members only *)

Same == manifest' = manifest /\ version' = version

LEMMA SameAsks ==
    ASSUME Same, NEW n \in Name, NEW dev \in BOOLEAN
    PROVE  /\ \A m \in Member : MemberSpec(m, n, dev)' = MemberSpec(m, n, dev)
           /\ Asks(n, dev)' = Asks(n, dev)
  BY DEF Same, Asks, MemberSpec, ApplySpecs, ResolveCatalogSpec, IsLocal, Matches

LEMMA SameSpecs ==
    ASSUME Same
    PROVE  \A dev \in BOOLEAN : /\ RootSpecs(dev)' = RootSpecs(dev)
                                /\ RootSpecsHash(dev)' = RootSpecsHash(dev)
                                /\ CollectFails(dev)' <=> CollectFails(dev)
                                /\ \A n \in Name : RootDependency(n, dev)' = RootDependency(n, dev)
<1> SUFFICES ASSUME NEW dev \in BOOLEAN
             PROVE  /\ RootSpecs(dev)' = RootSpecs(dev)
                    /\ RootSpecsHash(dev)' = RootSpecsHash(dev)
                    /\ CollectFails(dev)' <=> CollectFails(dev)
                    /\ \A n \in Name : RootDependency(n, dev)' = RootDependency(n, dev)
  OBVIOUS
<1>1. RootSpecs(dev)' = RootSpecs(dev)
  BY SameAsks DEF RootSpecs
<1>2. \A m \in Member, n \in Name : SpecError(m, n)' <=> SpecError(m, n)
  BY DEF Same, SpecError, ResolveCatalogSpec, ValidateWorkspaceSpec, Matches, Spec
<1> QED
  BY <1>1, <1>2 DEF Same, RootSpecsHash, CollectFails, RootDependency

LEMMA SameTarget ==
    ASSUME Same
    PROVE  \A g, dev : /\ \A m \in Member, n \in Name : Target(m, n, g, dev)' = Target(m, n, g, dev)
                       /\ LayoutHash(g, dev)' = LayoutHash(g, dev)
<1>1. \A g, dev : \A m \in Member, n \in Name : Target(m, n, g, dev)' = Target(m, n, g, dev)
  BY DEF Same, Target, Skipped, LocalDeps, IsLocal, Matches, ExternalTarget, LocalTarget
<1> QED
  BY <1>1 DEF Same, LayoutHash

-----------------------------------------------------------------------------
(* The inductive invariant *)

GraphType == [Name -> [spec : AnySpec, v : Version \cup {0}]]
TargetType == [to : {"nothing", "member", "package"}, v : Member \cup Version \cup {0}]
LockType == [kind : {"absent", "torn", "written"},
             roots : [Name -> [spec : AnySpec, optional : BOOLEAN, version : Version \cup {0}]]]
MarkerType == [kind : {"absent", "written"}, graph : GraphType]
SpecsType == [Name -> AnySpec \X AnySpec]
Section == {"none", "required", "dev", "optional"}
LayoutType == GraphType \X [Member -> [Name -> {<< >>} \cup (Section \X TargetType)]]
StateType == [kind : {"absent", "written"}, current : BOOLEAN, intact : BOOLEAN,
              specs : {<< >>} \cup SpecsType, graph : GraphType, layout : {<< >>} \cup LayoutType]
Late == {"link", "scripts", "markers", "state", "ok"}
Phase == {"idle", "empty", "failed", "resolve", "fetch", "lock"} \cup Late
Scenario == {"Hot", "WarmLinkOnly", "WarmPartialCache", "Cold"}
OpType == [phase : Phase, cmd : AnyCommand, scenario : Scenario,
           seed : GraphType, graph : GraphType, todo : SUBSET Member]

Types ==
    /\ manifest \in [Member -> [Name -> Dep]] /\ version \in [Member -> Version]
    /\ published \subseteq Name \X Version /\ store \subseteq published
    /\ lock \in LockType /\ state \in StateType
    /\ marker \in [Member -> MarkerType] /\ rootMarker \in MarkerType
    /\ links \in [Member -> [Name -> TargetType]] /\ op \in OpType

\* A graph has versions that were published and that its own specs admit.
SoundAt(g, n) ==
    IF g[n].v = 0 THEN g[n] = NoRoot
    ELSE /\ <<n, g[n].v>> \in published
         /\ g[n].spec.kind = "tag" \/ Matches(g[n].spec, g[n].v)
Sound(g) == \A n \in Name : SoundAt(g, n)

\* A graph has what the specs ask for, and leaves out only what is optional.
Covers(g, specs) ==
    \A n \in Name : g[n] = NoRoot => specs[n][1] = NoSpec \/ specs[n][2] # NoSpec
Answers(g, specs) == Fits(g, specs) /\ Covers(g, specs)

\* The links that a layout records are there.
LaidOut(layout) ==
    \A m \in Member, n \in Name :
        layout[2][m][n] # << >> => layout[2][m][n][2] \in {NoTarget, links[m][n]}

StateInv ==
    /\ Sound(state.graph)
    /\ state.kind = "written" => state.specs \in SpecsType /\ Answers(state.graph, state.specs)
    /\ state.intact => state.kind = "written" /\ state.layout \in LayoutType /\ LaidOut(state.layout)
    /\ state.current => lock.kind # "absent"

LockInv == Sound(ToGraph(lock))

\* The graph that is installed is the one that the specs of all members led to.
OpInv ==
    /\ Sound(op.seed) /\ Sound(op.graph)
    /\ op.phase \notin {"idle", "empty", "failed"} => ~CollectFails(op.cmd.dev)
    /\ op.phase \in {"resolve", "lock"} => op.scenario = "Cold"
    /\ op.phase = "fetch" => op.scenario = "WarmPartialCache"
    /\ op.phase \in {"resolve", "fetch", "lock"} => op.todo = Member
    /\ op.phase = "lock" =>
          /\ op.cmd.dev
          /\ \A n \in Name : op.seed[n].v # 0 /\ Matches(PlannedSpec(n, op.cmd), op.seed[n].v)
                               => op.graph[n].v = op.seed[n].v
    /\ op.phase \in {"fetch", "lock"} \cup Late => Answers(op.graph, RootSpecsHash(op.cmd.dev))
    /\ op.phase \in {"fetch"} \cup Late /\ op.cmd.dev => lock.kind # "absent"

IsLinked(m) == \A n \in Name : Target(m, n, op.graph, op.cmd.dev) \in {NoTarget, links[m][n]}

\* Members that are done are linked, and all are from the start if nothing is to be done.
LinkInv ==
    /\ op.phase = "link" =>
          \A m \in Member : m \notin op.todo \/ op.scenario = "Hot" => IsLinked(m)
    /\ op.phase \in Late \ {"link"} => \A m \in Member : IsLinked(m)

\* Markers and state are those of the install once they are written.
MarkInv ==
    /\ op.phase \in {"markers", "state", "ok"} => rootMarker = Mark(op.graph)
    /\ op.phase = "markers" => \A m \in Member \ op.todo : marker[m] = Mark(op.graph)
    /\ op.phase \in {"state", "ok"} => \A m \in Member : marker[m] = Mark(op.graph)
    /\ op.phase = "ok" /\ lock.kind # "absent" =>
          /\ StateIsCurrent /\ state.intact /\ state.graph = op.graph
          /\ state.specs = RootSpecsHash(op.cmd.dev)
          /\ state.layout = LayoutHash(op.graph, op.cmd.dev)

WorkspaceInv == Types /\ LockInv /\ StateInv /\ OpInv /\ LinkInv /\ MarkInv

-----------------------------------------------------------------------------
(* What the operators return *)

LEMMA EmptyTypes ==
    /\ NoRoot \in [spec : AnySpec, v : Version \cup {0}] /\ NoGraph \in GraphType
    /\ NoTarget \in TargetType /\ NoLock \in LockType /\ [NoLock EXCEPT !.kind = "torn"] \in LockType
    /\ NoState \in StateType /\ NoMarker \in MarkerType
    /\ Default \in AnyCommand
<1>1. NoRoot \in [spec : AnySpec, v : Version \cup {0}]
  BY SpecType DEF NoRoot
<1>2. NoGraph \in GraphType
  BY <1>1 DEF NoGraph, GraphType
<1>3. NoRoots \in [Name -> [spec : AnySpec, optional : BOOLEAN, version : Version \cup {0}]]
  BY SpecType DEF NoRoots
<1>4. NoLock \in LockType /\ [NoLock EXCEPT !.kind = "torn"] \in LockType
  BY <1>3 DEF NoLock, LockType
<1>5. NoTarget \in TargetType
  BY DEF NoTarget, TargetType
<1>6. NoState \in StateType /\ NoMarker \in MarkerType
  BY <1>2 DEF NoState, StateType, NoMarker, MarkerType
<1>7. Default \in AnyCommand
  BY DEF Default, AnyCommand
<1> QED
  BY <1>1, <1>2, <1>4, <1>5, <1>6, <1>7

LEMMA IdleType ==
    ASSUME NEW r \in Phase
    PROVE  Idle(r) \in OpType
  BY EmptyTypes DEF Idle, OpType, Scenario

LEMMA NoGraphSound == Sound(NoGraph)
  BY DEF Sound, SoundAt, NoGraph, NoRoot

LEMMA MemberSpecType ==
    ASSUME Types, NEW m \in Member, NEW n \in Name, NEW dev \in BOOLEAN
    PROVE  MemberSpec(m, n, dev) \in AnySpec
<1>1. manifest[m][n].spec \in AnySpec
  <2>1. manifest[m][n] \in Dep
    BY DEF Types
  <2> QED
    BY <2>1, SpecType DEF Dep, NoDep
<1> QED
  BY <1>1, SpecType, WorkspaceAssumption DEF MemberSpec, ApplySpecs, ResolveCatalogSpec

LEMMA OrderType == Len(Order) \in Nat /\ \A i \in 1 .. Len(Order) : Order[i] \in Member
  BY WorkspaceAssumption

LEMMA OrderAll == \A m \in Member : \E i \in 1 .. Len(Order) : Order[i] = m
  BY WorkspaceAssumption DEF Member, ToSet

LEMMA AsksType ==
    ASSUME Types, NEW n \in Name, NEW dev \in BOOLEAN
    PROVE  Asks(n, dev) \in Seq(Ask) /\ Len(Asks(n, dev)) = Len(Order)
<1>1. \A i \in 1 .. Len(Order) :
         [spec |-> MemberSpec(Order[i], n, dev),
          optional |-> manifest[Order[i]][n].section = "optional"] \in Ask
  BY MemberSpecType, OrderType DEF Ask
<1> QED
  BY <1>1, OrderType DEF Asks

LEMMA RootsType ==
    ASSUME Types, NEW dev \in BOOLEAN
    PROVE  /\ \A n \in Name : /\ RootSpecs(dev)[n] \in Blocks
                              /\ RootSpecs(dev)[n].required.spec \in AnySpec
                              /\ RootSpecs(dev)[n].optional.spec \in AnySpec
                              /\ RootDependency(n, dev) \in AnySpec
           /\ RootSpecsHash(dev) \in SpecsType
<1>1. \A n \in Name : RootSpecs(dev)[n] \in Blocks
  BY AsksType, CollectType DEF RootSpecs
<1>2. \A n \in Name : /\ RootSpecs(dev)[n].required.spec \in AnySpec
                      /\ RootSpecs(dev)[n].optional.spec \in AnySpec
  BY <1>1 DEF Blocks, Block
<1> QED
  BY <1>1, <1>2 DEF RootDependency, RootSpecsHash, SpecsType

LEMMA PlannedType ==
    ASSUME Types, NEW n \in Name, NEW c \in AnyCommand
    PROVE  PlannedSpec(n, c) \in AnySpec
<1>1. c.dev \in BOOLEAN /\ lock.roots[n].version \in Version \cup {0}
  BY DEF Types, LockType, AnyCommand
<1> QED
  BY <1>1, RootsType, SpecType DEF PlannedSpec

LEMMA SelectRight ==
    ASSUME Types, NEW n \in Name, NEW spec \in AnySpec, Select(n, spec) # 0
    PROVE  LET v == Select(n, spec) IN
           v \in Version /\ <<n, v>> \in published /\ (Matches(spec, v) \/ spec.kind = "tag")
<1> DEFINE admitted == {v \in Version : <<n, v>> \in published /\ (Matches(spec, v) \/ spec.kind = "tag")}
<1>1. admitted # {} /\ Select(n, spec) = CHOOSE v \in admitted : \A w \in admitted : w <= v
  BY DEF Select
<1>2. \E v \in admitted : \A w \in admitted : w <= v
  BY <1>1, Newest
<1>3. Select(n, spec) \in admitted
  BY <1>1, <1>2
<1> QED
  BY <1>3

LEMMA ResolveRight ==
    ASSUME Types, NEW n \in Name, NEW spec \in AnySpec, NEW seed \in GraphType, Sound(seed)
    PROVE  LET r == ResolveRoot(n, spec, seed) IN
           /\ r \in [spec : AnySpec, v : Version \cup {0}]
           /\ r.v = 0 => r = NoRoot
           /\ r.v # 0 => /\ <<n, r.v>> \in published /\ r.spec = spec
                         /\ Matches(spec, r.v) \/ spec.kind = "tag"
<1> DEFINE v == IF seed[n].v # 0 /\ Matches(spec, seed[n].v) THEN seed[n].v ELSE Select(n, spec)
<1>1. seed[n].v \in Version \cup {0} /\ (seed[n].v # 0 => <<n, seed[n].v>> \in published)
  BY DEF GraphType, Sound, SoundAt
<1>2. v # 0 => v \in Version /\ <<n, v>> \in published /\ (Matches(spec, v) \/ spec.kind = "tag")
  BY <1>1, SelectRight
<1>3. ResolveRoot(n, spec, seed) = IF v = 0 THEN NoRoot ELSE [spec |-> spec, v |-> v]
  BY DEF ResolveRoot
<1> HIDE DEF v
<1>4. CASE v = 0
  BY <1>3, <1>4, EmptyTypes DEF NoRoot
<1>5. CASE v # 0
  BY <1>2, <1>3, <1>5
<1> QED
  BY <1>4, <1>5

LEMMA ResolvedSound ==
    ASSUME Types, NEW seed \in GraphType, Sound(seed), NEW g, NEW specs,
           \A n \in Name : specs[n] \in AnySpec,
           g = [n \in Name |-> ResolveRoot(n, specs[n], seed)]
    PROVE  g \in GraphType /\ Sound(g)
<1>1. \A n \in Name : g[n] = ResolveRoot(n, specs[n], seed)
  OBVIOUS
<1>2. \A n \in Name : g[n] \in [spec : AnySpec, v : Version \cup {0}] /\ SoundAt(g, n)
  BY <1>1, ResolveRight DEF SoundAt
<1> QED
  BY <1>2 DEF GraphType, Sound

LEMMA ToGraphType ==
    ASSUME NEW l \in LockType
    PROVE  ToGraph(l) \in GraphType
<1>1. \A n \in Name : l.roots[n].spec \in AnySpec /\ l.roots[n].version \in Version \cup {0}
  BY DEF LockType
<1> QED
  BY <1>1, EmptyTypes DEF ToGraph, GraphType

\* A graph comes back from the lockfile that it was written to.
LEMMA LockBack ==
    ASSUME Types, NEW g \in GraphType, Sound(g), NEW dev \in BOOLEAN
    PROVE  /\ LockOf(g, dev) \in LockType /\ ToGraph(LockOf(g, dev)) = g
           /\ LockOf(g, dev).kind = "written"
           /\ \A n \in Name : LockOf(g, dev).roots[n].version = g[n].v
<1>1. \A n \in Name : /\ g[n].v \in Version \cup {0} /\ g[n].spec \in AnySpec
                      /\ g[n] = [spec |-> g[n].spec, v |-> g[n].v]
                      /\ RootSpecs(dev)[n].optional.spec \in AnySpec
  BY RootsType DEF GraphType
<1>2. LockOf(g, dev) \in LockType /\ LockOf(g, dev).kind = "written"
  BY <1>1 DEF LockOf, LockType
<1>3. \A n \in Name : /\ LockOf(g, dev).roots[n].version = g[n].v
                      /\ g[n].v # 0 => LockOf(g, dev).roots[n].spec = g[n].spec
  BY DEF LockOf
<1>4. \A n \in Name : ToGraph(LockOf(g, dev))[n] = g[n]
  BY <1>1, <1>3 DEF ToGraph, Sound, SoundAt
<1> QED
  BY <1>2, <1>3, <1>4, ToGraphType DEF GraphType

\* A lockfile that matches the specs answers them.
LEMMA MatchAnswers ==
    ASSUME Types, LockInv, NEW dev \in BOOLEAN, RootSpecsMatch(lock, dev)
    PROVE  Answers(ToGraph(lock), RootSpecsHash(dev))
<1>1. ASSUME NEW n \in Name
      PROVE  LET r == RootSpecs(dev)[n]
                 g == ToGraph(lock)
             IN  /\ g[n] # NoRoot => \E spec \in {r.required.spec, r.optional.spec} :
                                        spec.kind = "tag" \/ Matches(spec, g[n].v)
                 /\ g[n] = NoRoot => r.required.spec = NoSpec \/ r.optional.spec # NoSpec
  <2> DEFINE r == RootSpecs(dev)[n]
             l == lock.roots[n]
  <2>1. /\ RootDependency(n, dev) = l.spec
        /\ r.required.spec # NoSpec => l.version # 0
    BY <1>1 DEF RootSpecsMatch
  <2>2. l.spec \in {r.required.spec, r.optional.spec}
    BY <2>1 DEF RootDependency
  <2>3. ToGraph(lock)[n] = IF l.version = 0 THEN NoRoot ELSE [spec |-> l.spec, v |-> l.version]
    BY DEF ToGraph
  <2>4. SoundAt(ToGraph(lock), n)
    BY DEF LockInv, Sound
  <2> HIDE DEF r, l
  <2>5. l.version # 0 => l.spec.kind = "tag" \/ Matches(l.spec, ToGraph(lock)[n].v)
    BY <2>3, <2>4 DEF SoundAt
  <2> QED
    BY <2>1, <2>2, <2>3, <2>5 DEF NoRoot, r
<1> QED
  BY <1>1 DEF Answers, Fits, Covers, RootSpecsHash

\* What is resolved answers the specs, the pins of --fix-lockfile included.
LEMMA PlannedAnswers ==
    ASSUME Types, LockInv, NEW c \in AnyCommand, NEW seed \in GraphType, Sound(seed),
           NEW g, g = [n \in Name |-> ResolveRoot(n, PlannedSpec(n, c), seed)],
           {n \in Name : g[n] = NoRoot /\ PlannedSpec(n, c) # NoSpec
                         /\ RootSpecs(c.dev)[n].optional.spec = NoSpec} = {}
    PROVE  g \in GraphType /\ Sound(g) /\ Answers(g, RootSpecsHash(c.dev))
<1>1. c.dev \in BOOLEAN
  BY DEF AnyCommand
<1>2. g \in GraphType /\ Sound(g)
  <2> DEFINE specs == [n \in Name |-> PlannedSpec(n, c)]
  <2>1. \A n \in Name : specs[n] \in AnySpec /\ specs[n] = PlannedSpec(n, c)
    BY PlannedType
  <2>2. g = [n \in Name |-> ResolveRoot(n, specs[n], seed)]
    BY <2>1
  <2> HIDE DEF specs
  <2> QED
    BY <2>1, <2>2, ResolvedSound
<1>3. ASSUME NEW n \in Name
      PROVE  LET r == RootSpecs(c.dev)[n] IN
             /\ g[n] # NoRoot => \E spec \in {r.required.spec, r.optional.spec} :
                                    spec.kind = "tag" \/ Matches(spec, g[n].v)
             /\ g[n] = NoRoot => r.required.spec = NoSpec \/ r.optional.spec # NoSpec
  <2> DEFINE r == RootSpecs(c.dev)[n]
             l == lock.roots[n]
             spec == PlannedSpec(n, c)
  <2>1. /\ r.required.spec \in AnySpec /\ r.optional.spec \in AnySpec /\ spec \in AnySpec
        /\ l.version \in Version \cup {0}
    BY <1>1, RootsType, PlannedType DEF Types, LockType
  <2>2. g[n] # NoRoot => Matches(spec, g[n].v) \/ spec.kind = "tag"
    <3>1. g[n] = ResolveRoot(n, spec, seed)
      OBVIOUS
    <3> QED
      BY <2>1, <3>1, ResolveRight
  <2>3. \/ spec = RootDependency(n, c.dev)
        \/ spec = Spec("exact", l.version) /\ l.version # 0 /\ l.spec \in {r.required.spec, r.optional.spec}
    BY DEF PlannedSpec
  <2>4. RootDependency(n, c.dev) \in {r.required.spec, r.optional.spec}
    BY DEF RootDependency
  <2>5. CASE g[n] # NoRoot
    <3>1. CASE spec = RootDependency(n, c.dev)
      BY <2>2, <2>4, <2>5, <3>1
    <3>2. CASE spec = Spec("exact", l.version) /\ l.version # 0 /\ l.spec \in {r.required.spec, r.optional.spec}
      <4>1. g[n].v = l.version
        BY <2>2, <2>5, <3>2 DEF Matches, Spec
      <4>2. ToGraph(lock)[n] = [spec |-> l.spec, v |-> l.version]
        BY <3>2 DEF ToGraph
      <4>3. l.spec.kind = "tag" \/ Matches(l.spec, l.version)
        <5>1. SoundAt(ToGraph(lock), n)
          BY DEF LockInv, Sound
        <5> QED
          BY <3>2, <4>2, <5>1 DEF SoundAt
      <4> QED
        BY <2>5, <3>2, <4>1, <4>3
    <3> QED
      BY <2>3, <3>1, <3>2
  <2>6. CASE g[n] = NoRoot
    <3>1. spec = NoSpec \/ r.optional.spec # NoSpec
      BY <2>6
    <3>2. spec = NoSpec => spec = RootDependency(n, c.dev)
      BY <2>1, <2>3, SpecType
    <3>3. RootDependency(n, c.dev) = NoSpec => r.required.spec = NoSpec \/ r.optional.spec # NoSpec
      BY DEF RootDependency
    <3> QED
      BY <2>6, <3>1, <3>2, <3>3
  <2> QED
    BY <2>5, <2>6
<1> QED
  BY <1>2, <1>3 DEF Answers, Fits, Covers, RootSpecsHash

LEMMA TargetRight ==
    ASSUME Types, NEW m \in Member, NEW n \in Name, NEW g \in GraphType, NEW dev \in BOOLEAN
    PROVE  /\ Target(m, n, g, dev) \in TargetType
           /\ Target(m, n, g, dev) \in {NoTarget, Target(m, n, g, TRUE)}
<1>1. g[n].v \in Version \cup {0}
  BY DEF GraphType
<1>2. ExternalTarget(n, g) \in TargetType
  BY <1>1 DEF ExternalTarget, NoTarget, Entry, TargetType
<1>3. n \in LocalDeps(m) => LocalTarget(n) \in TargetType
  BY DEF LocalDeps, IsLocal, LocalTarget, Dir, TargetType
<1> QED
  BY <1>2, <1>3, EmptyTypes DEF Target, Skipped

LEMMA LayoutRight ==
    ASSUME Types, NEW g \in GraphType, NEW dev \in BOOLEAN
    PROVE  /\ LayoutHash(g, dev) \in LayoutType
           /\ \A m \in Member, n \in Name :
                 LayoutHash(g, dev)[2][m][n] = IF dev \/ manifest[m][n].section # "dev"
                                               THEN <<manifest[m][n].section, Target(m, n, g, dev)>>
                                               ELSE << >>
<1>1. \A m \in Member, n \in Name : manifest[m][n].section \in Section
  BY DEF Types, Dep, NoDep, Section
<1>2. \A m \in Member, n \in Name : Target(m, n, g, dev) \in TargetType
  BY TargetRight
<1> QED
  BY <1>1, <1>2 DEF LayoutHash, LayoutType

\* The layout that is recorded of now and here is there.
LEMMA ValidLinked ==
    ASSUME Types, StateInv, NEW g \in GraphType, LayoutValid(g),
           NEW m \in Member, NEW n \in Name, NEW dev \in BOOLEAN
    PROVE  Target(m, n, g, dev) \in {NoTarget, links[m][n]}
<1>1. state.layout[2][m][n] = <<manifest[m][n].section, Target(m, n, g, TRUE)>>
  <2>1. LayoutHash(g, TRUE)[2][m][n] = <<manifest[m][n].section, Target(m, n, g, TRUE)>>
    BY LayoutRight
  <2> QED
    BY <2>1 DEF LayoutValid
<1>2. state.layout[2][m][n] # << >> /\ state.layout[2][m][n][2] = Target(m, n, g, TRUE)
  BY <1>1
<1>3. Target(m, n, g, TRUE) \in {NoTarget, links[m][n]}
  BY <1>2 DEF LayoutValid, StateInv, LaidOut
<1> QED
  BY <1>3, TargetRight

LEMMA LinkedSame ==
    ASSUME Types, NEW m \in Member, NEW g, NEW dev,
           \A n \in Name : Target(m, n, g, dev) \in {NoTarget, links[m][n]}
    PROVE  Linked(m, g, dev) = links[m]
<1>1. links[m] \in [Name -> TargetType]
  BY DEF Types
<1>2. \A n \in Name : Linked(m, g, dev)[n] = links[m][n]
  BY DEF Linked
<1> QED
  BY <1>1, <1>2 DEF Linked

\* What an install sets out with
LEMMA DecideRight ==
    ASSUME Types, LockInv, StateInv, NEW c \in AnyCommand
    PROVE  LET d == Decide(c) IN
           /\ d.scenario \in Scenario /\ d.seed \in GraphType /\ Sound(d.seed)
           /\ d.scenario # "Cold" => Answers(d.seed, RootSpecsHash(c.dev)) /\ lock.kind # "absent"
           /\ d.scenario = "Hot" => LayoutValid(d.seed)
<1> DEFINE G == ToGraph(lock)
           Right(d) == /\ d.scenario \in Scenario /\ d.seed \in GraphType /\ Sound(d.seed)
                       /\ d.scenario # "Cold" => Answers(d.seed, RootSpecsHash(c.dev)) /\ lock.kind # "absent"
                       /\ d.scenario = "Hot" => LayoutValid(d.seed)
<1>1. /\ c.dev \in BOOLEAN /\ G \in GraphType /\ Sound(G)
      /\ state.graph \in GraphType /\ Sound(state.graph) /\ NoGraph \in GraphType /\ Sound(NoGraph)
  BY ToGraphType, EmptyTypes, NoGraphSound DEF AnyCommand, Types, LockInv, StateInv, StateType
<1>2. \A g : /\ DetectFromGraph(c, g, LayoutValid(g)).seed = g
             /\ DetectFromGraph(c, g, LayoutValid(g)).scenario \in Scenario \ {"Cold"}
             /\ DetectFromGraph(c, g, LayoutValid(g)).scenario = "Hot" => LayoutValid(g)
  BY DEF DetectFromGraph, Detected, Scenario
<1>3. \A g : /\ Detected("Cold", g).scenario = "Cold" /\ "Cold" \in Scenario
             /\ Detected("Cold", g).seed = g
  BY DEF Detected, Scenario
<1> HIDE DEF G
<1>4. StateIsCurrent /\ state.specs = RootSpecsHash(c.dev) =>
         Answers(state.graph, RootSpecsHash(c.dev)) /\ lock.kind # "absent"
  BY DEF StateIsCurrent, StateInv
<1>5. RootSpecsMatch(lock, c.dev) => Answers(G, RootSpecsHash(c.dev))
  BY <1>1, MatchAnswers DEF G
<1>6. Right(DetectScenarioEarly(c))
  <2>1. CASE c.mode \in {"No", "Fix"} \/ lock.kind = "absent"
    BY <1>1, <1>3, <2>1 DEF DetectScenarioEarly
  <2>2. CASE ~ (c.mode \in {"No", "Fix"} \/ lock.kind = "absent") /\ StateIsCurrent
    <3>1. DetectScenarioEarly(c) = IF state.specs = RootSpecsHash(c.dev)
                                   THEN DetectFromGraph(c, state.graph, LayoutValid(state.graph))
                                   ELSE Detected("Cold", state.graph)
      BY <2>2 DEF DetectScenarioEarly
    <3> QED
      BY <1>1, <1>2, <1>3, <1>4, <2>2, <3>1
  <2>3. CASE ~ (c.mode \in {"No", "Fix"} \/ lock.kind = "absent") /\ ~StateIsCurrent
    <3>1. DetectScenarioEarly(c) = IF lock.kind = "torn" THEN Detected("Cold", NoGraph)
                                   ELSE IF ~RootSpecsMatch(lock, c.dev) THEN Detected("Cold", G)
                                   ELSE DetectFromGraph(c, G, LayoutValid(G))
      BY <2>3 DEF DetectScenarioEarly, G
    <3> QED
      BY <1>1, <1>2, <1>3, <1>5, <2>3, <3>1
  <2> QED
    BY <2>1, <2>2, <2>3
<1>7. Decide(c) = DetectScenarioEarly(c) \/ Decide(c) = Detected("Cold", G)
  BY DEF Decide, G
<1>8. Right(Detected("Cold", G))
  BY <1>1, <1>3
<1> QED
  BY <1>6, <1>7, <1>8

-----------------------------------------------------------------------------
(* The invariant is inductive *)

LEMMA SoundStays ==
    ASSUME published \subseteq published'
    PROVE  \A g : Sound(g) => Sound(g)'
  BY DEF Sound, SoundAt

\* Nothing that is known of the disk changes.
LEMMA DiskStays ==
    ASSUME LockInv, StateInv, UNCHANGED <<lock, state, links>>, published \subseteq published'
    PROVE  LockInv' /\ StateInv'
<1>1. LockInv'
  BY SoundStays DEF LockInv
<1>2. Sound(state.graph)'
  BY SoundStays DEF StateInv
<1>3. LaidOut(state.layout) => LaidOut(state.layout)'
  BY DEF LaidOut
<1> QED
  BY <1>1, <1>2, <1>3 DEF StateInv

LEMMA LaidStays ==
    ASSUME links' = links
    PROVE  \A layout : LaidOut(layout) => LaidOut(layout)'
  BY DEF LaidOut

\* The state is touched, and may be found out of date.
LEMMA StateFades ==
    ASSUME Types, StateInv, NEW i \in BOOLEAN, NEW c \in BOOLEAN,
           state' = [state EXCEPT !.current = c, !.intact = i],
           c => lock'.kind # "absent", i => state.intact /\ links' = links,
           published \subseteq published'
    PROVE  state' \in StateType /\ StateInv'
<1>1. /\ state'.kind = state.kind /\ state'.specs = state.specs /\ state'.graph = state.graph
      /\ state'.layout = state.layout /\ state'.current = c /\ state'.intact = i
      /\ state' \in StateType
  BY DEF Types, StateType
<1>2. Sound(state.graph)'
  BY <1>1, SoundStays DEF StateInv
<1> QED
  BY <1>1, <1>2, LaidStays DEF StateInv

\* No install runs.
LEMMA Rests ==
    ASSUME NEW r \in {"idle", "empty", "failed"}, NEW c \in AnyCommand,
           op' = Idle(r) \/ op' = [Idle(r) EXCEPT !.cmd = c]
    PROVE  op' \in OpType /\ OpInv' /\ LinkInv' /\ MarkInv'
<1>1. Idle(r) \in OpType /\ Idle(r).phase = r /\ Idle(r).seed = NoGraph /\ Idle(r).graph = NoGraph
  BY IdleType DEF Idle, Phase
<1>2. op' \in OpType /\ op'.phase = r /\ op'.seed = NoGraph /\ op'.graph = NoGraph
  BY <1>1 DEF OpType
<1>3. Sound(NoGraph)'
  BY DEF Sound, SoundAt, NoGraph, NoRoot
<1>4. r \notin Late /\ r \notin {"resolve", "fetch", "lock", "link", "markers", "state", "ok"}
  BY DEF Late
<1>5. OpInv'
  BY <1>2, <1>3, <1>4 DEF OpInv
<1>6. LinkInv' /\ MarkInv'
  BY <1>2, <1>4 DEF LinkInv, MarkInv
<1> QED
  BY <1>2, <1>5, <1>6

LEMMA StartStep ==
    ASSUME WorkspaceInv, NEW c \in Command, Start(c)
    PROVE  WorkspaceInv'
<1>1. /\ Types /\ LockInv /\ StateInv /\ c \in AnyCommand /\ c.dev \in BOOLEAN
      /\ UNCHANGED <<manifest, version, published, lock, state, marker, rootMarker, links, store>>
  BY WorkspaceAssumption DEF WorkspaceInv, Start, inputs, disk, AnyCommand
<1>2. LockInv' /\ StateInv' /\ Same
  BY <1>1, DiskStays DEF Same
<1>3. CASE op' \in {[Idle("failed") EXCEPT !.cmd = c], [Idle("empty") EXCEPT !.cmd = c]}
  <2>1. op' \in OpType /\ OpInv' /\ LinkInv' /\ MarkInv'
    BY <1>1, <1>3, Rests
  <2> QED
    BY <1>1, <1>2, <2>1 DEF WorkspaceInv, Types
<1>4. CASE op' \notin {[Idle("failed") EXCEPT !.cmd = c], [Idle("empty") EXCEPT !.cmd = c]}
  <2> DEFINE d == Decide(c)
             first == LoadGraph(d.scenario)
  <2>1. /\ ~CollectFails(c.dev)
        /\ op' = [Idle(first) EXCEPT
                     !.cmd = c, !.scenario = d.scenario, !.seed = d.seed,
                     !.graph = IF d.scenario = "Cold" THEN NoGraph ELSE d.seed, !.todo = Member]
    BY <1>4 DEF Start
  <2>2. /\ d.scenario \in Scenario /\ d.seed \in GraphType /\ Sound(d.seed)
        /\ d.scenario # "Cold" => Answers(d.seed, RootSpecsHash(c.dev)) /\ lock.kind # "absent"
        /\ d.scenario = "Hot" => LayoutValid(d.seed)
    BY <1>1, DecideRight
  <2> HIDE DEF d
  <2>3. /\ first \in {"resolve", "fetch", "link"}
        /\ d.scenario = "Cold" <=> first = "resolve"
        /\ first = "fetch" => d.scenario = "WarmPartialCache"
    BY <2>2 DEF LoadGraph, Scenario
  <2> HIDE DEF first
  <2> DEFINE g == IF d.scenario = "Cold" THEN NoGraph ELSE d.seed
  <2>4. /\ op'.phase = first /\ op'.cmd = c /\ op'.scenario = d.scenario /\ op'.seed = d.seed
        /\ op'.graph = g /\ op'.todo = Member
    BY <2>1 DEF Idle
  <2>5. op' \in OpType /\ g \in GraphType /\ Sound(g)
    <3>1. g \in GraphType /\ Sound(g)
      BY <2>2, EmptyTypes, NoGraphSound
    <3>2. first \in Phase
      BY <2>3 DEF Phase, Late
    <3>3. op' = [phase |-> first, cmd |-> c, scenario |-> d.scenario, seed |-> d.seed,
                 graph |-> g, todo |-> Member]
      BY <2>1 DEF Idle
    <3> HIDE DEF g
    <3> QED
      BY <1>1, <2>2, <3>1, <3>2, <3>3 DEF OpType
  <2>6. OpInv'
    <3>1. Sound(op.seed)' /\ Sound(op.graph)'
      BY <1>1, <2>2, <2>4, <2>5, SoundStays
    <3>2. ~CollectFails(op.cmd.dev)' /\ RootSpecsHash(op.cmd.dev)' = RootSpecsHash(c.dev)
      BY <1>1, <1>2, <2>1, <2>4, SameSpecs
    <3>3. first # "resolve" => Answers(g, RootSpecsHash(c.dev)) /\ lock'.kind # "absent"
      BY <1>1, <2>2, <2>3
    <3> HIDE DEF g
    <3> QED
      BY <2>3, <2>4, <3>1, <3>2, <3>3 DEF OpInv, Late
  <2>7. LinkInv'
    <3>1. ASSUME d.scenario = "Hot", NEW m \in Member PROVE IsLinked(m)'
      <4>1. g = d.seed /\ LayoutValid(g)
        BY <2>2, <3>1
      <4>2. \A n \in Name : Target(m, n, g, c.dev) \in {NoTarget, links[m][n]}
        BY <1>1, <2>5, <4>1, ValidLinked
      <4>3. op'.graph = g /\ op'.cmd.dev = c.dev
        BY <2>4
      <4> HIDE DEF g
      <4>4. \A n \in Name : Target(m, n, op.graph, op.cmd.dev)' = Target(m, n, g, c.dev)
        BY <1>2, <4>3, SameTarget
      <4> QED
        BY <1>1, <4>2, <4>4 DEF IsLinked
    <3> QED
      BY <2>3, <2>4, <3>1 DEF LinkInv, Late
  <2>8. MarkInv'
    BY <2>3, <2>4 DEF MarkInv
  <2> QED
    BY <1>1, <1>2, <2>5, <2>6, <2>7, <2>8 DEF WorkspaceInv, Types
<1> QED
  BY <1>3, <1>4

\* The command and the graph of an install that goes on
LEMMA GoesOn ==
    ASSUME Types, Same, op'.cmd = op.cmd
    PROVE  /\ op.cmd.dev \in BOOLEAN
           /\ RootSpecsHash(op.cmd.dev)' = RootSpecsHash(op.cmd.dev)
           /\ CollectFails(op.cmd.dev)' <=> CollectFails(op.cmd.dev)
           /\ op'.graph = op.graph => \A m \in Member, n \in Name :
                 Target(m, n, op.graph, op.cmd.dev)' = Target(m, n, op.graph, op.cmd.dev)
<1>1. op.cmd.dev \in BOOLEAN
  BY DEF Types, OpType, AnyCommand
<1> QED
  BY <1>1, SameSpecs, SameTarget

LEMMA PackagesPublished ==
    ASSUME NEW g \in GraphType, Sound(g)
    PROVE  PackageIds(g) \subseteq published
  BY DEF PackageIds, Sound, SoundAt

LEMMA ResolveStep ==
    ASSUME WorkspaceInv, Resolve
    PROVE  WorkspaceInv'
<1> DEFINE g == [n \in Name |-> ResolveRoot(n, PlannedSpec(n, op.cmd), op.seed)]
           lost == {n \in Name : g[n] = NoRoot /\ PlannedSpec(n, op.cmd) # NoSpec
                                       /\ RootSpecs(op.cmd.dev)[n].optional.spec = NoSpec}
<1>1. /\ Types /\ LockInv /\ StateInv /\ OpInv /\ op.phase = "resolve"
      /\ UNCHANGED <<manifest, version, published, lock, state, marker, rootMarker, links>>
  BY DEF WorkspaceInv, Resolve, inputs
<1>2. LockInv' /\ StateInv' /\ Same
  BY <1>1, DiskStays DEF Same
<1>3. op \in OpType /\ op.cmd \in AnyCommand /\ op.seed \in GraphType /\ Sound(op.seed)
  BY <1>1 DEF Types, OpType, OpInv
<1>4. CASE lost # {}
  <2>1. op' = [Idle("failed") EXCEPT !.cmd = op.cmd] /\ store' = store
    BY <1>4 DEF Resolve
  <2>2. op' \in OpType /\ OpInv' /\ LinkInv' /\ MarkInv'
    BY <1>3, <2>1, Rests
  <2> QED
    BY <1>1, <1>2, <2>1, <2>2 DEF WorkspaceInv, Types
<1>5. CASE lost = {}
  <2> DEFINE next == IF op.cmd.dev THEN "lock" ELSE "link"
  <2>1. op' = [op EXCEPT !.graph = g, !.phase = next] /\ store' = store \cup PackageIds(g)
    BY <1>5 DEF Resolve
  <2>2. g \in GraphType /\ Sound(g) /\ Answers(g, RootSpecsHash(op.cmd.dev))
    BY <1>1, <1>3, <1>5, PlannedAnswers
  <2>3. \A n \in Name : op.seed[n].v # 0 /\ Matches(PlannedSpec(n, op.cmd), op.seed[n].v)
                           => g[n].v = op.seed[n].v
    BY DEF ResolveRoot
  <2> HIDE DEF g
  <2>4. /\ op' \in OpType /\ op'.phase = next /\ op'.cmd = op.cmd /\ op'.graph = g
        /\ op'.seed = op.seed /\ op'.scenario = op.scenario /\ op'.todo = op.todo
    BY <1>3, <2>1, <2>2 DEF OpType, Phase, Late
  <2>5. OpInv'
    <3>1. Sound(op.seed)' /\ Sound(op.graph)'
      BY <1>1, <1>3, <2>2, <2>4, SoundStays
    <3>2. /\ op.cmd.dev \in BOOLEAN /\ ~CollectFails(op.cmd.dev)'
          /\ RootSpecsHash(op.cmd.dev)' = RootSpecsHash(op.cmd.dev)
      BY <1>1, <1>2, <2>4, GoesOn DEF OpInv
    <3>3. \A n \in Name : PlannedSpec(n, op.cmd)' = PlannedSpec(n, op.cmd)
      <4>1. /\ RootSpecs(op.cmd.dev)' = RootSpecs(op.cmd.dev)
            /\ \A n \in Name : RootDependency(n, op.cmd.dev)' = RootDependency(n, op.cmd.dev)
        BY <1>2, <2>4, <3>2, SameSpecs
      <4> QED
        BY <1>1, <2>4, <4>1 DEF PlannedSpec
    <3> QED
      BY <1>1, <2>2, <2>3, <2>4, <3>1, <3>2, <3>3 DEF OpInv, Late
  <2>6. LinkInv'
    BY <1>1, <2>4 DEF OpInv, LinkInv, Late
  <2>7. MarkInv'
    BY <2>4 DEF MarkInv
  <2>8. store' \subseteq published'
    BY <1>1, <2>1, <2>2, PackagesPublished DEF Types
  <2> QED
    BY <1>1, <1>2, <2>4, <2>5, <2>6, <2>7, <2>8 DEF WorkspaceInv, Types
<1> QED
  BY <1>4, <1>5

LEMMA FetchStep ==
    ASSUME WorkspaceInv, Fetch
    PROVE  WorkspaceInv'
<1>1. /\ Types /\ LockInv /\ StateInv /\ OpInv /\ op.phase = "fetch"
      /\ UNCHANGED <<manifest, version, published, lock, state, marker, rootMarker, links>>
      /\ store' = store \cup PackageIds(op.graph) /\ op' = [op EXCEPT !.phase = "link"]
  BY DEF WorkspaceInv, Fetch, inputs
<1>2. LockInv' /\ StateInv' /\ Same
  BY <1>1, DiskStays DEF Same
<1>3. /\ op \in OpType /\ op.graph \in GraphType /\ Sound(op.graph) /\ Sound(op.seed)
  BY <1>1 DEF Types, OpType, OpInv
<1>4. /\ op' \in OpType /\ op'.phase = "link" /\ op'.cmd = op.cmd /\ op'.graph = op.graph
      /\ op'.seed = op.seed /\ op'.scenario = op.scenario /\ op'.todo = op.todo
  BY <1>1, <1>3 DEF OpType, Phase, Late
<1>5. /\ ~CollectFails(op.cmd.dev)' /\ RootSpecsHash(op.cmd.dev)' = RootSpecsHash(op.cmd.dev)
  BY <1>1, <1>2, <1>4, GoesOn DEF OpInv
<1>6. Sound(op.seed)' /\ Sound(op.graph)'
  BY <1>1, <1>3, <1>4, SoundStays
<1>7. OpInv'
  BY <1>1, <1>4, <1>5, <1>6 DEF OpInv, Late
<1>8. LinkInv' /\ MarkInv'
  BY <1>1, <1>4 DEF OpInv, LinkInv, MarkInv, Late
<1>9. store' \subseteq published'
  BY <1>1, <1>3, PackagesPublished DEF Types
<1> QED
  BY <1>1, <1>2, <1>4, <1>7, <1>8, <1>9 DEF WorkspaceInv, Types

LEMMA WriteLockStep ==
    ASSUME WorkspaceInv, WriteLock
    PROVE  WorkspaceInv'
<1>1. /\ Types /\ StateInv /\ OpInv /\ op.phase = "lock"
      /\ UNCHANGED <<manifest, version, published, marker, rootMarker, links, store>>
      /\ lock' = LockOf(op.graph, op.cmd.dev) /\ state' = [state EXCEPT !.current = FALSE]
      /\ op' = [op EXCEPT !.phase = "link"] /\ Same
  BY DEF WorkspaceInv, WriteLock, inputs, Same
<1>2. /\ op \in OpType /\ op.graph \in GraphType /\ Sound(op.graph) /\ Sound(op.seed)
  BY <1>1 DEF Types, OpType, OpInv
<1>3. /\ op' \in OpType /\ op'.phase = "link" /\ op'.cmd = op.cmd /\ op'.graph = op.graph
      /\ op'.seed = op.seed /\ op'.scenario = op.scenario /\ op'.todo = op.todo
  BY <1>1, <1>2 DEF OpType, Phase, Late
<1>4. /\ op.cmd.dev \in BOOLEAN
      /\ ~CollectFails(op.cmd.dev)' /\ RootSpecsHash(op.cmd.dev)' = RootSpecsHash(op.cmd.dev)
  BY <1>1, <1>3, GoesOn DEF OpInv
<1>5. Sound(op.seed)' /\ Sound(op.graph)'
  BY <1>1, <1>2, <1>3, SoundStays
<1>6. lock' \in LockType /\ ToGraph(lock') = op.graph /\ lock'.kind = "written"
  BY <1>1, <1>2, <1>4, LockBack
<1>7. LockInv'
  BY <1>3, <1>5, <1>6 DEF LockInv
<1>8. state' \in StateType /\ StateInv'
  <2>1. state' = [state EXCEPT !.current = FALSE, !.intact = state.intact] /\ state.intact \in BOOLEAN
    BY <1>1 DEF Types, StateType
  <2> QED
    BY <1>1, <2>1, StateFades
<1>9. OpInv'
  BY <1>1, <1>3, <1>4, <1>5, <1>6 DEF OpInv, Late
<1>10. LinkInv' /\ MarkInv'
  BY <1>1, <1>3 DEF OpInv, LinkInv, MarkInv, Late
<1> QED
  BY <1>1, <1>3, <1>6, <1>7, <1>8, <1>9, <1>10 DEF WorkspaceInv, Types

\* After a member was linked it is, and the others are as they were.
LEMMA LinkedRight ==
    ASSUME Types, NEW m \in Member, NEW g \in GraphType, NEW dev \in BOOLEAN,
           links' = [links EXCEPT ![m] = Linked(m, g, dev)]
    PROVE  /\ links' \in [Member -> [Name -> TargetType]]
           /\ \A n \in Name : Target(m, n, g, dev) \in {NoTarget, links'[m][n]}
           /\ \A k \in Member : k # m => links'[k] = links[k]
           /\ (\A n \in Name : Target(m, n, g, dev) \in {NoTarget, links[m][n]}) => links' = links
<1>1. \A n \in Name : Target(m, n, g, dev) \in TargetType /\ links[m][n] \in TargetType
  BY TargetRight DEF Types
<1>2. Linked(m, g, dev) \in [Name -> TargetType]
  BY <1>1 DEF Linked
<1>3. links'[m] = Linked(m, g, dev) /\ links' \in [Member -> [Name -> TargetType]]
  BY <1>2 DEF Types
<1>4. \A n \in Name : Target(m, n, g, dev) \in {NoTarget, links'[m][n]}
  BY <1>3 DEF Linked
<1>5. (\A n \in Name : Target(m, n, g, dev) \in {NoTarget, links[m][n]}) => links' = links
  BY LinkedSame DEF Types
<1> QED
  BY <1>3, <1>4, <1>5 DEF Types

LEMMA LinkMemberStep ==
    ASSUME WorkspaceInv, NEW m \in Member, LinkMember(m)
    PROVE  WorkspaceInv'
<1> DEFINE next == IF op.todo = {m} THEN "scripts" ELSE "link"
<1>1. /\ Types /\ LockInv /\ StateInv /\ OpInv /\ LinkInv /\ op.phase = "link" /\ m \in op.todo
      /\ UNCHANGED <<manifest, version, published, lock, marker, rootMarker, store>>
      /\ links' = [links EXCEPT ![m] = Linked(m, op.graph, op.cmd.dev)]
      /\ state' = IF links' = links THEN state ELSE Touched
      /\ op' = [op EXCEPT !.todo = @ \ {m}, !.phase = next] /\ Same
  BY DEF WorkspaceInv, LinkMember, inputs, Same
<1>2. /\ op \in OpType /\ op.graph \in GraphType /\ Sound(op.graph) /\ Sound(op.seed)
  BY <1>1 DEF Types, OpType, OpInv
<1>3. /\ op' \in OpType /\ op'.phase = next /\ op'.cmd = op.cmd /\ op'.graph = op.graph
      /\ op'.seed = op.seed /\ op'.scenario = op.scenario /\ op'.todo = op.todo \ {m}
  BY <1>1, <1>2 DEF OpType, Phase, Late
<1>4. /\ op.cmd.dev \in BOOLEAN
      /\ ~CollectFails(op.cmd.dev)' /\ RootSpecsHash(op.cmd.dev)' = RootSpecsHash(op.cmd.dev)
      /\ \A k \in Member, n \in Name :
            Target(k, n, op.graph, op.cmd.dev)' = Target(k, n, op.graph, op.cmd.dev)
  BY <1>1, <1>3, GoesOn DEF OpInv
<1>5. Sound(op.seed)' /\ Sound(op.graph)'
  BY <1>1, <1>2, <1>3, SoundStays
<1>6. /\ links' \in [Member -> [Name -> TargetType]]
      /\ \A n \in Name : Target(m, n, op.graph, op.cmd.dev) \in {NoTarget, links'[m][n]}
      /\ \A k \in Member : k # m => links'[k] = links[k]
  BY <1>1, <1>2, <1>4, LinkedRight
<1>7. IsLinked(m)' /\ \A k \in Member : k # m /\ IsLinked(k) => IsLinked(k)'
  BY <1>4, <1>6 DEF IsLinked
<1>8. state' \in StateType /\ StateInv'
  <2> DEFINE i == state.intact /\ links' = links
  <2>1. state' = [state EXCEPT !.current = state.current, !.intact = i]
    BY <1>1 DEF Touched, Types, StateType
  <2>2. i \in BOOLEAN /\ state.current \in BOOLEAN /\ (state.current => lock'.kind # "absent")
    BY <1>1 DEF Types, StateType, StateInv
  <2> HIDE DEF i
  <2>3. i => state.intact /\ links' = links
    BY DEF i
  <2> QED
    BY <1>1, <2>1, <2>2, <2>3, StateFades
<1>9. LockInv'
  BY <1>1, SoundStays DEF LockInv
<1>10. OpInv'
  BY <1>1, <1>3, <1>4, <1>5 DEF OpInv, Late
<1>11. LinkInv'
  <2>1. \A k \in Member : k \notin op'.todo \/ op.scenario = "Hot" => IsLinked(k)'
    BY <1>1, <1>3, <1>7 DEF LinkInv
  <2>2. next = "scripts" => \A k \in Member : k \notin op'.todo
    BY <1>3
  <2> QED
    BY <1>3, <2>1, <2>2 DEF LinkInv, Late
<1>12. MarkInv'
  BY <1>3 DEF MarkInv
<1> QED
  BY <1>1, <1>3, <1>6, <1>8, <1>9, <1>10, <1>11, <1>12 DEF WorkspaceInv, Types

\* The members stay linked while markers and state are written.
LEMMA LinkedStay ==
    ASSUME Types, OpInv, LinkInv, Same, links' = links, published' = published, lock' = lock,
           op.phase \in Late \ {"link", "ok"}, op'.phase \in Late \ {"link"},
           op'.cmd = op.cmd, op'.graph = op.graph, op'.seed = op.seed
    PROVE  /\ OpInv' /\ LinkInv' /\ op.cmd.dev \in BOOLEAN
           /\ RootSpecsHash(op.cmd.dev)' = RootSpecsHash(op.cmd.dev)
           /\ LayoutHash(op.graph, op.cmd.dev)' = LayoutHash(op.graph, op.cmd.dev)
<1>1. /\ op.cmd.dev \in BOOLEAN
      /\ ~CollectFails(op.cmd.dev)' /\ RootSpecsHash(op.cmd.dev)' = RootSpecsHash(op.cmd.dev)
      /\ \A m \in Member, n \in Name :
            Target(m, n, op.graph, op.cmd.dev)' = Target(m, n, op.graph, op.cmd.dev)
  BY GoesOn DEF OpInv, Late
<1>2. Sound(op.seed)' /\ Sound(op.graph)'
  BY SoundStays DEF OpInv
<1>3. OpInv'
  BY <1>1, <1>2 DEF OpInv, Late
<1>4. \A m \in Member : IsLinked(m)'
  BY <1>1 DEF LinkInv, IsLinked
<1>5. LinkInv'
  BY <1>4 DEF LinkInv, Late
<1> QED
  BY <1>1, <1>3, <1>5, SameTarget

LEMMA RootMarkerStep ==
    ASSUME WorkspaceInv, WriteRootMarker
    PROVE  WorkspaceInv'
<1>1. /\ Types /\ LockInv /\ StateInv /\ OpInv /\ LinkInv /\ op.phase = "scripts"
      /\ UNCHANGED <<manifest, version, published, lock, marker, links, store>>
      /\ rootMarker' = Mark(op.graph) /\ state' = Touched
      /\ op' = [op EXCEPT !.phase = "markers", !.todo = Member] /\ Same
  BY DEF WorkspaceInv, WriteRootMarker, inputs, Same
<1>2. op \in OpType /\ op.graph \in GraphType
  BY <1>1 DEF Types, OpType
<1>3. /\ op' \in OpType /\ op'.phase = "markers" /\ op'.cmd = op.cmd /\ op'.graph = op.graph
      /\ op'.seed = op.seed /\ op'.todo = Member
  BY <1>1, <1>2 DEF OpType, Phase, Late
<1>4. OpInv' /\ LinkInv'
  BY <1>1, <1>3, LinkedStay DEF Late
<1>5. state' \in StateType /\ StateInv'
  <2>1. state' = [state EXCEPT !.current = state.current, !.intact = FALSE]
    BY <1>1 DEF Touched, Types, StateType
  <2>2. state.current \in BOOLEAN /\ (state.current => lock'.kind # "absent")
    BY <1>1 DEF Types, StateType, StateInv
  <2> QED
    BY <1>1, <2>1, <2>2, StateFades
<1>6. LockInv'
  BY <1>1, SoundStays DEF LockInv
<1>7. MarkInv'
  BY <1>1, <1>3 DEF MarkInv
<1>8. rootMarker' \in MarkerType
  BY <1>1, <1>2 DEF Mark, MarkerType
<1> QED
  BY <1>1, <1>3, <1>4, <1>5, <1>6, <1>7, <1>8 DEF WorkspaceInv, Types

LEMMA MarkerStep ==
    ASSUME WorkspaceInv, WriteMarker
    PROVE  WorkspaceInv'
<1>1. /\ Types /\ LockInv /\ StateInv /\ OpInv /\ LinkInv /\ MarkInv /\ op.phase = "markers"
      /\ UNCHANGED <<manifest, version, published, lock, state, rootMarker, links, store>> /\ Same
  BY DEF WorkspaceInv, WriteMarker, inputs, Same
<1>2. PICK i \in DOMAIN Order :
         /\ op.todo = {Order[j] : j \in i .. Len(Order)}
         /\ marker' = [marker EXCEPT ![Order[i]] = Mark(op.graph)]
         /\ op' = [op EXCEPT !.todo = @ \ {Order[i]},
                             !.phase = IF i = Len(Order) THEN "state" ELSE @]
  BY DEF WriteMarker
<1>3. i \in 1 .. Len(Order) /\ Order[i] \in Member
  BY OrderType, WorkspaceAssumption
<1>4. op \in OpType /\ op.graph \in GraphType
  BY <1>1 DEF Types, OpType
<1>5. /\ op' \in OpType /\ op'.phase = (IF i = Len(Order) THEN "state" ELSE "markers")
      /\ op'.cmd = op.cmd /\ op'.graph = op.graph
      /\ op'.seed = op.seed /\ op'.todo = op.todo \ {Order[i]}
  BY <1>1, <1>2, <1>4 DEF OpType, Phase, Late
<1>6. OpInv' /\ LinkInv'
  BY <1>1, <1>5, LinkedStay DEF Late
<1>7. LockInv' /\ StateInv'
  BY <1>1, DiskStays
<1>8. Mark(op.graph) \in MarkerType
  BY <1>4 DEF Mark, MarkerType
<1>9. /\ marker' \in [Member -> MarkerType]
      /\ \A m \in Member : marker'[m] = IF m = Order[i] THEN Mark(op.graph) ELSE marker[m]
  BY <1>1, <1>2, <1>3, <1>8 DEF Types
<1>10. \A m \in Member : m \notin op'.todo => marker'[m] = Mark(op.graph)
  BY <1>1, <1>5, <1>9 DEF MarkInv
<1>11. i = Len(Order) => op'.todo = {}
  <2>1. i = Len(Order) => \A j \in i .. Len(Order) : j = i
    BY <1>3, OrderType
  <2> QED
    BY <1>2, <1>5, <2>1
<1>12. MarkInv'
  BY <1>1, <1>5, <1>10, <1>11 DEF MarkInv
<1> QED
  BY <1>1, <1>5, <1>6, <1>7, <1>9, <1>12 DEF WorkspaceInv, Types

LEMMA WriteStateStep ==
    ASSUME WorkspaceInv, WriteState
    PROVE  WorkspaceInv'
<1> DEFINE layout == LayoutHash(op.graph, op.cmd.dev)
           specs == RootSpecsHash(op.cmd.dev)
<1>1. /\ Types /\ LockInv /\ StateInv /\ OpInv /\ LinkInv /\ MarkInv /\ op.phase = "state"
      /\ UNCHANGED <<manifest, version, published, lock, marker, rootMarker, links, store>>
      /\ op' = [op EXCEPT !.phase = "ok"] /\ Same
  BY DEF WorkspaceInv, WriteState, inputs, Same
<1>2. op \in OpType /\ op.graph \in GraphType /\ Sound(op.graph) /\ op.cmd.dev \in BOOLEAN
  BY <1>1 DEF Types, OpType, AnyCommand, OpInv
<1>3. /\ op' \in OpType /\ op'.phase = "ok" /\ op'.cmd = op.cmd /\ op'.graph = op.graph
      /\ op'.seed = op.seed
  BY <1>1, <1>2 DEF OpType, Phase, Late
<1>4. /\ OpInv' /\ LinkInv' /\ specs' = specs /\ layout' = layout
  BY <1>1, <1>3, LinkedStay DEF Late
<1>5. LockInv'
  BY <1>1, SoundStays DEF LockInv
<1>6. CASE lock.kind = "absent"
  <2>1. state' = state
    BY <1>6 DEF WriteState
  <2>2. StateInv'
    BY <1>1, <2>1, DiskStays
  <2>3. MarkInv'
    BY <1>1, <1>3, <1>6 DEF MarkInv
  <2> QED
    BY <1>1, <1>3, <1>4, <1>5, <2>1, <2>2, <2>3 DEF WorkspaceInv, Types
<1>7. CASE lock.kind # "absent"
  <2>1. state' = [kind |-> "written", current |-> TRUE, intact |-> TRUE, specs |-> specs,
                  graph |-> op.graph, layout |-> layout]
    BY <1>7 DEF WriteState, Recorded
  <2>2. specs \in SpecsType /\ layout \in LayoutType /\ Answers(op.graph, specs)
    BY <1>1, <1>2, RootsType, LayoutRight DEF OpInv, Late
  <2>3. \A m \in Member, n \in Name :
           layout[2][m][n] = IF op.cmd.dev \/ manifest[m][n].section # "dev"
                             THEN <<manifest[m][n].section, Target(m, n, op.graph, op.cmd.dev)>>
                             ELSE << >>
    BY <1>1, <1>2, LayoutRight
  <2>4. ASSUME NEW m \in Member, NEW n \in Name, layout[2][m][n] # << >>
        PROVE  layout[2][m][n][2] \in {NoTarget, links'[m][n]}
    <3>1. layout[2][m][n] = <<manifest[m][n].section, Target(m, n, op.graph, op.cmd.dev)>>
      BY <2>3, <2>4
    <3>2. layout[2][m][n][2] = Target(m, n, op.graph, op.cmd.dev)
      BY <3>1
    <3> QED
      BY <1>1, <3>2 DEF LinkInv, Late, IsLinked
  <2>5. state'.layout = layout /\ state' \in StateType
    BY <1>2, <2>1, <2>2 DEF StateType
  <2> HIDE DEF layout, specs
  <2>6. LaidOut(state.layout)'
    BY <2>4, <2>5 DEF LaidOut
  <2>7. Sound(state.graph)'
    BY <1>1, <1>2, <2>1, SoundStays
  <2>8. StateInv'
    BY <1>1, <1>7, <2>1, <2>2, <2>6, <2>7 DEF StateInv
  <2>9. MarkInv'
    BY <1>1, <1>3, <1>4, <2>1 DEF MarkInv, StateIsCurrent, layout, specs
  <2> QED
    BY <1>1, <1>3, <1>4, <1>5, <2>5, <2>8, <2>9 DEF WorkspaceInv, Types
<1> QED
  BY <1>6, <1>7

LEMMA CutStep ==
    ASSUME WorkspaceInv, Cut
    PROVE  WorkspaceInv'
<1>1. /\ Types /\ LockInv /\ StateInv
      /\ UNCHANGED <<manifest, version, published, marker, rootMarker, links, store>>
      /\ op' = [Idle("failed") EXCEPT !.cmd = op.cmd]
  BY DEF WorkspaceInv, Cut, inputs
<1>2. op' \in OpType /\ OpInv' /\ LinkInv' /\ MarkInv'
  <2>1. op.cmd \in AnyCommand
    BY <1>1 DEF Types, OpType
  <2> QED
    BY <1>1, <2>1, Rests
<1>3. CASE UNCHANGED <<lock, state>>
  <2>1. LockInv' /\ StateInv'
    BY <1>1, <1>3, DiskStays
  <2> QED
    BY <1>1, <1>2, <1>3, <2>1 DEF WorkspaceInv, Types
<1>4. CASE lock' = [NoLock EXCEPT !.kind = "torn"] /\ state' = [state EXCEPT !.current = FALSE]
  <2>1. lock' \in LockType /\ ToGraph(lock') = NoGraph
    BY <1>4, EmptyTypes DEF NoLock, NoRoots, ToGraph, NoGraph
  <2>2. LockInv'
    BY <2>1 DEF LockInv, Sound, SoundAt, NoGraph, NoRoot
  <2>3. state' = [state EXCEPT !.current = FALSE, !.intact = state.intact] /\ state.intact \in BOOLEAN
    BY <1>1, <1>4 DEF Types, StateType
  <2>4. state' \in StateType /\ StateInv'
    BY <1>1, <2>3, StateFades
  <2> QED
    BY <1>1, <1>2, <2>1, <2>2, <2>4 DEF WorkspaceInv, Types
<1> QED
  BY <1>3, <1>4 DEF Cut

LEMMA InstallInStep ==
    ASSUME WorkspaceInv, NEW m \in Member, InstallIn(m)
    PROVE  WorkspaceInv'
<1> DEFINE fits == lock.kind = "written" /\ RootSpecsMatch(lock, TRUE)
           seed == IF lock.kind = "written" THEN ToGraph(lock) ELSE NoGraph
           g == IF fits THEN seed
                ELSE [n \in Name |-> ResolveRoot(n, RootDependency(n, TRUE), seed)]
<1>1. /\ Types /\ LockInv /\ StateInv
      /\ UNCHANGED <<manifest, version, published, rootMarker>>
      /\ store' = store \cup PackageIds(g)
      /\ lock' = IF fits THEN lock ELSE LockOf(g, TRUE)
      /\ links' = [links EXCEPT ![m] = Linked(m, g, TRUE)]
      /\ marker' = [marker EXCEPT ![m] = Mark(g)]
      /\ state' = [state EXCEPT !.current = @ /\ fits, !.intact = FALSE]
      /\ op' = Idle("idle")
  BY DEF WorkspaceInv, InstallIn, inputs
<1>2. seed \in GraphType /\ Sound(seed)
  BY <1>1, ToGraphType, EmptyTypes, NoGraphSound DEF Types, LockInv
<1> HIDE DEF seed
<1>3. g \in GraphType /\ Sound(g)
  <2> DEFINE specs == [n \in Name |-> RootDependency(n, TRUE)]
             fresh == [n \in Name |-> ResolveRoot(n, RootDependency(n, TRUE), seed)]
  <2>1. \A n \in Name : specs[n] \in AnySpec /\ specs[n] = RootDependency(n, TRUE)
    BY <1>1, RootsType
  <2>2. fresh = [n \in Name |-> ResolveRoot(n, specs[n], seed)]
    BY <2>1
  <2> HIDE DEF specs, fresh
  <2>3. fresh \in GraphType /\ Sound(fresh)
    BY <1>1, <1>2, <2>1, <2>2, ResolvedSound
  <2> QED
    BY <1>2, <2>3 DEF fresh
<1> HIDE DEF g, fits
<1>4. /\ LockOf(g, TRUE) \in LockType /\ ToGraph(LockOf(g, TRUE)) = g
      /\ LockOf(g, TRUE).kind = "written"
  BY <1>1, <1>3, LockBack
<1>5. lock' \in LockType /\ LockInv'
  <2>1. ToGraph(lock') = ToGraph(lock) \/ ToGraph(lock') = g
    BY <1>1, <1>4
  <2>2. Sound(ToGraph(lock'))
    BY <1>1, <1>3, <2>1 DEF LockInv
  <2>3. \A h : Sound(h) => Sound(h)'
    BY <1>1, SoundStays
  <2>4. LockInv'
    BY <2>2, <2>3 DEF LockInv
  <2> QED
    BY <1>1, <1>4, <2>4 DEF Types
<1>6. links' \in [Member -> [Name -> TargetType]]
  BY <1>1, <1>3, LinkedRight
<1>7. state' \in StateType /\ StateInv'
  <2> DEFINE c == state.current /\ fits
  <2>1. state' = [state EXCEPT !.current = c, !.intact = FALSE] /\ c \in BOOLEAN
    BY <1>1 DEF Types, StateType, fits
  <2>2. c => lock'.kind # "absent"
    BY <1>1 DEF StateInv
  <2> HIDE DEF c
  <2> QED
    BY <1>1, <2>1, <2>2, StateFades
<1>8. op' \in OpType /\ OpInv' /\ LinkInv' /\ MarkInv'
  BY <1>1, EmptyTypes, Rests
<1>9. marker' \in [Member -> MarkerType] /\ store' \subseteq published'
  <2>1. Mark(g) \in MarkerType
    BY <1>3 DEF Mark, MarkerType
  <2> QED
    BY <1>1, <1>3, <2>1, PackagesPublished DEF Types
<1> QED
  BY <1>1, <1>5, <1>6, <1>7, <1>8, <1>9 DEF WorkspaceInv, Types

\* What happens between two installs
LEMMA BetweenStep ==
    ASSUME WorkspaceInv, EditManifest \/ BumpVersion \/ Publish \/ LoseModules \/ Clone
    PROVE  WorkspaceInv'
<1>1. /\ Types /\ LockInv /\ StateInv /\ op' = Idle("idle") /\ lock' = lock
      /\ published \subseteq published'
  BY DEF WorkspaceInv, EditManifest, BumpVersion, Publish, LoseModules, Clone, Changed, disk
<1>2. op' \in OpType /\ OpInv' /\ LinkInv' /\ MarkInv'
  BY <1>1, EmptyTypes, Rests
<1>3. CASE EditManifest
  <2>1. PICK e \in Edit : manifest' = [manifest EXCEPT ![e[1]][e[2]] = e[3]]
    BY <1>3 DEF EditManifest
  <2>2. manifest' \in [Member -> [Name -> Dep]]
    BY <1>1, <2>1, WorkspaceAssumption DEF Types
  <2>3. LockInv' /\ StateInv'
    BY <1>1, <1>3, DiskStays DEF EditManifest, disk
  <2> QED
    BY <1>1, <1>2, <1>3, <2>2, <2>3 DEF WorkspaceInv, Types, EditManifest, disk
<1>4. CASE BumpVersion
  <2>1. version' \in [Member -> Version]
    BY <1>1, <1>4 DEF Types, BumpVersion
  <2>2. LockInv' /\ StateInv'
    BY <1>1, <1>4, DiskStays DEF BumpVersion, disk
  <2> QED
    BY <1>1, <1>2, <1>4, <2>1, <2>2 DEF WorkspaceInv, Types, BumpVersion, disk
<1>5. CASE Publish
  <2>1. published' \subseteq Name \X Version
    BY <1>1, <1>5 DEF Types, Publish
  <2>2. LockInv' /\ StateInv'
    BY <1>1, <1>5, DiskStays DEF Publish, disk
  <2> QED
    BY <1>1, <1>2, <1>5, <2>1, <2>2 DEF WorkspaceInv, Types, Publish, disk
<1>6. LockInv'
  BY <1>1, SoundStays DEF LockInv
<1>7. CASE LoseModules
  <2>1. PICK m \in Member : /\ links' = [links EXCEPT ![m] = [n \in Name |-> NoTarget]]
                            /\ marker' = [marker EXCEPT ![m] = NoMarker]
    BY <1>7 DEF LoseModules
  <2>2. links' \in [Member -> [Name -> TargetType]] /\ marker' \in [Member -> MarkerType]
    BY <1>1, <2>1, EmptyTypes DEF Types
  <2>3. state' = [state EXCEPT !.current = state.current, !.intact = FALSE]
    BY <1>1, <1>7 DEF LoseModules, Touched, Types, StateType
  <2>4. state.current \in BOOLEAN /\ (state.current => lock'.kind # "absent")
    BY <1>1 DEF Types, StateType, StateInv
  <2>5. state' \in StateType /\ StateInv'
    BY <1>1, <2>3, <2>4, StateFades
  <2> QED
    BY <1>1, <1>2, <1>6, <1>7, <2>2, <2>5 DEF WorkspaceInv, Types, LoseModules
<1>8. CASE Clone
  <2>1. links' \in [Member -> [Name -> TargetType]] /\ marker' \in [Member -> MarkerType]
    BY <1>8, EmptyTypes DEF Clone
  <2>2. state' = NoState /\ state' \in StateType /\ rootMarker' \in MarkerType
    BY <1>8, EmptyTypes DEF Clone
  <2>3. Sound(state.graph)'
    BY <2>2 DEF NoState, Sound, SoundAt, NoGraph, NoRoot
  <2>4. StateInv'
    BY <2>2, <2>3 DEF StateInv, NoState
  <2> QED
    BY <1>1, <1>2, <1>6, <1>8, <2>1, <2>2, <2>4 DEF WorkspaceInv, Types, Clone
<1> QED
  BY <1>3, <1>4, <1>5, <1>7, <1>8

LEMMA InvInit == Init => WorkspaceInv
<1> SUFFICES ASSUME Init PROVE WorkspaceInv
  OBVIOUS
<1>1. op \in OpType /\ op.phase = "idle" /\ op.seed = NoGraph /\ op.graph = NoGraph
  BY IdleType DEF Init, Idle, Phase
<1>2. Types
  BY <1>1, EmptyTypes, WorkspaceAssumption DEF Types, Init
<1>3. LockInv
  <2>1. ToGraph(lock) = NoGraph
    BY DEF Init, ToGraph, NoLock, NoRoots, NoGraph
  <2> QED
    BY <2>1, NoGraphSound DEF LockInv
<1>4. StateInv
  BY NoGraphSound DEF StateInv, Init, NoState
<1>5. OpInv /\ LinkInv /\ MarkInv
  BY <1>1, NoGraphSound DEF OpInv, LinkInv, MarkInv, Late
<1> QED
  BY <1>2, <1>3, <1>4, <1>5 DEF WorkspaceInv

LEMMA InvStutter ==
    ASSUME WorkspaceInv, UNCHANGED vars
    PROVE  WorkspaceInv'
<1>1. /\ Types /\ LockInv /\ StateInv /\ OpInv /\ LinkInv /\ MarkInv /\ Same
      /\ UNCHANGED <<manifest, version, published, lock, state, marker, rootMarker, links, store, op>>
  BY DEF WorkspaceInv, vars, Same
<1>2. Types'
  BY <1>1 DEF Types
<1>3. LockInv' /\ StateInv'
  BY <1>1, DiskStays
<1>4. /\ op.cmd.dev \in BOOLEAN
      /\ CollectFails(op.cmd.dev)' <=> CollectFails(op.cmd.dev)
      /\ RootSpecsHash(op.cmd.dev)' = RootSpecsHash(op.cmd.dev)
      /\ \A m \in Member, n \in Name :
            Target(m, n, op.graph, op.cmd.dev)' = Target(m, n, op.graph, op.cmd.dev)
      /\ LayoutHash(op.graph, op.cmd.dev)' = LayoutHash(op.graph, op.cmd.dev)
  BY <1>1, GoesOn, SameTarget
<1>5. Sound(op.seed)' /\ Sound(op.graph)'
  BY <1>1, SoundStays DEF OpInv
<1>6. \A n \in Name : PlannedSpec(n, op.cmd)' = PlannedSpec(n, op.cmd)
  <2>1. /\ RootSpecs(op.cmd.dev)' = RootSpecs(op.cmd.dev)
        /\ \A n \in Name : RootDependency(n, op.cmd.dev)' = RootDependency(n, op.cmd.dev)
    BY <1>1, <1>4, SameSpecs
  <2> QED
    BY <1>1, <2>1 DEF PlannedSpec
<1>7. OpInv'
  BY <1>1, <1>4, <1>5, <1>6 DEF OpInv
<1>8. \A m \in Member : IsLinked(m) => IsLinked(m)'
  BY <1>1, <1>4 DEF IsLinked
<1>9. LinkInv'
  BY <1>1, <1>8 DEF LinkInv
<1>10. MarkInv'
  BY <1>1, <1>4 DEF MarkInv, StateIsCurrent
<1> QED
  BY <1>2, <1>3, <1>7, <1>9, <1>10 DEF WorkspaceInv

LEMMA InvNext == WorkspaceInv /\ [Next]_vars => WorkspaceInv'
<1> SUFFICES ASSUME WorkspaceInv, [Next]_vars PROVE WorkspaceInv'
  OBVIOUS
<1>1. ASSUME NEW c \in Command, Start(c) PROVE WorkspaceInv'
  BY <1>1, StartStep
<1>2. CASE Resolve
  BY <1>2, ResolveStep
<1>3. CASE Fetch
  BY <1>3, FetchStep
<1>4. CASE WriteLock
  BY <1>4, WriteLockStep
<1>5. ASSUME NEW m \in Member, LinkMember(m) PROVE WorkspaceInv'
  BY <1>5, LinkMemberStep
<1>6. ASSUME NEW m \in Member, InstallIn(m) PROVE WorkspaceInv'
  BY <1>6, InstallInStep
<1>7. CASE WriteRootMarker
  BY <1>7, RootMarkerStep
<1>8. CASE WriteMarker
  BY <1>8, MarkerStep
<1>9. CASE WriteState
  BY <1>9, WriteStateStep
<1>10. CASE Cut
  BY <1>10, CutStep
<1>11. CASE EditManifest \/ BumpVersion \/ Publish \/ LoseModules \/ Clone
  BY <1>11, BetweenStep
<1>12. CASE UNCHANGED vars
  BY <1>12, InvStutter
<1> QED
  BY <1>1, <1>2, <1>3, <1>4, <1>5, <1>6, <1>7, <1>8, <1>9, <1>10, <1>11, <1>12 DEF Next

LEMMA InvHolds == WorkspaceSpec => []WorkspaceInv
  BY InvInit, InvNext, PTL DEF WorkspaceSpec

-----------------------------------------------------------------------------
(* Theorems *)

\* The type invariant of Workspace: what is stored was published, the graph of the
\* command that runs has specs and versions, and an install state that counts as current
\* has a lockfile beside it (write_workspace_install_state).
THEOREM WorkspaceTypeOK == WorkspaceSpec => []TypeOK
<1>1. WorkspaceInv => TypeOK
  BY DEF WorkspaceInv, TypeOK, Types, LockType, OpType, GraphType, StateInv
<1> QED
  BY <1>1, InvHolds, PTL

\* An install of the workspace that takes its members for linked finds all of them linked
\* (detect_from_graph).
THEOREM WorkspaceHotSound == WorkspaceSpec => []HotSound
<1>1. WorkspaceInv => HotSound
  <2> SUFFICES ASSUME WorkspaceInv, op.phase = "link", op.scenario = "Hot", NEW m \in Member
               PROVE  links[m] = Linked(m, op.graph, op.cmd.dev)
    BY DEF HotSound
  <2>1. Types /\ IsLinked(m)
    BY DEF WorkspaceInv, LinkInv
  <2> QED
    BY <2>1, LinkedSame DEF IsLinked
<1> QED
  BY <1>1, InvHolds, PTL

\* snpm run in a member goes ahead only if the member is linked to a graph that answers the
\* specs that all members have now (check_staleness).
THEOREM WorkspaceLazySound == WorkspaceSpec => []LazySound
<1>1. WorkspaceInv => LazySound
  <2> DEFINE g == IF StateIsCurrent THEN state.graph ELSE ToGraph(lock)
  <2> SUFFICES ASSUME WorkspaceInv, NEW m \in Member, IsFresh(m)
               PROVE  links[m] = Linked(m, g, TRUE) /\ Fits(g, RootSpecsHash(TRUE))
    BY DEF LazySound
  <2>1. Types /\ LockInv /\ StateInv
    BY DEF WorkspaceInv
  <2>2. g \in GraphType
    BY <2>1, ToGraphType DEF Types, StateType
  <2>3. LayoutValid(g)
    BY DEF IsFresh, FastLayoutValid, LayoutValid, StateIsCurrent
  <2>4. Fits(g, RootSpecsHash(TRUE))
    <3>1. CASE StateIsCurrent
      BY <2>1, <3>1 DEF IsFresh, StateIsCurrent, StateInv, Answers
    <3>2. CASE ~StateIsCurrent
      <4>1. RootSpecsMatch(lock, TRUE)
        BY <3>2 DEF IsFresh
      <4> QED
        BY <2>1, <3>2, <4>1, MatchAnswers DEF Answers
    <3> QED
      BY <3>1, <3>2
  <2> HIDE DEF g
  <2>5. \A n \in Name : Target(m, n, g, TRUE) \in {NoTarget, links[m][n]}
    BY <2>1, <2>2, <2>3, ValidLinked
  <2> QED
    BY <2>1, <2>4, <2>5, LinkedSame
<1> QED
  BY <1>1, InvHolds, PTL

\* What is skipped was done before, for every workspace, every order of edits, losses, kills
\* and installs, and every lockfile mode (detect_from_graph, check_staleness).
THEOREM WorkspaceSkipsSound == WorkspaceSpec => []SkipsSound
<1>1. TypeOK /\ HotSound /\ LazySound => SkipsSound
  BY DEF SkipsSound
<1> QED
  BY <1>1, WorkspaceTypeOK, WorkspaceHotSound, WorkspaceLazySound, PTL

\* After an install with dev dependencies that ended well the next one has nothing to do, and
\* no snpm run installs (write_workspace_install_state, detect_workspace_scenario_early).
THEOREM WorkspaceSettles == WorkspaceSpec => []Settles
<1>1. WorkspaceInv => Settles
  <2> SUFFICES ASSUME WorkspaceInv, op.phase = "ok", op.cmd.dev
               PROVE  /\ DetectScenarioEarly(Default).scenario = "Hot"
                      /\ \A m \in Member : IsFresh(m)
    BY DEF Settles
  <2>1. Types /\ OpInv /\ MarkInv /\ op.cmd.dev = TRUE
    BY DEF WorkspaceInv, Types, OpType, AnyCommand
  <2>2. lock.kind # "absent" /\ ~CollectFails(TRUE)
    BY <2>1 DEF OpInv, Late
  <2>3. /\ StateIsCurrent /\ state.intact /\ state.graph = op.graph
        /\ state.specs = RootSpecsHash(TRUE) /\ state.layout = LayoutHash(op.graph, TRUE)
    BY <2>1, <2>2 DEF MarkInv
  <2>4. /\ rootMarker = Mark(op.graph) /\ \A m \in Member : marker[m] = Mark(op.graph)
    BY <2>1 DEF MarkInv
  <2>5. LayoutValid(state.graph) /\ FastLayoutValid
    BY <2>3 DEF LayoutValid, FastLayoutValid, StateIsCurrent
  <2>6. DetectScenarioEarly(Default) = DetectFromGraph(Default, state.graph, LayoutValid(state.graph))
    BY <2>2, <2>3 DEF DetectScenarioEarly, Default
  <2>7. DetectScenarioEarly(Default).scenario = "Hot"
    BY <2>3, <2>4, <2>5, <2>6 DEF DetectFromGraph, Default, Detected
  <2>8. \A m \in Member : marker[m].kind = "written" /\ marker[m] = Mark(state.graph)
    BY <2>3, <2>4 DEF Mark
  <2>9. \A m \in Member : IsFresh(m)
    BY <2>2, <2>3, <2>5, <2>8 DEF IsFresh
  <2> QED
    BY <2>7, <2>9
<1> QED
  BY <1>1, InvHolds, PTL

\* A lockfile that is written anew keeps the versions of what did not change
\* (resolve_with_optional_roots_with_seed, pinned_workspace_root_dependencies_for_fix).
THEOREM WorkspacePinsKept == WorkspaceSpec => PinsKept
<1>1. WorkspaceInv /\ [Next]_vars => [PinStep]_vars
  <2> SUFFICES ASSUME WorkspaceInv, Next, op.phase = "lock", op'.phase = "link",
                      op.seed = ToGraph(lock), NEW n \in Name,
                      lock.roots[n].spec = RootDependency(n, op.cmd.dev),
                      lock.roots[n].version # 0, lock.roots[n].spec.kind # "tag"
               PROVE  lock'.roots[n].version = lock.roots[n].version
    BY DEF PinStep
  <2> DEFINE l == lock.roots[n]
  <2>1. /\ Types /\ LockInv /\ OpInv /\ op.graph \in GraphType /\ Sound(op.graph)
        /\ op.cmd \in AnyCommand /\ op.cmd.dev \in BOOLEAN
    BY DEF WorkspaceInv, OpInv, Types, OpType, AnyCommand
  <2>2. WriteLock
    BY DEF Next, Start, Resolve, Fetch, LinkMember, InstallIn, WriteRootMarker, WriteMarker,
           WriteState, Cut, EditManifest, BumpVersion, Publish, LoseModules, Clone, Changed,
           Ended, Idle
  <2>3. lock'.roots[n].version = op.graph[n].v
    BY <2>1, <2>2, LockBack DEF WriteLock
  <2>4. op.seed[n] = [spec |-> l.spec, v |-> l.version]
    BY DEF ToGraph
  <2>5. Matches(l.spec, l.version)
    <3>1. SoundAt(ToGraph(lock), n)
      BY <2>1 DEF LockInv, Sound
    <3> QED
      BY <2>4, <3>1 DEF SoundAt
  <2>6. Matches(PlannedSpec(n, op.cmd), l.version)
    <3>1. PlannedSpec(n, op.cmd) \in {l.spec, Spec("exact", l.version)}
      BY DEF PlannedSpec
    <3> QED
      BY <2>5, <3>1 DEF Matches, Spec
  <2> QED
    BY <2>1, <2>3, <2>4, <2>6 DEF OpInv
<1> QED
  BY <1>1, InvHolds, PTL DEF WorkspaceSpec, PinsKept

\* The merged specs of a name speak for what a member asks for, and if the member needs it
\* it is needed.
LEMMA RootSpeaks ==
    ASSUME Types, NEW m \in Member, NEW n \in Name, NEW dev \in BOOLEAN,
           MemberSpec(m, n, dev) # NoSpec
    PROVE  LET r == RootSpecs(dev)[n]
               low == \E k \in Member : MemberSpec(k, n, dev).kind = "gte"
           IN  \/ Held(r.required, MemberSpec(m, n, dev), low)
               \/ manifest[m][n].section = "optional" /\ Held(r.optional, MemberSpec(m, n, dev), low)
<1> DEFINE low == \E k \in Member : MemberSpec(k, n, dev).kind = "gte"
<1>1. Asks(n, dev) \in Seq(Ask) /\ Len(Asks(n, dev)) = Len(Order)
  BY AsksType
<1>2. \A i \in 1 .. Len(Order) : /\ Order[i] \in Member
                                 /\ Asks(n, dev)[i].spec = MemberSpec(Order[i], n, dev)
                                 /\ Asks(n, dev)[i].optional = (manifest[Order[i]][n].section = "optional")
  BY OrderType DEF Asks
<1>3. ~low => \A j \in 1 .. Len(Asks(n, dev)) : Asks(n, dev)[j].spec.kind # "gte"
  BY <1>1, <1>2
<1>4. low \in BOOLEAN
  OBVIOUS
<1> HIDE DEF low
<1>5. Holds(Collect(Asks(n, dev)), Asks(n, dev), Len(Asks(n, dev)), low)
  BY <1>1, <1>3, <1>4, CollectHolds
<1>6. PICK i \in 1 .. Len(Order) : Order[i] = m
  BY OrderAll
<1>7. RootSpecs(dev)[n] = Collect(Asks(n, dev))
  BY DEF RootSpecs
<1> QED
  BY <1>1, <1>2, <1>5, <1>6, <1>7 DEF Holds, low

\* What a member asks the registry for is neither missing nor local, if nothing fails.
LEMMA AsksRegistry ==
    ASSUME Types, NEW m \in Member, NEW n \in Name, NEW dev \in BOOLEAN,
           ~CollectFails(dev), ~Skipped(m, n, dev),
           ~IsLocal(n, ResolveCatalogSpec(n, manifest[m][n].spec))
    PROVE  /\ MemberSpec(m, n, dev) = ResolveCatalogSpec(n, manifest[m][n].spec)
           /\ MemberSpec(m, n, dev) # NoSpec
<1> DEFINE d == manifest[m][n]
<1>1. d \in Dep /\ d.section # "none" /\ (d.section # "dev" \/ dev)
  BY DEF Types, Skipped
<1>2. d.spec # NoSpec
  BY <1>1 DEF Dep, NoDep
<1>3. ~SpecError(m, n)
  BY <1>1 DEF CollectFails
<1>4. ResolveCatalogSpec(n, d.spec) # NoSpec
  BY <1>2, <1>3 DEF SpecError, ResolveCatalogSpec
<1>5. MemberSpec(m, n, dev) = ResolveCatalogSpec(n, d.spec)
  BY <1>1 DEF MemberSpec, ApplySpecs
<1> QED
  BY <1>4, <1>5

\* A graph that answers the merged specs has a version that the member admits, unless the
\* specs could not be merged into one that all admit.
LEMMA AnswersAll ==
    ASSUME Types, NEW m \in Member, NEW n \in Name, NEW dev \in BOOLEAN,
           NEW g \in GraphType, ~CollectFails(dev), Answers(g, RootSpecsHash(dev)),
           MemberSpec(m, n, dev) # NoSpec
    PROVE  LET s == MemberSpec(m, n, dev) IN
           IF g[n] = NoRoot THEN manifest[m][n].section = "optional" \/ Unmerged(n, dev)
           ELSE Matches(s, g[n].v) \/ s.kind = "tag" \/ Compromise(n, dev) \/ Unmerged(n, dev)
<1> DEFINE s == MemberSpec(m, n, dev)
           r == RootSpecs(dev)[n]
           low == \E k \in Member : MemberSpec(k, n, dev).kind = "gte"
<1>1. \/ Held(r.required, s, low)
      \/ manifest[m][n].section = "optional" /\ Held(r.optional, s, low)
  BY RootSpeaks
<1>2. ~r.required.conflict /\ ~r.optional.conflict
  BY DEF CollectFails
<1>3. RootSpecsHash(dev)[n][1] = r.required.spec /\ RootSpecsHash(dev)[n][2] = r.optional.spec
  BY DEF RootSpecsHash
<1>4. low => Compromise(n, dev)
  BY DEF Compromise
<1>5. r.required.exclusive \/ r.optional.exclusive => Compromise(n, dev)
  BY DEF Compromise
<1>6. r.required.spec # NoSpec /\ r.optional.spec # NoSpec => Unmerged(n, dev)
  BY DEF Unmerged
<1> HIDE DEF low, r, s
<1>7. CASE g[n] = NoRoot
  <2>1. r.required.spec = NoSpec \/ r.optional.spec # NoSpec
    BY <1>3, <1>7 DEF Answers, Covers
  <2> QED
    BY <1>1, <1>6, <1>7, <2>1 DEF Held
<1>8. CASE g[n] # NoRoot
  <2>1. PICK spec \in {r.required.spec, r.optional.spec} : spec.kind = "tag" \/ Matches(spec, g[n].v)
    BY <1>3, <1>8 DEF Answers, Fits
  <2>2. spec # NoSpec
    BY <2>1 DEF NoSpec, Matches
  <2>3. g[n].v \in Nat
    BY VersionNat DEF GraphType
  <2>4. ASSUME Admits(spec, s) PROVE Matches(s, g[n].v) \/ s.kind = "tag"
    BY <2>1, <2>3, <2>4 DEF Admits, IsRange
  <2>5. \/ Unmerged(n, dev) \/ Compromise(n, dev) \/ Admits(spec, s)
    BY <1>1, <1>2, <1>4, <1>5, <1>6, <2>1, <2>2 DEF Held
  <2> QED
    BY <1>8, <2>4, <2>5 DEF s
<1> QED
  BY <1>7, <1>8

\* When an install of the workspace ends well, every member finds what it declares: the
\* directory of another member, or a package that its spec admits, with the exceptions that
\* Satisfied names (collect_workspace_root_specs, link_project_dependencies).
THEOREM WorkspaceAllSatisfied == WorkspaceSpec => []AllSatisfied
<1>1. WorkspaceInv => AllSatisfied
  <2> SUFFICES ASSUME WorkspaceInv, op.phase = "ok", NEW m \in Member, NEW n \in Name
               PROVE  Satisfied(m, n, op.cmd.dev)
    BY DEF AllSatisfied
  <2> DEFINE dev == op.cmd.dev
             d == manifest[m][n]
             spec == ResolveCatalogSpec(n, d.spec)
  <2>1. /\ Types /\ dev \in BOOLEAN /\ op.graph \in GraphType /\ Sound(op.graph)
        /\ ~CollectFails(dev) /\ Answers(op.graph, RootSpecsHash(dev))
    BY DEF WorkspaceInv, Types, OpType, AnyCommand, OpInv, Late
  <2>2. Target(m, n, op.graph, dev) \in {NoTarget, links[m][n]}
    BY DEF WorkspaceInv, LinkInv, Late, IsLinked
  <2>3. CASE Skipped(m, n, dev)
    BY <2>3 DEF Satisfied, Skipped
  <2>4. CASE ~Skipped(m, n, dev) /\ n \in LocalDeps(m)
    <3>1. links[m][n] = Dir(n)
      BY <2>2, <2>4 DEF Target, LocalTarget, Dir, NoTarget
    <3>2. d.spec.kind # "catalog" /\ IsLocal(n, d.spec)
      BY <2>4 DEF LocalDeps, IsLocal, Matches
    <3>3. IsLocal(n, spec)
      BY <3>2 DEF ResolveCatalogSpec
    <3> QED
      BY <3>1, <3>3 DEF Satisfied
  <2>5. CASE ~Skipped(m, n, dev) /\ n \notin LocalDeps(m) /\ IsLocal(n, spec)
    <3>1. d.spec.kind = "catalog"
      BY <2>5 DEF LocalDeps, Skipped, ResolveCatalogSpec
    <3> QED
      BY <2>5, <3>1 DEF Satisfied
  <2>6. CASE ~Skipped(m, n, dev) /\ n \notin LocalDeps(m) /\ ~IsLocal(n, spec)
    <3>1. MemberSpec(m, n, dev) = spec /\ spec # NoSpec
      BY <2>1, <2>6, AsksRegistry
    <3>2. IF op.graph[n] = NoRoot THEN d.section = "optional" \/ Unmerged(n, dev)
          ELSE Matches(spec, op.graph[n].v) \/ spec.kind = "tag" \/ Compromise(n, dev) \/ Unmerged(n, dev)
      BY <2>1, <3>1, AnswersAll
    <3>3. CASE op.graph[n] = NoRoot
      BY <3>2, <3>3 DEF Satisfied
    <3>4. CASE op.graph[n] # NoRoot
      <4>1. op.graph[n].v # 0
        BY <2>1, <3>4 DEF Sound, SoundAt
      <4>2. links[m][n] = Entry(op.graph[n].v) /\ links[m][n].v = op.graph[n].v
        BY <2>2, <2>6, <4>1 DEF Target, ExternalTarget, Entry, NoTarget
      <4> QED
        BY <3>2, <3>4, <4>2 DEF Satisfied
    <3> QED
      BY <3>3, <3>4
  <2> QED
    BY <2>3, <2>4, <2>5, <2>6
<1> QED
  BY <1>1, InvHolds, PTL

=============================================================================
