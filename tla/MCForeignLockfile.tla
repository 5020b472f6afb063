-------------------------- MODULE MCForeignLockfile --------------------------
(***************************************************************************)
(* Instance: packages a and b in versions 1 and 2, in trees with one level *)
(* of nesting, in workspaces of two members, with peers, and with aliases. *)
(***************************************************************************)
EXTENDS Queries

None == << >>

\* What a package declares on another: nothing, a need or an optional one.
Declares(d) == {[need |-> None, maybe |-> None],
                [need |-> d :> 1, maybe |-> None],
                [need |-> None, maybe |-> d :> 1]}

Two(A, B) == {[need |-> x.need @@ y.need, maybe |-> x.maybe @@ y.maybe] : x \in A, y \in B}

Keys == {"a", "b"} \X {1, 2}

\* The manifests of the four packages.
Manifests ==
    {m \in [Keys -> Declares("a") \cup Declares("b")] :
        \A k \in Keys : m[k] \in Declares(IF k[1] = "a" THEN "b" ELSE "a")}

Paths == {<<"a">>, <<"b">>, <<"a", "b">>, <<"b", "a">>}

\* Which versions lie where; what is nested lies below something.
Layouts ==
    {l \in UNION {[S -> {1, 2}] : S \in SUBSET Paths} :
        \A p \in DOMAIN l : Len(p) = 2 => <<p[1]>> \in DOMAIN l}

Plain == [name |-> NONE, link |-> NONE, folder |-> FALSE, workspaces |-> FALSE]

Roots == Two(Declares("a"), Declares("b"))

NpmTrees ==
    {[p \in DOMAIN l \cup {Empty} |->
        IF p = Empty THEN [version |-> NONE] @@ r @@ Plain
        ELSE [version |-> l[p]] @@ m[<<p[Len(p)], l[p]>>] @@ Plain] :
        l \in Layouts, m \in {m \in Manifests : m[<<"a", 2>>].maybe = None /\ m[<<"b", 2>>].need = None},
        r \in {r \in Roots : "a" \in DOMAIN r.need}}

\* Two folders that depend on a and on each other, members of a workspace or
\* linked; what they link to may be missing.
Folder(b, ws) == [name |-> NONE, version |-> 1, link |-> NONE, folder |-> TRUE, workspaces |-> FALSE] @@ b

Link(to) == [version |-> NONE, need |-> None, maybe |-> None, name |-> NONE,
             link |-> to, folder |-> FALSE, workspaces |-> FALSE]

Member(n, v) == {[need |-> x.need @@ y.need, maybe |-> x.maybe @@ y.maybe] :
                    x \in {[need |-> "a" :> v, maybe |-> None], [need |-> None, maybe |-> "a" :> v]},
                    y \in Declares(n)}

FolderTrees ==
    {(Empty :> ([version |-> NONE, need |-> "m" :> 1, maybe |-> None] @@ [Plain EXCEPT !.workspaces = ws]))
        @@ (<<"/m">> :> Folder(x, ws)) @@ (<<"/n">> :> Folder(y, ws))
        @@ (<<"m">> :> Link(<<"/m">>)) @@ (<<"n">> :> Link(to))
        @@ [p \in top |-> [version |-> 1, need |-> None, maybe |-> None] @@ Plain] :
        ws \in BOOLEAN, x \in Member("n", 1), y \in Member("m", 1) \cup Member("m", 2),
        to \in {<<"/n">>, <<"/m">>, <<"/gone">>}, top \in SUBSET {<<"a">>, <<"/n", "a">>}}

\* Version 1 nests and lists what is required; the manifest may be missing.
NestedTrees ==
    {[format |-> "npm1", manifest |-> r,
      nested |-> [p \in DOMAIN l |->
          [version |-> l[p], optional |-> o /\ p = <<"b">>, requires |-> m[<<p[Len(p)], l[p]>>].need]]] :
        l \in Layouts, o \in BOOLEAN, r \in {NONE} \cup Roots,
        m \in {m \in Manifests : \A k \in Keys : m[k].maybe = None}}

BunFiles ==
    {[format |-> "bun", members |-> {"m", "n"},
      packages |-> [p \in DOMAIN l |-> [key |-> <<p[Len(p)], l[p]>>] @@ m[<<p[Len(p)], l[p]>>]],
      workspaces |-> (Empty :> r) @@ (<<"m">> :> x)] :
        l \in {l \in Layouts : <<"a">> \in DOMAIN l},
        m \in {m \in Manifests : m[<<"a", 2>>].maybe = None /\ m[<<"b", 2>>] = m[<<"b", 1>>]},
        r \in {r \in Roots : "a" \in DOMAIN r.need}, x \in Two(Declares("a"), {[need |-> "n" :> 1, maybe |-> None]})}

\* a has b as a peer and may be there once for each version of it.
Ref(n, v) == [name |-> n, version |-> v]

Shot(n, v, peers) == [name |-> n, version |-> v, peers |-> peers]

PnpmFiles ==
    {[format |-> "pnpm", packages |-> Keys,
      importers |-> [i \in w |-> IF i = 1 THEN x ELSE y],
      snapshots |-> [s \in shots |->
          IF s.name = "b" THEN [need |-> None, maybe |-> None]
          ELSE [need |-> "b" :> Ref(NONE, s.peers), maybe |-> None]]] :
        w \in SUBSET {1, 2},
        x \in {[need |-> "a" :> [range |-> <<1, NONE>>, ref |-> Ref(NONE, 1)], maybe |-> None]},
        y \in {[need |-> None, maybe |-> n :> [range |-> <<r, of>>, ref |-> Ref(of, v)]] :
                  n \in {"a", "c"}, r \in {1, 2}, of \in {NONE, "a", "b"}, v \in {1, 2}},
        shots \in SUBSET ({Shot("a", 1, 1), Shot("a", 1, 2), Shot("b", 1, NONE), Shot("b", 2, NONE)})}

\* c is an alias of b.
Range(r, of, npm) == [range |-> r, of |-> of, npm |-> npm]

YarnFiles ==
    {[format |-> "yarn", berry |-> berry, need |-> "a" :> Range(1, NONE, FALSE),
      maybe |-> d :> Range(r, IF d = "c" THEN "b" ELSE NONE, berry /\ d = "c"),
      blocks |-> << [workspace |-> berry /\ ws, supported |-> TRUE, key |-> <<"w", 0>>, deps |-> None,
                     specs |-> IF berry /\ ws THEN {} ELSE {SpecOf("w", Range(1, NONE, berry))}],
                    [workspace |-> FALSE, supported |-> TRUE, key |-> <<"a", 1>>,
                     specs |-> {SpecOf("a", Range(k, NONE, berry)) : k \in A},
                     deps |-> "b" :> Range(2, NONE, FALSE)],
                    [workspace |-> FALSE, supported |-> ok, key |-> <<"b", 1>>, deps |-> None,
                     specs |-> {SpecOf("b", Range(k, NONE, berry)) : k \in B}
                               \cup {SpecOf("c", Range(k, "b", berry)) : k \in B}] >>] :
        berry \in BOOLEAN, d \in {"b", "c"}, r \in {1, 2}, A, B \in {{1}, {2}, {1, 2}},
        ws \in BOOLEAN, ok \in BOOLEAN}

\* Several lockfiles may lie side by side.
Directories ==
    {"npm" :> [format |-> "npm", tree |-> t] : t \in NpmTrees \cup FolderTrees}
    \cup {"shrinkwrap" :> f : f \in NestedTrees}
    \cup {"bun" :> f : f \in BunFiles}
    \cup {"pnpm" :> f : f \in PnpmFiles}
    \cup {("yarn" :> f) @@ ("npm" :> [format |-> "npm", tree |-> Empty :> Plain]) : f \in YarnFiles}

\* Advisories about a and b, by the intervals of versions that they are about.
From(low, high, closed) == [low |-> low, high |-> high, closed |-> closed]

Advisories ==
    {[id |-> 1, module |-> "a", severity |-> 1, ranges |-> << From(0, 2, FALSE) >>],
     [id |-> 2, module |-> "b", severity |-> 2, ranges |-> << From(1, NONE, FALSE), From(2, 2, TRUE) >>],
     [id |-> 3, module |-> "b", severity |-> 1, ranges |-> << From(2, NONE, FALSE) >>]}

Audits(kind, dev, scope, level, fixable) ==
    {[kind |-> kind, dev |-> d, scope |-> s, packages |-> p, level |-> l, ignore |-> i, fixable |-> f] :
        d \in dev, s \in scope, p \in {{}, {"b"}}, l \in level, i \in {{}, {1}}, f \in fixable}

Questions ==
    {[kind |-> "why", name |-> n, depth |-> d] : n \in {"a", "*"}, d \in {NONE, 1, 2}}
    \cup Audits("audit", {{}, {"a"}}, {"all", "prod", "dev"}, {NONE, 2}, {FALSE})
    \cup Audits("fix", {{"a"}}, {"all"}, {NONE}, BOOLEAN)

=============================================================================
