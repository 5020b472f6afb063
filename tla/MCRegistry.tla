----------------------------- MODULE MCRegistry -----------------------------
(***************************************************************************)
(* Instance: the default registry and one of a company, the packages a and  *)
(* s (of scope @s) in up to three versions, and a workspace of the two.     *)
(***************************************************************************)
EXTENDS Registry, TLC

Scopes == [n \in {"a", "s", "t"} |-> IF n = "s" THEN "@s" ELSE NONE]

Look(n, mode) == [kind |-> "lookup", name |-> n, mode |-> mode, todo |-> << >>, filters |-> NONE]

On(kind, h, scope) == [kind |-> kind, host |-> h, scope |-> scope, legacy |-> FALSE, todo |-> << >>, filters |-> NONE]

Out(kind, dry, allow, todo) == [kind |-> kind, dry |-> dry, allow |-> allow, todo |-> todo, filters |-> NONE]

Plain(n) ==
    [name |-> n, version |-> 1, private |-> FALSE, list |-> NONE, main |-> <<"main.js">>, bins |-> {},
     deps |-> << >>, dev |-> {}, dir |-> <<n>>, to |-> NONE, policy |-> [maps |-> "external", deny |-> {}, allow |-> {}, maxFiles |-> NONE],
     ignore |-> << >>,
     files |-> (<<"package.json">> :> "plain") @@ (<<"main.js">> :> "plain") @@ (<<"README">> :> "plain")]

Rule(negated, dir, pattern) == [negated |-> negated, dir |-> dir, pattern |-> pattern]

Need(protocol, alias, range) == [protocol |-> protocol, alias |-> alias, range |-> range]

Tree ==
    (<<"package.json">> :> "plain") @@ (<<"README">> :> "plain") @@ (<<"main.js">> :> "plain")
        @@ (<<"lib", "x">> :> "plain") @@ (<<"lib", "y">> :> "map") @@ (<<"lib", "z", "x">> :> "test")
        @@ (<<"node_modules", "x">> :> "plain") @@ (<<"env">> :> "secret")

\* The rules of the root and of lib.
Ignores ==
    {(Root :> [npm |-> IF n THEN <<Rule(FALSE, FALSE, <<"env">>), Rule(FALSE, FALSE, <<"lib", "x">>)>> ELSE NONE,
               git |-> <<Rule(FALSE, FALSE, <<"env">>), Rule(FALSE, TRUE, <<"lib">>)>>])
        @@ (<<"lib">> :> [npm |-> NONE, git |-> <<Rule(~neg, FALSE, <<"x">>), Rule(neg, d, <<"z">>)>>]) :
        n \in BOOLEAN, neg \in BOOLEAN, d \in BOOLEAN}

Trees ==
    {[Plain("s") EXCEPT !.files = Tree, !.ignore = i, !.main = m, !.list = l] :
        i \in Ignores \cup {<< >>}, m \in {<<"main.js">>, <<"env">>},
        l \in {NONE, {<<"lib">>, <<"main.js">>}, {<<"lib", "z">>, <<"lib", "y">>}}}

\* What a needs of s.
Users ==
    {[Plain("a") EXCEPT !.deps = n :> d] :
        n \in {"s", "t"}, d \in {Need("workspace", NONE, "^"), Need("workspace", "s", "*"), Need("workspace", NONE, "5"),
                                  Need("catalog", NONE, ""), Need("", NONE, "1")}}

Simple == [Plain("s") EXCEPT !.policy.maxFiles = 9]

Workspaces ==
    {<<Plain("a"), t>> : t \in Trees}
        \cup {<<u, Simple>> : u \in Users}
        \cup {<<Plain("a"), [Simple EXCEPT !.private = TRUE]>>, <<Plain("a"), [Simple EXCEPT !.to = "npm"]>>,
              <<Plain("a"), [Simple EXCEPT !.policy.maps = "forbid", !.files = (<<"m">> :> "map") @@ @]>>,
              <<Plain("a"), [Simple EXCEPT !.policy.maxFiles = 2]>>,
              <<Plain("a"), [Simple EXCEPT !.files = (<<"m">> :> "embedded map") @@ (<<"b">> :> "broken map") @@ @,
                                          !.policy.allow = {"SOURCE_MAP_INVALID"}, !.policy.deny = {"test"}]>>}

InCatalog == "s" :> "7"

TokenLine(h, path, basic) == [kind |-> "token", host |-> h, path |-> path, basic |-> basic, value |-> 0]

RcsIn ==
    {NONE, <<TokenLine("corp", TRUE, FALSE), TokenLine("npm", FALSE, FALSE)>>,
     <<TokenLine("npm", FALSE, TRUE), [kind |-> "blank"], [kind |-> "default", basic |-> FALSE, value |-> 0]>>,
     <<[kind |-> "scope", scope |-> "@s", host |-> "corp"], [kind |-> "registry", host |-> "npm"],
       TokenLine("npm", FALSE, FALSE), TokenLine("corp", FALSE, TRUE)>>}

NoLines == << >>

NoEnv == [registry |-> NONE, token |-> NONE]

Versions(h, n, V) == [host |-> h, versions |-> V, full |-> FALSE]

Entry(n, stamp) == [package |-> Versions("npm", n, {0}), etag |-> Versions("npm", n, {0}), stamp |-> stamp]

Empty == [n \in {"a", "s", "t"} |-> NONE]

Cold == [now |-> Empty, legacy |-> Empty]

CachesIn ==
    {Cold,
     [now |-> [Empty EXCEPT !["a"] = Entry("a", 1)], legacy |-> [Empty EXCEPT !["s"] = Entry("s", 0)]]}

AtFirst == [h \in {"npm", "corp"} |-> [n \in {"a", "s", "t"} |-> IF h = "npm" THEN {0, 9} ELSE {}]]

Tarballs == [x \in {"a", "s", "t"} \X {1, 2} |-> IF x[2] = 1 THEN "1.tgz" ELSE "2.tgz"]

Release3(h, n) == [kind |-> "release", host |-> h, name |-> n, version |-> 3, todo |-> << >>, filters |-> NONE]

Bump1(k) == [kind |-> "bump", todo |-> <<k>>, filters |-> NONE]

Runs(p, q, r) == [x \in {"p", "q", "r"} |-> CASE x = "p" -> p [] x = "q" -> q [] x = "r" -> r]

World(cached, lines, workspace, runs) ==
    [cache |-> cached, rc |-> [exists |-> lines # NONE, lines |-> IF lines = NONE THEN << >> ELSE lines], server |-> AtFirst, workspace |-> workspace, script |-> runs]

Pair == <<Plain("a"), Simple>>

ToCorp == <<[kind |-> "scope", scope |-> "@s", host |-> "corp"]>>

\* Lookups of two processes while others publish.
Lookups ==
    {World(c, NONE, Pair,
           Runs(<<Look("s", "online"), Look("s", IF c = Cold THEN "online" ELSE "prefer")>>,
                <<Look("a", "online"), Look("a", IF c = Cold THEN "offline" ELSE "online")>>, <<Release3("npm", "a")>>)) :
        c \in CachesIn}
    \cup {World(c, ToCorp, Pair,
                Runs(<<Look("s", "prefer"), Look("s", "online")>>, <<Look("a", "offline")>>, <<Release3("corp", "s")>>)) :
             c \in CachesIn}

\* Two processes look up one name, which a third raises meanwhile.
Crossings ==
    {World([now |-> [Empty EXCEPT !["a"] = [package |-> Versions("npm", "a", {0, 9}),
                                           etag |-> Versions("npm", "a", {0, 9}), stamp |-> 1]],
            legacy |-> Empty], NONE, Pair,
           Runs(<<Look("a", "online"), Look("a", "online")>>, <<Look("a", "online")>>, <<Release3("npm", "a")>>))}

\* Logins and logouts, then a publish that needs them.
Sessions ==
    {World(Cold, r, Pair,
           Runs(<<On("login", h, "@s"), c, Out("publish", FALSE, {}, <<2>>)>>, << >>, << >>)) :
        r \in RcsIn, h \in {NONE, "corp"},
        c \in {On("login", NONE, NONE), [On("login", "npm", "@s") EXCEPT !.legacy = TRUE],
                On("logout", "corp", "@s"), On("logout", NONE, NONE)}}

\* What the user packs and publishes, with the credentials for npm.
Releases ==
    {World(Cold, <<TokenLine("npm", FALSE, FALSE)>>, w, Runs(s, << >>, << >>)) :
        w \in Workspaces,
        s \in {<<Out("pack", FALSE, {}, <<2>>), Bump1(2), Out("publish", FALSE, {}, <<1, 2>>)>>,
                <<Out("pack", TRUE, {}, <<1>>), Out("publish", FALSE, {"SECRET_FILE"}, <<2>>)>>,
                <<Out("publish", TRUE, {}, <<2>>), Out("publish", FALSE, {}, <<2, 1>>), Bump1(2),
                  Out("publish", FALSE, {}, <<2>>)>>}}

\* Three projects that depend on each other, in production or for development; t lies
\* in the directory of a.
Graphs3 ==
    {<<[Plain("a") EXCEPT !.deps = x, !.dev = y], [Plain("s") EXCEPT !.deps = z, !.dev = d],
       [Plain("t") EXCEPT !.deps = c, !.dir = <<"a", "t">>]>> :
        x \in {<< >>, "s" :> Need("workspace", NONE, "^")}, y \in {{}, {"s"}},
        z \in {<< >>, "t" :> Need("workspace", NONE, "^")}, d \in {{}, {"t"}},
        c \in {<< >>, "a" :> Need("workspace", NONE, "^")}}

Selector(kind, of) ==
    [kind |-> kind, of |-> of, below |-> FALSE, above |-> FALSE, bare |-> FALSE, exclude |-> FALSE, prod |-> FALSE]

Selectors ==
    {<<[Selector("name", "a") EXCEPT !.below = b, !.above = v, !.bare = e, !.prod = q]>> :
        b \in BOOLEAN, v \in BOOLEAN, e \in BOOLEAN, q \in BOOLEAN}
    \cup {<<[Selector("name", "t") EXCEPT !.exclude = TRUE, !.above = v], s>> :
             v \in BOOLEAN, s \in {Selector("glob", {"s", "t"}), Selector("path", <<"a">>),
                                     Selector("changed", {<<"a", "t", "x">>, <<"s">>})}}
    \cup {<< >>, <<[Selector("name", "s") EXCEPT !.exclude = TRUE, !.below = TRUE]>>}

Recursive ==
    {World(Cold, <<TokenLine("npm", FALSE, FALSE)>>, g,
           Runs(<<[Out("publish", TRUE, {}, << >>) EXCEPT !.filters = f]>>, << >>, << >>)) :
        g \in Graphs3, f \in Selectors}
    \cup {World(Cold, <<TokenLine("npm", FALSE, FALSE)>>, g,
                Runs(<<[Out("publish", FALSE, {}, << >>) EXCEPT !.filters = << >>]>>, << >>, << >>)) :
             g \in Graphs3}

WorldsIn == Lookups \cup Crossings \cup Sessions \cup Releases \cup Recursive

=============================================================================
