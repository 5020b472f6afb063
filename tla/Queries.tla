------------------------------ MODULE Queries ------------------------------
(***************************************************************************)
(* The commands that ask about a lockfile: snpm why                        *)
(* (operations/why) walks from a package up to what depends on it, snpm    *)
(* audit (operations/audit) from the dependencies of the root down to what *)
(* the registry knows to be vulnerable.  They are composed with the import *)
(* of ForeignLockfile: what is asked about is what an install made of the  *)
(* lockfile of another package manager.                                    *)
(*                                                                         *)
(* Versions are numbers.  An advisory has the intervals of versions that   *)
(* are vulnerable, from low to high.                                       *)
(***************************************************************************)
EXTENDS ForeignLockfile, TLC

CONSTANTS
    Question,   \* what may be asked: commands with their options
    Advisory,   \* what the registry knows
    MaxPaths    \* MAX_PATHS_PER_FINDING

VARIABLES
    lock,     \* snpm-lock.yaml, or NONE
    asked,    \* the question
    report    \* the answer to it

allVars == <<importVars, lock, asked, report>>

Packages == DOMAIN lock.packages

-----------------------------------------------------------------------------
(* why                                                                     *)

\* Mutated form of Parents: one dependent is kept for each package.
ParentsOne(key) ==
    LET all == {[parent |-> p, via |-> d] : p \in Packages, d \in UNION {DOMAIN lock.packages[q] : q \in Packages}}
        these == {x \in all : x.via \in DOMAIN lock.packages[x.parent] /\ lock.packages[x.parent][x.via] = key}
    IN IF these = {} THEN {} ELSE {CHOOSE x \in these : TRUE}

\* build_reverse_index: who depends on a package, and under which name
Parents(key) ==
    LET all == {[parent |-> p, via |-> d] : p \in Packages, d \in UNION {DOMAIN lock.packages[q] : q \in Packages}}
    IN {x \in all : x.via \in DOMAIN lock.packages[x.parent] /\ lock.packages[x.parent][x.via] = key}

RootParents(key) == {n \in DOMAIN lock.root : lock.root[n].key = key}

Path(hops, root, truncated) == [hops |-> hops, root |-> root, truncated |-> truncated]

\* emit_truncated_or_root_paths
EmitTruncated(key, hops) ==
    IF RootParents(key) = {} THEN {Path(hops, NONE, TRUE)}
    ELSE {Path(hops, n, FALSE) : n \in RootParents(key)}

\* walk_paths: no package twice on the way
RECURSIVE WalkPaths(_, _, _, _)
WalkPaths(current, max, visited, hops) ==
    LET parents == {x \in Parents(current) : x.parent \notin visited}
        up(x) == IF max # NONE /\ Len(hops) + 1 >= max THEN EmitTruncated(x.parent, Append(hops, x))
                 ELSE WalkPaths(x.parent, max, visited \cup {x.parent}, Append(hops, x))
    IN IF RootParents(current) = {} /\ parents = {} THEN {Path(hops, NONE, FALSE)}
       ELSE {Path(hops, n, FALSE) : n \in RootParents(current)} \cup UNION {up(x) : x \in parents}

\* load_why_context and build_match, for a name or for all
Why(q) ==
    [k \in {k \in Packages : q.name \in {k[1], "*"}} |-> WalkPaths(k, q.depth, {k}, << >>)]

-----------------------------------------------------------------------------
(* audit                                                                   *)

\* walk_package: what lies below a package, with the labels on the way
RECURSIVE WalkPackage(_, _, _)
WalkPackage(key, trail, inTrail) ==
    IF key \notin Packages \ inTrail THEN {}
    ELSE {[key |-> key, path |-> trail]}
             \cup UNION {WalkPackage(lock.packages[key][d], Append(trail, d), inTrail \cup {key}) :
                            d \in DOMAIN lock.packages[key]}

\* The dependencies of the root that an audit begins with.
AuditedRoots(q) ==
    {n \in DOMAIN lock.root :
        /\ q.scope = "prod" => n \notin q.dev
        /\ q.scope = "dev" => n \in q.dev
        /\ lock.root[n].key # NONE}

\* walk_audited_packages
AuditedPackages(q) ==
    UNION {{[dev |-> n \in q.dev, optional |-> lock.root[n].optional] @@ x :
               x \in WalkPackage(lock.root[n].key, <<n>>, {})} : n \in AuditedRoots(q)}

\* build_audit_request: the names and versions that the registry is asked about
AuditRequest(q) == {x.key : x \in {x \in AuditedPackages(q) : q.packages = {} \/ x.key[1] \in q.packages}}

\* Mutated form of PathInfo: one way that is only for development is enough.
PathInfoAny(visits, key) ==
    LET these == {x \in visits : x.key = key}
        paths == {x.path : x \in these}
    IN [dev |-> \E x \in these : x.dev, optional |-> \A x \in these : x.optional,
        paths |-> CHOOSE S \in SUBSET paths : Cardinality(S) = IF Cardinality(paths) > MaxPaths THEN MaxPaths ELSE Cardinality(paths)]

\* build_audit_path_index: only some of the paths are kept, but dev and optional are of all
PathInfo(visits, key) ==
    LET these == {x \in visits : x.key = key}
        paths == {x.path : x \in these}
    IN [dev |-> \A x \in these : x.dev, optional |-> \A x \in these : x.optional,
        paths |-> CHOOSE S \in SUBSET paths : Cardinality(S) = IF Cardinality(paths) > MaxPaths THEN MaxPaths ELSE Cardinality(paths)]

\* RangeSet::matches on the vulnerable versions
Vulnerable(a, version) ==
    \E k \in DOMAIN a.ranges :
        LET r == a.ranges[k] IN
        /\ version >= r.low
        /\ IF r.high = NONE THEN version = r.low ELSE IF r.closed THEN version <= r.high ELSE version < r.high

\* The registry answers with what it knows about the packages that it was asked about.
BulkResponse(request) ==
    {a \in Advisory : \E k \in request : k[1] = a.module /\ Vulnerable(a, k[2])}

\* Mutated form of InferPatched: the end of a closed interval is taken for patched.
InferPatchedOpen(a) ==
    LET ends == {k \in DOMAIN a.ranges : a.ranges[k].high # NONE} IN
    IF ends = {} THEN NONE ELSE a.ranges[CHOOSE k \in ends : \A j \in ends : j <= k].high

\* infer_patched_versions: what comes after the last upper end, if there is one
InferPatched(a) ==
    LET ends == {k \in DOMAIN a.ranges : a.ranges[k].high # NONE}
        last == a.ranges[CHOOSE k \in ends : \A j \in ends : j <= k]
    IN IF ends = {} THEN NONE ELSE IF last.closed THEN last.high + 1 ELSE last.high

\* filter_advisories
MatchesOptions(a, q) ==
    /\ q.level # NONE => a.severity >= q.level
    /\ a.id \notin q.ignore
    /\ q.fixable => InferPatched(a) # NONE
    /\ q.packages = {} \/ a.module \in q.packages

\* build_audit_advisories and build_findings: the packages that an advisory is about
Findings(a, visits) ==
    [k \in {x.key : x \in {x \in visits : x.key[1] = a.module /\ Vulnerable(a, x.key[2])}} |-> PathInfo(visits, k)]

\* audit_lockfile
Audit(q) ==
    LET visits == AuditedPackages(q) IN
    {[id |-> a.id, patched |-> InferPatched(a), findings |-> Findings(a, visits)] :
        a \in {a \in BulkResponse(AuditRequest(q)) : MatchesOptions(a, q)}}

\* fix: what should be updated to what
Fix(q) ==
    UNION {{[id |-> x.id, key |-> k, to |-> x.patched] : k \in DOMAIN x.findings} : x \in Audit(q)}

-----------------------------------------------------------------------------
(* The commands                                                            *)

\* An install writes what it imported to snpm-lock.yaml, and the other lockfile is not
\* looked at any more.
Adopt ==
    /\ Imported
    /\ lock' = answer /\ answer' = Unread /\ found' = NONE
    /\ UNCHANGED <<asked, report>>

Ask ==
    /\ lock # NONE /\ report = NONE
    /\ \E q \in Question :
           /\ asked' = q
           /\ \/ q.kind = "why" /\ report' = Why(q)
              \/ q.kind = "audit" /\ report' = Audit(q)
              \/ q.kind = "fix" /\ report' = Fix(q)
    /\ UNCHANGED <<importVars, lock>>

QueryInit == ImportInit /\ lock = NONE /\ asked = NONE /\ report = NONE

QueryNext ==
    \/ found # NONE /\ Import /\ UNCHANGED <<lock, asked, report>>
    \/ Adopt
    \/ Ask

QuerySpec == QueryInit /\ [][QueryNext]_allVars

-----------------------------------------------------------------------------
(* Properties                                                              *)

\* The ways from a package up to a dependency of the root that meet no package
\* twice: the packages above it, and the name in the root.
Chains(key) ==
    {c \in (UNION {[1..n -> Packages \ {key}] : n \in 0..(Cardinality(Packages) - 1)}) \X DOMAIN lock.root :
        LET up == c[1]
            at(k) == IF k = 0 THEN key ELSE up[k]
        IN /\ \A j, k \in DOMAIN up : up[j] = up[k] => j = k
           /\ \A k \in DOMAIN up : \E d \in DOMAIN lock.packages[up[k]] : lock.packages[up[k]][d] = at(k - 1)
           /\ lock.root[c[2]].key = at(Len(up))}

Up(path) == [k \in DOMAIN path.hops |-> path.hops[k].parent]

\* snpm why tells all the ways in which a package came in, and no others: every
\* path that ends in the root is one, none is missing, and with --depth one that is
\* longer is shown cut off there, unless the package at the cut is itself a
\* dependency of the root (walk_paths, emit_truncated_or_root_paths).
WhyAll ==
    report # NONE /\ asked.kind = "why" =>
        \A key \in DOMAIN report :
            LET ways == {<<Up(p), p.root>> : p \in {p \in report[key] : p.root # NONE}}
                cut == {Up(p) : p \in {p \in report[key] : p.truncated}}
            IN /\ ways \subseteq Chains(key)
               /\ \A c \in Chains(key) \ ways :
                      /\ asked.depth # NONE /\ Len(c[1]) > asked.depth
                      /\ \/ SubSeq(c[1], 1, asked.depth) \in cut
                         \/ RootParents(c[1][asked.depth]) # {}
               /\ (\E p \in report[key] : p.root = NONE /\ ~p.truncated /\ p.hops = << >>) => Chains(key) = {}

\* What is in every set that has the given packages and the dependencies of each
\* of its own.
Below(keys) ==
    {k \in Packages : \A S \in SUBSET Packages :
        (/\ keys \cap Packages \subseteq S
         /\ \A p \in S : \A d \in DOMAIN lock.packages[p] : lock.packages[p][d] \in S \cup {NONE}) => k \in S}

FromRoots(names) == Below({lock.root[n].key : n \in names})

\* snpm audit reports a vulnerability exactly if it passes the options and a package
\* that has it is needed by a dependency that is audited, and calls it one of
\* development (or optional) exactly if nothing in production (or required) needs it,
\* whichever way was walked first (walk_audited_packages, build_audit_path_index).
AuditExact ==
    report # NONE /\ asked.kind = "audit" =>
        LET roots == AuditedRoots(asked) IN
        \A a \in Advisory : \A k \in Packages :
            LET found_ == {x \in report : x.id = a.id /\ k \in DOMAIN x.findings} IN
            /\ found_ # {} <=> /\ MatchesOptions(a, asked) /\ k[1] = a.module /\ Vulnerable(a, k[2])
                               /\ k \in FromRoots(roots)
            /\ \A x \in found_ :
                   /\ x.findings[k].dev <=> k \notin FromRoots(roots \ asked.dev)
                   /\ x.findings[k].optional <=> k \notin FromRoots({n \in roots : ~lock.root[n].optional})
                   /\ x.findings[k].paths # {}

\* A version that an audit proposes is vulnerable to none of what it is proposed for,
\* and neither is any later one (infer_patched_versions, fix).
FixHelps ==
    report # NONE /\ asked.kind = "fix" =>
        \A x \in report : \A a \in Advisory :
            x.id = a.id /\ x.to # NONE => x.to > x.key[2] /\ \A v \in x.to..(x.to + 5) : ~Vulnerable(a, v)

\* What snpm audit says of the graph is right, and what it proposes as a fix helps (audit,
\* fix).
AuditRight == AuditExact /\ FixHelps

=============================================================================
