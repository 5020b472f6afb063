------------------------------ MODULE Filters -------------------------------
(***************************************************************************)
(* The projects of a workspace that -r, --filter and --filter-prod select  *)
(* (snpm-core/src/operations/run/filters.rs).                              *)
(*                                                                         *)
(* A project is a record with a name, a directory, the names it depends on *)
(* in production (the domain of deps) and in development (dev).  A         *)
(* selector is a record: its base (kind and of: a name, the names that a   *)
(* glob matches, a path, or the files that git says have changed), and the *)
(* operators around it: below (a...), above (...a), bare (^), exclude (!)  *)
(* and prod (--filter-prod).                                               *)
(***************************************************************************)
EXTENDS Lists, FiniteSets

IsSelector(s) == {s.below, s.above, s.bare, s.exclude, s.prod} \subseteq BOOLEAN

\* Path::starts_with
Within(dir, path) == Len(dir) <= Len(path) /\ SubSeq(path, 1, Len(dir)) = dir

\* index_packages and build_dependency_graph: who depends on whom, by the names of
\* the projects
DependencyGraph(projects, prod) ==
    {e \in (DOMAIN projects) \X (DOMAIN projects) :
        projects[e[2]].name \in DOMAIN projects[e[1]].deps \cup (IF prod THEN {} ELSE projects[e[1]].dev)}

\* walk_dependencies and walk_dependents: what is reached in one step or more
Walk(edges, original) ==
    LET rounds == Cardinality({e[2] : e \in edges})
        result[n \in 0..rounds] ==
            IF n = 0 THEN {}
            ELSE result[n - 1] \cup {e[2] : e \in {e \in edges : e[1] \in original \cup result[n - 1]}}
    IN result[rounds]

\* selector_matches, and changed_since
SelectorMatches(s, project) ==
    CASE s.kind = "name" -> project.name = s.of
      [] s.kind = "glob" -> project.name \in s.of
      [] s.kind = "path" -> Within(s.of, project.dir)
      [] s.kind = "changed" -> \E f \in s.of : Within(project.dir, f)

\* expand_selector
ExpandSelector(projects, s) ==
    LET original == {k \in DOMAIN projects : SelectorMatches(s, projects[k])}
        down == DependencyGraph(projects, s.prod)
        up == {<<e[2], e[1]>> : e \in down}
    IN (original \cup (IF s.below THEN Walk(down, original) ELSE {})
                 \cup (IF s.above THEN Walk(up, original) ELSE {}))
           \ (IF s.bare THEN original ELSE {})

\* Mutated form of ApplySelectors: what is excluded comes back if a later selector
\* includes it.
ApplySelectorsInOrder(projects, selectors) ==
    {k \in DOMAIN projects :
        LET hits == {j \in DOMAIN selectors : k \in ExpandSelector(projects, selectors[j])} IN
        IF hits = {} THEN \A j \in DOMAIN selectors : selectors[j].exclude
        ELSE ~selectors[LastOf(hits)].exclude}

\* apply_selectors: without an inclusion all are included; exclusions come last
ApplySelectors(projects, selectors) ==
    LET of(exclude) == UNION {ExpandSelector(projects, selectors[j]) :
                                 j \in {j \in DOMAIN selectors : selectors[j].exclude = exclude}}
        included == IF \A j \in DOMAIN selectors : selectors[j].exclude THEN DOMAIN projects ELSE of(FALSE)
    IN included \ of(TRUE)

\* parse_selector: ^ is for the graph only
ParseFails(s) == s.bare /\ ~s.below /\ ~s.above

\* select_workspace_projects: in the order of the workspace; a filter that is refused and
\* one that selects nothing both end the command
SelectProjects(projects, selectors) ==
    LET selected == IF \E j \in DOMAIN selectors : ParseFails(selectors[j]) THEN {}
                    ELSE IF selectors = << >> THEN DOMAIN projects
                    ELSE ApplySelectors(projects, selectors)
    IN Chosen([k \in DOMAIN projects |-> k], selected)

=============================================================================
