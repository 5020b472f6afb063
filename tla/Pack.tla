-------------------------------- MODULE Pack --------------------------------
(***************************************************************************)
(* What snpm pack puts into a tarball (snpm-core/src/operations/pack) and   *)
(* the manifest that goes with it (operations/publish/rewrite.rs).          *)
(*                                                                         *)
(* A project is a record: its manifest fields (name, version, private,     *)
(* list, main, bins, deps, to, policy), its files (a function from paths,  *)
(* sequences of names, to what is in them) and its ignore files (ignore,   *)
(* by directory, those of npm and of git).  Patterns are literal.          *)
(***************************************************************************)
EXTENDS Lists, FiniteSets

CONSTANTS
    NONE,      \* no such field, file or line
    Skipped,   \* names that are never packed (node_modules, .git, lockfiles)
    Mandatory  \* names that always are (README, LICENSE, CHANGELOG)

Root == << >>

Dir(path) == SubSeq(path, 1, Len(path) - 1)

Name(path) == path[Len(path)]

Below(dir, path) == Len(dir) < Len(path) /\ SubSeq(path, 1, Len(dir)) = dir

-----------------------------------------------------------------------------
(* Ignore rules                                                            *)

\* load_ignore_rules: .npmignore stands in for .gitignore
RulesIn(project, dir) ==
    IF dir \notin DOMAIN project.ignore THEN << >>
    ELSE LET both == project.ignore[dir]
             lines == IF both.npm # NONE THEN both.npm ELSE IF both.git # NONE THEN both.git ELSE << >>
         IN [k \in DOMAIN lines |-> [base |-> dir, negated |-> lines[k].negated, dir |-> lines[k].dir,
                                      pattern |-> lines[k].pattern]]

\* collect_rules_for_dir: from one directory down to another
RulesAlong(project, from, dir) ==
    LET down[n \in Len(from)..Len(dir)] ==
            IF n = Len(from) THEN RulesIn(project, from)
            ELSE down[n - 1] \o RulesIn(project, SubSeq(dir, 1, n))
    IN down[Len(dir)]

\* The rules that are not of the root.
Nested(rules) == Chosen(rules, {k \in DOMAIN rules : rules[k].base # Root})

\* rule_matches_path: a rule without a slash is about any component
RuleMatchesPath(rule, path) ==
    /\ Below(rule.base, path)
    /\ LET rest == SubSeq(path, Len(rule.base) + 1, Len(path)) IN
       IF Len(rule.pattern) = 1 THEN \E k \in DOMAIN rest : rest[k] = rule.pattern[1]
       ELSE rest = rule.pattern

\* rule_matches for a file: a directory rule is about the directories above it
RuleMatches(rule, file) ==
    IF rule.dir THEN \E k \in 1..(Len(file) - 1) : RuleMatchesPath(rule, SubSeq(file, 1, k))
    ELSE RuleMatchesPath(rule, file)

\* Mutated form of IsIgnored: the first rule that matches counts.
IsIgnoredFirst(file, rules) ==
    LET hits == {k \in DOMAIN rules : RuleMatches(rules[k], file)} IN
    hits # {} /\ ~rules[FirstOf(hits)].negated

\* is_ignored: the last rule that matches counts
IsIgnored(file, rules) ==
    LET hits == {k \in DOMAIN rules : RuleMatches(rules[k], file)} IN
    hits # {} /\ ~rules[LastOf(hits)].negated

\* should_skip_path looks at the name only.
ShouldSkip(path) == Name(path) \in Skipped

-----------------------------------------------------------------------------
(* The files                                                               *)

\* collect_dir_recursive: nothing below what is skipped; the rules of the
\* directories from the one that is walked, and those of the root only if it is
\* the whole project that is walked
CollectDir(project, dir, honor) ==
    {f \in DOMAIN project.files :
        /\ Below(dir, f)
        /\ \A k \in (Len(dir) + 1)..Len(f) : ~ShouldSkip(SubSeq(f, 1, k))
        /\ LET rules == RulesAlong(project, dir, Dir(f))
           IN ~IsIgnored(f, IF dir = Root /\ ~honor THEN Nested(rules) ELSE rules)}

\* add_pattern_match and should_include_file_from_root
PatternFiles(project, path) ==
    IF path \in DOMAIN project.files
    THEN {f \in {path} : ~ShouldSkip(f)
             /\ ~IsIgnored(f, Nested(RulesAlong(project, Root, Dir(f))))}
    ELSE CollectDir(project, path, FALSE)

\* collect_manifest_files
ManifestFiles(project) == UNION {PatternFiles(project, path) : path \in project.list}

\* collect_default_files
DefaultFiles(project) == CollectDir(project, Root, TRUE)

\* add_mandatory_files
MandatoryFiles(project) == {f \in DOMAIN project.files : Len(f) = 1 /\ f[1] \in Mandatory}

\* add_main_entry and add_bin_entries
EntryFiles(project) == ({project.main} \cup project.bins) \cap DOMAIN project.files

\* collect_pack_files
CollectPackFiles(project) ==
    {<<"package.json">>}
        \cup (IF project.list # NONE THEN ManifestFiles(project) ELSE DefaultFiles(project))
        \cup MandatoryFiles(project) \cup EntryFiles(project)

-----------------------------------------------------------------------------
(* Findings                                                                *)

\* audit_source_map: the finding and whether it blocks
AuditSourceMap(what, policy) ==
    IF policy.maps = "forbid" THEN [code |-> "SOURCE_MAP_PRESENT", blocks |-> TRUE]
    ELSE CASE what = "broken map" -> [code |-> "SOURCE_MAP_INVALID", blocks |-> TRUE]
           [] what = "embedded map" -> [code |-> "EMBEDDED_SOURCE_MAP", blocks |-> TRUE]
           [] OTHER -> [code |-> "SOURCE_MAP_PRESENT", blocks |-> FALSE]

\* What is found in a file.
FileFindings(what, policy) ==
    {[code |-> "DENY_PATTERN_MATCH", blocks |-> TRUE] : x \in {what} \cap policy.deny}
        \cup {[code |-> "SECRET_FILE", blocks |-> TRUE] : x \in {what} \cap {"secret"}}
        \cup {AuditSourceMap(what, policy) : x \in {what} \cap {"map", "broken map", "embedded map"}}
        \cup {[code |-> "NON_RUNTIME_FILE", blocks |-> FALSE] : x \in {what} \cap {"test"}}

\* Mutated form of AuditPack: what main and bin name is not looked at.
AuditPackListed(project, files) ==
    UNION {FileFindings(project.files[f], project.policy) : f \in files \ EntryFiles(project)}

\* audit_pack
AuditPack(project, files) ==
    UNION {FileFindings(project.files[f], project.policy) : f \in files}
        \cup {[code |-> "MAX_FILES_EXCEEDED", blocks |-> TRUE] :
                 x \in {n \in {Cardinality(files)} : project.policy.maxFiles # NONE /\ n > project.policy.maxFiles}}

\* allowed_risks
AllowedRisks(project, allow) == project.policy.allow \cup allow

\* validate_publish
Blocked(project, files, allow) ==
    {x.code : x \in {x \in AuditPack(project, files) : x.blocks}} \ AllowedRisks(project, allow)

-----------------------------------------------------------------------------
(* The manifest in the tarball and in the payload                          *)

\* concrete_range: the shorthands take the version of the sibling, and so does none
ConcreteRange(range, version) ==
    CASE range \in {"", "*"} -> <<"=", version>>
      [] range \in {"^", "~"} -> <<range, version>>
      [] OTHER -> range

\* sibling_version
SiblingVersion(members, name) ==
    LET found == {k \in DOMAIN members : members[k].name = name} IN
    IF found = {} THEN NONE ELSE members[FirstOf(found)].version

\* rewrite_spec; NONE is an error
RewriteSpec(members, catalog, name, spec) ==
    CASE spec.protocol = "workspace" ->
            LET of == IF spec.alias # NONE THEN spec.alias ELSE name
                version == SiblingVersion(members, of)
                needed == spec.range \in {"", "*", "^", "~"}
            IN IF needed /\ version = NONE THEN NONE
               ELSE [spec EXCEPT !.protocol = IF spec.alias # NONE THEN "npm" ELSE "",
                                 !.range = ConcreteRange(spec.range, version)]
      [] spec.protocol = "catalog" ->
            IF name \notin DOMAIN catalog THEN NONE
            ELSE [spec EXCEPT !.protocol = "", !.range = catalog[name]]
      [] OTHER -> spec

\* Mutated form of RewritePublished: the npm: of an alias is left off.
RewritePublishedPlain(members, catalog, deps) ==
    LET Bare(r) == IF r = NONE THEN NONE ELSE [r EXCEPT !.protocol = ""]
        new == [n \in DOMAIN deps |-> Bare(RewriteSpec(members, catalog, n, deps[n]))]
    IN IF \E n \in DOMAIN deps : new[n] = NONE THEN NONE ELSE new

\* rewrite_published_manifest, in all sections
RewritePublished(members, catalog, deps) ==
    LET new == [n \in DOMAIN deps |-> RewriteSpec(members, catalog, n, deps[n])] IN
    IF \E n \in DOMAIN deps : new[n] = NONE THEN NONE ELSE new

=============================================================================
