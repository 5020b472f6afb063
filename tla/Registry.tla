------------------------------ MODULE Registry ------------------------------
(***************************************************************************)
(* The commands that talk to a registry: lookups of metadata through the   *)
(* cache on disk (cache/metadata, protocols/npm/fetch, http.rs), login and *)
(* logout (operations/auth, snpm-cli/src/commands/login), the registry and *)
(* the credentials that a request gets (config), pack and publish          *)
(* (operations/pack, operations/publish, snpm-cli/src/commands).  The      *)
(* processes share the cache, the rc file of the user and the directories  *)
(* of the workspace.  Between two steps of a process the others run, an    *)
(* answer may be lost, and a process may be killed.                        *)
(*                                                                         *)
(* A packument is the set of versions of a name at a host, in the full     *)
(* form or in the abbreviated one, which has no times.  An ETag stands for *)
(* what it was sent with.  Clock counts days.                              *)
(***************************************************************************)
EXTENDS Pack, Filters

CONSTANTS
    Process,         \* the processes
    Host, Npm,       \* registries, and the one that is the default
    PkgName, ScopeOf, \* package names and the scope of each, or NONE
    Worlds,          \* what there may be at first (cache, rc file, registries and
                     \* workspace), with the commands that each process will run
    Catalog,         \* the catalog of the workspace
    ProjectRc,       \* the lines of the rc file of the project
    Env,             \* settings of the environment: registry, token
    Tarball,         \* the file name of the tarball of each version
    AgeLimit,        \* min_package_age_days is set
    MaxAge,          \* min_package_cache_age_days
    Retries,         \* retries of RetryPolicy::metadata
    MaxClock, MaxLost, MaxKills, MaxPolls, MaxOtp   \* bounds

IsSeq(s) == s \in Seq({s[k] : k \in DOMAIN s})

\* A line of an rc file: a line with credentials is for a host, and is _auth or a token.
IsLine(l) ==
    /\ l.kind \in {"token", "scope", "registry"} => l.host \in Host
    /\ l.kind = "token" => l.basic \in BOOLEAN

IsRc(lines) == IsSeq(lines) /\ \A k \in DOMAIN lines : IsLine(lines[k])

\* What the registry answers for a name that it has.
IsPackument(x) == x.host \in Host /\ x.versions # {} /\ x.full \in BOOLEAN

\* A record of the cache that an earlier version of snpm left: the headers are those that the
\* packument came with.
IsRecord(r) ==
    /\ IsPackument(r.package) /\ r.stamp \in Nat
    /\ r.etag = NONE \/ (IsPackument(r.etag) /\ r.package = r.etag)

\* The files of a project, by their paths.
IsTree(files) ==
    files = [f \in DOMAIN files |-> files[f]] /\ \A f \in DOMAIN files : IsSeq(f) /\ f # << >>

\* What a project needs.
IsNeeds(deps) ==
    \A n \in DOMAIN deps :
        /\ deps[n] \in [protocol : {deps[n].protocol}, alias : {deps[n].alias}, range : {deps[n].range}]
        /\ deps[n].protocol \in {"", "npm", "workspace", "catalog"}

IsIgnore(ignore) ==
    \A d \in DOMAIN ignore : \A lines \in {ignore[d].npm, ignore[d].git} : lines # NONE => IsSeq(lines)

IsProject(x) ==
    /\ x \in [name : PkgName, version : Nat \ {0}, private : BOOLEAN, list : {x.list}, main : {x.main}, bins : {x.bins},
               deps : {x.deps}, dev : {x.dev}, dir : {x.dir}, to : Host \cup {NONE}, policy : {x.policy},
               ignore : {x.ignore}, files : {x.files}]
    /\ IsTree(x.files) /\ IsNeeds(x.deps) /\ IsIgnore(x.ignore)

\* A command is about projects of the workspace, about names or about hosts.
IsCommand(cmd, projects) ==
    /\ cmd.kind \in {"lookup", "login", "logout", "pack", "publish", "release", "bump"}
    /\ cmd # NONE /\ cmd.todo \in Seq(projects)
    /\ cmd.filters # NONE => /\ cmd.kind \in {"pack", "publish"} /\ IsSeq(cmd.filters)
                             /\ \A j \in DOMAIN cmd.filters : IsSelector(cmd.filters[j])
    /\ cmd.kind \in {"pack", "publish", "bump"} /\ cmd.filters = NONE => cmd.todo # << >>
    /\ cmd.kind \in {"login", "logout"} => cmd.host \in Host \cup {NONE}
    /\ cmd.kind \in {"lookup", "release"} => cmd.name \in PkgName
    /\ cmd.kind = "release" => cmd.host \in Host

IsWorld(w) ==
    /\ w.cache \in [now : {w.cache.now}, legacy : {w.cache.legacy}]
    /\ w.cache.now = [n \in PkgName |-> w.cache.now[n]]
    /\ \A n \in PkgName : \A r \in {w.cache.now[n], w.cache.legacy[n]} : r = NONE \/ IsRecord(r)
    /\ w.rc \in [exists : BOOLEAN, lines : {w.rc.lines}] /\ IsRc(w.rc.lines)
    /\ w.server = [h \in Host |-> [n \in PkgName |-> w.server[h][n]]]
    /\ IsSeq(w.workspace)
    /\ \A k \in DOMAIN w.workspace : /\ IsProject(w.workspace[k])
                                     /\ \A f \in DOMAIN w.workspace[k].files : w.workspace[k].files[f] # "tarball"
    /\ w.script = [p \in Process |-> w.script[p]]
    /\ \A p \in Process : /\ IsSeq(w.script[p])
                           /\ \A j \in DOMAIN w.script[p] : IsCommand(w.script[p][j], DOMAIN w.workspace)

ASSUME RegistryAssumption ==
    /\ Npm \in Host /\ Env.registry \in Host \cup {NONE}
    /\ NONE \notin Nat /\ NONE \notin Host
    /\ AgeLimit \in BOOLEAN /\ MaxAge \in Nat \cup {NONE}
    /\ IsRc(ProjectRc)
    /\ \A w \in Worlds : IsWorld(w)

VARIABLES
    proc,      \* what each process is doing
    script,    \* the commands that each process has yet to run
    shard,     \* the shard of the metadata cache on disk
    rc,        \* the lines of ~/.snpmrc
    server,    \* the versions at each host
    history,   \* the versions that each host had, by day
    uploads,   \* what snpm has published, and where
    disk,      \* the projects of the workspace, with their files
    tokens,    \* the token that the last login or logout left at each host
    crossed,   \* names whose record was replaced beside a lookup of them
    clock, commands, lost, kills

vars == <<proc, script, shard, rc, server, history, uploads, disk, tokens, crossed, clock, commands, lost, kills>>

cache == <<shard, crossed>>

world == <<script, rc, server, history, uploads, disk, tokens, clock, commands, kills>>

Idle ==
    [at |-> "Idle", cmd |-> NONE, lines |-> << >>, result |-> NONE, attempt |-> 0, otps |-> 0,
     etag |-> NONE, served |-> NONE, package |-> NONE, keeps |-> FALSE, copy |-> NONE,
     todo |-> << >>, selected |-> << >>, bound |-> NONE]

ToStep(p, step) == proc' = [proc EXCEPT ![p].at = step]

EndWith(p, result) == proc' = [proc EXCEPT ![p].at = "Idle", ![p].result = result]

At(p, step) == proc[p].at = step

Failed == [ok |-> FALSE]

-----------------------------------------------------------------------------
(* Configuration: the last line that speaks of something counts            *)

\* read_registry_config: the files of the user, then those of the directories
Lines == rc.lines \o ProjectRc

\* apply_rc_file: of the lines that are about something the last one counts
LastLine(lines, hits) == lines[LastOf(hits)]

OfKind(lines, kind) == {k \in DOMAIN lines : lines[k].kind = kind}

\* apply_scoped_auth: the lines with credentials for a host
HostLines(lines, host) == {k \in OfKind(lines, "token") : lines[k].host = host}

\* apply_rc_entry for registry, and apply_default_registry_env
RcRegistry(lines) ==
    LET hits == OfKind(lines, "registry") IN IF hits = {} THEN Npm ELSE LastLine(lines, hits).host

DefaultRegistry(lines) == IF Env.registry # NONE THEN Env.registry ELSE RcRegistry(lines)

\* registry_url_for_package_name
RegistryFor(lines, name) ==
    LET hits == {k \in OfKind(lines, "scope") : lines[k].scope = ScopeOf[name]} IN
    IF ScopeOf[name] # NONE /\ hits # {} THEN LastLine(lines, hits).host ELSE DefaultRegistry(lines)

\* apply_auth_env and apply_default_registry_env: a default token of the rc files is
\* dropped when the environment names another host
DefaultToken(lines) ==
    LET hits == OfKind(lines, "default") IN
    IF Env.token # NONE THEN Env.token
    ELSE IF hits = {} \/ (Env.registry # NONE /\ Env.registry # RcRegistry(lines)) THEN NONE
    ELSE LastLine(lines, hits).value

\* from_env: one _auth anywhere makes the default scheme Basic
DefaultScheme(lines) ==
    IF \E k \in DOMAIN lines : lines[k].kind = "default" /\ lines[k].basic THEN "Basic" ELSE "Bearer"

\* Mutated form of AuthorizationHeader: the scheme of a host is kept from the
\* first line that speaks of it.
AuthorizationHeaderFirst(lines, host) ==
    LET hits == HostLines(lines, host)
        basic == \E k \in hits : lines[k].basic
    IN IF hits # {} THEN [scheme |-> IF basic THEN "Basic" ELSE "Bearer", token |-> LastLine(lines, hits).value]
       ELSE IF host = DefaultRegistry(lines) /\ DefaultToken(lines) # NONE
       THEN [scheme |-> DefaultScheme(lines), token |-> DefaultToken(lines)]
       ELSE NONE

\* authorization_header_for_url: auth_token_for_url and auth_scheme_for_url
AuthorizationHeader(lines, host) ==
    LET hits == HostLines(lines, host)
        l == LastLine(lines, hits)
    IN IF hits # {} THEN [scheme |-> IF l.basic THEN "Basic" ELSE "Bearer", token |-> l.value]
       ELSE IF host = DefaultRegistry(lines) /\ DefaultToken(lines) # NONE
       THEN [scheme |-> DefaultScheme(lines), token |-> DefaultToken(lines)]
       ELSE NONE

-----------------------------------------------------------------------------
(* The metadata cache                                                      *)

\* read_cached_package_record: the shard, and else the files of earlier versions
Record(name) ==
    IF shard.now[name] # NONE THEN shard.now[name] ELSE shard.legacy[name]

\* Mutated form of IsFresh: a stamp from the future counts as today.
IsFreshSkewed(stamp) == MaxAge # NONE /\ (stamp > clock \/ clock - stamp < MaxAge)

\* is_fresh: a stamp from the future is not
IsFresh(stamp) == MaxAge # NONE /\ stamp <= clock /\ clock - stamp < MaxAge

\* load_metadata_with_offline
LoadMetadata(name, mode) ==
    LET r == Record(name) IN
    IF /\ r # NONE /\ r.package # NONE
       /\ IsFresh(r.stamp) \/ mode # "online"
       /\ AgeLimit => r.package.full
    THEN r.package ELSE NONE

\* fetch_registry_package up to the request
Load(p) ==
    /\ At(p, "Load")
    /\ LET cmd == proc[p].cmd
           cached == LoadMetadata(cmd.name, cmd.mode)
       IN CASE cached # NONE -> EndWith(p, [ok |-> TRUE, package |-> cached, served |-> NONE])
            [] cached = NONE /\ cmd.mode = "offline" -> EndWith(p, Failed)
            [] OTHER -> proc' = [proc EXCEPT ![p].at = "Request", ![p].attempt = 0]
    /\ UNCHANGED <<cache, lost, world>>

\* What a registry has of a name, in the form that is asked for.
Packument(host, name) == [host |-> host, versions |-> server[host][name], full |-> AgeLimit]

\* build_request: the ETag of the record is sent along
Request(p) ==
    /\ At(p, "Request")
    /\ LET r == Record(proc[p].cmd.name) IN
       proc' = [proc EXCEPT ![p].at = "Answer", ![p].etag = IF r = NONE THEN NONE ELSE r.etag]
    /\ UNCHANGED <<cache, lost, world>>

\* Mutated form of Answer: what the registry does not have is taken for a packument.
AnswerEmpty(p) ==
    /\ At(p, "Answer")
    /\ LET has == Packument(RegistryFor(proc[p].lines, proc[p].cmd.name), proc[p].cmd.name) IN
       proc' = [proc EXCEPT ![p].at = IF proc[p].etag = has THEN "NotModified" ELSE "Save",
                            ![p].served = has, ![p].package = has, ![p].keeps = FALSE]
    /\ UNCHANGED <<cache, lost, world>>

\* The registry answers, with 304 if the ETag holds; what it does not have is refused.
Answer(p) ==
    /\ At(p, "Answer")
    /\ LET name == proc[p].cmd.name
           host == RegistryFor(proc[p].lines, name)
           has == Packument(host, name)
       IN IF server[host][name] = {} THEN EndWith(p, Failed)
          ELSE proc' = [proc EXCEPT ![p].at = IF proc[p].etag # NONE /\ proc[p].etag = has THEN "NotModified" ELSE "Save",
                                    ![p].served = has, ![p].package = has, ![p].keeps = FALSE]
    /\ UNCHANGED <<cache, lost, world>>

\* Mutated form of Retry: there is no end to it.
RetryForever(p) ==
    /\ At(p, "Answer") /\ lost < MaxLost
    /\ lost' = IF proc[p].attempt >= Retries THEN lost ELSE lost + 1
    /\ proc' = [proc EXCEPT ![p].at = "Request", ![p].attempt = IF @ >= Retries THEN @ ELSE @ + 1]
    /\ UNCHANGED <<cache, world>>

\* with_retry: the request fails in transport and is sent again
Retry(p) ==
    /\ At(p, "Answer") /\ lost < MaxLost
    /\ lost' = lost + 1
    /\ IF proc[p].attempt >= Retries THEN EndWith(p, Failed)
       ELSE proc' = [proc EXCEPT ![p].at = "Request", ![p].attempt = @ + 1]
    /\ UNCHANGED <<cache, world>>

\* handle_registry_response on 304: the cached packument, whatever its age
NotModified(p) ==
    /\ At(p, "NotModified")
    /\ LET cached == LoadMetadata(proc[p].cmd.name, "offline") IN
       IF cached = NONE THEN EndWith(p, Failed)
       ELSE proc' = [proc EXCEPT ![p].at = "Save", ![p].package = cached, ![p].keeps = TRUE]
    /\ UNCHANGED <<cache, lost, world>>

\* Mutated form of ReadShard: of a record that is there only the headers change.
ReadShardHeaders(p) ==
    /\ At(p, "Save")
    /\ LET name == proc[p].cmd.name
           old == shard.now[name]
           etag == IF ~proc[p].keeps THEN proc[p].package ELSE IF old # NONE THEN old.etag ELSE NONE
           package == IF old = NONE THEN proc[p].package ELSE old.package
       IN proc' = [proc EXCEPT ![p].at = "Write", ![p].copy =
              [shard.now EXCEPT ![name] = [package |-> package, etag |-> etag, stamp |-> clock]]]
    /\ UNCHANGED <<cache, lost, world>>

\* write_record_update up to write_atomic: the whole shard is read; on 304 the
\* headers stay as they are
ReadShard(p) ==
    /\ At(p, "Save")
    /\ LET name == proc[p].cmd.name
           old == shard.now[name]
           etag == IF ~proc[p].keeps THEN proc[p].package ELSE IF old # NONE THEN old.etag ELSE NONE
       IN proc' = [proc EXCEPT ![p].at = "Write", ![p].copy =
              [shard.now EXCEPT ![name] = [package |-> proc[p].package, etag |-> etag, stamp |-> clock]]]
    /\ UNCHANGED <<cache, lost, world>>

\* A lookup of a name has sent an ETag, or has been told that it holds.
Relies(p, name) ==
    /\ proc[p].at \in {"Answer", "NotModified"} \/ (At(p, "Save") /\ proc[p].keeps)
    /\ proc[p].cmd.name = name

\* write_atomic: the shard is replaced by the copy; if that fails nothing is said
WriteShard(p) ==
    /\ At(p, "Write")
    /\ \/ /\ shard' = [shard EXCEPT !.now = proc[p].copy]
          /\ crossed' = crossed \cup {n \in PkgName : /\ shard.now[n] # proc[p].copy[n]
                                                      /\ \E q \in Process : Relies(q, n)}
       \/ UNCHANGED cache
    /\ EndWith(p, [ok |-> TRUE, package |-> proc[p].package, served |-> proc[p].served])
    /\ UNCHANGED <<lost, world>>

-----------------------------------------------------------------------------
(* Login and logout                                                        *)

\* The registry that a command is about.
Target(p) == IF proc[p].cmd.host # NONE THEN proc[p].cmd.host ELSE DefaultRegistry(proc[p].lines)

\* login_with_fallback begins in the web, unless it is told to do without.
LoginWithFallback(cmd) == IF cmd.legacy THEN "Couch" ELSE "Web"

\* web_login: a registry without it is asked in the old way
WebLogin(p) ==
    /\ At(p, "Web")
    /\ \/ proc' = [proc EXCEPT ![p].at = "Poll", ![p].attempt = 1]
       \/ ToStep(p, "Couch")
       \/ EndWith(p, Failed)
    /\ UNCHANGED <<cache, lost, world>>

\* poll_for_token
PollForToken(p) ==
    /\ At(p, "Poll")
    /\ \/ ToStep(p, "Credentials")
       \/ EndWith(p, Failed)
       \/ IF proc[p].attempt >= MaxPolls THEN EndWith(p, Failed)
          ELSE proc' = [proc EXCEPT ![p].attempt = @ + 1]
    /\ UNCHANGED <<cache, lost, world>>

\* authenticate: for a one-time password it all begins again
Authenticate(p) ==
    /\ proc[p].otps < MaxOtp
    /\ proc' = [proc EXCEPT ![p].at = LoginWithFallback(proc[p].cmd), ![p].otps = @ + 1]

\* handle_couch_response
HandleCouchResponse(p) == ToStep(p, "Credentials") \/ EndWith(p, Failed) \/ Authenticate(p)

\* couch_login: who has an account already is asked for in another way
CouchLogin(p) ==
    /\ At(p, "Couch")
    /\ HandleCouchResponse(p) \/ ToStep(p, "Existing")
    /\ UNCHANGED <<cache, lost, world>>

\* couch_login_existing_user
ExistingUser(p) ==
    /\ At(p, "Existing")
    /\ HandleCouchResponse(p)
    /\ UNCHANGED <<cache, lost, world>>

\* should_keep_line: tokens with a path go too, _auth lines stay
ShouldKeepLine(line, host, scope) ==
    ~(line.kind = "token" /\ ~line.basic /\ line.host = host)
    /\ ~(line.kind = "scope" /\ scope # NONE /\ line.scope = scope) /\ line.kind # "blank"

KeptLines(host, scope) ==
    Chosen(rc.lines, {k \in DOMAIN rc.lines : ShouldKeepLine(rc.lines[k], host, scope)})

\* A scope leads to one registry only.
Unbound(scope) ==
    [h \in Host |-> IF tokens[h] # NONE /\ tokens[h].scope = scope THEN [tokens[h] EXCEPT !.scope = NONE] ELSE tokens[h]]

\* save_credentials
SaveCredentials(p) ==
    /\ At(p, "Credentials")
    /\ LET scope == proc[p].cmd.scope
           token == [kind |-> "token", host |-> Target(p), path |-> FALSE, basic |-> FALSE, value |-> commands]
           bind == IF scope = NONE THEN << >> ELSE <<[kind |-> "scope", scope |-> scope, host |-> Target(p)]>>
       IN /\ rc' = [exists |-> TRUE, lines |-> KeptLines(Target(p), scope) \o <<token>> \o bind]
          /\ tokens' = [Unbound(scope) EXCEPT ![Target(p)] = [token |-> commands, scope |-> scope]]
    /\ EndWith(p, [ok |-> TRUE])
    /\ UNCHANGED <<script, cache, server, history, uploads, disk, clock, commands, lost, kills>>

\* logout
Logout(p) ==
    /\ At(p, "Logout")
    /\ LET kept == KeptLines(Target(p), proc[p].cmd.scope) IN
       CASE ~rc.exists -> EndWith(p, [ok |-> TRUE]) /\ UNCHANGED <<rc, tokens>>
         [] rc.exists /\ kept = rc.lines -> EndWith(p, Failed) /\ UNCHANGED <<rc, tokens>>
         [] OTHER -> /\ EndWith(p, [ok |-> TRUE])
                     /\ rc' = [exists |-> TRUE, lines |-> kept]
                     /\ tokens' = [Unbound(proc[p].cmd.scope) EXCEPT ![Target(p)] = [token |-> NONE, scope |-> NONE]]
    /\ UNCHANGED <<script, cache, server, history, uploads, disk, clock, commands, lost, kills>>

-----------------------------------------------------------------------------
(* Pack and publish                                                        *)

Todo(p) == proc[p].todo[1]

\* The next project of the selection, or the end of the command.
NextProject(p) ==
    LET rest == Tail(proc[p].todo) IN
    proc' = [proc EXCEPT ![p].todo = rest, ![p].at = IF rest = << >> THEN "Idle" ELSE "Pack",
                         ![p].result = IF rest = << >> THEN [ok |-> TRUE] ELSE @]

TarballOf(project) == <<Tarball[<<project.name, project.version>>]>>

\* pack and snpm pack --dry-run: the files are collected and inspected, and the tarball
\* is written beside them
PackProject(p) ==
    /\ At(p, "Pack")
    /\ LET k == Todo(p)
           project == disk[k]
           files == CollectPackFiles(project)
           deps == RewritePublished(disk, Catalog, project.deps)
           inspects == proc[p].cmd.kind = "pack" /\ proc[p].cmd.dry
       IN IF inspects
          THEN NextProject(p) /\ UNCHANGED disk
          ELSE IF deps = NONE THEN EndWith(p, Failed) /\ UNCHANGED disk
          ELSE /\ disk' = [disk EXCEPT ![k].files = [f \in DOMAIN @ \cup {TarballOf(project)} |->
                                                        IF f = TarballOf(project) THEN "tarball" ELSE @[f]]]
               /\ IF proc[p].cmd.kind = "pack" THEN NextProject(p)
                  ELSE proc' = [proc EXCEPT ![p].at = "Publish", ![p].package = [files |-> files, deps |-> deps]]
    /\ UNCHANGED <<script, cache, rc, server, history, uploads, tokens, clock, commands, lost, kills>>

\* Mutated form of PublishRegistry: only the manifest and the default are asked.
PublishRegistryDefault(lines, project) ==
    IF project.to # NONE THEN project.to ELSE DefaultRegistry(lines)

\* publish_registry
PublishRegistry(lines, project) ==
    IF project.to # NONE THEN project.to ELSE RegistryFor(lines, project.name)

\* What the registry takes: a new version from someone it knows.
Accepts(host, project, header) == header # NONE /\ project.version \notin server[host][project.name]

\* validate_publish
Refused(project, files, allow) == project.private \/ Blocked(project, files, allow) # {}

\* What is sent: the payload with the tarball, from build_publish_payload.
Upload(p) ==
    LET k == Todo(p)
        host == PublishRegistry(proc[p].lines, disk[k])
    IN [project |-> disk[k], host |-> host, files |-> proc[p].package.files, deps |-> proc[p].package.deps,
        meta |-> RewritePublished(disk, Catalog, disk[k].deps), header |-> AuthorizationHeader(proc[p].lines, host),
        allow |-> proc[p].cmd.allow, bound |-> proc[p].bound,
        workspace |-> [j \in DOMAIN disk |-> disk[j].version]]

\* An upload reaches the registry, which takes it.
Arrives(u) ==
    LET V == server[u.host][u.project.name] \cup {u.project.version} IN
    /\ Accepts(u.host, u.project, u.header)
    /\ server' = [server EXCEPT ![u.host][u.project.name] = V]
    /\ uploads' = uploads \cup {u}
    /\ history' = history \cup {[host |-> u.host, name |-> u.project.name, day |-> clock, versions |-> V]}

\* publish, with send_publish_request: it is sent once, and the answer may be lost
Publish(p) ==
    /\ At(p, "Publish")
    /\ LET u == Upload(p)
           refused == Refused(u.project, u.files, u.allow)
       IN \/ /\ refused
             /\ EndWith(p, Failed)
             /\ UNCHANGED <<lost, server, uploads, history>>
          \/ /\ ~refused /\ proc[p].cmd.dry
             /\ NextProject(p)
             /\ UNCHANGED <<lost, server, uploads, history>>
          \/ /\ ~refused /\ ~proc[p].cmd.dry
             /\ \/ Arrives(u) /\ ToStep(p, "Clean") /\ UNCHANGED lost
                \/ /\ ~Accepts(u.host, u.project, u.header)
                   /\ EndWith(p, Failed)
                   /\ UNCHANGED <<lost, server, uploads, history>>
                \/ /\ lost < MaxLost /\ lost' = lost + 1
                   /\ EndWith(p, Failed)
                   /\ Arrives(u) \/ UNCHANGED <<server, uploads, history>>
    /\ UNCHANGED <<script, cache, rc, disk, tokens, clock, commands, kills>>

\* The tarball of a project that was published is removed.
CleanTarball(p) ==
    /\ At(p, "Clean")
    /\ LET k == Todo(p)
           gone == TarballOf(disk[k])
       IN disk' = [disk EXCEPT ![k].files = [f \in DOMAIN @ \ {gone} |-> @[f]]]
    /\ NextProject(p)
    /\ UNCHANGED <<script, cache, rc, server, history, uploads, tokens, clock, commands, lost, kills>>

-----------------------------------------------------------------------------
(* The commands and the world around them                                  *)

First ==
    [lookup |-> "Load", logout |-> "Logout", pack |-> "Pack", publish |-> "Pack",
     release |-> "Release", bump |-> "Bump"]

\* The projects that a command is about: its own, or those that its filters select.
Selection(cmd) == IF cmd.filters = NONE THEN cmd.todo ELSE SelectProjects(disk, cmd.filters)

\* A command starts: the rc files and the environment are read, and the projects
\* are selected.  If there are none to publish it fails.
Begin(p) ==
    /\ At(p, "Idle") /\ script[p] # << >>
    /\ commands' = commands + 1
    /\ script' = [script EXCEPT ![p] = Tail(@)]
    /\ LET cmd == Head(script[p])
           todo == Selection(cmd)
           nothing == cmd.filters # NONE /\ todo = << >>
       IN proc' = [proc EXCEPT ![p] =
           [Idle EXCEPT !.at = IF nothing THEN "Idle"
                               ELSE IF cmd.kind = "login" THEN LoginWithFallback(cmd) ELSE First[cmd.kind],
                        !.cmd = cmd, !.lines = Lines, !.result = IF nothing THEN Failed ELSE NONE,
                        !.todo = todo, !.selected = todo, !.bound = tokens]]
    /\ UNCHANGED <<cache, rc, server, history, uploads, disk, tokens, clock, lost, kills>>

Kill(p) ==
    /\ ~At(p, "Idle") /\ proc[p].cmd.kind \notin {"release", "bump"} /\ kills < MaxKills
    /\ kills' = kills + 1
    /\ EndWith(p, NONE)
    /\ UNCHANGED <<script, cache, rc, server, history, uploads, disk, tokens, clock, commands, lost>>

\* A day passes, but not between an answer and the write that follows it.
Day ==
    /\ clock < MaxClock
    /\ \A p \in Process : proc[p].at \notin {"NotModified", "Save", "Write"}
    /\ clock' = clock + 1
    /\ history' = history \cup {[host |-> h, name |-> n, day |-> clock + 1, versions |-> server[h][n]] :
                                   h \in Host, n \in PkgName}
    /\ UNCHANGED <<proc, script, cache, rc, server, uploads, disk, tokens, commands, lost, kills>>

\* Someone else publishes.
Release(p) ==
    /\ At(p, "Release")
    /\ EndWith(p, [ok |-> TRUE])
    /\ LET u == proc[p].cmd
           V == server[u.host][u.name] \cup {u.version}
       IN /\ server' = [server EXCEPT ![u.host][u.name] = V]
          /\ history' = history \cup {[host |-> u.host, name |-> u.name, day |-> clock, versions |-> V]}
    /\ UNCHANGED <<script, cache, rc, uploads, disk, tokens, clock, commands, lost, kills>>

\* The version of a project is raised, while nothing is being packed.
Bump(p) ==
    /\ At(p, "Bump")
    /\ \A q \in Process : proc[q].at \notin {"Pack", "Publish", "Clean"}
    /\ EndWith(p, [ok |-> TRUE])
    /\ disk' = [disk EXCEPT ![Todo(p)].version = @ + 1]
    /\ UNCHANGED <<script, cache, rc, server, history, uploads, tokens, clock, commands, lost, kills>>

Init ==
    /\ proc = [p \in Process |-> Idle]
    /\ \E w \in Worlds :
           /\ script = w.script /\ shard = w.cache /\ rc = w.rc /\ server = w.server /\ disk = w.workspace
    /\ history = {[host |-> h, name |-> n, day |-> 0, versions |-> server[h][n]] : h \in Host, n \in PkgName}
    /\ uploads = {}
    /\ tokens = [h \in Host |-> NONE]
    /\ crossed = {} /\ clock = 0 /\ commands = 0 /\ lost = 0 /\ kills = 0

Step(p) ==
    \/ Load(p) \/ Request(p) \/ Answer(p) \/ Retry(p) \/ NotModified(p) \/ ReadShard(p) \/ WriteShard(p)
    \/ WebLogin(p) \/ PollForToken(p) \/ CouchLogin(p) \/ ExistingUser(p) \/ SaveCredentials(p) \/ Logout(p)
    \/ PackProject(p) \/ Publish(p) \/ CleanTarball(p) \/ Release(p) \/ Bump(p)

Next ==
    \/ \E p \in Process : Step(p) \/ Begin(p) \/ Kill(p)
    \/ Day

Spec == Init /\ [][Next]_vars /\ \A p \in Process : WF_vars(Step(p) \/ Begin(p))

-----------------------------------------------------------------------------
(* Properties                                                              *)

\* What is cached is what a registry has answered, with the ETag of an answer, and
\* the tarballs that lie in projects are of versions that they have had
\* (CachedPackageEntry; errors of the registry are not cached).
TypeOK ==
    /\ \A n \in PkgName : shard.now[n] # NONE =>
           /\ IsPackument(shard.now[n].package)
           /\ shard.now[n].etag = NONE \/ IsPackument(shard.now[n].etag)
           /\ shard.now[n].stamp \in Nat
    /\ \A k \in DOMAIN disk : \A f \in DOMAIN disk[k].files :
           disk[k].files[f] = "tarball" =>
               \E v \in 1..disk[k].version : f = <<Tarball[<<disk[k].name, v>>]>>

Answered(p) == proc[p].at = "Idle" /\ proc[p].result # NONE /\ proc[p].result.ok /\ proc[p].cmd.kind = "lookup"

\* A lookup that asked the registry answers with what the registry has, and not with
\* something older under an ETag that came later, although processes overwrite each
\* other's shard (handle_registry_response on 304, write_record_update).  This is so until
\* another process replaces the record of the very name between the ETag that is sent
\* and the save that follows a 304: then a packument is saved under an ETag that is not its own,
\* and later answers of 304 confirm it.
Current ==
    \A p \in Process : Answered(p) /\ proc[p].result.served # NONE /\ proc[p].cmd.name \notin crossed =>
        proc[p].result.package = proc[p].result.served

\* A lookup that is answered from the cache while online is not older than
\* min_package_cache_age_days: a registry had just this less than so many days ago, or the
\* record was there before with a stamp of such a day (is_fresh; the stamps
\* of other records are not renewed when the shard is written).  For crossed names see Current.
FreshEnough ==
    \A p \in Process : At(p, "Load") /\ proc[p].cmd.mode = "online" /\ proc[p].cmd.name \notin crossed =>
        LET x == LoadMetadata(proc[p].cmd.name, "online") IN
        x # NONE =>
            \/ \E s \in history : /\ s.host = x.host /\ s.name = proc[p].cmd.name /\ s.versions = x.versions
                                  /\ clock - s.day < MaxAge
            \/ \E w \in Worlds : \E r \in {w.cache.now[proc[p].cmd.name], w.cache.legacy[proc[p].cmd.name]} :
                   r # NONE /\ r.package = x /\ r.stamp <= clock /\ clock - r.stamp < MaxAge

Speaks(lines, host) == HostLines(lines, host) # {}

Binds(lines, scope) == \E k \in OfKind(lines, "scope") : lines[k].scope = scope

\* After a login the requests to its registry carry its token as a bearer token,
\* whatever the rc file held for that host before; after a logout they carry nothing
\* unless there is an _auth line or a default token, which logout leaves alone
\* (save_credentials and logout; apply_rc_file and authorization_header_for_url read what
\* they wrote).
SessionHolds ==
    \A h \in Host : tokens[h] # NONE /\ ~Speaks(ProjectRc, h) =>
        LET header == AuthorizationHeader(Lines, h) IN
        IF tokens[h].token # NONE THEN header = [scheme |-> "Bearer", token |-> tokens[h].token]
        ELSE header = NONE \/ header.scheme = "Basic"
             \/ (h = DefaultRegistry(Lines) /\ header.token = DefaultToken(Lines))

\* A scoped package is published to the registry that the login for its scope named,
\* and not to the default one, unless publishConfig or the rc file of the project says
\* otherwise (publish_registry).
ScopeBound ==
    \A u \in uploads : \A h \in Host :
        (/\ u.project.to = NONE /\ ScopeOf[u.project.name] # NONE
         /\ u.bound[h] # NONE /\ u.bound[h].scope = ScopeOf[u.project.name]
         /\ ~Binds(ProjectRc, u.bound[h].scope))
        => u.host = h

\* Nothing is published that is private or has a finding that blocks and was not allowed
\* (validate_publish, with the inspection of the files that are packed).
NothingBlocked ==
    \A u \in uploads :
        /\ ~u.project.private
        /\ \A f \in u.files :
               LET what == u.project.files[f]
                   allowed == u.allow \cup u.project.policy.allow
               IN /\ what = "secret" => "SECRET_FILE" \in allowed
                  /\ what = "embedded map" =>
                         {"EMBEDDED_SOURCE_MAP", "SOURCE_MAP_PRESENT"} \cap allowed # {}
                  /\ what \in u.project.policy.deny => "DENY_PATTERN_MATCH" \in allowed

\* What is published can be installed outside of the workspace: the manifest in the tarball and
\* the one in the payload agree, no spec needs the workspace or the catalog, and one
\* that did asks for the sibling, under its own name, in the version that the workspace
\* has (rewrite_published_manifest).
Installable ==
    \A u \in uploads :
        /\ u.deps = u.meta
        /\ \A n \in DOMAIN u.deps :
               LET was == u.project.deps[n]
                   is == u.deps[n]
                   asks == IF is.protocol = "npm" THEN is.alias ELSE n
               IN /\ is.protocol \in {"", "npm"}
                  /\ was.protocol = "workspace" =>
                         /\ asks = IF was.alias # NONE THEN was.alias ELSE n
                         /\ was.range \in {"", "*", "^", "~"} =>
                                \E k \in DOMAIN u.workspace :
                                    disk[k].name = asks /\ is.range[2] = u.workspace[k]

\* Whether the ignore files from a directory upwards leave a file out: the nearest
\* one that says something about it decides, by its last line that does.
LeftOut(project, dir, f) ==
    LET rules(n) == RulesIn(project, SubSeq(dir, 1, n))
        hits(n) == {k \in DOMAIN rules(n) : RuleMatches(rules(n)[k], f)}
    IN \E n \in 0..Len(dir) :
           /\ hits(n) # {} /\ \A m \in (n + 1)..Len(dir) : hits(m) = {}
           /\ ~rules(n)[LastOf(hits(n))].negated

\* A project without a list of files is published with those that the ignore files do not
\* leave out, none of which lies below node_modules and the like, and with what is
\* mandatory or named by the manifest (collect_pack_files).
PackedRight ==
    \A u \in uploads : u.project.list = NONE =>
        \A f \in DOMAIN u.project.files \ {TarballOf(u.project)} :
            f \in u.files <=>
                \/ f = <<"package.json">> \/ f = u.project.main \/ f \in u.project.bins
                \/ Len(f) = 1 /\ f[1] \in Mandatory
                \/ ~LeftOut(u.project, Dir(f), f) /\ \A k \in DOMAIN f : f[k] \notin Skipped

\* What is in every set that holds the ends of the edges from the seeds and from its own.
Reached(edges, seeds) ==
    {k \in DOMAIN disk : \A S \in SUBSET DOMAIN disk :
        (\A e \in edges : e[1] \in seeds \cup S => e[2] \in S) => k \in S}

Wants(s, k) ==
    LET seeds == {j \in DOMAIN disk : SelectorMatches(s, disk[j])}
        down == {e \in (DOMAIN disk) \X (DOMAIN disk) :
                    \/ disk[e[2]].name \in DOMAIN disk[e[1]].deps
                    \/ ~s.prod /\ disk[e[2]].name \in disk[e[1]].dev}
        up == {<<e[2], e[1]>> : e \in down}
    IN IF k \in seeds THEN ~s.bare
       ELSE (s.below /\ k \in Reached(down, seeds)) \/ (s.above /\ k \in Reached(up, seeds))

\* A recursive publish is about the projects that a selector names or reaches over any
\* number of dependencies, cycles included, and that none excludes, wherever it stands among
\* the others; it goes through them in the order of the workspace, each once
\* (apply_selectors, walk_dependencies, walk_dependents).
FilterExact ==
    \A p \in Process : proc[p].cmd # NONE /\ proc[p].cmd.filters # NONE =>
        LET F == proc[p].cmd.filters
            all == proc[p].selected
            excluded(k) == \E j \in DOMAIN F : F[j].exclude /\ Wants(F[j], k)
            included(k) == \/ \A j \in DOMAIN F : F[j].exclude
                           \/ \E j \in DOMAIN F : ~F[j].exclude /\ Wants(F[j], k)
        IN /\ \A i, j \in DOMAIN all : i < j => all[i] < all[j]
           /\ \A k \in DOMAIN disk :
                  (\E j \in DOMAIN all : all[j] = k)
                      <=> included(k) /\ ~excluded(k) /\ \A j \in DOMAIN F : ~ParseFails(F[j])

\* Every command ends, however many answers are lost (with_retry, poll_for_token).
Ends == <>(\A p \in Process : At(p, "Idle") /\ script[p] = << >>)

\* A lookup answers with what the registry has, or had so short a time ago as the settings
\* allow, although processes overwrite each other's shard (fetch_package, write_record_update).
LookupRight == TypeOK /\ Current /\ FreshEnough

\* Logins and logouts last, and what they say of a host and a scope is what later requests
\* go by (save_credentials, logout, authorization_header_for_url, publish_registry).
CredentialsHold == SessionHolds /\ ScopeBound

\* What is published should be, is complete and can be installed: the projects that were
\* selected, with their files and with a manifest that needs no workspace (publish,
\* rewrite_published_manifest, collect_pack_files, apply_selectors).
PublishedRight == NothingBlocked /\ Installable /\ PackedRight /\ FilterExact

=============================================================================
