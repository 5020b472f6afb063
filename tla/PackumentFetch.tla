--------------------------- MODULE PackumentFetch ---------------------------
(***************************************************************************)
(* Packuments during one resolution (resolve/engine): the calls of the     *)
(* resolver and the background prefetcher share a cache, one lock per      *)
(* cache key that is made on demand and removed again, and a semaphore.    *)
(*                                                                         *)
(* A prefetch task has the key it fetches as its name; prefetched_         *)
(* registry_keys sees to it that there is only one.  A lock is named by    *)
(* the fetch that made it.  The message queue of the prefetcher is a set:  *)
(* its order is left open.  Which calls start which others is module       *)
(* Resolver's matter: here a call may start at any time.                   *)
(***************************************************************************)
EXTENDS FiniteSets, Naturals

CONSTANTS
    Asker,           \* calls of resolve_package that get to the packument
    Key,            \* cache keys, protocol and source
    KeyOf,          \* KeyOf[c]: the key that call c fetches
    Frontier,       \* Frontier[c]: keys of the dependencies of its package
    Prefetchable,   \* keys whose protocol is neither file nor git
    Concurrency,    \* registry_task_concurrency
    Nil            \* no lock, no key

Fetch == Asker \cup Key

ASSUME FetchAssumption ==
    /\ Asker \cap Key = {} /\ Nil \notin Fetch
    /\ IsFiniteSet(Asker) /\ IsFiniteSet(Key)
    /\ KeyOf \in [Asker -> Key]
    /\ Frontier \in [Asker -> SUBSET Key]
    /\ Prefetchable \subseteq Key
    /\ Concurrency \in Nat \ {0}

VARIABLES
    cache,       \* keys in package_cache
    locks,       \* locks[k]: the lock of k in package_fetch_locks, or Nil
    mine,        \* mine[f]: the lock that fetch f has a reference to, or Nil
    pc,          \* pc[f]: where fetch f stands
    todo,        \* todo[c]: frontier that call c has still to schedule
    sending,     \* sending[c]: the key it found not cached, or Nil
    scheduled,   \* prefetched_registry_keys
    queue,       \* requests that the prefetcher has not yet received
    spawned,     \* its JoinSet: prefetch tasks not yet joined
    senders,     \* the resolver still holds a sender
    prefetcher   \* "open", "closed" or "ended"

lockVars == <<cache, locks, mine>>
prefetchVars == <<scheduled, queue, spawned, senders, prefetcher>>
fetchVars == <<lockVars, pc, todo, sending, prefetchVars>>

KeyFor(f) == IF f \in Asker THEN KeyOf[f] ELSE f

FetchInit ==
    /\ cache = {}
    /\ locks = [k \in Key |-> Nil]
    /\ mine = [f \in Fetch |-> Nil]
    /\ pc = [f \in Fetch |-> IF f \in Asker THEN "start" ELSE "idle"]
    /\ todo = Frontier
    /\ sending = [c \in Asker |-> Nil]
    /\ scheduled = {}
    /\ queue = {}
    /\ spawned = {}
    /\ senders = TRUE
    /\ prefetcher = "open"

FetchTo(f, label) == pc' = [pc EXCEPT ![f] = label]
At(f, label) == pc[f] = label

\* Fetches that hold the guard of their lock, and a permit of the semaphore
Guarding == {f \in Fetch : pc[f] \in {"check", "permit", "recheck", "request"}}
Permitted == {f \in Fetch : pc[f] \in {"recheck", "request"}}

-----------------------------------------------------------------------------
(* fetch_registry_package_cached *)

Hit(f) ==
    /\ At(f, "start")
    /\ KeyFor(f) \in cache
    /\ FetchTo(f, "ok")
    /\ UNCHANGED <<lockVars, todo, sending, prefetchVars>>

\* package_fetch_lock: the lock of the map, or a new one put into it
GetLock(f) ==
    LET k == KeyFor(f)
        l == IF locks[k] = Nil THEN f ELSE locks[k]
    IN  /\ At(f, "start")
        /\ k \notin cache
        /\ locks' = [locks EXCEPT ![k] = l]
        /\ mine' = [mine EXCEPT ![f] = l]
        /\ FetchTo(f, "lock")
        /\ UNCHANGED <<cache, todo, sending, prefetchVars>>

Lock(f) ==
    /\ At(f, "lock")
    /\ \A g \in Guarding : mine[g] # mine[f]
    /\ FetchTo(f, "check")
    /\ UNCHANGED <<lockVars, todo, sending, prefetchVars>>

Check(f) ==
    /\ At(f, "check")
    /\ FetchTo(f, IF KeyFor(f) \in cache THEN "cleanup" ELSE "permit")
    /\ UNCHANGED <<lockVars, todo, sending, prefetchVars>>

AcquirePermit(f) ==
    /\ At(f, "permit")
    /\ Cardinality(Permitted) < Concurrency
    /\ FetchTo(f, "recheck")
    /\ UNCHANGED <<lockVars, todo, sending, prefetchVars>>

Recheck(f) ==
    /\ At(f, "recheck")
    /\ FetchTo(f, IF KeyFor(f) \in cache THEN "cleanup" ELSE "request")
    /\ UNCHANGED <<lockVars, todo, sending, prefetchVars>>

\* The registry answers: the packument goes into the cache.
RequestOk(f) ==
    /\ At(f, "request")
    /\ cache' = cache \cup {KeyFor(f)}
    /\ FetchTo(f, "cleanup")
    /\ UNCHANGED <<locks, mine, todo, sending, prefetchVars>>

\* A mutation: the lock goes from the map when a request fails, whoever
\* still refers to it.
RequestFailCleans(f) ==
    /\ At(f, "request")
    /\ locks' = [locks EXCEPT ![KeyFor(f)] = Nil]
    /\ mine' = [mine EXCEPT ![f] = Nil]
    /\ FetchTo(f, "err")
    /\ UNCHANGED <<cache, todo, sending, prefetchVars>>

\* `?` returns past the cleanup: guard, permit and reference are dropped and
\* the lock stays in the map.
RequestFail(f) ==
    /\ At(f, "request")
    /\ mine' = [mine EXCEPT ![f] = Nil]
    /\ FetchTo(f, "err")
    /\ UNCHANGED <<cache, locks, todo, sending, prefetchVars>>

\* cleanup_package_fetch_lock: strong_count = 2, the map and this fetch
Cleanup(f) ==
    LET k == KeyFor(f)
        last == locks[k] = mine[f] /\ \A g \in Fetch \ {f} : mine[g] # mine[f]
    IN  /\ At(f, "cleanup")
        /\ locks' = [locks EXCEPT ![k] = IF last THEN Nil ELSE @]
        /\ FetchTo(f, "return")
        /\ UNCHANGED <<cache, mine, todo, sending, prefetchVars>>

\* The reference is dropped when the function returns, after the map of
\* locks was unlocked.
Return(f) ==
    /\ At(f, "return")
    /\ mine' = [mine EXCEPT ![f] = Nil]
    /\ FetchTo(f, "ok")
    /\ UNCHANGED <<cache, locks, todo, sending, prefetchVars>>

-----------------------------------------------------------------------------
(* prefetch_dependency_frontier and schedule_registry_prefetch *)

Skip(c, k) ==
    /\ At(c, "ok") /\ sending[c] = Nil
    /\ k \in todo[c]
    /\ k \notin Prefetchable \/ k \in cache
    /\ todo' = [todo EXCEPT ![c] = @ \ {k}]
    /\ UNCHANGED <<lockVars, pc, sending, prefetchVars>>

\* A mutation: git and file dependencies are prefetched too.
NotCachedAny(c, k) ==
    /\ At(c, "ok") /\ sending[c] = Nil
    /\ k \in todo[c]
    /\ k \notin cache
    /\ todo' = [todo EXCEPT ![c] = @ \ {k}]
    /\ sending' = [sending EXCEPT ![c] = k]
    /\ UNCHANGED <<lockVars, pc, prefetchVars>>

NotCached(c, k) ==
    /\ At(c, "ok") /\ sending[c] = Nil
    /\ k \in todo[c] \cap Prefetchable
    /\ k \notin cache
    /\ todo' = [todo EXCEPT ![c] = @ \ {k}]
    /\ sending' = [sending EXCEPT ![c] = k]
    /\ UNCHANGED <<lockVars, pc, prefetchVars>>

\* A mutation: prefetched_registry_keys is not asked.
ScheduleAgain(c) ==
    /\ sending[c] # Nil
    /\ sending' = [sending EXCEPT ![c] = Nil]
    /\ scheduled' = scheduled \cup {sending[c]}
    /\ queue' = queue \cup {sending[c]}
    /\ UNCHANGED <<lockVars, pc, todo, spawned, senders, prefetcher>>

Schedule(c) ==
    /\ sending[c] # Nil
    /\ sending' = [sending EXCEPT ![c] = Nil]
    /\ scheduled' = scheduled \cup {sending[c]}
    /\ queue' = queue \cup ({sending[c]} \ scheduled)
    /\ UNCHANGED <<lockVars, pc, todo, spawned, senders, prefetcher>>

\* The call goes on to its dependencies: there is no more to schedule.
Leave(c) ==
    /\ pc[c] \in {"ok", "err"} /\ sending[c] = Nil
    /\ At(c, "err") \/ todo[c] = {}
    /\ FetchTo(c, "done")
    /\ UNCHANGED <<lockVars, todo, sending, prefetchVars>>

-----------------------------------------------------------------------------
(* run_metadata_prefetcher *)

HasRoom == Cardinality(spawned) < Concurrency

\* A mutation: the resolver keeps a sender after its last call.
KeepSenders ==
    /\ senders
    /\ \A c \in Asker : At(c, "done")
    /\ UNCHANGED fetchVars

\* The resolver is through: its senders are dropped.
DropSenders ==
    /\ senders
    /\ \A c \in Asker : At(c, "done")
    /\ senders' = FALSE
    /\ UNCHANGED <<lockVars, pc, todo, sending, scheduled, queue, spawned, prefetcher>>

Receive(k) ==
    /\ prefetcher = "open" /\ HasRoom
    /\ k \in queue
    /\ queue' = queue \ {k}
    /\ spawned' = spawned \cup {k}
    /\ FetchTo(k, "start")
    /\ UNCHANGED <<lockVars, todo, sending, scheduled, senders, prefetcher>>

ReceiveNone ==
    /\ prefetcher = "open" /\ HasRoom
    /\ queue = {} /\ ~senders
    /\ prefetcher' = "closed"
    /\ UNCHANGED <<lockVars, pc, todo, sending, scheduled, queue, spawned, senders>>

\* The loop joins only when it cannot receive.
JoinNext(k) ==
    /\ prefetcher = "closed" \/ (prefetcher = "open" /\ ~HasRoom)
    /\ k \in spawned
    /\ pc[k] \in {"ok", "err"}
    /\ spawned' = spawned \ {k}
    /\ FetchTo(k, "done")
    /\ UNCHANGED <<lockVars, todo, sending, scheduled, queue, senders, prefetcher>>

EndPrefetcher ==
    /\ prefetcher = "closed"
    /\ spawned = {}
    /\ prefetcher' = "ended"
    /\ UNCHANGED <<lockVars, pc, todo, sending, scheduled, queue, spawned, senders>>

-----------------------------------------------------------------------------

Step(f) ==
    \/ Hit(f) \/ GetLock(f) \/ Lock(f) \/ Check(f) \/ AcquirePermit(f)
    \/ Recheck(f) \/ RequestOk(f) \/ RequestFail(f) \/ Cleanup(f) \/ Return(f)

Plan(c) ==
    \/ \E k \in Key : Skip(c, k) \/ NotCached(c, k)
    \/ Schedule(c) \/ Leave(c)

Prefetch ==
    \/ ReceiveNone \/ EndPrefetcher
    \/ \E k \in Key : Receive(k) \/ JoinNext(k)

FetchNext ==
    \/ \E f \in Fetch : Step(f)
    \/ \E c \in Asker : Plan(c)
    \/ DropSenders
    \/ Prefetch

\* Every future is polled until it is through, and the registry answers or
\* the HTTP client gives up.
Fairness ==
    /\ \A f \in Fetch : WF_fetchVars(Step(f))
    /\ \A c \in Asker : WF_fetchVars(Plan(c))
    /\ WF_fetchVars(DropSenders)
    /\ WF_fetchVars(Prefetch)

FetchSpec == FetchInit /\ [][FetchNext]_fetchVars /\ Fairness

-----------------------------------------------------------------------------
(* Properties *)

\* The kinds of values the variables take; in particular only what can be
\* prefetched is ever scheduled.
FetchTypeOK ==
    /\ cache \subseteq Key
    /\ locks \in [Key -> Fetch \cup {Nil}]
    /\ mine \in [Fetch -> Fetch \cup {Nil}]
    /\ pc \in [Fetch -> {"idle", "start", "lock", "check", "permit", "recheck",
                         "request", "cleanup", "return", "ok", "err", "done"}]
    /\ todo \in [Asker -> SUBSET Key]
    /\ sending \in [Asker -> Prefetchable \cup {Nil}]
    /\ scheduled \subseteq Prefetchable
    /\ queue \subseteq Prefetchable
    /\ spawned \subseteq Prefetchable
    /\ senders \in BOOLEAN
    /\ prefetcher \in {"open", "closed", "ended"}

\* The registry never gets two requests for one packument at the same time,
\* from whichever of calls and prefetch tasks, although the lock that keeps
\* them apart is removed and made again.
SingleFlight ==
    \A f, g \in Fetch :
        At(f, "request") /\ At(g, "request") /\ KeyFor(f) = KeyFor(g) => f = g

\* A packument that was fetched is not requested again: when a request goes
\* out, the cache checked before the wait for a permit is not out of date.
NoRefetch == \A f \in Fetch : At(f, "request") => KeyFor(f) \notin cache

\* No prefetch task runs twice, and none is lost: a key that was scheduled is
\* either waiting in the queue or has a task.
PrefetchOnce ==
    /\ queue \cap spawned = {}
    /\ \A k \in Key : At(k, "idle") <=> k \notin scheduled \/ k \in queue

\* Calls and prefetch tasks never wait for each other's locks and permits in
\* a circle, and the prefetcher sees the end of its queue: join3 returns.
FetchesEnd == <>(prefetcher = "ended")

\* The registry gets one request for a packument, although calls and prefetch tasks ask for
\* it at the same time (fetch_registry_package, cleanup_package_fetch_lock).
OneRequest == FetchTypeOK /\ SingleFlight /\ NoRefetch

=============================================================================
