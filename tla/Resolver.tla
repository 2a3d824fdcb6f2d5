------------------------------ MODULE Resolver -------------------------------
(***************************************************************************)
(* The cached resolution path of the resolver (ResolverInner in engine.rs): *)
(* lookup, in-flight coalescing, the leader's re-check, the upstream call,  *)
(* storing under the purge epoch, serve-stale, failure caching, prefetch    *)
(* and purges, run by concurrent queries.                                   *)
(*                                                                         *)
(* A query is a process; one that starts a background refresh also has a    *)
(* job that goes on after the query was answered.  The steps are the spans  *)
(* between two locks, atomics or awaits that other queries can observe.     *)
(* Only the operations of Flights touch the flight registry.                *)
(***************************************************************************)
EXTENDS Integers, FiniteSets, FiniteSetsExt

CONSTANTS
    Queries, Keys, KeyOf, Hashes, HashOf,
    None,               \* Option::None
    Coalesce,           \* CacheConfig::coalesce
    ServeStale,         \* CacheConfig::serve_stale is Some
    ClientTimeout,      \* ServeStale::client_timeout is Some
    FailureCache,       \* CacheConfig::failure_cache is Some
    Prefetch,           \* CacheConfig::prefetch is Some
    Pressure,           \* the store is small enough to evict
    Ttl,                \* the entry TTL cacheable_answer derives
    MaxStale, FailureRecheck, InitialBackoff, MaxBackoff,
    MinHits, ThresholdPercent, MaxRefreshTasks,
    MaxTime, MaxPurges  \* bounds on the clock and on the number of purges

ASSUME KeyAssumption == KeyOf \in [Queries -> Keys] /\ HashOf \in [Keys -> Hashes]
ASSUME NoneAssumption == None \notin Queries
ASSUME FlagAssumption ==
    {Coalesce, ServeStale, ClientTimeout, FailureCache, Prefetch, Pressure} \subseteq BOOLEAN
ASSUME DurationAssumption ==
    /\ {Ttl, FailureRecheck, InitialBackoff, MaxBackoff} \subseteq Nat \ {0}
    /\ {MaxStale, MinHits, MaxRefreshTasks, MaxTime, MaxPurges} \subseteq Nat
    /\ ThresholdPercent \in 1..50

VARIABLES
    now,        \* Clock::now, in seconds
    epoch,      \* cache_epoch
    sweep,      \* keys the running purge has still to remove
    cache,      \* the store: the entry under each key, named by its creator
    entry,      \* the CachedAnswer each query's upstream call created
    pc,         \* where each resolve() future is
    run,        \* where each upstream resolution (inline or in a task) is
    task,       \* who runs it
    announced,  \* the query has been counted as coalesced
    held,       \* the stale entry the query holds
    call,       \* `now`, `previous_backoff` and `epoch` of the resolution
    published,  \* the Outcome the leader hands to its followers
    reply,      \* what the caller of resolve() got
    registry, registered, stage, state, following,  \* see Flights
    purged,     \* history: the epoch of the last purge that swept each key
    arrived     \* history: `purged` of its key when a query was looked up

flightVars == <<registry, registered, stage, state, following>>
storeVars == <<cache, entry>>
envVars == <<now, epoch, sweep, purged>>
holdVars == <<announced, held, arrived>>
vars == <<envVars, storeVars, pc, run, task, holdVars, call, published,
          reply, flightVars>>

F == INSTANCE Flights WITH
        Callers <- Queries, NoFlight <- None, key <- KeyOf

-----------------------------------------------------------------------------
(* CachedAnswer::new / retained_for / failure.                              *)

NoEntry == [failure |-> FALSE, inserted |-> 0, expires |-> 0, staleUntil |-> 0,
            backoff |-> 0, epoch |-> 0, recheck |-> 0, hits |-> 0,
            refreshing |-> FALSE]

(* A cacheable answer measured from `inserted` and kept for serve-stale.    *)
NewAnswer(inserted, ep) ==
    [NoEntry EXCEPT
        !.inserted = inserted, !.expires = inserted + Ttl, !.epoch = ep,
        !.staleUntil = inserted + Ttl + (IF ServeStale THEN MaxStale ELSE 0)]

LongestBackoff == Max({MaxBackoff, InitialBackoff})

NextBackoff(previous) ==
    Min({Max({2 * previous, InitialBackoff}), LongestBackoff})

(* Faulty variant: consecutive failures are not told apart.                 *)
BackoffForgetful(previous) == InitialBackoff

Backoff(previous) ==
    IF previous = 0 THEN InitialBackoff ELSE NextBackoff(previous)

NewFailure(inserted, backoff, ep) ==
    [NoEntry EXCEPT
        !.failure = TRUE, !.inserted = inserted, !.expires = inserted + backoff,
        !.staleUntil = inserted + backoff + LongestBackoff,
        !.backoff = backoff, !.epoch = ep]

-----------------------------------------------------------------------------
(* Store::get drops an entry past its stale_until.                          *)
Live(k) == cache[k] # None /\ now < entry[cache[k]].staleUntil

AfterGet(k) ==
    IF cache[k] # None /\ ~Live(k) THEN [cache EXCEPT ![k] = None] ELSE cache

(* classify: what the stored entry means for a query at this instant.       *)
Refresh(stale, backoff) ==
    [kind |-> "Refresh", entry |-> None, stale |-> stale, backoff |-> backoff]

Hit(kind, e) == [kind |-> kind, entry |-> e, stale |-> None, backoff |-> 0]

Classify(k) ==
    LET id == cache[k]
        e == entry[id]
    IN  IF ~Live(k) THEN Refresh(None, 0)
        ELSE IF now < e.expires
             THEN Hit(IF e.failure THEN "Failure" ELSE "Fresh", id)
        ELSE IF e.failure THEN Refresh(None, e.backoff)
        ELSE IF ~ServeStale THEN Refresh(None, 0)
        ELSE IF now < e.recheck THEN Hit("StaleNow", id)
        ELSE Refresh(id, 0)

(* What the caller gets for each kind of hit, and the Outcome its followers *)
(* get when the leader's re-check finds one.                                *)
Replies == {"None", "Fresh", "Stale", "Plain", "Failure"}

NoReply == [how |-> "None", entry |-> None]

Served(found) ==
    [how |-> IF found.kind = "StaleNow" THEN "Stale" ELSE found.kind,
     entry |-> found.entry]

StaleReply(e) == [how |-> "Stale", entry |-> e]

-----------------------------------------------------------------------------
(* The locals of one resolution; they are gone once it has settled.         *)
NoCall == [at |-> 0, prev |-> 0, epoch |-> 0]

Init ==
    /\ now = 0 /\ epoch = 0 /\ sweep = {}
    /\ purged = [k \in Keys |-> -1]
    /\ cache = [k \in Keys |-> None]
    /\ entry = [q \in Queries |-> NoEntry]
    /\ pc = [q \in Queries |-> "lookup"]
    /\ run = [q \in Queries |-> "none"]
    /\ task = [q \in Queries |-> "inline"]
    /\ announced = [q \in Queries |-> FALSE]
    /\ held = [q \in Queries |-> None]
    /\ arrived = [q \in Queries |-> -1]
    /\ call = [q \in Queries |-> NoCall]
    /\ published = [q \in Queries |-> NoReply]
    /\ reply = [q \in Queries |-> NoReply]
    /\ registry = [h \in Hashes |-> None]
    /\ registered = [q \in Queries |-> FALSE]
    /\ stage = [q \in Queries |-> "absent"]
    /\ state = [q \in Queries |-> "Pending"]
    /\ following = [q \in Queries |-> None]

(* The first lookup of resolve().                                           *)
LookupHit(q) ==
    LET found == Classify(KeyOf[q]) IN
    /\ pc[q] = "lookup"
    /\ found.kind # "Refresh"
    /\ reply' = [reply EXCEPT ![q] = Served(found)]
    /\ IF found.kind = "Fresh" /\ Prefetch
       THEN /\ pc' = [pc EXCEPT ![q] = "prefetch"]
            /\ call' = [call EXCEPT ![q].at = now]
       ELSE /\ pc' = [pc EXCEPT ![q] = "done"]
            /\ UNCHANGED call
    /\ arrived' = [arrived EXCEPT ![q] = purged[KeyOf[q]]]
    /\ UNCHANGED <<envVars, storeVars, run, task, announced, held, published, flightVars>>

LookupMiss(q) ==
    LET found == Classify(KeyOf[q]) IN
    /\ pc[q] = "lookup"
    /\ found.kind = "Refresh"
    /\ cache' = AfterGet(KeyOf[q])
    /\ held' = [held EXCEPT ![q] = found.stale]
    /\ call' = [call EXCEPT ![q].at = now, ![q].prev = found.backoff]
    /\ pc' = [pc EXCEPT ![q] = IF Coalesce THEN "join" ELSE "run"]
    /\ run' = [run EXCEPT ![q] = IF Coalesce THEN "none" ELSE "begin"]
    /\ arrived' = [arrived EXCEPT ![q] = purged[KeyOf[q]]]
    /\ UNCHANGED <<envVars, entry, task, announced, published, reply, flightVars>>

-----------------------------------------------------------------------------
(* maybe_prefetch, run by a query whose hit was fresh.                      *)

RunningTasks ==
    Cardinality({q \in Queries : task[q] # "inline" /\ run[q] \notin {"none", "over"}})

(* Faulty variant: `refreshing` is not tested.                              *)
DueAgain(e, instant) ==
    /\ entry[e].hits + 1 >= MinHits
    /\ (entry[e].expires - instant) * 100
          <= (entry[e].expires - entry[e].inserted) * ThresholdPercent
    /\ RunningTasks < MaxRefreshTasks

Due(e, instant) ==
    /\ entry[e].hits + 1 >= MinHits
    /\ (entry[e].expires - instant) * 100
          <= (entry[e].expires - entry[e].inserted) * ThresholdPercent
    /\ RunningTasks < MaxRefreshTasks
    /\ ~entry[e].refreshing

(* Not due: the hit is only counted.                                        *)
PrefetchNotDue(q) ==
    LET e == reply[q].entry IN
    /\ pc[q] = "prefetch"
    /\ ~Due(e, call[q].at)
    /\ entry' = [entry EXCEPT ![e].hits = @ + 1]
    /\ pc' = [pc EXCEPT ![q] = "done"]
    /\ call' = [call EXCEPT ![q] = NoCall]
    /\ UNCHANGED <<envVars, cache, run, task, holdVars, published, reply,
                   flightVars>>

(* Faulty variant: the refresh does not register a flight.                  *)
StartPrefetchUnjoined(q) ==
    LET e == reply[q].entry IN
    /\ pc[q] = "prefetch"
    /\ Due(e, call[q].at)
    /\ entry' = [entry EXCEPT ![e].hits = @ + 1, ![e].refreshing = TRUE]
    /\ pc' = [pc EXCEPT ![q] = "done"]
    /\ call' = [call EXCEPT ![q] = NoCall]
    /\ run' = [run EXCEPT ![q] = "begin"]
    /\ task' = [task EXCEPT ![q] = "prefetch"]
    /\ UNCHANGED <<envVars, cache, holdVars, published, reply, flightVars>>

(* Due: `refreshing` is set, then the refresh leads a flight if it can.     *)
StartPrefetch(q) ==
    LET e == reply[q].entry IN
    /\ pc[q] = "prefetch"
    /\ Due(e, call[q].at)
    /\ entry' = [entry EXCEPT ![e].hits = @ + 1, ![e].refreshing = TRUE]
    /\ pc' = [pc EXCEPT ![q] = "done"]
    /\ call' = [call EXCEPT ![q] = NoCall]
    /\ \/ /\ Coalesce
          /\ \/ F!LeadPrivate(q)
             \/ F!LeadRegistered(q)
       \/ ~Coalesce /\ UNCHANGED flightVars
    /\ run' = [run EXCEPT ![q] = "begin"]
    /\ task' = [task EXCEPT ![q] = "prefetch"]
    /\ UNCHANGED <<envVars, cache, holdVars, published, reply>>

(* Due, but the key is already being fetched: the new Follower is dropped.  *)
PrefetchFollows(q) ==
    LET e == reply[q].entry IN
    /\ pc[q] = "prefetch"
    /\ Due(e, call[q].at)
    /\ Coalesce
    /\ registry[HashOf[KeyOf[q]]] # None
    /\ KeyOf[registry[HashOf[KeyOf[q]]]] = KeyOf[q]
    /\ entry' = [entry EXCEPT ![e].hits = @ + 1, ![e].refreshing = TRUE]
    /\ pc' = [pc EXCEPT ![q] = "done"]
    /\ call' = [call EXCEPT ![q] = NoCall]
    /\ UNCHANGED <<envVars, cache, run, task, holdVars, published, reply,
                   flightVars>>

-----------------------------------------------------------------------------
(* The flight loop.                                                         *)

JoinFollow(q) ==
    /\ pc[q] = "join"
    /\ F!Follow(q)
    /\ announced' = [announced EXCEPT ![q] = TRUE]
    /\ pc' = [pc EXCEPT ![q] = "wait"]
    /\ UNCHANGED <<envVars, storeVars, run, task, held, arrived, call,
                   published, reply>>

JoinLead(q) ==
    /\ pc[q] = "join"
    /\ F!LeadPrivate(q) \/ F!LeadRegistered(q)
    /\ pc' = [pc EXCEPT ![q] = "recheck"]
    /\ UNCHANGED <<envVars, storeVars, run, task, holdVars, call,
                   published, reply>>

(* A waiting query is answered; a task it handed over to keeps its locals.  *)
Answered(q, r) ==
    /\ reply' = [reply EXCEPT ![q] = r]
    /\ pc' = [pc EXCEPT ![q] = "done"]
    /\ call' = [call EXCEPT ![q] = IF task[q] = "inline" THEN NoCall ELSE @]

(* wait_for_flight returned Done: finish_follower.                          *)
FollowerDone(q) ==
    /\ pc[q] \in {"wait", "selfwait"}
    /\ F!Wake(q)
    /\ state[following[q]] = "Done"
    /\ Answered(q, published[following[q]])
    /\ UNCHANGED <<envVars, storeVars, run, task, holdVars, published>>

(* Abandoned: a follower goes round again.                                  *)
FollowerAbandoned(q) ==
    /\ pc[q] = "wait"
    /\ F!Wake(q)
    /\ state[following[q]] # "Done"
    /\ pc' = [pc EXCEPT ![q] = "join"]
    /\ UNCHANGED <<envVars, storeVars, run, task, holdVars, call,
                   published, reply>>

(* The client timeout passes first (only a query that holds a stale entry   *)
(* is timed), or the task it handed over to is gone.                        *)
ServeHeld(q) ==
    /\ \/ /\ pc[q] \in {"wait", "selfwait"}
          /\ ClientTimeout
          /\ held[q] # None
          /\ F!Leave(q)
       \/ /\ pc[q] = "selfwait"
          /\ F!Wake(q)
          /\ state[following[q]] # "Done"
    /\ Answered(q, StaleReply(held[q]))
    /\ UNCHANGED <<envVars, storeVars, run, task, holdVars, published>>

-----------------------------------------------------------------------------
(* The leader's re-check of the store.                                      *)

(* Faulty variant: the leader goes upstream on the strength of its lookup.  *)
RecheckSkipped(q) ==
    /\ pc[q] = "recheck"
    /\ pc' = [pc EXCEPT ![q] = "run"]
    /\ run' = [run EXCEPT ![q] = "begin"]
    /\ UNCHANGED <<envVars, storeVars, task, holdVars, call, published, reply, flightVars>>

RecheckHit(q) ==
    LET found == Classify(KeyOf[q]) IN
    /\ pc[q] = "recheck"
    /\ found.kind # "Refresh"
    /\ reply' = [reply EXCEPT ![q] = Served(found)]
    /\ published' = [published EXCEPT ![q] = Served(found)]
    /\ pc' = [pc EXCEPT ![q] = "run"]
    /\ run' = [run EXCEPT ![q] = "finish"]
    /\ call' = [call EXCEPT ![q] = NoCall]
    /\ UNCHANGED <<envVars, storeVars, task, holdVars, flightVars>>

(* A miss goes on inline, or, when it holds a stale entry and there is a    *)
(* client timeout, hands its guard to a task and waits for it.              *)
RecheckMiss(q) ==
    LET found == Classify(KeyOf[q])
        handover == ClientTimeout /\ found.stale # None /\ RunningTasks < MaxRefreshTasks
    IN
    /\ pc[q] = "recheck"
    /\ found.kind = "Refresh"
    /\ cache' = AfterGet(KeyOf[q])
    /\ held' = [held EXCEPT ![q] = found.stale]
    /\ call' = [call EXCEPT ![q].prev = found.backoff]
    /\ run' = [run EXCEPT ![q] = "begin"]
    /\ \/ /\ handover
          /\ F!Handover(q)
          /\ task' = [task EXCEPT ![q] = "stale"]
          /\ pc' = [pc EXCEPT ![q] = "selfwait"]
       \/ /\ ~handover
          /\ pc' = [pc EXCEPT ![q] = "run"]
          /\ UNCHANGED <<task, flightVars>>
    /\ UNCHANGED <<envVars, entry, announced, arrived, published, reply>>

-----------------------------------------------------------------------------
(* The upstream resolution: query_upstream, settle_failure, finish.         *)

(* The clock and the epoch are read before the call.                        *)
Begin(q) ==
    /\ run[q] = "begin"
    /\ call' = [call EXCEPT
                  ![q].at = IF task[q] = "inline" /\ ~announced[q] THEN @ ELSE now,
                  ![q].epoch = epoch]
    /\ run' = [run EXCEPT ![q] = "call"]
    /\ UNCHANGED <<envVars, storeVars, pc, task, holdVars, published, reply, flightVars>>

(* Faulty variant: the epoch is not compared.                               *)
InsertAlways(k, id, ep) == [cache EXCEPT ![k] = id]

(* insert_if: under the shard lock, only if no purge has bumped the epoch.  *)
InsertIf(k, id, ep) ==
    IF epoch = ep THEN [cache EXCEPT ![k] = id] ELSE cache

(* Store::forget_failure, called after a success that followed a failure.   *)
ForgetFailure(k, previous) ==
    IF previous # 0 /\ cache[k] # None /\ entry[cache[k]].failure
    THEN [cache EXCEPT ![k] = None]
    ELSE cache

(* The end of a resolution with outcome `o`: a guard, if there is one, is   *)
(* finished next; without one an inline query is answered.                  *)
Settled(q, o) ==
    /\ published' = [published EXCEPT ![q] = o]
    /\ call' = [call EXCEPT ![q] = NoCall]
    /\ run' = [run EXCEPT ![q] = IF stage[q] = "led" THEN "finish" ELSE "over"]
    /\ reply' = [reply EXCEPT ![q] = IF task[q] = "inline" THEN o ELSE @]
    /\ pc' = [pc EXCEPT ![q] =
                IF task[q] = "inline" /\ stage[q] # "led" THEN "done" ELSE @]

(* A cacheable answer is stored as soon as the call returns it,             *)
ReturnAnswer(q) ==
    /\ run[q] = "call"
    /\ entry' = [entry EXCEPT ![q] = NewAnswer(call[q].at, call[q].epoch)]
    /\ cache' = InsertIf(KeyOf[q], q, call[q].epoch)
    /\ run' = [run EXCEPT ![q] = "settle"]
    /\ UNCHANGED <<envVars, pc, task, holdVars, call, published, reply, flightVars>>

(* and then forgets the expired failure it followed.                        *)
SettleAnswer(q) ==
    /\ run[q] = "settle"
    /\ cache' = ForgetFailure(KeyOf[q], call[q].prev)
    /\ Settled(q, [how |-> "Fresh", entry |-> q])
    /\ UNCHANGED <<envVars, entry, task, holdVars, flightVars>>

(* An answer that is not cacheable only forgets.                            *)
ReturnPlain(q) ==
    /\ run[q] = "call"
    /\ cache' = ForgetFailure(KeyOf[q], call[q].prev)
    /\ Settled(q, [how |-> "Plain", entry |-> None])
    /\ UNCHANGED <<envVars, entry, task, holdVars, flightVars>>

(* settle_failure on an error, a SERVFAIL or a REFUSED, in three cases.  A  *)
(* failure is named by the query whose upstream call failed.                *)
Failed(q) == [how |-> "Failure", entry |-> q]

(* A stale entry is held: its recheck is deferred.  The entry is shared     *)
(* with the store, so later lookups see the window.                         *)
FailStale(q) ==
    /\ run[q] = "call"
    /\ task[q] # "prefetch"
    /\ held[q] # None
    /\ entry' = [entry EXCEPT ![held[q]].recheck = Max({@, now + FailureRecheck})]
    /\ Settled(q, StaleReply(held[q]))
    /\ UNCHANGED <<envVars, cache, task, holdVars, flightVars>>

(* Faulty variant: a failure is remembered even if a stale entry is held.   *)
FailRememberAlways(q) ==
    /\ run[q] = "call"
    /\ task[q] # "prefetch"
    /\ entry' = [entry EXCEPT ![q] =
                    NewFailure(now, Backoff(call[q].prev), call[q].epoch)]
    /\ cache' = InsertIf(KeyOf[q], q, call[q].epoch)
    /\ Settled(q, Failed(q))
    /\ UNCHANGED <<envVars, task, holdVars, flightVars>>

(* Any other failure is remembered, with a backoff.                         *)
FailRemember(q) ==
    /\ run[q] = "call"
    /\ task[q] # "prefetch"
    /\ held[q] = None
    /\ IF FailureCache
       THEN /\ entry' = [entry EXCEPT ![q] =
                            NewFailure(now, Backoff(call[q].prev), call[q].epoch)]
            /\ cache' = InsertIf(KeyOf[q], q, call[q].epoch)
       ELSE UNCHANGED storeVars
    /\ Settled(q, Failed(q))
    /\ UNCHANGED <<envVars, task, holdVars, flightVars>>

(* A failed prefetch does not settle.                                       *)
FailPrefetch(q) ==
    /\ run[q] = "call"
    /\ task[q] = "prefetch"
    /\ Settled(q, Failed(q))
    /\ UNCHANGED <<envVars, storeVars, task, holdVars, flightVars>>

(* Faulty variant: a private flight unregisters whoever holds its hash.     *)
FinishGuardByHash(q) ==
    /\ run[q] = "finish"
    /\ stage' = [stage EXCEPT ![q] = "finishing"]
    /\ registry' = [registry EXCEPT ![HashOf[KeyOf[q]]] = None]
    /\ run' = [run EXCEPT ![q] = "publish"]
    /\ UNCHANGED <<envVars, storeVars, pc, task, holdVars, call, published, reply,
                   registered, state, following>>

FinishGuard(q) ==
    /\ run[q] = "finish"
    /\ F!Finish(q)
    /\ run' = [run EXCEPT ![q] = "publish"]
    /\ UNCHANGED <<envVars, storeVars, pc, task, holdVars, call, published, reply>>

PublishOutcome(q) ==
    /\ run[q] = "publish"
    /\ F!Publish(q)
    /\ run' = [run EXCEPT ![q] = "over"]
    /\ pc' = [pc EXCEPT ![q] = IF @ = "run" THEN "done" ELSE @]
    /\ UNCHANGED <<envVars, storeVars, task, holdVars, call, published, reply>>

-----------------------------------------------------------------------------
(* A resolve() future is dropped at one of its awaits, or a task ends       *)
(* without a result (its backend panicked): the guard abandons the flight.  *)
CancelWaiting(q) ==
    /\ pc[q] \in {"wait", "selfwait"}
    /\ F!Unsubscribe(q)
    /\ pc' = [pc EXCEPT ![q] = "cancelled"]
    /\ call' = [call EXCEPT ![q] = IF task[q] = "inline" THEN NoCall ELSE @]
    /\ UNCHANGED <<envVars, storeVars, run, task, holdVars, published, reply>>

(* Faulty variant: the guard is forgotten instead of dropped.               *)
DropCallLeaksGuard(q) ==
    /\ run[q] = "call"
    /\ pc' = [pc EXCEPT ![q] = IF task[q] = "inline" THEN "cancelled" ELSE @]
    /\ run' = [run EXCEPT ![q] = "over"]
    /\ UNCHANGED <<envVars, storeVars, task, holdVars, call, published, reply, flightVars>>

DropCall(q) ==
    /\ run[q] = "call"
    /\ pc' = [pc EXCEPT ![q] = IF task[q] = "inline" THEN "cancelled" ELSE @]
    /\ \/ stage[q] = "led" /\ F!Drop(q) /\ run' = [run EXCEPT ![q] = "drop"]
       \/ stage[q] # "led" /\ UNCHANGED flightVars /\ run' = [run EXCEPT ![q] = "over"]
    /\ call' = [call EXCEPT ![q] = NoCall]
    /\ UNCHANGED <<envVars, storeVars, task, holdVars, published, reply>>

AbandonFlight(q) ==
    /\ run[q] = "drop"
    /\ F!Abandon(q)
    /\ run' = [run EXCEPT ![q] = "over"]
    /\ UNCHANGED <<envVars, storeVars, pc, task, holdVars, call, published, reply>>

-----------------------------------------------------------------------------
(* clear_cache, purge, purge_subtree: bump the epoch, then lock one shard   *)
(* after the other and remove what matches.                                 *)
BeginPurge ==
    /\ epoch < MaxPurges
    /\ sweep = {}
    /\ epoch' = epoch + 1
    /\ \E matching \in SUBSET Keys \ {{}} : sweep' = matching
    /\ UNCHANGED <<now, purged, storeVars, pc, run, task, holdVars, call,
                   published, reply, flightVars>>

SweepShard(k) ==
    /\ k \in sweep
    /\ sweep' = sweep \ {k}
    /\ cache' = [cache EXCEPT ![k] = None]
    /\ purged' = [purged EXCEPT ![k] = epoch]
    /\ UNCHANGED <<now, epoch, entry, pc, run, task, holdVars, call,
                   published, reply, flightVars>>

(* The store makes room for other keys, or refuses an oversized replacement *)
(* after having removed the old entry.                                      *)
Evict(k) ==
    /\ Pressure
    /\ cache[k] # None
    /\ cache' = [cache EXCEPT ![k] = None]
    /\ UNCHANGED <<envVars, entry, pc, run, task, holdVars, call,
                   published, reply, flightVars>>

Tick ==
    /\ now < MaxTime
    /\ now' = now + 1
    /\ UNCHANGED <<epoch, sweep, purged, storeVars, pc, run, task, holdVars,
                   call, published, reply, flightVars>>

Finished ==
    /\ \A q \in Queries : pc[q] \in {"done", "cancelled"} /\ run[q] \in {"none", "over"}
    /\ now = MaxTime
    /\ epoch = MaxPurges
    /\ sweep = {}
    /\ UNCHANGED vars

QueryStep(q) ==
    \/ LookupHit(q) \/ LookupMiss(q)
    \/ PrefetchNotDue(q) \/ StartPrefetch(q) \/ PrefetchFollows(q)
    \/ JoinFollow(q) \/ JoinLead(q)
    \/ FollowerDone(q) \/ FollowerAbandoned(q) \/ ServeHeld(q)
    \/ RecheckHit(q) \/ RecheckMiss(q)

RunStep(q) ==
    \/ Begin(q) \/ ReturnAnswer(q) \/ SettleAnswer(q) \/ ReturnPlain(q)
    \/ FailStale(q) \/ FailRemember(q) \/ FailPrefetch(q)
    \/ FinishGuard(q) \/ PublishOutcome(q) \/ AbandonFlight(q)

Next ==
    \/ \E q \in Queries :
            QueryStep(q) \/ RunStep(q) \/ CancelWaiting(q) \/ DropCall(q)
    \/ BeginPurge
    \/ \E k \in Keys : SweepShard(k) \/ Evict(k)
    \/ Tick
    \/ Finished

Spec == Init /\ [][Next]_vars

(* The executor polls every ready future and task, and an upstream call     *)
(* returns within its backend's timeout.  Nothing is assumed of clients     *)
(* that cancel, of purges, evictions or the clock.                          *)
Fairness == \A q \in Queries : WF_vars(QueryStep(q)) /\ WF_vars(RunStep(q))

FairSpec == Spec /\ Fairness

-----------------------------------------------------------------------------
Entries == Queries \cup {None}

ReplySet == [how : Replies, entry : Entries]

EntrySet ==
    [failure : BOOLEAN, inserted : Nat, expires : Nat, staleUntil : Nat,
     backoff : 0..LongestBackoff, epoch : 0..MaxPurges, recheck : Nat,
     hits : Nat, refreshing : BOOLEAN]

CallSet == [at : 0..MaxTime, prev : 0..LongestBackoff, epoch : 0..MaxPurges]

Pcs == {"lookup", "prefetch", "join", "wait", "recheck", "run", "selfwait", "done",
        "cancelled"}

Runs == {"none", "begin", "call", "settle", "finish", "publish", "drop", "over"}

TypeOK ==
    /\ now \in 0..MaxTime /\ epoch \in 0..MaxPurges /\ sweep \subseteq Keys
    /\ purged \in [Keys -> -1..MaxPurges]
    /\ cache \in [Keys -> Entries]
    /\ entry \in [Queries -> EntrySet]
    /\ pc \in [Queries -> Pcs]
    /\ run \in [Queries -> Runs]
    /\ task \in [Queries -> {"inline", "stale", "prefetch"}]
    /\ announced \in [Queries -> BOOLEAN]
    /\ held \in [Queries -> Entries]
    /\ arrived \in [Queries -> -1..MaxPurges]
    /\ call \in [Queries -> CallSet]
    /\ published \in [Queries -> ReplySet]
    /\ reply \in [Queries -> ReplySet]

(* "any later insert sees the new epoch" (clear_cache): once a purge has    *)
(* removed a key, the store never again holds for that key an answer or a   *)
(* failure whose upstream call began before the purge, however late that    *)
(* call returns.                                                            *)
PurgedStaysPurged ==
    \A k \in Keys : cache[k] # None => entry[cache[k]].epoch >= purged[k]

(* "Concurrent misses for the same question share one upstream query": at   *)
(* any time at most one upstream call per key is running, background        *)
(* refreshes included, also when leaders are cancelled and replaced.        *)
OneCallPerKey ==
    \A p, q \in Queries :
        run[p] = "call" /\ run[q] = "call" /\ KeyOf[p] = KeyOf[q] => p = q

(* The leader re-checks the store before it goes upstream, and nobody else  *)
(* can store under its flight, so no call other than a prefetch begins      *)
(* while the store could answer: not while an answer is fresh, not while a  *)
(* failure's backoff runs, not inside a stale entry's recheck window.       *)
NoCallWhileAnswerable ==
    [][\A q \in Queries :
         run[q] = "begin" /\ run'[q] = "call" /\ task[q] # "prefetch"
           => Classify(KeyOf[q]).kind = "Refresh"]_vars

(* "a failure never overwrites it" (ServeStale): a remembered failure is    *)
(* never stored over an answer that could still be served, fresh or stale.  *)
FailureKeepsAnswer ==
    [][\A k \in Keys :
         Live(k) /\ ~entry[cache[k]].failure /\ cache'[k] # None
           => ~entry'[cache'[k]].failure]_vars

(* "if it fails too, the window doubles": a failure stored over a           *)
(* remembered failure doubles that failure's backoff up to the longest, and *)
(* does so only after the older window has run out.                         *)
BackoffDoubles ==
    [][\A k \in Keys :
         /\ cache[k] # None /\ cache'[k] # None /\ cache[k] # cache'[k]
         /\ entry[cache[k]].failure /\ entry'[cache'[k]].failure
         => /\ now >= entry[cache[k]].expires
            /\ entry'[cache'[k]].backoff = NextBackoff(entry[cache[k]].backoff)]_vars

(* The query was answered with a failure although it holds an expired       *)
(* answer that is inside its stale window and that no purge has swept.      *)
FailedWithStale(q) ==
    /\ pc[q] = "done" /\ reply[q].how = "Failure" /\ held[q] # None
    /\ now < entry[held[q]].staleUntil
    /\ entry[held[q]].epoch > purged[KeyOf[q]]

(* "Queries arriving while a refresh is running join it ... and are served  *)
(* stale together if it fails" (ServeStale): no query is answered with a    *)
(* failure while it holds a usable stale answer.                            *)
StaleCoversFailure == \A q \in Queries : ~FailedWithStale(q)

(* Every other refresh settles its failure.  Whoever leads, is cancelled,   *)
(* hands over to a task or takes over: a query whose stale answer is still  *)
(* in the store is answered with a failure only by a prefetch.              *)
StaleUnlessPrefetch ==
    \A q \in Queries :
        /\ pc[q] = "done" /\ reply[q].how = "Failure"
        /\ held[q] # None /\ cache[KeyOf[q]] = held[q]
        => task[reply[q].entry] = "prefetch"

(* "each stored entry is refreshed at most once": however many hits fall in *)
(* the threshold at the same time, one of them starts the refresh.          *)
PrefetchOnce ==
    \A p, q \in Queries :
        /\ task[p] = "prefetch" /\ task[q] = "prefetch"
        /\ reply[p].entry = reply[q].entry
        => p = q

(* Every query is answered or was cancelled by its own caller, whichever    *)
(* leaders and tasks are dropped on the way.                                *)
EveryQueryEnds == \A q \in Queries : <>(pc[q] \in {"done", "cancelled"})

(* A query that arrives after a purge has swept its key is not answered     *)
(* from before the purge: what the lookup finds, what the query holds and   *)
(* what it fetches are all younger.                                         *)
FlushedAnswersStayGone ==
    \A q \in Queries :
        pc[q] = "done" /\ reply[q].how \in {"Fresh", "Stale"}
          => entry[reply[q].entry].epoch >= arrived[q]

(* The resolver uses the registry only through the operations of Flights.   *)
UsesFlights == F!Spec

=============================================================================
