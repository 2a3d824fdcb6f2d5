# dns-lattice in TLA+

This directory models dns-lattice, a DNS resolver library in Rust: above all its
concurrent parts, and the pure functions they rest on. The modules are translated from the source under `src/`, TLC
checks them on small instances, and TLAPS proves the most important properties
for every instance. `PROJECT.json` maps each definition to the lines it models.

## The system

A `Resolver` takes a query and returns an answer. On the way:

| Part | Source (`crates/dns-lattice/src`) | State | Operations |
| --- | --- | --- | --- |
| Resolution path | `engine.rs`, `cache/mod.rs` | purge epoch, background tasks, the locals of each `resolve()` | look up, coalesce, re-check, call upstream, store, serve stale, remember a failure, prefetch, purge, cancel |
| Coalescing | `cache/flight.rs` | sharded registry of flights, one watch channel per flight | `join_or_lead`, `follower`, `finish`, `Drop`, `wait` |
| Answer store | `cache/store.rs` | shards: slots, two FIFO queues, ghost ring, expiry index | `get`, `insert_if`, `forget_failure`, `clear`, `purge` |
| Policy | `matcher.rs`, `policy.rs` (model crate) | none | longest match, group lookup |
| Connection pool | `upstream/pool.rs` | connections, one connect in progress, admission permits, janitor | acquire, connect, complete, time out, drain, sweep |
| Stream engine | `upstream/stream.rs` | wire-id table with tombstones, writer queue, slack | submit, dispatch, cancel, fail, retry |
| Other backends | `upstream/{mod,doh,doq,quic,dot}.rs` | a socket or a session | query |
| Fake IP | `fakeip.rs` | address pools, LRU order, TTLs | allocate, look up, snapshot, restore |
| Servers | `server/mod.rs` | listeners, connection limits | accept, answer, truncate, shut down |
| Codec, hooks, errors | model and core crates | none | encode, decode, report |

What is hard here is concurrency. Many `resolve()` futures and background
tasks interleave at every lock and await. Any of them can be dropped at an
await. An upstream call takes arbitrarily long, and what was true before it
(the store's content, the clock, the purge epoch) may not be true after it.

## Modules

| Module | Role |
| --- | --- |
| `Flights` | the flight registry and the life of one flight |
| `FlightsProofs` | TLAPS proofs about `Flights` |
| `Resolver` | the cached resolution path, using `Flights` for every registry step |
| `ResolverProofs` | TLAPS proofs about `Resolver` |
| `AnswerStore` | one shard of the store, with S3-FIFO eviction |
| `AnswerStoreProofs` | TLAPS proofs about `AnswerStore` |
| `LossyMap` | what a store promises its callers |
| `Pool` | the connection pool: admission, connects, leases, rotation, janitor |
| `PoolProofs` | TLAPS proofs about `Pool` |
| `Stream` | pipelined queries over one connection (TCP, DoT): wire ids, tombstones, reader, writer, failure, retry |
| `Doh` | DNS over HTTP/1.1 and HTTP/2: generations, the cold-start gate, the retry |
| `Quic` | DNS over QUIC and over HTTP/3: connections and the runtime that drives them, the retry |
| `Backends` | a backend, which is one of those three for its life |
| `StreamProofs`, `BackendsProofs` | TLAPS proofs: the inductive invariant of `Stream`; those of `Doh` and `Quic`, the account of late answers of a connection, and what all of them give for `Backends` |
| `FrontendProofs` | TLAPS proofs about `Frontend`, `FakeIp`, `Matcher` and the lifetimes of `Messages` |
| `CommonFacts` | lemmas on sequences, sums of shares, wrapping counters and iterated functions that the proofs share |
| `Matcher` | rules for names and the most specific match |
| `Messages` | messages at the level of fields: EDNS, validation, what is cacheable and for how long |
| `FakeIp` | the Fake IP pool |
| `Frontend` | a query from a listener through routing, Fake IP, cache and the UDP and TCP backends to its response; composes `FakeIp`, `Matcher`, `Messages` |
| `Codec`, `CodecChecks` | the wire format and cache keys; what they promise, over all small inputs |
| `NameDecoder` | the loop that decodes a name, turn by turn |
| `MC...` | constants for TLC |

Definitions called "Faulty variant" are not part of any specification. Each is
a plausible mistake in the code; putting it in place of the right definition
makes TLC report the property that guards against it.

### Flights

A flight is the channel behind one `LeaderGuard` and is named by the caller
that created it. `registry` is the hash map, `registered` the flag in the
guard, `stage` the life of the guard, `state` the value in the channel,
`following` the receiver a caller holds. `Follow`, `LeadPrivate` and
`LeadRegistered` are the three arms of `join_or_lead`. `finish` takes the lock
and only afterwards publishes, so it is two actions (`Finish`, `Publish`), and
so is `Drop` (`Drop`, `Abandon`). `Wake` is `wait` returning; `Leave` is a
receiver dropped by a timeout or a cancellation. `Start` and `Release` let the
model reuse a caller for another query; they stand for no code.

### Resolver

A query is a process with a program counter `pc`; its upstream resolution has
its own, `run`, because a background task carries it on after the query was
answered. `task` says who runs it: the query (`inline`), a serve-stale refresh
(`stale`) or a prefetch. Steps are the spans between two locks, atomics or
awaits another query can observe. An entry is named by the query whose call
created it, and `entry` holds its fields (including the shared `hits`,
`refreshing` and `recheck` atomics). `purged` and `arrived` are history
variables for the properties.

The module instantiates `Flights` with the queries as callers and conjoins its
actions, so that "the resolver uses the registry as it may be used" is the
refinement `UsesFlights`. The store is one entry per key with lazy expiry.
`Pressure` allows any entry to be evicted at any time, which is what `LossyMap`
permits and what `AnswerStore` is shown to implement. A purge is
`BeginPurge` (the epoch) followed by one `SweepShard` per matching key, in any
order, with other steps in between.

Answers are abstracted to their lifetime, TTLs to one constant, and an
upstream call to its four outcomes: cacheable answer, other answer, failure,
or dropped.

### AnswerStore

The shard is one record, since every operation holds its lock. The linked
lists are sequences of hashes, and `bytes` keeps the incremental counts of the
code next to them. The ghost map and ring are one sequence whose entries carry
a `live` flag. `make_room` is an iteration of `RoomStep`, a function of the
number of iterations that reaches a fixed point. The slab index of a slot only
breaks ties between equal expiry times; the model takes every assignment of
indices into account. The path for more than `u32::MAX` slots is left out.
`DefaultShardCount` is checked on its own, over all small budgets.

### Pool

`conn` is `State::entries`, with `None` for a name that is no entry, and the
other variables are the fields of `State`, the semaphore (`free`, `queue`), the
stored permit of the `Notify` (`wake`) and what each caller holds. Each section
under the state mutex is one action, with the sweep it begins with: `Use` and
`Wait` are two arms of `pick` inside the loop of `acquire_inner`,
`FinishConnect` and `JanitorRun` the locked parts of the two tasks. What follows
the unlock is a step of its own: `SendOutcome`, `NotifyJanitor`, and `DropPermit`,
since the permit is a field that is dropped after the slot was given back.
`EndQuery` is what the stream backend does with a lease before it drops it.
`LeaveQueue` and `GiveUp` are a deadline or a dropped future at an await.

Entry ids and epochs are counters in the code; the model takes any unused
name, and among equally loaded connections any instead of the oldest. The clock
is read right before the mutex is taken, and the model makes that one step: the
mutex is held for microseconds and the shortest timeout is a second.

### Stream

A connection has the fields of `ConnShared` and `ConnState`, with the
`PendingTable` of `pool.rs`: `slots`, `tombs`, `nextId`. Each section under the
connection's mutex is one action (`Submit`, `DropGuard`, `Fail`, `Dispatch`), and
what a task does after it has unlocked is another (`Deliver`, `Notify`). A waiter
can therefore be cancelled, failed and answered at the same time. `Register` sweeps
any prefix of the tombstones, since their expiry is a matter of time, evicts one
when the table is full, and takes the next free id, wrapping. A server in
`Honest` answers what it received, late and in any order; any other server sends
anything. The pool is reduced to what `Pool` shows of it.

`Owed` are the answers that a server may still send, `Late` those of them that no
pending query waits for, and `Reserved` the ids that stand for the one answer that
can still carry them. `IdsStayReserved` and `StormTolerated` say what the steps of
a connection to an honest server may do to the three. The first makes exact what
`stream.rs` says of a cancelled query, "its wire id stays reserved and a late answer
cannot reach a newer query": this ends when `submit` sweeps or evicts the
tombstone, and there only, after which `validate_response` alone tells the answers
apart.

### Doh and Quic

`Doh` follows a call through `resolve`: admission, the current generation, the
gate of `GenState::send`, the request, and the retry. A gate's holder waits for
HTTP/1.1 or for the end of its request in the steps of `wait_for_http1` (enable
the notification, look at the flag, park), and `CountedIo::new` sets the flag and
notifies in two steps (`Flag`, `NotifyWaiters`), so a lost notification would show.
The HTTP client is external: it opens a connection when it has none for a
request, and connections fail or close at any time. A request may fail alone on
a connection of HTTP/2 that stays open (`Levels`).

`Quic` has one endpoint, which belongs to a runtime, and connections that belong
to the runtime that opened them. `RuntimeEnds` takes the driver away from both.
`Connect` rebinds the endpoint as `QuicClient::endpoint` does. A stream fails with
or without its connection, which is what `RetryAllowed` tells apart; timeouts, TLS
errors and a passed deadline, after which nothing is retried, are `Withdraw`.

### FakeIp, Matcher, Messages and Frontend

A family's state is a record under its mutex; the recency counters are the
sequence `order`. `snapshot` and `purge_expired` read the clock before they lock one
family after the other, so each family is a step of its own with a time that may
have passed. `promise` is a history variable: until when the records handed out
say that an address belongs to a name.

`Frontend` follows a query through one task: `Accept`, `Receive`, `Reject`,
`RejectEdns`, `FakeAnswer`, `FakePtrAnswer`, `Route`, `CacheLookup`, `Backend`,
`UdpAnswer`, `UdpTimeout`, `TcpQuery`, `Reply`. A query is a record with what the
code reads: transport, whether it decodes, questions, RD, its OPT records. The
length of a message is counted in units that distinguish a question, a record,
an OPT and its options. The route hook may decide anything it is allowed to. The
cache is a map that forgets at any moment. Queries with the key of one that is
asking upstream wait for it (`Leads`, `Follows`), get its outcome when the call
`Ends`, and `FinishFollower` makes their response of it; how such flights form,
break and are taken over is in `Resolver`. Whether the resolver has Fake IP is
chosen at the start, so that one run has both.

`Matcher` and the lifetimes of `Messages` are pure: assumptions in `MCFrontend`
compare them with their references (the first of the most specific rules; a
lifetime within those of all records and the bounds) for all small inputs, and
`FrontendProofs` does so for all inputs.

### Codec and NameDecoder

Octets have six bits instead of eight, short numbers one octet and long ones
two, and names at most nine octets; that keeps every type code, the two top bits
of a length octet, and all limits. `NameStep` is one turn of the loop of
`decode_name`; `DecodeName` takes as many turns as there are offsets. `CodecChecks`
states, as assumptions that TLC evaluates with run `backends`: names are read
label by label and a pointer stands for what it points to (`NamesRead`), resource
data that decodes ends where its record says (`DataFramed`), records and messages
that were decoded and encoded again are the same (`RecordsKept`, `MessagesKept`),
all flags survive but the three without a field (`FlagsKept`), and a purge
removes exactly the names at or below a zone (`PurgesExact`). `NameDecoder` makes
each turn a step, to ask whether the loop ends.

## What is checked

The runs of `Flights`, `Resolver`, `AnswerStore` and `Pool` check deadlock: a
finished `Resolver` may stutter only when every query has ended and the bounds are
used up. The runs of `Backends`, `Frontend` and `NameDecoder` do not, since their
behaviours end when the calls, the clock or the name are used up.

| Run | Instance | Shows |
| --- | --- | --- |
| `flights` | 3 callers, 3 keys, 2 of which collide; fair | registry soundness, no outcome of another key, no stranded follower, a final receiver count, every follower returns |
| `resolver` | 3 queries, 1 key, everything on except eviction, 1 purge, clock to 4, at most 1 refresh task | one upstream call per key, none while the store could answer, each entry prefetched once, failures neither replace nor hide an answer, backoffs double |
| `resolver_uncoalesced` | 3 queries, coalescing and client timeout off, 2 purges, evictions, clock to 3 | purged answers never come back, neither to the store nor to a later query |
| `resolver_collide` | 3 queries, 2 colliding keys, failure cache off, clock to 2; fair | the resolver implements `Flights`; every query ends |
| `answer_store` | 4 keys, 2 of which collide, room for 2 entries, clock to 2 | the byte counts are exact and bounded, newcomers are not refused, expired entries are not promoted, the shard implements `LossyMap` |
| `pool` | 3 callers, 1 connection of 2 slots, lifetime and idle timeout 1, clock to 2 | slots and permits are never lost or counted twice, no admitted caller is left without a place, draining connections are bounded |
| `pool_scale` | 2 callers, 2 connections of 2 slots, no lifetime, clock stopped; fair | at most `max_connections`, no lost wake-up of the janitor, every wait for a connect ends |
| `backends` | stream: 2 callers (one an update), 4 calls, 2 ids, an honest and another server; DoH: 2 callers, 3 calls, 2 connections, 2 generations; QUIC: 3 queries, 3 calls, 3 connections, 2 runtimes, DoQ and HTTP/3 | an id stays reserved for a late answer until `submit` reuses it, the allowance covers late answers up to its cap, no waiter is lost, a lease is worth a slot, the gate never misses HTTP/1.1, no query runs on a connection without a runtime, and nothing is sent again but as the retry rules say |
| `frontend` | 18 shapes of queries from all listeners, 2 groups of UDP and TCP backends, a hook, coalescing; or 3 names for 2 IPv4 and 1 IPv6 fake addresses with expiry, snapshot and restore | each response fits its query, no extended RCODE is lost to the query that asked upstream, no content crosses groups or DO bits by the cache or a shared call, forward and reverse map agree, a fake address keeps its name as long as a record says, a restored mapping only ages |
| `name_decoding` | every buffer of at most 4 octets from 3, every offset; fair | violation, see below |
| `prefetch_hides_stale` | as `resolver`, without failure cache, client timeout and purge | violation, see below |
| `failure_overwrites_answer` | coalescing, client timeout and prefetch off, no purge | violation, see below |

### Where code and documentation disagree

* `prefetch_hides_stale`. The documentation of `ServeStale` says that queries
  which join a running refresh "are served stale together if it fails". A
  prefetch holds no stale entry and does not settle its failure, so a query
  that joins it after the entry has expired gets the error although it holds a
  usable stale answer. `StaleUnlessPrefetch`, in run `resolver` and proved in
  general, shows that this is the only way while the stale answer is still in
  the store.
* `failure_overwrites_answer`. The same documentation says "a failure never
  overwrites" a stored answer. With coalescing off, a call that fails late
  replaces the fresh answer another call has stored meanwhile. With coalescing
  on the property holds (run `resolver`).

* `name_decoding`. The comment of `decode_name` says that pointers to strictly
  earlier offsets reject loops and bound the decode. A pointer must lie behind
  its target, but labels lead forward again: when the labels at the target run
  into the same pointer, the loop passes it for ever, and collects a label each
  time, because the length is checked after the loop. The existing test has a
  pointer to itself, which is rejected.

Further observations, met while modelling, that no run states:

* The allowance for unsolicited frames does not always grow "by one for every
  query that was cancelled or timed out", nor is it true without limit that "a
  cancellation storm cannot close a healthy connection" (`stream.rs:33`): it stops
  at `slack_cap`. With more late answers than that outstanding at one time, and
  their tombstones evicted, an honest server's connection is closed.
  `StormTolerated` and `StormsSurvived` give the exact extent of the claim.
* A query that waits for another one's call gets the answer without its OPT record
  (`engine.rs:774`). The comment says that "only the transaction fields are the
  follower's own", but an extended RCODE goes with the record: a `BADVERS` or
  `BADCOOKIE` of the upstream is a `NOERROR` without records for the follower and
  the error for the leader. `FinishFollower` does this, and `ExtendedRcodeKept`
  speaks of the query that asked.
* `failed_on_answering_connection` says that "the connection failed (closed, reset,
  `GOAWAY`)" (`doh.rs:1462`). `is_connection_level` rejects only errors of parsing and
  of use, so a reset of one HTTP/2 stream on a healthy connection is retried too.
  `Levels` allows it, and `SentAgainIfStale` excepts HTTP/2 where it says that the
  connection is closed.
* A Fake IP snapshot reads the clock before the locks. A mapping made in between
  has more time left, counted from that instant, than its TTL, and `restore`
  refuses the whole snapshot (`fakeip.rs:168`, `235`). `FakeIp` has this behaviour.
* A UDP response to several questions may exceed 512 octets after truncation;
  the comment at `server/mod.rs:596` assumes one question.
* DoH over HTTP/3 answers 400 to an undecodable query for a wrong path, HTTP/1.1
  and 2 answer 404.
* `QuicClient::endpoint` closes the old endpoint on a rebind also when its runtime
  is alive (`quic.rs:154` says it is not). Two live runtimes that share a backend
  close each other's connections.
* The retry without OPT over UDP uses the same id and question, so a duplicate
  of the first FORMERR is taken for its answer.

One behaviour is not stated as a property because the documentation leaves it
open: with coalescing on, a query that arrives after a purge can join a flight
whose call began before the purge and get its answer.

### Bounds

Three queries are a leader, a follower and someone who arrives between their
steps, which covers cancelled leaders and their successors. One key is enough
for everything but collisions, since keys meet only in a hash; `flights` and
`resolver_collide` have two that collide. TTL, stale window and backoff are 1 or
2 ticks, so the clock bound of `resolver` passes freshness, staleness and the
end of the stale window, and two consecutive failures. At most one refresh
task is allowed in `resolver`, so that the task limit is reached. Two purges
let a call span one or both. `resolver_collide` has no purge and a short clock,
because checking liveness is expensive. In `answer_store` the costs are chosen
on both sides of the small queue's share and of the oversize limit, and
`MaxFreq` is 2 instead of 3. In `pool` the third caller has to queue, one
connection can drain while its successor is live, and the read timeout is longer
than the lifetime, so that the cap on the grace period matters. `pool_scale`
needs no clock: an idle connection gets its deadline at once, and without a
lifetime a busy pool has none, which is when only a wake-up can help. Deadlines
that pass are left to the proof of `JanitorInTime`, which has any clock. Both close
a connection at the first timeout (the code: at the third). There are names
for two connections and two connects; a third has to wait until a name is
unused. In `backends` two ids for two callers make every id reused, the slack
limit is 1 (the code: 16), and three calls let one query be cancelled,
one reuse its id and one meet the late answer. A fourth leaves more late answers
than the allowance, capped at 3, can grow to; it is only followed while the second
connection is unopened (`StormOnOneConnection`), which the claims about one
connection do not notice. Two generations and two
connections of DoH are a successful and a failed start, three connections on two
runtimes a rebind and a way back. In `frontend` two names share a hash and the
third meets a full range. The clock passes one TTL, and sizes are chosen so that
each limit is met exactly, from below and from above. The other task of
`frontend` asks for the same name with another DO bit. Symmetry is used only
where no liveness is checked.

### Fairness

`Flights` assumes that a guard is eventually finished or dropped, that both run
to their end, and that a woken follower is polled. `Resolver` assumes weak
fairness of each query's own steps and of each resolution. The executor polls
every ready future and task, and each backend bounds a call with a timeout.
`Pool` assumes weak fairness of the connect tasks, the janitor and each
caller's own steps (a connect task that is dropped reports through its
`ConnectGuard`, which the model takes for granted), but not of deadlines or of the end of a lease. Nothing is
assumed of cancellations, purges, evictions or the clock. Fairness is
on the disjunction of a query's steps, never on one outcome. `NameDecoder` assumes
that a loop without awaits goes on. `Backends` and `Frontend` state safety only
and assume nothing.

## What is proved

`FlightsProofs`, for any set of callers, any keys and any hash function
(`HashAssumption`, `NoFlightAssumption`): `TypeOK`, `RegistrySound`,
`OneRegisteredLeader`, `FollowersShareKey`, `NobodyStranded` and the action
property `CountIsFinal`. The inductive invariant joins the first two with
`FollowersShareKey` and `NobodyStranded`. They need each other: a flight is
followed only through the registry, what the registry holds is led, and a
followed flight is neither released nor given a new key.

`ResolverProofs`, for any queries, keys, durations, bounds and feature flags
(the four assumptions of `Resolver`):

* `ImplementsFlights`: every behaviour of the resolver is one of `Flights`, so
  that `FlightInvariants` carries over what `FlightsProofs` shows.
* `TypeCorrect`: types, in particular that no backoff leaves its bounds.
* `PurgeIsFinal`: `PurgedStaysPurged`. The property is not inductive alone. It
  needs that no sweep is ahead of the epoch (`SweptAfterBump`), and that an entry
  is not in the store before the call that creates it returns
  (`CreatedOnReturn`), which in turn needs the control invariant
  `NotYetRunning`. Then an insertion under an unchanged epoch is at least as
  young as the last sweep of its key, and nothing else adds to the store.
* `OneUpstreamCall`: with coalescing on and no two keys in use sharing a hash,
  `OneCallPerKey`. Whoever calls upstream holds a live guard
  (`ResolvesUnderGuard`), without collisions every guard is registered, and the
  registry holds one per key. The hypothesis on hashes is needed: a colliding
  key resolves privately, so its queries do not share a call.

* `RefreshedOnce`: `PrefetchOnce`. A prefetch's entry is marked `refreshing`, it
  stays marked, and only an unmarked entry starts one. This needs that a
  prefetch keeps the reply of its query (`TaskControl`, `MarkedBy`), and that an
  entry in the store or in a query's hands was created by a call that has
  returned (`EntriesSound`).
* `CallsAreNeeded`, `FailuresYield`, `WindowsDouble`: under the hypotheses of
  `OneUpstreamCall`, the action properties `NoCallWhileAnswerable`,
  `FailureKeepsAnswer` and `BackoffDoubles`. All three follow from one invariant,
  `CallsJustified`: from its re-check until its call returns, a resolution that
  is not a prefetch finds nothing under its key, or what it saw there: an
  expired answer it holds as stale, or an expired failure whose backoff it
  doubles. It is inductive because the re-check runs under the flight and the
  flight has one leader (`SoleLeader`). Without the hypotheses the second is
  false, see `failure_overwrites_answer`.
* `StaleCovers`: under the hypotheses of `OneUpstreamCall`, `StaleUnlessPrefetch`.
  A refresh other than a prefetch that fails leaves no servable answer under its
  key: it either served it or would have (`NoAnswer`). The invariant `FailInv`
  says so of every flight that has failed and is still registered
  (`FlightLeavesNone`), and that whoever followed it, was answered by it or failed
  itself no longer holds what is in the store (`FollowersLetGo`, `FailedLetGo`).
  It needs to know where a query can be when it holds an answer (`HeldAnswers`,
  `Unanswered`, `Unpublished`, `Waits`). The hypothesis that the answer is still in
  the store cannot be dropped. An answer is stored as of the instant of the
  lookup before its call. When that call is slow its answer may replace a younger
  one with a later end, and a query can hold the younger one, in time, while
  the flight finds nothing left to serve.
* `FlushIsFelt`: with coalescing off, `FlushedAnswersStayGone`: whatever a query
  holds, from its arrival on, is not older than the last sweep of its key when
  it arrived.

`PoolProofs`, for any callers, connections, limits, timeouts and clock
(`PoolAssumption`; a lifetime may be absent): the types, in particular that no
connection carries more than `max_in_flight` leases and no permit is made up;
`WithinLimit`, `LeasesCounted`, `JanitorInTime`, `DrainingBounded` and
`NeverExhausted`. The inductive invariant `PoolInv` adds to those the permits
(`PermitsCounted`: free ones and callers inside their call are the capacity), the
queue, what a caller holds at each point, and two facts about rotation: a
connection is marked when it has reached its lifetime (`Dated`), and one sweep
marks every connection that is old enough (`MarkedTogether`). The connections that
are draining were therefore all live together just before the first of them was
marked, so there are at most `max_connections` of them. `NeverExhausted` is a
count: if all live connections were full and no connect could begin, the leases
alone would be as many as the permits, and the caller has one too.

`StreamProofs` and `BackendsProofs`, for any callers, connections, ids, slots,
generations, runtimes and servers (`StreamAssumption`, `DohAssumption`,
`QuicAssumption`; the table has at least as many ids as slots, as `PendingTable`
has): `WaiterHeld`, `SlotForEveryLease`, `SentAtMostTwice`, `IdsStayReserved`,
`StormTolerated`, `GateLetsGo`, `SentAgainIfStale` and `OnLiveRuntime`.
For the stream engine, `StreamInv` says that a waiter is in exactly one place (a
slot, the reader's hand or the list of those to be failed) and that its caller is still at the attempt that made it or has
left (`Waiter`); that the queue of tombstones lists the orphaned slots, each once,
and the slots in use are within the capacity (`Table`); that a closed connection
has an empty table; and that an attempt is paid for before a frame is queued
(`RetryState`). `StormInv` says that every pending query of an honest, open connection
has an answer of its own among those the server owes (`PendingAsked`). The late
answers are then all but one for each pending query, and a step that adds one, a
cancellation, adds one to the allowance too unless that is at its cap, while one
that reads a late answer takes away at most one of each (`CoverStep`).
`LateAnswersTolerated` is this for a step. `StormsSurvived` draws the conclusion for a
behaviour: as long as no honest connection has more than `slack_cap` late answers at
one time, `dispatch` never refuses an answer of an honest server. For
`LateAnswersKeptApart`, an id in `Reserved` has one answer, and its slot is touched
only by that answer, by the guard that turns the waiter into its tombstone, by
`submit`, and by the end of the connection (`ReservedStep`).
For DoH, `DohInv` says where each call stands in its generation's
gate (`Placed`), that whoever has enabled its notification hears of HTTP/1.1
(`HeardOf`), and how often it was sent (`HttpCounted`). For QUIC, `QuicInv` says
that a call's connection belongs to the call's runtime, which lives.

`AnswerStoreProofs`, for any keys, hash function, costs, lifetimes and sizes that
satisfy `StoreAssumption`: `ShardAgrees`, `WithinBudget`, `NewcomerStays`,
`ExpiredNeverPromoted`, and the refinement `IsLossyMap`. The assumption states what
`Shard::new` and the constants of `store.rs` establish: ghosts and one entry of the largest admissible size fit
the budget together, and an entry costs at least as much as a ghost. The invariant
is that queues, slots and byte counts agree (`Linked`), that the ring
is within its cap and remembers no hash twice (`RingKept`), and that the shard is
within its budget. It holds again after an insertion because of the
eviction loop, and the loop is an iterated function: `Stepwise` and `Iterates` of
`CommonFacts` say that what one turn preserves holds after all of them, and that
a count that falls with every turn runs out. What is counted are the chances left
in the shard (`Tokens`): an entry in the main queue has its frequency and one
more, one in the small queue has two if it was hit, and every turn takes a
chance from an entry or the entry with all it has.

`FrontendProofs`, for any tasks, queries, groups, servers, decisions of the hook,
names, ranges, hash functions and lifetimes (`FrontendAssumption`,
`ArrivalsAssumption` and `FakeIpAssumption`; what they ask of the queries is their
types and that the names Fake IP selects are known):

* `ServeInvariant`, and from it `ResponsesFit`, `ExtendedCodeReaches` and
  `ContentIsRight` (`ResponseFitsQuery`, `ExtendedRcodeKept`, `ContentMatches`). The
  inductive invariant `ServeInv` says, for each point a task can be at, what query,
  group and answer it holds, of every cached answer that its origin is its key, and
  of every query that waits or was told an outcome that it may use the cache: two
  such queries with one key have one origin (`FollowerOk`), so what one fetched is
  right for the other. The truncation to the UDP limit is arithmetic on the lengths.
* `PoolInvariant` of the Fake IP pool alone, `ProgramUsesPool` (the program takes
  only steps of the pool), and from both `MapsStayInverse`, `RecordsStayHonoured` and
  `MappingsAge`. `FakeInv` adds to the two invariants which names and addresses the
  maps, the LRU list and the recorded promises may hold, that a snapshot lists
  valid names and addresses of each family taken no later than now, and that at most one is
  under way or retained, before any is restored.
* `MatcherIsRight`: the scan of `DomainMatcher::resolve` finds the first of the most
  specific rules that match, and `resolve_all` lists it first.
* `LifetimeIsWithinRecords`: the lifetime of an entry respects the bounds, the SOA
  and every record, and the TTLs that are served count down with it.

Only model-checked:

* Liveness (`FollowersReturn`, `EveryQueryEnds`, `WaitsEnd`), which needs
  fairness and so is out of the prover's reach.
* `Codec` and `NameDecoder`, which are loops over octets: what they compute for
  every input needs induction over data.
* The three runs that end in a violation are counterexamples and need no proof.

Every invariant, action property and refinement that a passing run checks is proved.

## Not modelled

The map covers about a seventh of the lines of the repository. Three fifths of
them are tests and most of the rest is documentation, builders, event types and
configuration, so the share of the code that decides something is far larger, but
it is not all:

* Sockets, TLS, HTTP and QUIC framing, multiplexing and flow control: input and
  output, in other crates.
* The limits on connections and idle times of the servers, and the counters and
  events of every part: no decision in the modelled code reads the latter.
* Builders and validation of configuration values, beyond the assumptions on the
  constants; conversion of names from and to text.
* Of the store: the estimate of an entry's cost. Of the pool: dropping it, when nobody acquires from it any more and the
  runtime aborts its tasks.
* Benchmarks and scripts.
