------------------------------- MODULE FakeIp -------------------------------
(* The Fake IP pool (fakeip.rs): names mapped to synthetic addresses, one   *)
(* range per family, with expiry, eviction of the least recently used name, *)
(* snapshots and restoration.                                               *)
(*                                                                          *)
(* Time is counted in ticks, Second of them to a second.  A section under a *)
(* family's mutex is one step.  allocate and lookup read the clock inside   *)
(* their section; snapshot and purge_expired read it before the first one,  *)
(* so that their time may be any that has been.  The recency and allocation *)
(* counters are the sequence `order`, least recently used first.            *)
EXTENDS Integers, Sequences, FiniteSets, Functions

CONSTANTS
    Names,
    Range4, Range6, \* sizes of the ranges, 0 for a family that is disabled
    Hash,           \* the salted hash of a name, per family
    Ttl,            \* lifetime of a mapping, in ticks
    Second,
    MaxTime,        \* bound on the clock
    None

Families == {"v4", "v6"}
RangeSize == [f \in Families |-> IF f = "v4" THEN Range4 ELSE Range6]
Enabled(f) == RangeSize[f] > 0
Addresses(f) == 0 .. RangeSize[f] - 1

(* validate_ttl: a positive whole number of seconds.                        *)
ASSUME FakeIpAssumption ==
    /\ {Range4, Range6, MaxTime} \subseteq Nat /\ Range4 + Range6 > 0
    /\ {Second, Ttl} \subseteq Nat \ {0} /\ Ttl % Second = 0
    /\ Hash \in [Families -> [Names -> Nat]] /\ IsFiniteSet(Names)
    /\ None \notin Names \cup Nat

VARIABLES
    now,
    pool,       \* per family [forward, reverse, order]: FamilyState
    view,       \* a snapshot being taken: None or [at, todo, got]
    snap,       \* the snapshot the caller retains: None or [at, got]
    restored,   \* whether it was restored: no, yes or rejected
    promise     \* what the records handed out say of an address: until when it
                \* stands for which name (a history variable)

fakeVars == <<now, pool, view, snap, restored, promise>>

-----------------------------------------------------------------------------
(* FamilyState.                                                             *)
Empty == [forward |-> <<>>, reverse |-> <<>>, order |-> <<>>]

(* A sequence without the members of a set.                                 *)
Without(list, gone) ==
    LET Upto[i \in 0 .. Len(list)] ==
            IF i = 0 THEN <<>>
            ELSE IF list[i] \in gone THEN Upto[i - 1] ELSE Append(Upto[i - 1], list[i])
    IN  Upto[Len(list)]

(* Faulty variant: the address of a name that goes still points to it.      *)
UnmapForward(s, gone) ==
    [s EXCEPT !.forward = Restrict(@, DOMAIN @ \ gone), !.order = Without(@, gone)]

Unmap(s, gone) ==
    [forward |-> Restrict(s.forward, DOMAIN s.forward \ gone),
     reverse |-> Restrict(s.reverse, DOMAIN s.reverse \ {s.forward[n].address : n \in gone}),
     order   |-> Without(s.order, gone)]

Expired(s, t) == {n \in DOMAIN s.forward : s.forward[n].expires <= t}

PurgeExpired(s, t) == Unmap(s, Expired(s, t))

Touch(s, n) == [s EXCEPT !.order = Append(Without(@, {n}), n)]

Insert(s, n, a, expires) ==
    [forward |-> [m \in DOMAIN s.forward \cup {n} |->
                    IF m = n THEN [address |-> a, expires |-> expires] ELSE s.forward[m]],
     reverse |-> [b \in DOMAIN s.reverse \cup {a} |-> IF b = a THEN n ELSE s.reverse[b]],
     order   |-> Append(s.order, n)]

Full(s, f) == Cardinality(DOMAIN s.forward) >= RangeSize[f]

EvictLru(s) == Unmap(s, {Head(s.order)})

(* Circular linear probing from the candidate.                              *)
Probe(s, f, n) ==
    LET At(k) == ((Hash[f][n] % RangeSize[f]) + k) % RangeSize[f]
        k == CHOOSE k \in Addresses(f) :
                /\ At(k) \notin DOMAIN s.reverse
                /\ \A j \in 0 .. k - 1 : At(j) \in DOMAIN s.reverse
    IN  At(k)

(* allocate_with_ttl.                                                       *)
Allocated(s, f, n, t) ==
    LET live == PurgeExpired(s, t)
        room == IF Full(live, f) THEN EvictLru(live) ELSE live
    IN  IF n \in DOMAIN live.forward THEN Touch(live, n)
        ELSE Insert(room, n, Probe(room, f, n), t + Ttl)

(* lookup_with_ttl, for an address in the range.                            *)
LookedUp(s, a, t) ==
    LET live == PurgeExpired(s, t)
    IN  IF a \in DOMAIN live.reverse THEN Touch(live, live.reverse[a]) ELSE live

(* FamilyState::snapshot: least recently used first.                        *)
Listed(s, t) ==
    [i \in DOMAIN s.order |->
        [name |-> s.order[i], address |-> s.forward[s.order[i]].address,
         remaining |-> s.forward[s.order[i]].expires - t]]

-----------------------------------------------------------------------------
NoPromise == [name |-> None, until |-> 0]

Unpromised(f) == [a \in Addresses(f) |-> NoPromise]

FakeInit ==
    /\ now = 0
    /\ pool = [f \in Families |-> Empty]
    /\ view = None /\ snap = None /\ restored = "no"
    /\ promise = [f \in Families |-> Unpromised(f)]

Tick ==
    /\ now < MaxTime
    /\ now' = now + 1
    /\ promise' = [f \in Families |-> [a \in Addresses(f) |->
                    IF promise[f][a].until <= now' THEN NoPromise ELSE promise[f][a]]]
    /\ UNCHANGED <<pool, view, snap, restored>>

(* Faulty variant: the seconds are rounded up.                              *)
RecordTtlUp(lifetime) == (lifetime + Second - 1) \div Second

(* fake_ip_ttl: the record carries whole seconds.                           *)
RecordTtl(lifetime) == lifetime \div Second

(* What clients may conclude from the record now handed out, and from the   *)
(* ones before it.                                                          *)
Promised(f, a, n) ==
    LET until == now + Second * RecordTtl(pool'[f].forward[n].expires - now)
        old == promise[f][a]
        longer == old.name = n /\ old.until > until
    IN  [promise EXCEPT ![f] = [b \in DOMAIN @ |->
            IF b = a THEN IF longer THEN old ELSE [name |-> n, until |-> until]
            ELSE IF b \notin DOMAIN pool'[f].reverse THEN NoPromise ELSE @[b]]]

(* allocate_ipv4_with_ttl, allocate_ipv6_with_ttl.                          *)
Allocate(f, n) ==
    /\ Enabled(f)
    /\ pool' = [pool EXCEPT ![f] = Allocated(@, f, n, now)]
    /\ promise' = Promised(f, pool'[f].forward[n].address, n)
    /\ UNCHANGED <<now, view, snap, restored>>

(* lookup_ipv4_with_ttl, lookup_ipv6_with_ttl.                              *)
Lookup(f, a) ==
    /\ a \in Addresses(f)
    /\ pool' = [pool EXCEPT ![f] = LookedUp(@, a, now)]
    /\ UNCHANGED <<now, view, snap, restored, promise>>

(* purge_expired: one family, at the time read before its lock was taken.   *)
PurgeFamily(f) ==
    /\ \E at \in 0 .. now : pool' = [pool EXCEPT ![f] = PurgeExpired(@, at)]
    /\ UNCHANGED <<now, view, snap, restored, promise>>

(* snapshot: likewise, at the same time for every enabled family.           *)
SnapshotFamily(at, todo, got) ==
    LET f == Head(todo)
        s == PurgeExpired(pool[f], at)
        lists == [got EXCEPT ![f] = Listed(s, at)]
    IN
    /\ pool' = [pool EXCEPT ![f] = s]
    /\ IF Len(todo) = 1
       THEN view' = None /\ snap' = [at |-> at, got |-> lists]
       ELSE view' = [at |-> at, todo |-> Tail(todo), got |-> lists] /\ UNCHANGED snap
    /\ UNCHANGED <<now, restored, promise>>

SnapshotFirst ==
    /\ view = None /\ snap = None /\ restored = "no"
    /\ \E at \in 0 .. now :
        SnapshotFamily(at, Without(<<"v4", "v6">>, {f \in Families : ~Enabled(f)}),
                       [f \in Families |-> <<>>])

SnapshotNext ==
    view # None /\ SnapshotFamily(view.at, view.todo, view.got)

-----------------------------------------------------------------------------
(* Faulty variant: the time the snapshot was held does not count.           *)
ElapsedNone == 0

(* restore_with_clock: what is left of one family's list.                   *)
Elapsed == now - snap.at

Kept(list) == Without(list, {e \in Range(list) : e.remaining <= Elapsed})

(* The mappings are inserted in the order of the list, which makes it the   *)
(* order of use.                                                            *)
Restored(list) ==
    LET kept == Kept(list)
        At(n) == CHOOSE i \in DOMAIN kept : kept[i].name = n
        Of(a) == CHOOSE i \in DOMAIN kept : kept[i].address = a
    IN  [forward |-> [n \in {kept[i].name : i \in DOMAIN kept} |->
                        [address |-> kept[At(n)].address,
                         expires |-> now + kept[At(n)].remaining - Elapsed]],
         reverse |-> [a \in {kept[i].address : i \in DOMAIN kept} |-> kept[Of(a)].name],
         order   |-> [i \in DOMAIN kept |-> kept[i].name]]

Acceptable(list) ==
    /\ \A i \in DOMAIN list : list[i].remaining <= Ttl
    /\ \A i, j \in DOMAIN Kept(list) : i # j =>
            Kept(list)[i].name # Kept(list)[j].name /\ Kept(list)[i].address # Kept(list)[j].address

(* What the records handed out when the snapshot was taken say; those of    *)
(* mappings made later are lost.                                            *)
Remembered(f, list) ==
    [a \in Addresses(f) |->
        IF \E i \in DOMAIN list : list[i].address = a
        THEN LET e == list[CHOOSE i \in DOMAIN list : list[i].address = a]
             IN  [name |-> e.name, until |-> snap.at + Second * RecordTtl(e.remaining)]
        ELSE NoPromise]

(* The caller goes on with a pool restored from the snapshot it retained.   *)
Restore ==
    /\ snap # None
    /\ snap' = None
    /\ IF \A f \in Families : Acceptable(snap.got[f])
       THEN /\ pool' = [f \in Families |-> Restored(snap.got[f])]
            /\ promise' = [f \in Families |-> Remembered(f, snap.got[f])]
            /\ restored' = "yes"
       ELSE restored' = "rejected" /\ UNCHANGED <<pool, promise>>
    /\ UNCHANGED <<now, view>>

FakeNext ==
    \/ Tick \/ SnapshotFirst \/ SnapshotNext \/ Restore
    \/ \E f \in Families :
        PurgeFamily(f) \/ (\E n \in Names : Allocate(f, n)) \/ (\E a \in Addresses(f) : Lookup(f, a))

FakeSpec == FakeInit /\ [][FakeNext]_fakeVars

-----------------------------------------------------------------------------
(* The two maps of a family are each other's inverse, and the LRU order     *)
(* lists every mapped name once: an address never stands for two names.     *)
MapsInverse ==
    \A f \in Families :
        LET s == pool[f] IN
        /\ \A n \in DOMAIN s.forward :
            s.forward[n].address \in DOMAIN s.reverse /\ s.reverse[s.forward[n].address] = n
        /\ \A a \in DOMAIN s.reverse :
            a \in Addresses(f) /\ s.reverse[a] \in DOMAIN s.forward
                /\ s.forward[s.reverse[a]].address = a
        /\ {s.order[i] : i \in DOMAIN s.order} = DOMAIN s.forward
        /\ Len(s.order) = Cardinality(DOMAIN s.forward)

(* A record handed to a client stays true for as long as its TTL says,      *)
(* however the pool was used, purged or restored since: the address still   *)
(* stands for the name, unless the mapping was evicted.                     *)
RecordsHonoured ==
    \A f \in Families : \A a \in Addresses(f) :
        LET p == promise[f][a] IN
        now < p.until => a \in DOMAIN pool[f].reverse /\ pool[f].reverse[a] = p.name
                            /\ pool[f].forward[p.name].expires >= p.until

(* How a step that restores nothing treats the live mappings: one gives way *)
(* only when every address of its family is taken by a live mapping, and no *)
(* other one was used longer ago; none is extended.                         *)
Evicts ==
    \A f \in Families : \A n \in DOMAIN pool[f].forward \ Expired(pool[f], now) :
        IF n \in DOMAIN pool'[f].forward
        THEN pool'[f].forward[n].expires <= pool[f].forward[n].expires
        ELSE /\ Full(PurgeExpired(pool[f], now), f)
             /\ n = Head(PurgeExpired(pool[f], now).order)

(* What a restored family holds: the snapshot's mappings that have not      *)
(* expired since, in their order of use, with the expiry they had.          *)
Revives(f, list) ==
    LET live == Without(list, {e \in Range(list) : snap.at + e.remaining <= now}) IN
    /\ pool'[f].order = [i \in DOMAIN live |-> live[i].name]
    /\ \A i \in DOMAIN live :
        pool'[f].forward[live[i].name]
            = [address |-> live[i].address, expires |-> snap.at + live[i].remaining]

Restores == snap # None /\ restored' = "yes"

(* No mapping lives longer than it was given, or less without need: neither *)
(* reuse nor a snapshot held for a while and restored extends one, and a    *)
(* live one is lost only to the eviction of the least recently used.        *)
MappingsOnlyAge ==
    [][IF Restores THEN \A f \in Families : Revives(f, snap.got[f]) ELSE Evicts]_fakeVars

=============================================================================
