----------------------------- MODULE AnswerStore -----------------------------
(***************************************************************************)
(* One shard of the answer store (cache/store.rs): a byte-bounded map with  *)
(* an S3-FIFO of two queues, a ghost ring of remembered hashes and an       *)
(* expiry index.  Every operation runs under the shard lock and is one      *)
(* step, its eviction loop included.  A slot is named by its hash, under    *)
(* which the map holds at most one; its slab index only breaks ties in the  *)
(* expiry index.                                                            *)
(***************************************************************************)
EXTENDS Naturals, Sequences, FiniteSets, FiniteSetsExt

CONSTANTS
    Keys, Hashes, HashOf,
    Answers,        \* CachedAnswers: [cost, failure, life], life to stale_until
    NoSlot,
    Budget,         \* bytes of the shard
    SmallTarget,    \* the small queue's share: SMALL_PERCENT of the budget
    OversizeLimit,  \* budget / OVERSIZE_DIVISOR
    GhostCap,       \* ghosts the ring may hold: budget / GHOST_DIVISOR
    GhostCost,      \* GHOST_COST
    MaxFreq,        \* MAX_FREQ
    MaxTime,        \* bound on the clock
    MaxCall         \* bound on how long an upstream call takes

(* An entry; `answers` is the key whose answer it is.                       *)
Slots ==
    [key : Keys, cost : Nat, failure : BOOLEAN, expires : Nat, freq : Nat,
     queue : {"Small", "Main"}, answers : Keys]

ASSUME StoreAssumption ==
    /\ IsFiniteSet(Hashes) /\ HashOf \in [Keys -> Hashes] /\ NoSlot \notin Slots
    /\ {Budget, SmallTarget, OversizeLimit, GhostCap, GhostCost, MaxFreq, MaxTime, MaxCall}
          \subseteq Nat
    /\ \A a \in Answers : a.cost \in Nat \ {0} /\ a.failure \in BOOLEAN /\ a.life \in Nat
    /\ \A a \in Answers : GhostCost <= a.cost    \* ENTRY_OVERHEAD is above GHOST_COST
    /\ GhostCap * GhostCost + OversizeLimit <= Budget

VARIABLES
    shard,      \* the Shard behind its mutex
    now         \* the clock

vars == <<shard, now>>

-----------------------------------------------------------------------------
(* default_shard_count, with its two constants as parameters.               *)
NextPowerOfTwo(n) == CHOOSE p \in {2 ^ k : k \in 0 .. n} : p >= n /\ (p = 1 \/ p \div 2 < n)

DefaultShardCount(maxBytes, parallelism, maxShards, minBytes) ==
    LET first == Min({NextPowerOfTwo(4 * Max({parallelism, 1})), maxShards})
        reduced[shards \in Nat] ==
            IF shards > 1 /\ maxBytes \div shards < minBytes THEN reduced[shards \div 2] ELSE shards
    IN  reduced[first]

-----------------------------------------------------------------------------
NewShard ==
    [slot |-> [h \in Hashes |-> NoSlot],
     queue |-> [Small |-> <<>>, Main |-> <<>>],
     bytes |-> [Small |-> 0, Main |-> 0],
     ring |-> <<>>]

Total(s) == s.bytes.Small + s.bytes.Main + Len(s.ring) * GhostCost

Occupied(s) == {h \in Hashes : s.slot[h] # NoSlot}

PushBack(s, h, queue) ==
    [s EXCEPT !.slot[h].queue = queue,
              !.queue[queue] = Append(@, h),
              !.bytes[queue] = @ + s.slot[h].cost]

Without(list, i) == SubSeq(list, 1, i - 1) \o SubSeq(list, i + 1, Len(list))

Unlink(s, h) ==
    LET queue == s.slot[h].queue IN
    [s EXCEPT !.queue[queue] = Without(@, CHOOSE i \in DOMAIN @ : @[i] = h),
              !.bytes[queue] = @ - s.slot[h].cost]

RemoveSlot(s, h) == [Unlink(s, h) EXCEPT !.slot[h] = NoSlot]

(* The ghost map points at the youngest ring entry of a remembered hash;    *)
(* a ring entry it does not point at is dead but still charged.             *)
Remembered(s, h) == \E i \in DOMAIN s.ring : s.ring[i] = [hash |-> h, live |-> TRUE]

Forgotten(ring, h) ==
    [i \in DOMAIN ring |-> IF ring[i].hash = h THEN [hash |-> h, live |-> FALSE] ELSE ring[i]]

PushGhost(s, h) ==
    LET ring == Append(Forgotten(s.ring, h), [hash |-> h, live |-> TRUE])
    IN  IF GhostCap = 0 THEN s
        ELSE [s EXCEPT !.ring = IF Len(ring) > GhostCap THEN Tail(ring) ELSE ring]

-----------------------------------------------------------------------------
(* evict_one: the small queue is consulted while it is over its share.      *)

(* Faulty variant: a promoted entry is charged to both queues.              *)
EvictSmallDoubleCharge(s) ==
    LET h == Head(s.queue.Small) IN
    IF s.slot[h].freq > 0
    THEN PushBack([Unlink(s, h) EXCEPT !.slot[h].freq = 0, !.bytes.Small = s.bytes.Small],
                  h, "Main")
    ELSE PushGhost(RemoveSlot(s, h), h)

EvictSmall(s) ==
    LET h == Head(s.queue.Small) IN
    IF s.slot[h].freq > 0
    THEN PushBack([Unlink(s, h) EXCEPT !.slot[h].freq = 0], h, "Main")
    ELSE PushGhost(RemoveSlot(s, h), h)

EvictMain(s) ==
    LET h == Head(s.queue.Main) IN
    IF s.slot[h].freq > 0
    THEN PushBack([Unlink(s, h) EXCEPT !.slot[h].freq = @ - 1], h, "Main")
    ELSE RemoveSlot(s, h)

(* Faulty variant: the small queue is consulted whatever its size.          *)
EvictOneSmallFirst(s) ==
    IF s.queue.Small # <<>> THEN EvictSmall(s)
    ELSE IF s.queue.Main # <<>> THEN EvictMain(s)
    ELSE s

EvictOne(s) ==
    IF s.bytes.Small > SmallTarget \/ s.queue.Main = <<>>
    THEN IF s.queue.Small = <<>> THEN s ELSE EvictSmall(s)
    ELSE EvictMain(s)

(* The slab indices slots may have, of which one will do for an insertion   *)
(* that finds fewer than two expired entries.                               *)
AllIndices ==
    {f \in [Hashes -> 1..Cardinality(Hashes)] : \A g, h \in Hashes : f[g] = f[h] => g = h}

Indices(at) ==
    IF \E g, h \in Occupied(shard) :
            g # h /\ shard.slot[g].expires <= at /\ shard.slot[h].expires <= at
    THEN AllIndices
    ELSE {CHOOSE f \in AllIndices : TRUE}

(* The first element of the expiry index.                                   *)
FirstExpired(s, at, index) ==
    LET expired == {h \in Occupied(s) : s.slot[h].expires <= at}
    IN  CHOOSE h \in expired : \A g \in expired :
            \/ s.slot[h].expires < s.slot[g].expires
            \/ s.slot[h].expires = s.slot[g].expires /\ index[h] <= index[g]

(* Faulty variant: the expiry index is not consulted.                       *)
RoomStepFifo(s, at, index) == IF Total(s) <= Budget THEN s ELSE EvictOne(s)

(* One iteration of make_room; no change once the shard fits.               *)
RoomStep(s, at, index) ==
    IF Total(s) <= Budget THEN s
    ELSE IF \E h \in Occupied(s) : s.slot[h].expires <= at
         THEN RemoveSlot(s, FirstExpired(s, at, index))
    ELSE EvictOne(s)

(* An entry is promoted once, then spends MaxFreq chances, then leaves.     *)
Iterations == Cardinality(Hashes) * (MaxFreq + 2)

(* Faulty variant: one entry leaves for every one that comes.               *)
MakeRoomOnce(s, at, index) == RoomStep(s, at, index)

MakeRoom(s, at, index) ==
    LET after[n \in 0..Iterations] ==
            IF n = 0 THEN s ELSE RoomStep(after[n - 1], at, index)
    IN  after[Iterations]

-----------------------------------------------------------------------------
Init == shard = NewShard /\ now = 0

(* get: a key that is not the slot's is a miss; an entry past its           *)
(* stale_until is dropped, and remembered if it was hit.                    *)
Get(k) ==
    LET h == HashOf[k]
        slot == shard.slot[h]
    IN
    /\ slot # NoSlot
    /\ slot.key = k
    /\ shard' = IF now < slot.expires
                THEN [shard EXCEPT !.slot[h].freq = IF @ < MaxFreq THEN @ + 1 ELSE @]
                ELSE IF slot.freq > 0 THEN PushGhost(RemoveSlot(shard, h), h)
                ELSE RemoveSlot(shard, h)
    /\ UNCHANGED now

ForgetFailure(k) ==
    LET slot == shard.slot[HashOf[k]] IN
    /\ slot # NoSlot
    /\ slot.key = k
    /\ slot.failure
    /\ shard' = RemoveSlot(shard, HashOf[k])
    /\ UNCHANGED now

(* Faulty variant: a colliding key's slot is updated in place.              *)
NewSlotInPlace(k, a, at) ==
    LET old == shard.slot[HashOf[k]] IN
    [key |-> IF old = NoSlot THEN k ELSE old.key, cost |-> a.cost,
     failure |-> a.failure, expires |-> at + a.life, freq |-> 0, queue |-> "Small",
     answers |-> k]

(* The slot of an answer to `k` that was asked for at `at`.                 *)
NewSlot(k, a, at) ==
    [key |-> k, cost |-> a.cost, failure |-> a.failure, expires |-> at + a.life,
     freq |-> 0, queue |-> "Small", answers |-> k]

(* What insert leaves before it makes room: the old slot of the hash is     *)
(* removed first, even if the new entry turns out to be too large.          *)
Placed(k, a, at) ==
    LET h == HashOf[k]
        old == shard.slot[h]
        reused == old # NoSlot /\ old.key = k /\ (old.freq > 0 \/ old.queue = "Main")
        cleared == IF old = NoSlot THEN shard ELSE RemoveSlot(shard, h)
        queue == IF reused \/ Remembered(cleared, h) THEN "Main" ELSE "Small"
    IN  IF a.cost > OversizeLimit THEN cleared
        ELSE PushBack([cleared EXCEPT !.ring = Forgotten(@, h),
                                      !.slot[h] = NewSlot(k, a, at)],
                      h, queue)

(* The instants an upstream call that returns now may have begun at.        *)
Began == {at \in 0..now : now <= at + MaxCall}

(* insert, with the instant before the upstream call as its `now`.          *)
Insert(k, a, at) ==
    /\ at \in Began
    /\ IF a.cost > OversizeLimit THEN shard' = Placed(k, a, at)
       ELSE \E index \in Indices(at) : shard' = MakeRoom(Placed(k, a, at), at, index)
    /\ UNCHANGED now

Clear ==
    /\ shard' = NewShard
    /\ UNCHANGED now

(* A set in the order it is visited.                                        *)
Listing(S) == CHOOSE f \in [1..Cardinality(S) -> S] : IsInjective(f)

(* remove_matching, for purge and purge_subtree: no ghosts are left.        *)
RemoveMatching(matching) ==
    LET doomed == Listing({h \in Occupied(shard) : shard.slot[h].key \in matching})
        after[n \in 0..Len(doomed)] ==
            IF n = 0 THEN shard ELSE RemoveSlot(after[n - 1], doomed[n])
    IN
    /\ doomed # <<>>
    /\ shard' = after[Len(doomed)]
    /\ UNCHANGED now

Tick == now < MaxTime /\ now' = now + 1 /\ UNCHANGED shard

Next ==
    \/ \E k \in Keys : Get(k) \/ ForgetFailure(k)
    \/ \E k \in Keys, a \in Answers, at \in Began : Insert(k, a, at)
    \/ Clear
    \/ \E matching \in SUBSET Keys : RemoveMatching(matching)
    \/ Tick

Spec == Init /\ [][Next]_vars

-----------------------------------------------------------------------------
SumOf(costs) ==
    LET upto[n \in 0..Len(costs)] == IF n = 0 THEN 0 ELSE upto[n - 1] + costs[n]
    IN  upto[Len(costs)]

CostsOf(s, queue) == [i \in DOMAIN s.queue[queue] |-> s.slot[s.queue[queue][i]].cost]

(* The structures of a shard agree with each other: every occupied slot is  *)
(* in exactly one queue, once, and in the one it names; the byte counts the *)
(* eviction loop decides on are those of the queues, because promotion,     *)
(* second chances, replacement and purges charge and release the same cost; *)
(* the ghost ring stays within its cap and remembers a hash once.           *)
ShardAgrees ==
    /\ now \in 0..MaxTime
    /\ \A h \in Occupied(shard) : LET slot == shard.slot[h] IN
          /\ HashOf[slot.key] = h
          /\ slot.freq \in 0..MaxFreq
          /\ slot.queue \in {"Small", "Main"}
          /\ slot.cost <= OversizeLimit
    /\ \A queue \in {"Small", "Main"} :
          /\ IsInjective(shard.queue[queue])
          /\ Range(shard.queue[queue])
                = {h \in Occupied(shard) : shard.slot[h].queue = queue}
          /\ shard.bytes[queue] = SumOf(CostsOf(shard, queue))
    /\ Len(shard.ring) <= GhostCap
    /\ \A i, j \in DOMAIN shard.ring :
          shard.ring[i].live /\ shard.ring[i] = shard.ring[j] => i = j

(* "evicts ... until the shard is back within its budget": entries and      *)
(* ghosts together never exceed the budget between two operations, although *)
(* every eviction from the small queue adds a ghost.  The eviction loop     *)
(* never runs out of entries before it gets there.                          *)
WithinBudget == Total(shard) <= Budget

(* A scan of new keys cannot be refused: a key that is neither stored nor   *)
(* remembered and costs no more than the small queue's share is stored, and *)
(* survives the eviction its own insertion causes.                          *)
NewcomerStays ==
    \A k \in Keys, a \in Answers, at \in Began :
        /\ shard.slot[HashOf[k]] = NoSlot /\ ~Remembered(shard, HashOf[k])
        /\ a.cost <= SmallTarget /\ a.cost <= OversizeLimit /\ a.life > 0
        => \A index \in Indices(at) :
              MakeRoom(Placed(k, a, at), at, index).slot[HashOf[k]] = NewSlot(k, a, at)

(* "An expired entry is therefore never promoted or reinserted": while an   *)
(* insertion makes room, an entry that has expired by then stays where it   *)
(* is in its queue or leaves.                                               *)
ExpiredNeverPromoted ==
    \A k \in Keys, a \in Answers, at \in Began :
        \A h \in Occupied(shard) \ {HashOf[k]} : shard.slot[h].expires <= at =>
            \A index \in Indices(at) :
                MakeRoom(Placed(k, a, at), at, index).slot[h] \in {shard.slot[h], NoSlot}

(* The entry a lookup of `k` would find, expired or not.                    *)
Found(k) ==
    LET slot == shard.slot[HashOf[k]] IN
    IF slot = NoSlot \/ slot.key # k THEN NoSlot
    ELSE [answers |-> slot.answers, failure |-> slot.failure, expires |-> slot.expires]

Lossy ==
    INSTANCE LossyMap WITH
        ValuesOf <- [k \in Keys |-> [answers : {k}, failure : BOOLEAN, expires : Nat]],
        Nothing <- NoSlot,
        stored <- [k \in Keys |-> Found(k)]

(* "a 64-bit collision can never serve a mismatched answer: the newer key   *)
(* replaces the older one": whatever collides, is promoted or evicted, a    *)
(* key finds what was last stored under it, or nothing.                     *)
IsLossyMap == Lossy!Spec

=============================================================================
