-------------------------- MODULE AnswerStoreProofs --------------------------
(***************************************************************************)
(* What holds of a shard of the answer store for every set of keys, every   *)
(* hash function, every budget and every mix of costs and lifetimes.        *)
(***************************************************************************)
EXTENDS AnswerStore, CommonFacts

-----------------------------------------------------------------------------
(* The sum of a sequence of costs.                                          *)
Sums(costs, u) ==
    /\ u \in [0 .. Len(costs) -> Nat]
    /\ u[0] = 0
    /\ \A n \in 1 .. Len(costs) : u[n] = u[n - 1] + costs[n]

LEMMA SumIs ==
  ASSUME NEW costs \in Seq(Nat)
  PROVE  \E u : Sums(costs, u) /\ SumOf(costs) = u[Len(costs)]
  <1> DEFINE N == Len(costs)
             Is(w) == w = [n \in 0 .. N |-> IF n = 0 THEN 0 ELSE w[n - 1] + costs[n]]
             u == CHOOSE w : w = [n \in 0 .. N |-> IF n = 0 THEN 0 ELSE w[n - 1] + costs[n]]
             step == [n \in 1 .. N |-> [x \in Nat |-> x + costs[n]]]
  <1>1. N \in Nat /\ \A n \in 1 .. N : costs[n] \in Nat
    OBVIOUS
  <1>2. step \in [1 .. N -> [Nat -> Nat]]
    BY <1>1
  <1>3. PICK g : Iterated(g, N, Nat, 0, step)
    <2> HIDE DEF step, N
    <2> QED
      BY <1>1, <1>2, Iterates
  <1>4. Is(g)
    <2>1. ASSUME NEW n \in 1 .. N PROVE g[n] = g[n - 1] + costs[n]
      <3>1. g[n - 1] \in Nat /\ g[n] = step[n][g[n - 1]]
        <4> HIDE DEF step
        <4> QED
          BY <1>1, <1>3 DEF Iterated
      <3>2. step[n] = [x \in Nat |-> x + costs[n]]
        OBVIOUS
      <3> QED
        BY <3>1, <3>2
    <2> HIDE DEF step
    <2> QED
      BY <1>1, <1>3, <2>1 DEF Iterated
  <1>5. Is(u)
    BY <1>4, Zenon
  <1>6. SumOf(costs) = u[N]
    BY DEF SumOf
  <1> HIDE DEF u, N, step
  <1>7. u[0] = 0 /\ \A n \in 1 .. N : u[n] = u[n - 1] + costs[n]
    BY <1>1, <1>5
  <1>8. 0 .. N \subseteq {n \in 0 .. N : u[n] \in Nat}
    <2> DEFINE S == {n \in 0 .. N : u[n] \in Nat}
    <2>1. 0 \in S
      BY <1>1, <1>7
    <2>2. ASSUME NEW n \in 1 .. N, n - 1 \in S PROVE n \in S
      <3>1. u[n - 1] \in Nat /\ costs[n] \in Nat /\ u[n] = u[n - 1] + costs[n] /\ n \in 0 .. N
        BY <1>1, <1>7, <2>2
      <3> QED
        BY <3>1
    <2> HIDE DEF S
    <2>3. 0 .. N \subseteq S
      BY <1>1, <2>1, <2>2, Stepwise
    <2> QED
      BY <2>3 DEF S
  <1>9. u \in [0 .. N -> Nat]
    BY <1>5, <1>8
  <1> QED
    BY <1>6, <1>7, <1>9 DEF Sums, N

LEMMA SumOfNone ==
  SumOf(<<>>) = 0
  <1>1. <<>> \in Seq(Nat) /\ Len(<<>>) = 0
    OBVIOUS
  <1> QED
    BY <1>1, SumIs DEF Sums

LEMMA SumOfOne ==
  ASSUME NEW costs \in Seq(Nat), Len(costs) = 1
  PROVE  SumOf(costs) = costs[1]
  <1>1. PICK u : Sums(costs, u) /\ SumOf(costs) = u[1]
    BY SumIs
  <1>2. u[1] = u[1 - 1] + costs[1] /\ u[0] = 0 /\ costs[1] \in Nat
    BY <1>1 DEF Sums
  <1> QED
    BY <1>1, <1>2

LEMMA SumOfAppend ==
  ASSUME NEW costs \in Seq(Nat), NEW c \in Nat
  PROVE  SumOf(Append(costs, c)) = SumOf(costs) + c
  <1> DEFINE N == Len(costs)
             more == Append(costs, c)
  <1>1. /\ N \in Nat /\ more \in Seq(Nat) /\ Len(more) = N + 1 /\ more[N + 1] = c
        /\ \A n \in 1 .. N : more[n] = costs[n]
    OBVIOUS
  <1>2. PICK u : Sums(costs, u) /\ SumOf(costs) = u[N]
    BY SumIs
  <1> HIDE DEF more
  <1>3. PICK w : Sums(more, w) /\ SumOf(more) = w[N + 1]
    BY <1>1, SumIs
  <1> DEFINE S == {n \in 0 .. N : w[n] = u[n]}
  <1>4. 0 \in S /\ \A n \in 1 .. N : n - 1 \in S => n \in S
    BY <1>1, <1>2, <1>3 DEF Sums
  <1>5. w[N] = u[N]
    <2> HIDE DEF S
    <2>1. 0 .. N \subseteq S
      BY <1>1, <1>4, Stepwise
    <2> QED
      BY <1>1, <2>1 DEF S
  <1>6. w[N + 1] = w[N] + c
    <2>1. N + 1 \in 1 .. N + 1 /\ (N + 1) - 1 = N
      BY <1>1
    <2> QED
      BY <1>1, <1>3, <2>1 DEF Sums
  <1> QED
    BY <1>2, <1>3, <1>5, <1>6 DEF more

LEMMA SumOfRemoved ==
  ASSUME NEW costs \in Seq(Nat), NEW k \in DOMAIN costs
  PROVE  /\ SumOf(Without(costs, k)) = SumOf(costs) - costs[k]
         /\ SumOf(costs) \in Nat /\ costs[k] \in Nat
  <1> DEFINE N == Len(costs)
             less == Without(costs, k)
  <1>1. N \in Nat /\ k \in 1 .. N /\ \A n \in 1 .. N : costs[n] \in Nat
    OBVIOUS
  <1>2. /\ less \in Seq(Nat) /\ Len(less) = N - 1
        /\ \A i \in 1 .. N - 1 : less[i] = costs[IF i < k THEN i ELSE i + 1]
    BY OneLess DEF Without
  <1> HIDE DEF less
  <1>3. PICK u : Sums(costs, u) /\ SumOf(costs) = u[N]
    BY SumIs
  <1>4. PICK w : Sums(less, w) /\ SumOf(less) = w[N - 1]
    BY <1>2, SumIs
  <1> HIDE DEF N
  <1>5. /\ u \in [0 .. N -> Nat] /\ u[0] = 0 /\ \A n \in 1 .. N : u[n] = u[n - 1] + costs[n]
        /\ w \in [0 .. N - 1 -> Nat] /\ w[0] = 0
        /\ \A n \in 1 .. N - 1 : w[n] = w[n - 1] + less[n]
    BY <1>2, <1>3, <1>4 DEF Sums, N
  <1> DEFINE Off(n) == IF n < k THEN u[n] ELSE u[n + 1] - costs[k]
             S == {n \in 0 .. N - 1 : w[n] = Off(n)}
  <1>6. 0 \in S
    BY <1>1, <1>5
  <1>7. ASSUME NEW n \in 1 .. N - 1, n - 1 \in S PROVE n \in S
    <2>0. /\ k \in 1 .. N /\ costs[k] \in Nat /\ w[n] = w[n - 1] + less[n]
          /\ w[n - 1] = Off(n - 1)
      BY <1>1, <1>5, <1>7
    <2>a. ASSUME NEW i \in 1 .. N
          PROVE  u[i] = u[i - 1] + costs[i] /\ u[i] \in Nat /\ u[i - 1] \in Nat /\ costs[i] \in Nat
      <3>1. i - 1 \in 0 .. N /\ i \in 0 .. N
        BY <1>1
      <3> QED
        BY <1>1, <1>5, <3>1
    <2>b. n \in 1 .. N /\ n + 1 \in 1 .. N /\ (n + 1) - 1 = n
      BY <1>1
    <2>c. less[n] = costs[IF n < k THEN n ELSE n + 1]
      BY <1>2
    <2> HIDE DEF S
    <2>1. CASE n < k
      <3>1. w[n - 1] = u[n - 1]
        BY <2>0, <2>1
      <3> QED
        BY <2>0, <2>a, <2>b, <2>c, <2>1, <3>1 DEF S
    <2>2. CASE n = k
      <3>1. w[n - 1] = u[n - 1] /\ less[n] = costs[n + 1]
        BY <2>0, <2>c, <2>2
      <3>2. u[n + 1] = u[n] + costs[n + 1] /\ u[n] = u[n - 1] + costs[k]
        BY <2>a, <2>b, <2>2
      <3>a. u[n - 1] \in Nat /\ costs[n + 1] \in Nat /\ costs[k] \in Nat
        BY <2>0, <2>a, <2>b, Zenon
      <3>b. \A a, b, c \in Nat : a + b = ((a + c) + b) - c
        OBVIOUS
      <3>3. w[n] = u[n + 1] - costs[k]
        <4>1. w[n] = u[n - 1] + costs[n + 1] /\ u[n + 1] = (u[n - 1] + costs[k]) + costs[n + 1]
          BY <2>0, <3>1, <3>2, Zenon
        <4>2. u[n - 1] + costs[n + 1] = ((u[n - 1] + costs[k]) + costs[n + 1]) - costs[k]
          BY <3>a, <3>b, Zenon
        <4> QED
          BY <4>1, <4>2, Zenon
      <3> QED
        BY <2>2, <3>3 DEF S
    <2>3. CASE n > k
      <3>1. w[n - 1] = u[n] - costs[k] /\ less[n] = costs[n + 1]
        BY <2>0, <2>b, <2>c, <2>3
      <3>2. u[n + 1] = u[n] + costs[n + 1]
        BY <2>a, <2>b
      <3>3. w[n] = u[n + 1] - costs[k]
        BY <2>0, <2>a, <2>b, <3>1, <3>2
      <3> QED
        BY <2>3, <3>3 DEF S
    <2> QED
      BY <1>1, <2>1, <2>2, <2>3
  <1>8. w[N - 1] = u[N] - costs[k]
    <2> HIDE DEF S
    <2>1. N - 1 \in Nat
      BY <1>1
    <2>2. 0 .. N - 1 \subseteq S
      BY <1>6, <1>7, <2>1, Stepwise
    <2>3. w[N - 1] = Off(N - 1)
      BY <2>1, <2>2 DEF S
    <2>4. CASE N - 1 < k
      <3>1. k = N
        BY <1>1, <2>4
      <3>2. u[N] = u[N - 1] + costs[k] /\ u[N - 1] \in Nat /\ u[N] \in Nat
        BY <1>1, <1>5, <3>1
      <3> QED
        BY <1>1, <2>3, <3>1, <3>2
    <2> QED
      BY <1>1, <2>3, <2>4
  <1> QED
    BY <1>1, <1>3, <1>4, <1>5, <1>8 DEF less, N

-----------------------------------------------------------------------------
(* The values a shard has, and what each operation makes of its fields.     *)
Queues == {"Small", "Main"}

Ghosts == [hash : Hashes, live : BOOLEAN]

Shards ==
    [slot : [Hashes -> Slots \cup {NoSlot}], queue : [Queues -> Seq(Hashes)],
     bytes : [Queues -> Int], ring : Seq(Ghosts)]

Rebuilt(slot, queue, bytes, ring) ==
    [slot |-> slot, queue |-> queue, bytes |-> bytes, ring |-> ring]

LEMMA FieldsOf ==
  ASSUME NEW s \in Shards
  PROVE  /\ s.slot \in [Hashes -> Slots \cup {NoSlot}]
         /\ s.queue \in [Queues -> Seq(Hashes)]
         /\ s.bytes \in [Queues -> Int]
         /\ s.ring \in Seq(Ghosts)
  BY DEF Shards

LEMMA IsRebuilt ==
  ASSUME NEW t, NEW a, NEW b, NEW c, NEW d,
         DOMAIN t = {"slot", "queue", "bytes", "ring"}, t = [i \in DOMAIN t |-> t[i]],
         t["slot"] = a, t["queue"] = b, t["bytes"] = c, t["ring"] = d
  PROVE  t = Rebuilt(a, b, c, d)
  <1>1. Rebuilt(a, b, c, d)
            = [i \in {"slot", "queue", "bytes", "ring"} |-> Rebuilt(a, b, c, d)[i]]
    BY DEF Rebuilt
  <1> QED
    BY <1>1 DEF Rebuilt

LEMMA SlotFieldSet ==
  ASSUME NEW s \in Shards, NEW x
  PROVE  [s EXCEPT !.slot = x] = Rebuilt(x, s.queue, s.bytes, s.ring)
  <1> DEFINE t == [s EXCEPT !.slot = x]
  <1>1. /\ DOMAIN t = {"slot", "queue", "bytes", "ring"} /\ t = [i \in DOMAIN t |-> t[i]]
        /\ t["slot"] = x /\ t["queue"] = s.queue /\ t["bytes"] = s.bytes /\ t["ring"] = s.ring
    BY DEF Shards
  <1> HIDE DEF t
  <1>2. t = Rebuilt(x, s.queue, s.bytes, s.ring)
    BY <1>1, IsRebuilt
  <1> QED
    BY <1>2, Zenon DEF t

LEMMA RingFieldSet ==
  ASSUME NEW s \in Shards, NEW x
  PROVE  [s EXCEPT !.ring = x] = Rebuilt(s.slot, s.queue, s.bytes, x)
  <1> DEFINE t == [s EXCEPT !.ring = x]
  <1>1. /\ DOMAIN t = {"slot", "queue", "bytes", "ring"} /\ t = [i \in DOMAIN t |-> t[i]]
        /\ t["slot"] = s.slot /\ t["queue"] = s.queue /\ t["bytes"] = s.bytes /\ t["ring"] = x
    BY DEF Shards
  <1> HIDE DEF t
  <1>2. t = Rebuilt(s.slot, s.queue, s.bytes, x)
    BY <1>1, IsRebuilt
  <1> QED
    BY <1>2, Zenon DEF t

LEMMA QueueFieldsSet ==
  ASSUME NEW s \in Shards, NEW x, NEW y
  PROVE  [s EXCEPT !.queue = x, !.bytes = y] = Rebuilt(s.slot, x, y, s.ring)
  <1> DEFINE t == [s EXCEPT !.queue = x, !.bytes = y]
  <1>1. /\ DOMAIN t = {"slot", "queue", "bytes", "ring"} /\ t = [i \in DOMAIN t |-> t[i]]
        /\ t["slot"] = s.slot /\ t["queue"] = x /\ t["bytes"] = y /\ t["ring"] = s.ring
    BY DEF Shards
  <1> HIDE DEF t
  <1>2. t = Rebuilt(s.slot, x, y, s.ring)
    BY <1>1, IsRebuilt
  <1> QED
    BY <1>2, Zenon DEF t

LEMMA LinkFieldsSet ==
  ASSUME NEW s \in Shards, NEW x, NEW y, NEW z
  PROVE  [s EXCEPT !.slot = x, !.queue = y, !.bytes = z] = Rebuilt(x, y, z, s.ring)
  <1> DEFINE t == [s EXCEPT !.slot = x, !.queue = y, !.bytes = z]
  <1>1. /\ DOMAIN t = {"slot", "queue", "bytes", "ring"} /\ t = [i \in DOMAIN t |-> t[i]]
        /\ t["slot"] = x /\ t["queue"] = y /\ t["bytes"] = z /\ t["ring"] = s.ring
    BY DEF Shards
  <1> HIDE DEF t
  <1>2. t = Rebuilt(x, y, z, s.ring)
    BY <1>1, IsRebuilt
  <1> QED
    BY <1>2, Zenon DEF t

LEMMA UnlinkIs ==
  ASSUME NEW s \in Shards, NEW h \in Hashes
  PROVE  LET q == s.slot[h].queue
             at == CHOOSE i \in DOMAIN s.queue[q] : s.queue[q][i] = h
         IN  Unlink(s, h) = Rebuilt(s.slot, [s.queue EXCEPT ![q] = Without(@, at)],
                                    [s.bytes EXCEPT ![q] = @ - s.slot[h].cost], s.ring)
  <1> DEFINE q == s.slot[h].queue
             at == CHOOSE i \in DOMAIN s.queue[q] : s.queue[q][i] = h
             x == [s.queue EXCEPT ![q] = Without(@, at)]
             y == [s.bytes EXCEPT ![q] = @ - s.slot[h].cost]
  <1>1. Unlink(s, h) = [s EXCEPT !.queue = x, !.bytes = y]
    BY Zenon DEF Unlink, Shards
  <1> HIDE DEF x, y
  <1>2. Unlink(s, h) = Rebuilt(s.slot, x, y, s.ring)
    BY <1>1, QueueFieldsSet, Zenon
  <1> QED
    BY <1>2 DEF x, y

LEMMA PushBackIs ==
  ASSUME NEW s \in Shards, NEW h \in Hashes, NEW q
  PROVE  PushBack(s, h, q)
            = Rebuilt([s.slot EXCEPT ![h] = [@ EXCEPT !.queue = q]],
                      [s.queue EXCEPT ![q] = Append(@, h)],
                      [s.bytes EXCEPT ![q] = @ + s.slot[h].cost], s.ring)
  <1> DEFINE x == [s.slot EXCEPT ![h] = [@ EXCEPT !.queue = q]]
             y == [s.queue EXCEPT ![q] = Append(@, h)]
             z == [s.bytes EXCEPT ![q] = @ + s.slot[h].cost]
  <1>1. PushBack(s, h, q) = [s EXCEPT !.slot = x, !.queue = y, !.bytes = z]
    BY Zenon DEF PushBack, Shards
  <1> HIDE DEF x, y, z
  <1>2. [s EXCEPT !.slot = x, !.queue = y, !.bytes = z] = Rebuilt(x, y, z, s.ring)
    BY LinkFieldsSet, Zenon
  <1> QED
    BY <1>1, <1>2, Zenon DEF x, y, z

LEMMA SlotSetIs ==
  ASSUME NEW s \in Shards, NEW h \in Hashes, NEW x
  PROVE  [s EXCEPT !.slot[h] = x] = Rebuilt([s.slot EXCEPT ![h] = x], s.queue, s.bytes, s.ring)
  <1> DEFINE y == [s.slot EXCEPT ![h] = x]
  <1>1. [s EXCEPT !.slot[h] = x] = [s EXCEPT !.slot = y]
    BY Zenon
  <1> HIDE DEF y
  <1>2. [s EXCEPT !.slot[h] = x] = Rebuilt(y, s.queue, s.bytes, s.ring)
    BY <1>1, SlotFieldSet, Zenon
  <1> QED
    BY <1>2 DEF y

LEMMA FreqSetIs ==
  ASSUME NEW s \in Shards, NEW h \in Hashes, NEW f
  PROVE  [s EXCEPT !.slot[h].freq = f]
            = Rebuilt([s.slot EXCEPT ![h] = [@ EXCEPT !.freq = f]], s.queue, s.bytes, s.ring)
  <1> DEFINE y == [s.slot EXCEPT ![h] = [@ EXCEPT !.freq = f]]
  <1>1. [s EXCEPT !.slot[h].freq = f] = [s EXCEPT !.slot = y]
    BY Zenon
  <1> HIDE DEF y
  <1>2. [s EXCEPT !.slot[h].freq = f] = Rebuilt(y, s.queue, s.bytes, s.ring)
    BY <1>1, SlotFieldSet, Zenon
  <1> QED
    BY <1>2 DEF y

-----------------------------------------------------------------------------
(* A shard whose structures agree, but for the entries in `out`, which are  *)
(* on their way from one queue to another.                                  *)
Entry(h, slot) ==
    /\ slot \in Slots
    /\ HashOf[slot.key] = h
    /\ slot.answers = slot.key
    /\ slot.freq <= MaxFreq
    /\ GhostCost <= slot.cost /\ slot.cost <= OversizeLimit

Queued(s, h, q) == \E i \in DOMAIN s.queue[q] : s.queue[q][i] = h

InQueue(s, out, q) ==
    /\ \A i, j \in DOMAIN s.queue[q] : s.queue[q][i] = s.queue[q][j] => i = j
    /\ \A h \in Hashes :
          Queued(s, h, q) <=> h \notin out /\ s.slot[h] # NoSlot /\ s.slot[h].queue = q
    /\ s.bytes[q] = SumOf(CostsOf(s, q))

Linked(s, out) ==
    /\ s \in Shards
    /\ \A h \in Occupied(s) : Entry(h, s.slot[h])
    /\ \A q \in Queues : InQueue(s, out, q)

RingKept(ring) ==
    /\ ring \in Seq(Ghosts)
    /\ Len(ring) <= GhostCap
    /\ \A i, j \in DOMAIN ring : ring[i].live /\ ring[i] = ring[j] => i = j

Sound(s) == Linked(s, {}) /\ RingKept(s.ring)

(* `h` is the youngest entry of a queue.                                    *)
IsLast(s, q, h) == Len(s.queue[q]) > 0 /\ s.queue[q][Len(s.queue[q])] = h

LEMMA CostsTyped ==
  ASSUME NEW s, NEW out, Linked(s, out), NEW q \in Queues
  PROVE  /\ CostsOf(s, q) \in Seq(Nat) /\ Len(CostsOf(s, q)) = Len(s.queue[q])
         /\ DOMAIN CostsOf(s, q) = DOMAIN s.queue[q]
         /\ \A i \in DOMAIN s.queue[q] : CostsOf(s, q)[i] = s.slot[s.queue[q][i]].cost
  <1> DEFINE queue == s.queue[q]
             n == Len(queue)
  <1>1. queue \in Seq(Hashes)
    BY FieldsOf DEF Linked
  <1>2. n \in Nat /\ DOMAIN queue = 1 .. n /\ \A i \in 1 .. n : queue[i] \in Hashes
    BY <1>1
  <1>3. ASSUME NEW i \in 1 .. n PROVE s.slot[queue[i]].cost \in Nat
    <2>1. queue[i] \in Hashes /\ Queued(s, queue[i], q)
      BY <1>2 DEF Queued
    <2>2. queue[i] \in Occupied(s)
      BY <2>1 DEF Linked, InQueue, Occupied
    <2>3. s.slot[queue[i]] \in Slots
      BY <2>2 DEF Linked, Entry
    <2> QED
      BY <2>3 DEF Slots
  <1> DEFINE c == [i \in 1 .. n |-> s.slot[queue[i]].cost]
  <1>4. CostsOf(s, q) = c
    BY <1>2 DEF CostsOf
  <1>5. c \in [1 .. n -> Nat]
    BY <1>3
  <1>6. c \in Seq(Nat) /\ Len(c) = n /\ DOMAIN c = 1 .. n
    <2> HIDE DEF c, n, queue
    <2> QED
      BY <1>2, <1>5
  <1> QED
    BY <1>2, <1>4, <1>6

LEMMA UnlinkKeeps ==
  ASSUME NEW s, Linked(s, {}), NEW h \in Occupied(s)
  PROVE  LET t == Unlink(s, h) IN
         /\ Linked(t, {h}) /\ t.slot = s.slot /\ t.ring = s.ring
         /\ t.bytes = [s.bytes EXCEPT ![s.slot[h].queue] = @ - s.slot[h].cost]
         /\ \A q \in Queues, g \in Hashes \ {h} : IsLast(s, q, g) => IsLast(t, q, g)
  <1> DEFINE q == s.slot[h].queue
             old == s.queue[q]
             at == CHOOSE i \in DOMAIN s.queue[q] : s.queue[q][i] = h
             new == Without(old, at)
             queue == [s.queue EXCEPT ![q] = new]
             bytes == [s.bytes EXCEPT ![q] = @ - s.slot[h].cost]
             t == Unlink(s, h)
  <1>1. s \in Shards /\ h \in Hashes /\ s.slot[h] # NoSlot /\ Entry(h, s.slot[h])
    BY DEF Linked, Occupied
  <1>2. /\ s.slot \in [Hashes -> Slots \cup {NoSlot}] /\ s.queue \in [Queues -> Seq(Hashes)]
        /\ s.bytes \in [Queues -> Int] /\ s.ring \in Seq(Ghosts)
    BY <1>1, FieldsOf
  <1>3. q \in Queues /\ s.slot[h].cost \in Nat
    BY <1>1 DEF Entry, Slots, Queues
  <1>4. t = Rebuilt(s.slot, queue, bytes, s.ring)
    BY <1>1, UnlinkIs
  <1>5. /\ old \in Seq(Hashes) /\ Queued(s, h, q)
        /\ \A i, j \in DOMAIN old : old[i] = old[j] => i = j
    BY <1>1, <1>2, <1>3 DEF Linked, InQueue
  <1>6. at \in DOMAIN old /\ old[at] = h
    BY <1>5 DEF Queued
  <1> HIDE DEF at
  <1>7. /\ new \in Seq(Hashes) /\ \A i, j \in DOMAIN new : new[i] = new[j] => i = j
        /\ \A y : (\E i \in DOMAIN new : new[i] = y)
                        <=> y # h /\ \E i \in DOMAIN old : old[i] = y
    <2> HIDE DEF old
    <2>1. /\ new \in Seq(Hashes) /\ \A i, j \in DOMAIN new : new[i] = new[j] => i = j
          /\ \A y : (\E i \in DOMAIN new : new[i] = y)
                        <=> y # old[at] /\ \E i \in DOMAIN old : old[i] = y
      BY <1>5, <1>6, TakenOut, Zenon DEF Without
    <2> HIDE DEF new
    <2> QED
      BY <1>6, <2>1
  <1>8. /\ DOMAIN new = 1 .. Len(old) - 1 /\ Len(new) = Len(old) - 1
        /\ \A i \in 1 .. Len(old) - 1 : new[i] = old[IF i < at THEN i ELSE i + 1]
    <2> HIDE DEF old
    <2> QED
      BY <1>5, <1>6, OneLess DEF Without
  <1>9. queue \in [Queues -> Seq(Hashes)] /\ bytes \in [Queues -> Int]
    <2> HIDE DEF new
    <2> QED
      BY <1>2, <1>3, <1>7
  <1>10. /\ t \in Shards /\ t.slot = s.slot /\ t.ring = s.ring
         /\ t.queue = queue /\ t.bytes = bytes
    <2> DEFINE r == Rebuilt(s.slot, queue, bytes, s.ring)
    <2> HIDE DEF queue, bytes
    <2>1. /\ r \in Shards /\ r.slot = s.slot /\ r.queue = queue /\ r.bytes = bytes
          /\ r.ring = s.ring
      BY <1>2, <1>9 DEF Rebuilt, Shards
    <2> HIDE DEF r, t
    <2> QED
      BY <1>4, <2>1 DEF r
  <1> HIDE DEF t, new
  <1>11. t.queue[q] = new /\ \A p \in Queues \ {q} : t.queue[p] = s.queue[p] /\ t.bytes[p] = s.bytes[p]
    BY <1>2, <1>3, <1>10
  <1>12. Occupied(t) = Occupied(s)
    BY <1>10 DEF Occupied
  <1>13. ASSUME NEW p \in Queues \ {q} PROVE InQueue(t, {h}, p)
    <2>1. InQueue(s, {}, p) /\ CostsOf(t, p) = CostsOf(s, p)
      BY <1>10, <1>11 DEF Linked, CostsOf
    <2> QED
      BY <1>10, <1>11, <2>1 DEF InQueue, Queued
  <1>14. CostsOf(t, q) = Without(CostsOf(s, q), at)
    <2> DEFINE c == CostsOf(s, q)
               d == Without(c, at)
    <2>1. /\ c \in Seq(Nat) /\ Len(c) = Len(old) /\ DOMAIN c = DOMAIN old
          /\ \A i \in DOMAIN old : c[i] = s.slot[old[i]].cost
      BY <1>3, CostsTyped
    <2> HIDE DEF c
    <2>2. /\ d \in Seq(Nat) /\ DOMAIN d = 1 .. Len(old) - 1 /\ Len(d) = Len(old) - 1
          /\ \A i \in 1 .. Len(old) - 1 : d[i] = c[IF i < at THEN i ELSE i + 1]
      <3>1. at \in DOMAIN c
        BY <1>6, <2>1
      <3>2. /\ d \in Seq(Nat) /\ DOMAIN d = 1 .. Len(c) - 1 /\ Len(d) = Len(c) - 1
            /\ \A i \in 1 .. Len(c) - 1 : d[i] = c[IF i < at THEN i ELSE i + 1]
        BY <2>1, <3>1, OneLess, Zenon DEF Without
      <3> HIDE DEF d
      <3> QED
        BY <2>1, <3>2
    <2> HIDE DEF d, old
    <2>3. Len(old) \in Nat /\ at \in 1 .. Len(old) /\ DOMAIN old = 1 .. Len(old)
      BY <1>5, <1>6
    <2>4. ASSUME NEW i \in 1 .. Len(old) - 1 PROVE d[i] = s.slot[new[i]].cost
      <3>1. (IF i < at THEN i ELSE i + 1) \in DOMAIN old
        BY <2>3
      <3> QED
        BY <1>8, <2>1, <2>2, <3>1
    <2>5. CostsOf(t, q) = [i \in 1 .. Len(old) - 1 |-> s.slot[new[i]].cost]
      BY <1>8, <1>10, <1>11 DEF CostsOf
    <2>6. d = [i \in 1 .. Len(old) - 1 |-> d[i]]
      BY <2>2
    <2> QED
      BY <2>4, <2>5, <2>6 DEF d, c
  <1>15. InQueue(t, {h}, q)
    <2>1. t.bytes[q] = SumOf(CostsOf(t, q))
      <3> DEFINE c == CostsOf(s, q)
      <3>1. c \in Seq(Nat) /\ at \in DOMAIN c /\ c[at] = s.slot[h].cost
        BY <1>3, <1>6, CostsTyped
      <3> HIDE DEF c
      <3>2. SumOf(Without(c, at)) = SumOf(c) - c[at]
        BY <3>1, SumOfRemoved
      <3>3. t.bytes[q] = s.bytes[q] - s.slot[h].cost
        BY <1>2, <1>3, <1>10
      <3>4. s.bytes[q] = SumOf(c)
        BY <1>3 DEF Linked, InQueue, c
      <3> QED
        BY <1>14, <3>1, <3>2, <3>3, <3>4 DEF c
    <2>2. ASSUME NEW g \in Hashes
          PROVE  Queued(t, g, q) <=> g # h /\ s.slot[g] # NoSlot /\ s.slot[g].queue = q
      <3>1. Queued(s, g, q) <=> s.slot[g] # NoSlot /\ s.slot[g].queue = q
        <4> HIDE DEF q
        <4> QED
          BY <1>3 DEF Linked, InQueue
      <3>2. Queued(t, g, q) <=> g # h /\ Queued(s, g, q)
        BY <1>7, <1>11 DEF Queued
      <3> QED
        BY <3>1, <3>2
    <2> HIDE DEF q
    <2> QED
      BY <1>7, <1>10, <1>11, <2>1, <2>2 DEF InQueue
  <1>16. Linked(t, {h})
    <2> HIDE DEF q
    <2> QED
      BY <1>10, <1>12, <1>13, <1>15 DEF Linked
  <1>17. ASSUME NEW p \in Queues, NEW g \in Hashes \ {h}, IsLast(s, p, g) PROVE IsLast(t, p, g)
    <2>1. CASE p # q
      BY <1>11, <1>17, <2>1 DEF IsLast
    <2>2. CASE p = q
      <3> DEFINE n == Len(old)
      <3>1. n \in Nat /\ n > 0 /\ old[n] = g /\ at \in 1 .. n /\ at # n
        <4>1. old \in Seq(Hashes) /\ at \in DOMAIN old /\ old[at] = h
          BY <1>5, <1>6, Zenon
        <4>2. Len(old) > 0 /\ old[Len(old)] = g /\ g # h
          BY <1>17, <2>2, Zenon DEF IsLast
        <4> HIDE DEF old
        <4> QED
          BY <4>1, <4>2
      <3>2. n - 1 \in 1 .. n - 1 /\ ~(n - 1 < at) /\ (n - 1) + 1 = n
        BY <3>1
      <3>3. new[n - 1] = g /\ Len(new) = n - 1
        BY <1>8, <3>1, <3>2
      <3> QED
        BY <1>11, <2>2, <3>2, <3>3 DEF IsLast
    <2> QED
      BY <2>1, <2>2
  <1> QED
    BY <1>10, <1>16, <1>17 DEF t

PushedBack(s, t, h, q) ==
    /\ Linked(t, {}) /\ t.ring = s.ring
    /\ t.slot = [s.slot EXCEPT ![h] = [@ EXCEPT !.queue = q]]
    /\ IsLast(t, q, h) /\ \A p \in Queues \ {q} : t.queue[p] = s.queue[p]

LEMMA PushBackKeeps ==
  ASSUME NEW s, NEW h, NEW q, h \in Occupied(s), Linked(s, {h}), q \in Queues
  PROVE  PushedBack(s, PushBack(s, h, q), h, q)
  <1> DEFINE old == s.queue[q]
             new == Append(old, h)
             slot == [s.slot EXCEPT ![h] = [@ EXCEPT !.queue = q]]
             queue == [s.queue EXCEPT ![q] = new]
             bytes == [s.bytes EXCEPT ![q] = @ + s.slot[h].cost]
             t == PushBack(s, h, q)
  <1>1. s \in Shards /\ h \in Hashes /\ s.slot[h] # NoSlot /\ Entry(h, s.slot[h])
    BY DEF Linked, Occupied
  <1>2. /\ s.slot \in [Hashes -> Slots \cup {NoSlot}] /\ s.queue \in [Queues -> Seq(Hashes)]
        /\ s.bytes \in [Queues -> Int] /\ s.ring \in Seq(Ghosts)
    BY <1>1, FieldsOf
  <1>3. s.slot[h].cost \in Nat /\ [s.slot[h] EXCEPT !.queue = q] \in Slots
    BY <1>1 DEF Entry, Slots, Queues
  <1>4. t = Rebuilt(slot, queue, bytes, s.ring)
    BY <1>1, PushBackIs
  <1>5. /\ old \in Seq(Hashes) /\ \A i, j \in DOMAIN old : old[i] = old[j] => i = j
        /\ \A i \in DOMAIN old : old[i] # h
    <2>1. InQueue(s, {h}, q)
      BY DEF Linked
    <2>2. ~Queued(s, h, q)
      BY <1>1, <2>1 DEF InQueue
    <2> QED
      BY <1>2, <2>1, <2>2 DEF InQueue, Queued
  <1>6. /\ \A i, j \in DOMAIN new : new[i] = new[j] => i = j
        /\ \A y : (\E i \in DOMAIN new : new[i] = y) <=> y = h \/ \E i \in DOMAIN old : old[i] = y
    <2> HIDE DEF old
    <2> QED
      BY <1>1, <1>5, Appended
  <1>7. /\ new \in Seq(Hashes) /\ Len(new) = Len(old) + 1 /\ new[Len(old) + 1] = h
        /\ DOMAIN new = 1 .. Len(old) + 1 /\ Len(old) \in Nat /\ DOMAIN old = 1 .. Len(old)
        /\ \A i \in 1 .. Len(old) : new[i] = old[i]
    <2> HIDE DEF old
    <2> QED
      BY <1>1, <1>5
  <1> HIDE DEF new
  <1>8. /\ slot \in [Hashes -> Slots \cup {NoSlot}] /\ queue \in [Queues -> Seq(Hashes)]
        /\ bytes \in [Queues -> Int]
    BY <1>1, <1>2, <1>3, <1>7
  <1>9. /\ t \in Shards /\ t.slot = slot /\ t.ring = s.ring
        /\ t.queue = queue /\ t.bytes = bytes
    <2> DEFINE r == Rebuilt(slot, queue, bytes, s.ring)
    <2> HIDE DEF slot, queue, bytes
    <2>1. /\ r \in Shards /\ r.slot = slot /\ r.queue = queue /\ r.bytes = bytes
          /\ r.ring = s.ring
      BY <1>2, <1>8 DEF Rebuilt, Shards
    <2> HIDE DEF r, t
    <2> QED
      BY <1>4, <2>1 DEF r
  <1> HIDE DEF t
  <1>10. t.queue[q] = new /\ \A p \in Queues \ {q} : t.queue[p] = s.queue[p] /\ t.bytes[p] = s.bytes[p]
    BY <1>2, <1>9
  <1>11. /\ t.slot[h] = [s.slot[h] EXCEPT !.queue = q] /\ t.slot[h].queue = q
         /\ t.slot[h].cost = s.slot[h].cost /\ t.slot[h] # NoSlot /\ Entry(h, t.slot[h])
         /\ \A g \in Hashes \ {h} : t.slot[g] = s.slot[g]
    <2>1. t.slot[h] = [s.slot[h] EXCEPT !.queue = q] /\ \A g \in Hashes \ {h} : t.slot[g] = s.slot[g]
      BY <1>1, <1>2, <1>9
    <2>2. s.slot[h] \in Slots
      BY <1>1 DEF Entry
    <2> DEFINE e == [s.slot[h] EXCEPT !.queue = q]
    <2>3. /\ e.queue = q /\ e.cost = s.slot[h].cost /\ e.key = s.slot[h].key
          /\ e.freq = s.slot[h].freq /\ e.answers = s.slot[h].answers /\ e \in Slots
      BY <1>3, <2>2 DEF Slots
    <2>4. e # NoSlot
      BY <2>3, StoreAssumption
    <2> HIDE DEF e
    <2> QED
      BY <1>1, <2>1, <2>3, <2>4 DEF Entry, e
  <1>12. ASSUME NEW g \in Occupied(t) PROVE Entry(g, t.slot[g])
    BY <1>11 DEF Linked, Occupied
  <1>13. ASSUME NEW g \in Hashes PROVE t.slot[g].cost = s.slot[g].cost
    BY <1>11
  <1>14. ASSUME NEW p \in Queues \ {q} PROVE InQueue(t, {}, p)
    <2>1. InQueue(s, {h}, p) /\ s.queue[p] \in Seq(Hashes)
      BY <1>2 DEF Linked
    <2>2. CostsOf(t, p) = CostsOf(s, p)
      BY <1>10, <1>13, <2>1 DEF CostsOf
    <2>3. ASSUME NEW g \in Hashes
          PROVE  Queued(t, g, p) <=> t.slot[g] # NoSlot /\ t.slot[g].queue = p
      <3>1. Queued(s, g, p) <=> g # h /\ s.slot[g] # NoSlot /\ s.slot[g].queue = p
        BY <2>1 DEF InQueue
      <3>2. Queued(t, g, p) <=> Queued(s, g, p)
        BY <1>10 DEF Queued
      <3> QED
        BY <1>11, <3>1, <3>2
    <2> QED
      BY <1>10, <2>1, <2>2, <2>3 DEF InQueue
  <1>15. CostsOf(t, q) = Append(CostsOf(s, q), s.slot[h].cost)
    <2> DEFINE c == CostsOf(s, q)
               d == Append(c, s.slot[h].cost)
    <2>1. /\ c \in Seq(Nat) /\ Len(c) = Len(old) /\ \A i \in DOMAIN old : c[i] = s.slot[old[i]].cost
      BY CostsTyped
    <2> HIDE DEF c, old
    <2>2. /\ DOMAIN d = 1 .. Len(old) + 1 /\ d[Len(old) + 1] = s.slot[h].cost
          /\ \A i \in 1 .. Len(old) : d[i] = c[i]
      BY <1>3, <2>1
    <2>3. d = [i \in 1 .. Len(old) + 1 |-> d[i]]
      BY <1>3, <2>1, <2>2
    <2> HIDE DEF d
    <2>4. ASSUME NEW i \in 1 .. Len(old) + 1 PROVE d[i] = t.slot[new[i]].cost
      <3>1. CASE i = Len(old) + 1
        BY <1>7, <1>11, <2>2, <3>1
      <3>2. CASE i \in 1 .. Len(old)
        <4>1. old[i] \in Hashes
          BY <1>5, <1>7, <3>2
        <4> QED
          BY <1>7, <1>13, <2>1, <2>2, <3>2, <4>1
      <3> QED
        BY <1>7, <3>1, <3>2
    <2>5. CostsOf(t, q) = [i \in 1 .. Len(old) + 1 |-> t.slot[new[i]].cost]
      BY <1>7, <1>10 DEF CostsOf
    <2> QED
      BY <2>3, <2>4, <2>5 DEF c, d
  <1>16. InQueue(t, {}, q)
    <2>1. t.bytes[q] = SumOf(CostsOf(t, q))
      <3> DEFINE c == CostsOf(s, q)
      <3>1. c \in Seq(Nat)
        BY CostsTyped
      <3> HIDE DEF c
      <3>2. SumOf(Append(c, s.slot[h].cost)) = SumOf(c) + s.slot[h].cost
        BY <1>3, <3>1, SumOfAppend
      <3>3. t.bytes[q] = s.bytes[q] + s.slot[h].cost
        BY <1>2, <1>9
      <3>4. s.bytes[q] = SumOf(c)
        BY DEF Linked, InQueue, c
      <3> QED
        BY <1>15, <3>2, <3>3, <3>4 DEF c
    <2>2. ASSUME NEW g \in Hashes
          PROVE  Queued(t, g, q) <=> t.slot[g] # NoSlot /\ t.slot[g].queue = q
      <3>1. Queued(s, g, q) <=> g # h /\ s.slot[g] # NoSlot /\ s.slot[g].queue = q
        BY DEF Linked, InQueue
      <3>2. Queued(t, g, q) <=> g = h \/ Queued(s, g, q)
        BY <1>6, <1>10 DEF Queued
      <3> QED
        BY <1>11, <3>1, <3>2
    <2> QED
      BY <1>6, <1>10, <2>1, <2>2 DEF InQueue
  <1>17. Linked(t, {})
    BY <1>9, <1>12, <1>14, <1>16 DEF Linked
  <1>18. IsLast(t, q, h)
    BY <1>7, <1>10 DEF IsLast
  <1> QED
    BY <1>9, <1>10, <1>17, <1>18 DEF PushedBack, t

(* `t` has the queues of `s`, and its slots fit them.                       *)
SlotFits(s, out, t, left, h) ==
    \/ h \in out /\ (h \in left \/ t.slot[h] = NoSlot)
    \/ h \notin left \cup out /\ t.slot[h] = s.slot[h]
    \/ /\ h \notin left \cup out /\ s.slot[h] # NoSlot /\ t.slot[h] # NoSlot
       /\ t.slot[h].queue = s.slot[h].queue /\ t.slot[h].cost = s.slot[h].cost

LEMMA Relinked ==
  ASSUME NEW s, NEW out, Linked(s, out), NEW t \in Shards, NEW left,
         t.queue = s.queue, t.bytes = s.bytes,
         \A h \in Occupied(t) : Entry(h, t.slot[h]),
         \A h \in Hashes : SlotFits(s, out, t, left, h)
  PROVE  Linked(t, left)
  <1> SUFFICES ASSUME NEW q \in Queues PROVE InQueue(t, left, q)
    BY DEF Linked
  <1>1. InQueue(s, out, q) /\ s.queue[q] \in Seq(Hashes)
    BY FieldsOf DEF Linked
  <1>2. ASSUME NEW g \in Hashes
        PROVE  Queued(t, g, q) <=> g \notin left /\ t.slot[g] # NoSlot /\ t.slot[g].queue = q
    <2>1. Queued(t, g, q) <=> g \notin out /\ s.slot[g] # NoSlot /\ s.slot[g].queue = q
      BY <1>1 DEF InQueue, Queued
    <2> QED
      BY <2>1 DEF SlotFits
  <1>3. CostsOf(t, q) = CostsOf(s, q)
    <2>1. ASSUME NEW i \in DOMAIN s.queue[q] PROVE t.slot[s.queue[q][i]].cost = s.slot[s.queue[q][i]].cost
      <3>1. s.queue[q][i] \in Hashes /\ Queued(s, s.queue[q][i], q)
        BY <1>1 DEF Queued
      <3>2. s.queue[q][i] \notin out
        BY <1>1, <3>1 DEF InQueue
      <3> QED
        BY <3>1, <3>2 DEF SlotFits
    <2> QED
      BY <2>1 DEF CostsOf
  <1> QED
    BY <1>1, <1>2, <1>3 DEF InQueue

LEMMA SlotReplaced ==
  ASSUME NEW s, NEW h \in Hashes, Linked(s, {h}), NEW x, x = NoSlot \/ Entry(h, x)
  PROVE  LET t == [s EXCEPT !.slot[h] = x] IN
         /\ t \in Shards /\ Linked(t, IF x = NoSlot THEN {} ELSE {h})
         /\ t.slot = [s.slot EXCEPT ![h] = x]
         /\ t.queue = s.queue /\ t.bytes = s.bytes /\ t.ring = s.ring
  <1> DEFINE slot == [s.slot EXCEPT ![h] = x]
             t == [s EXCEPT !.slot[h] = x]
             r == Rebuilt(slot, s.queue, s.bytes, s.ring)
  <1>1. s \in Shards
    BY DEF Linked
  <1>2. /\ s.slot \in [Hashes -> Slots \cup {NoSlot}] /\ s.queue \in [Queues -> Seq(Hashes)]
        /\ s.bytes \in [Queues -> Int] /\ s.ring \in Seq(Ghosts)
    BY <1>1, FieldsOf
  <1>3. slot \in [Hashes -> Slots \cup {NoSlot}]
    BY <1>2 DEF Entry
  <1>4. t = r
    BY <1>1, SlotSetIs
  <1>5. /\ r \in Shards /\ r.slot = slot /\ r.queue = s.queue /\ r.bytes = s.bytes
        /\ r.ring = s.ring
    <2> HIDE DEF slot
    <2> QED
      BY <1>2, <1>3 DEF Rebuilt, Shards
  <1> HIDE DEF r, t
  <1>6. t.slot[h] = x /\ \A g \in Hashes \ {h} : t.slot[g] = s.slot[g]
    BY <1>2, <1>4, <1>5
  <1>7. ASSUME NEW g \in Occupied(t) PROVE Entry(g, t.slot[g])
    BY <1>6 DEF Linked, Occupied
  <1>8. Linked(t, IF x = NoSlot THEN {} ELSE {h})
    <2> DEFINE left == IF x = NoSlot THEN {} ELSE {h}
    <2>1. ASSUME NEW g \in Hashes PROVE SlotFits(s, {h}, t, left, g)
      BY <1>6 DEF SlotFits
    <2> HIDE DEF left
    <2> QED
      BY <1>4, <1>5, <1>7, <2>1, Relinked DEF left
  <1> QED
    BY <1>4, <1>5, <1>8 DEF t

LEMMA SlotTouched ==
  ASSUME NEW s, NEW out, Linked(s, out), NEW h \in Occupied(s), NEW f \in 0 .. MaxFreq
  PROVE  LET t == [s EXCEPT !.slot[h].freq = f] IN
         /\ t \in Shards /\ Linked(t, out)
         /\ t.slot = [s.slot EXCEPT ![h] = [@ EXCEPT !.freq = f]]
         /\ t.queue = s.queue /\ t.bytes = s.bytes /\ t.ring = s.ring
  <1> DEFINE e == [s.slot[h] EXCEPT !.freq = f]
             slot == [s.slot EXCEPT ![h] = [@ EXCEPT !.freq = f]]
             t == [s EXCEPT !.slot[h].freq = f]
             r == Rebuilt(slot, s.queue, s.bytes, s.ring)
  <1>1. s \in Shards /\ h \in Hashes /\ Entry(h, s.slot[h]) /\ s.slot[h] # NoSlot
    BY DEF Linked, Occupied
  <1>2. /\ s.slot \in [Hashes -> Slots \cup {NoSlot}] /\ s.queue \in [Queues -> Seq(Hashes)]
        /\ s.bytes \in [Queues -> Int] /\ s.ring \in Seq(Ghosts)
    BY <1>1, FieldsOf
  <1>3. /\ e \in Slots /\ e.queue = s.slot[h].queue /\ e.cost = s.slot[h].cost
        /\ e.key = s.slot[h].key /\ e.answers = s.slot[h].answers /\ e.freq = f
    <2>1. s.slot[h] \in Slots /\ f \in Nat
      BY <1>1, StoreAssumption DEF Entry
    <2> QED
      BY <2>1 DEF Slots
  <1>4. Entry(h, e) /\ e # NoSlot
    <2> HIDE DEF e
    <2>1. f <= MaxFreq
      BY StoreAssumption
    <2> QED
      BY <1>1, <1>3, <2>1, StoreAssumption DEF Entry
  <1>5. slot \in [Hashes -> Slots \cup {NoSlot}]
    BY <1>2, <1>3
  <1>6. t = r
    BY <1>1, FreqSetIs
  <1>7. /\ r \in Shards /\ r.slot = slot /\ r.queue = s.queue /\ r.bytes = s.bytes
        /\ r.ring = s.ring
    <2> HIDE DEF slot
    <2> QED
      BY <1>2, <1>5 DEF Rebuilt, Shards
  <1> HIDE DEF r, t
  <1>8. t.slot[h] = e /\ \A g \in Hashes \ {h} : t.slot[g] = s.slot[g]
    BY <1>1, <1>2, <1>6, <1>7
  <1> HIDE DEF e
  <1>9. ASSUME NEW g \in Occupied(t) PROVE Entry(g, t.slot[g])
    BY <1>4, <1>8 DEF Linked, Occupied
  <1>10. Linked(t, out)
    <2>1. ASSUME NEW g \in Hashes PROVE SlotFits(s, out, t, out, g)
      BY <1>1, <1>3, <1>4, <1>8 DEF SlotFits
    <2> QED
      BY <1>6, <1>7, <1>9, <2>1, Relinked
  <1> QED
    BY <1>6, <1>7, <1>10 DEF t

LEMMA RemoveKeeps ==
  ASSUME NEW s, Linked(s, {}), NEW h \in Occupied(s)
  PROVE  LET t == RemoveSlot(s, h) IN
         /\ Linked(t, {}) /\ t.ring = s.ring
         /\ t.slot = [s.slot EXCEPT ![h] = NoSlot]
         /\ t.bytes = [s.bytes EXCEPT ![s.slot[h].queue] = @ - s.slot[h].cost]
         /\ \A q \in Queues, g \in Hashes \ {h} : IsLast(s, q, g) => IsLast(t, q, g)
  <1> DEFINE u == Unlink(s, h)
             t == [u EXCEPT !.slot[h] = NoSlot]
  <1>1. h \in Hashes
    BY DEF Occupied
  <1>2. /\ Linked(u, {h}) /\ u.slot = s.slot /\ u.ring = s.ring
        /\ u.bytes = [s.bytes EXCEPT ![s.slot[h].queue] = @ - s.slot[h].cost]
        /\ \A q \in Queues, g \in Hashes \ {h} : IsLast(s, q, g) => IsLast(u, q, g)
    BY UnlinkKeeps
  <1> HIDE DEF u
  <1>3. /\ Linked(t, {}) /\ t.slot = [u.slot EXCEPT ![h] = NoSlot]
        /\ t.queue = u.queue /\ t.bytes = u.bytes /\ t.ring = u.ring
    BY <1>1, <1>2, SlotReplaced
  <1>4. RemoveSlot(s, h) = t
    BY DEF RemoveSlot, u
  <1> HIDE DEF t
  <1>5. \A q \in Queues, g \in Hashes \ {h} : IsLast(s, q, g) => IsLast(t, q, g)
    BY <1>2, <1>3 DEF IsLast
  <1> QED
    BY <1>2, <1>3, <1>4, <1>5

(* The ghost ring.                                                          *)
LEMMA ForgottenKeeps ==
  ASSUME NEW ring, RingKept(ring), NEW h \in Hashes
  PROVE  LET new == Forgotten(ring, h) IN
         /\ RingKept(new) /\ Len(new) = Len(ring)
         /\ \A i \in DOMAIN new : new[i].live => new[i].hash # h
  <1> DEFINE n == Len(ring)
             new == Forgotten(ring, h)
             live == [hash |-> h, live |-> TRUE]
             gone == [hash |-> h, live |-> FALSE]
  <1>1. n \in Nat /\ DOMAIN ring = 1 .. n /\ \A i \in 1 .. n : ring[i] \in Ghosts
    BY DEF RingKept
  <1>2. live \in Ghosts /\ gone \in Ghosts /\ gone.live = FALSE /\ gone # live
    BY DEF Ghosts
  <1>3. new = [i \in 1 .. n |-> IF ring[i] = live THEN gone ELSE ring[i]]
    <2>1. ASSUME NEW g \in Ghosts
          PROVE  (IF g.hash = h THEN gone ELSE g) = IF g = live THEN gone ELSE g
      <3>1. g = [hash |-> g.hash, live |-> g.live] /\ g.live \in BOOLEAN
        BY DEF Ghosts
      <3>2. g.hash = h => g = live \/ g = gone
        BY <3>1, Zenon
      <3>3. g = live => g.hash = h
        OBVIOUS
      <3> HIDE DEF live, gone
      <3> QED
        BY <3>2, <3>3, Zenon
    <2>2. new = [i \in 1 .. n |-> IF ring[i].hash = h THEN gone ELSE ring[i]]
      BY <1>1, Zenon DEF Forgotten
    <2> HIDE DEF new, live, gone
    <2> QED
      BY <1>1, <2>1, <2>2
  <1>a. ASSUME NEW g \in Ghosts, g.live, g.hash = h PROVE g = live
    BY <1>a DEF Ghosts
  <1> HIDE DEF n, live, gone, new
  <1>4. new \in [1 .. n -> Ghosts]
    BY <1>1, <1>2, <1>3
  <1>5. new \in Seq(Ghosts) /\ Len(new) = n /\ DOMAIN new = 1 .. n
    BY <1>1, <1>4
  <1>6. ASSUME NEW i \in 1 .. n, new[i].live PROVE new[i] = ring[i] /\ ring[i] # live
    BY <1>2, <1>3, <1>6
  <1>7. ASSUME NEW i \in 1 .. n, NEW j \in 1 .. n, new[i].live, new[i] = new[j] PROVE i = j
    <2>1. new[i] = ring[i] /\ new[j] = ring[j] /\ ring[i].live
      BY <1>6, <1>7
    <2> QED
      BY <1>1, <1>7, <2>1 DEF RingKept
  <1>8. ASSUME NEW i \in 1 .. n, new[i].live PROVE new[i].hash # h
    BY <1>1, <1>6, <1>8, <1>a
  <1>9. RingKept(new)
    BY <1>5, <1>7 DEF RingKept, n
  <1> QED
    BY <1>5, <1>8, <1>9 DEF n, new

LEMMA RingReplaced ==
  ASSUME NEW s, NEW out, Linked(s, out), NEW ring \in Seq(Ghosts)
  PROVE  LET t == [s EXCEPT !.ring = ring] IN
         /\ Linked(t, out) /\ t.ring = ring
         /\ t.slot = s.slot /\ t.queue = s.queue /\ t.bytes = s.bytes
  <1> DEFINE t == [s EXCEPT !.ring = ring]
             r == Rebuilt(s.slot, s.queue, s.bytes, ring)
  <1>1. s \in Shards
    BY DEF Linked
  <1>2. t = r
    BY <1>1, RingFieldSet
  <1>3. /\ r \in Shards /\ r.slot = s.slot /\ r.queue = s.queue /\ r.bytes = s.bytes
        /\ r.ring = ring
    BY <1>1, FieldsOf DEF Rebuilt, Shards
  <1> HIDE DEF r, t
  <1>4. \A h \in Hashes : SlotFits(s, out, t, out, h)
    BY <1>2, <1>3 DEF SlotFits
  <1>5. \A h \in Occupied(t) : Entry(h, t.slot[h])
    BY <1>2, <1>3 DEF Linked, Occupied
  <1>6. Linked(t, out)
    BY <1>2, <1>3, <1>4, <1>5, Relinked
  <1> QED
    BY <1>2, <1>3, <1>6 DEF t

LEMMA GhostKeeps ==
  ASSUME NEW s, Sound(s), NEW h \in Hashes
  PROVE  LET t == PushGhost(s, h) IN
         /\ Sound(t) /\ t.slot = s.slot /\ t.queue = s.queue /\ t.bytes = s.bytes
         /\ Len(t.ring) <= Len(s.ring) + 1
  <1> DEFINE old == Forgotten(s.ring, h)
             live == [hash |-> h, live |-> TRUE]
             ring == Append(old, live)
             new == IF Len(ring) > GhostCap THEN Tail(ring) ELSE ring
             n == Len(s.ring)
  <1>0. GhostCap \in Nat /\ n \in Nat /\ n <= GhostCap
    BY StoreAssumption DEF Sound, RingKept
  <1>1. /\ RingKept(old) /\ Len(old) = n
        /\ \A i \in DOMAIN old : old[i].live => old[i].hash # h
    BY ForgottenKeeps DEF Sound
  <1>2. /\ old \in Seq(Ghosts) /\ DOMAIN old = 1 .. n /\ live \in Ghosts /\ live.hash = h
        /\ \A i, j \in 1 .. n : old[i].live /\ old[i] = old[j] => i = j
    BY <1>1 DEF RingKept, Ghosts
  <1> HIDE DEF old, live, n
  <1>3. /\ ring \in Seq(Ghosts) /\ Len(ring) = n + 1 /\ ring[n + 1] = live
        /\ \A i \in 1 .. n : ring[i] = old[i]
    BY <1>0, <1>1, <1>2
  <1> HIDE DEF ring
  <1>4. ASSUME NEW i \in 1 .. n + 1, NEW j \in 1 .. n + 1, ring[i].live, ring[i] = ring[j]
        PROVE  i = j
    <2>1. CASE i \in 1 .. n /\ j \in 1 .. n
      BY <1>2, <1>3, <1>4, <2>1
    <2>2. CASE i \in 1 .. n /\ j = n + 1
      BY <1>1, <1>2, <1>3, <1>4, <2>2
    <2>3. CASE i = n + 1 /\ j \in 1 .. n
      BY <1>1, <1>2, <1>3, <1>4, <2>3
    <2> QED
      BY <1>0, <2>1, <2>2, <2>3
  <1>5. RingKept(Tail(ring)) /\ Len(Tail(ring)) = n
    <2> DEFINE tail == Tail(ring)
    <2>1. /\ tail \in Seq(Ghosts) /\ Len(tail) = n /\ DOMAIN tail = 1 .. n
          /\ \A i \in 1 .. n : tail[i] = ring[i + 1]
      BY <1>0, <1>3
    <2> HIDE DEF tail
    <2>2. ASSUME NEW i \in 1 .. n, NEW j \in 1 .. n, tail[i].live, tail[i] = tail[j] PROVE i = j
      <3>1. i + 1 \in 1 .. n + 1 /\ j + 1 \in 1 .. n + 1 /\ (i + 1 = j + 1 => i = j)
        BY <1>0
      <3> QED
        BY <1>4, <2>1, <2>2, <3>1
    <2> QED
      BY <1>0, <2>1, <2>2 DEF RingKept, tail
  <1>6. RingKept(new) /\ Len(new) <= n + 1 /\ new \in Seq(Ghosts)
    <2>1. CASE Len(ring) > GhostCap
      BY <1>0, <1>5, <2>1 DEF RingKept
    <2>2. CASE ~(Len(ring) > GhostCap)
      <3>1. RingKept(ring)
        BY <1>0, <1>3, <1>4, <2>2 DEF RingKept
      <3> QED
        BY <1>0, <1>3, <2>2, <3>1
    <2> QED
      BY <2>1, <2>2
  <1>7. PushGhost(s, h) = IF GhostCap = 0 THEN s ELSE [s EXCEPT !.ring = new]
    BY DEF PushGhost, ring, old, live
  <1> DEFINE t == [s EXCEPT !.ring = new]
  <1> HIDE DEF new
  <1>8. /\ Linked(t, {}) /\ t.ring = new
        /\ t.slot = s.slot /\ t.queue = s.queue /\ t.bytes = s.bytes
    BY <1>6, RingReplaced DEF Sound
  <1> HIDE DEF t
  <1>9. Sound(t)
    BY <1>6, <1>8 DEF Sound
  <1> QED
    BY <1>0, <1>6, <1>7, <1>8, <1>9 DEF n, t

-----------------------------------------------------------------------------
(* The eviction loop.  An entry that is not removed keeps what its caller   *)
(* sees of it and comes nearer to its removal.                              *)
SameEntry(a, b) ==
    /\ a.key = b.key /\ a.answers = b.answers /\ a.cost = b.cost
    /\ a.failure = b.failure /\ a.expires = b.expires

Weight(slot) ==
    IF slot.queue = "Main" THEN slot.freq + 1 ELSE IF slot.freq > 0 THEN 2 ELSE 1

Demoted(s, t, h) ==
    /\ h \in Occupied(s)
    /\ \A g \in Hashes \ {h} : t.slot[g] = s.slot[g]
    /\ \/ t.slot[h] = NoSlot
       \/ /\ t.slot[h] # NoSlot /\ SameEntry(s.slot[h], t.slot[h])
          /\ Weight(t.slot[h]) < Weight(s.slot[h])

LEMMA HeadOccupied ==
  ASSUME NEW s, Linked(s, {}), NEW q \in Queues, s.queue[q] # <<>>
  PROVE  /\ Head(s.queue[q]) \in Occupied(s) /\ s.slot[Head(s.queue[q])].queue = q
         /\ Head(s.queue[q]) = s.queue[q][1] /\ Len(s.queue[q]) \in Nat \ {0}
  <1>1. s.queue[q] \in Seq(Hashes) /\ InQueue(s, {}, q)
    BY FieldsOf DEF Linked
  <1>2. /\ Head(s.queue[q]) \in Hashes /\ 1 \in DOMAIN s.queue[q]
        /\ Head(s.queue[q]) = s.queue[q][1] /\ Len(s.queue[q]) \in Nat \ {0}
    BY <1>1
  <1>3. Queued(s, Head(s.queue[q]), q)
    BY <1>2 DEF Queued
  <1> QED
    BY <1>1, <1>2, <1>3 DEF InQueue, Occupied

(* An entry that is given another frequency and moves to the main queue.    *)
LEMMA Requeued ==
  ASSUME NEW s, Sound(s), NEW h \in Occupied(s), NEW f \in 0 .. MaxFreq
  PROVE  LET u == Unlink(s, h)
             t == PushBack([u EXCEPT !.slot[h].freq = f], h, "Main")
         IN
         /\ Sound(t) /\ \A g \in Hashes \ {h} : t.slot[g] = s.slot[g]
         /\ t.slot[h] # NoSlot /\ SameEntry(s.slot[h], t.slot[h])
         /\ t.slot[h].freq = f /\ t.slot[h].queue = "Main"
         /\ \A g \in Hashes \ {h} : IsLast(s, "Small", g) => IsLast(t, "Small", g)
  <1> DEFINE u == Unlink(s, h)
             v == [u EXCEPT !.slot[h].freq = f]
             t == PushBack(v, h, "Main")
             e == [s.slot[h] EXCEPT !.freq = f]
  <1>1. /\ h \in Hashes /\ "Main" \in Queues /\ "Small" \in Queues \ {"Main"}
        /\ s.slot[h] \in Slots /\ s.slot[h] # NoSlot
        /\ s.slot \in [Hashes -> Slots \cup {NoSlot}]
    BY FieldsOf DEF Sound, Linked, Occupied, Queues, Entry
  <1>2. /\ Linked(u, {h}) /\ u.slot = s.slot /\ u.ring = s.ring
        /\ \A q \in Queues, g \in Hashes \ {h} : IsLast(s, q, g) => IsLast(u, q, g)
    BY UnlinkKeeps DEF Sound
  <1> HIDE DEF u
  <1>3. h \in Occupied(u)
    BY <1>2 DEF Occupied
  <1>4. /\ Linked(v, {h}) /\ v.slot = [u.slot EXCEPT ![h] = [@ EXCEPT !.freq = f]]
        /\ v.queue = u.queue /\ v.ring = u.ring
    BY <1>2, <1>3, SlotTouched
  <1> HIDE DEF v
  <1>5. v.slot[h] = e /\ \A g \in Hashes \ {h} : v.slot[g] = s.slot[g]
    BY <1>1, <1>2, <1>4
  <1>6. e \in Slots /\ e.freq = f /\ SameEntry(s.slot[h], e)
    BY <1>1, StoreAssumption DEF Slots, SameEntry
  <1> HIDE DEF e
  <1>7. h \in Occupied(v)
    BY <1>1, <1>5, <1>6, StoreAssumption DEF Occupied
  <1>8. /\ Linked(t, {}) /\ t.ring = v.ring
        /\ t.slot = [v.slot EXCEPT ![h] = [@ EXCEPT !.queue = "Main"]]
        /\ \A p \in Queues \ {"Main"} : t.queue[p] = v.queue[p]
    <2>1. PushedBack(v, t, h, "Main")
      BY <1>1, <1>4, <1>7, PushBackKeeps
    <2> HIDE DEF t
    <2> QED
      BY <2>1 DEF PushedBack
  <1> HIDE DEF t
  <1>9. /\ t.slot[h] = [e EXCEPT !.queue = "Main"]
        /\ \A g \in Hashes \ {h} : t.slot[g] = s.slot[g]
    <2>1. v.slot \in [Hashes -> Slots \cup {NoSlot}]
      BY <1>4, FieldsOf DEF Linked
    <2> QED
      BY <1>1, <1>5, <1>8, <2>1
  <1>10. /\ t.slot[h] \in Slots /\ t.slot[h].freq = f /\ t.slot[h].queue = "Main"
         /\ SameEntry(s.slot[h], t.slot[h])
    <2>1. /\ t.slot[h] \in Slots /\ t.slot[h].freq = f /\ t.slot[h].queue = "Main"
          /\ t.slot[h].key = e.key /\ t.slot[h].answers = e.answers /\ t.slot[h].cost = e.cost
          /\ t.slot[h].failure = e.failure /\ t.slot[h].expires = e.expires
      BY <1>6, <1>9 DEF Slots
    <2> QED
      BY <1>6, <2>1 DEF SameEntry
  <1>11. \A g \in Hashes \ {h} : IsLast(s, "Small", g) => IsLast(t, "Small", g)
    BY <1>1, <1>2, <1>4, <1>8 DEF IsLast
  <1>12. Sound(t) /\ t.slot[h] # NoSlot
    BY <1>2, <1>4, <1>8, <1>10, StoreAssumption DEF Sound
  <1> QED
    BY <1>9, <1>10, <1>11, <1>12 DEF t, v, u

LEMMA EvictSmallKeeps ==
  ASSUME NEW s, Sound(s), s.queue["Small"] # <<>>
  PROVE  LET h == Head(s.queue["Small"])
             t == EvictSmall(s)
         IN
         /\ Sound(t) /\ Demoted(s, t, h)
         /\ \A g \in Hashes \ {h} : IsLast(s, "Small", g) => IsLast(t, "Small", g)
  <1> DEFINE h == Head(s.queue["Small"])
             t == EvictSmall(s)
  <1>1. h \in Occupied(s) /\ s.slot[h].queue = "Small" /\ "Small" \in Queues
    BY HeadOccupied DEF Sound, Queues
  <1>2. h \in Hashes /\ s.slot[h] \in Slots
    BY <1>1 DEF Sound, Linked, Occupied, Entry
  <1>3. s.slot[h].freq \in Nat /\ MaxFreq \in Nat
    BY <1>2, StoreAssumption DEF Slots
  <1>4. CASE s.slot[h].freq > 0
    <2>1. t = PushBack([Unlink(s, h) EXCEPT !.slot[h].freq = 0], h, "Main")
      BY <1>4 DEF EvictSmall
    <2> HIDE DEF t, h
    <2>2. 0 \in 0 .. MaxFreq
      BY <1>3
    <2>3. /\ Sound(t) /\ \A g \in Hashes \ {h} : t.slot[g] = s.slot[g]
          /\ t.slot[h] # NoSlot /\ SameEntry(s.slot[h], t.slot[h])
          /\ t.slot[h].freq = 0 /\ t.slot[h].queue = "Main"
          /\ \A g \in Hashes \ {h} : IsLast(s, "Small", g) => IsLast(t, "Small", g)
      BY <1>1, <2>1, <2>2, Requeued
    <2>4. Weight(t.slot[h]) < Weight(s.slot[h])
      BY <1>1, <1>3, <1>4, <2>3 DEF Weight
    <2> QED
      BY <1>1, <2>3, <2>4 DEF Demoted, t, h
  <1>5. CASE ~(s.slot[h].freq > 0)
    <2> DEFINE r == RemoveSlot(s, h)
    <2>1. t = PushGhost(r, h)
      BY <1>5 DEF EvictSmall
    <2> HIDE DEF t, h
    <2>2. /\ Linked(r, {}) /\ r.ring = s.ring /\ r.slot = [s.slot EXCEPT ![h] = NoSlot]
          /\ \A g \in Hashes \ {h} : IsLast(s, "Small", g) => IsLast(r, "Small", g)
      BY <1>1, RemoveKeeps DEF Sound
    <2> HIDE DEF r
    <2>3. Sound(r)
      BY <2>2 DEF Sound
    <2>4. Sound(t) /\ t.slot = r.slot /\ t.queue = r.queue
      BY <1>2, <2>1, <2>3, GhostKeeps
    <2>5. t.slot[h] = NoSlot /\ \A g \in Hashes \ {h} : t.slot[g] = s.slot[g]
      BY <1>2, <2>2, <2>4, FieldsOf DEF Sound, Linked
    <2> QED
      BY <1>1, <2>2, <2>4, <2>5 DEF Demoted, IsLast, t, h
  <1> QED
    BY <1>4, <1>5

LEMMA EvictMainKeeps ==
  ASSUME NEW s, Sound(s), s.queue["Main"] # <<>>
  PROVE  LET h == Head(s.queue["Main"])
             t == EvictMain(s)
         IN
         /\ Sound(t) /\ Demoted(s, t, h) /\ s.slot[h].queue = "Main"
         /\ \A g \in Hashes \ {h} : IsLast(s, "Small", g) => IsLast(t, "Small", g)
  <1> DEFINE h == Head(s.queue["Main"])
             t == EvictMain(s)
             f == s.slot[h].freq - 1
  <1>1. h \in Occupied(s) /\ s.slot[h].queue = "Main" /\ "Small" \in Queues
    BY HeadOccupied DEF Sound, Queues
  <1>2. h \in Hashes /\ s.slot[h] \in Slots /\ s.slot[h].freq <= MaxFreq
    BY <1>1 DEF Sound, Linked, Occupied, Entry
  <1>3. s.slot[h].freq \in Nat /\ MaxFreq \in Nat
    BY <1>2, StoreAssumption DEF Slots
  <1>4. CASE s.slot[h].freq > 0
    <2> DEFINE u == Unlink(s, h)
    <2>1. u.slot = s.slot
      BY <1>1, UnlinkKeeps DEF Sound
    <2>2. t = PushBack([u EXCEPT !.slot[h].freq = f], h, "Main")
      <3>1. t = PushBack([u EXCEPT !.slot[h].freq = @ - 1], h, "Main")
        BY <1>4 DEF EvictMain
      <3> HIDE DEF t, h, u
      <3>2. u.slot[h].freq - 1 = f
        BY <2>1
      <3> HIDE DEF f
      <3> QED
        BY <3>1, <3>2, Zenon
    <2>3. f \in 0 .. MaxFreq
      <3>1. \A x, y \in Nat : x <= y /\ x > 0 => x - 1 \in 0 .. y
        OBVIOUS
      <3> QED
        BY <1>2, <1>3, <1>4, <3>1, Zenon
    <2> HIDE DEF t, h, f
    <2>4. /\ Sound(t) /\ \A g \in Hashes \ {h} : t.slot[g] = s.slot[g]
          /\ t.slot[h] # NoSlot /\ SameEntry(s.slot[h], t.slot[h])
          /\ t.slot[h].freq = f /\ t.slot[h].queue = "Main"
          /\ \A g \in Hashes \ {h} : IsLast(s, "Small", g) => IsLast(t, "Small", g)
      <3> HIDE DEF u
      <3> DEFINE r == PushBack([u EXCEPT !.slot[h].freq = f], h, "Main")
      <3>1. /\ Sound(r) /\ \A g \in Hashes \ {h} : r.slot[g] = s.slot[g]
            /\ r.slot[h] # NoSlot /\ SameEntry(s.slot[h], r.slot[h])
            /\ r.slot[h].freq = f /\ r.slot[h].queue = "Main"
            /\ \A g \in Hashes \ {h} : IsLast(s, "Small", g) => IsLast(r, "Small", g)
        BY <1>1, <2>3, Requeued DEF u
      <3> HIDE DEF r
      <3>2. t = r
        BY <2>2 DEF r
      <3> QED
        BY <3>1, <3>2
    <2>5. Weight(t.slot[h]) < Weight(s.slot[h])
      BY <1>1, <1>3, <2>4 DEF Weight, f
    <2> QED
      BY <1>1, <2>4, <2>5 DEF Demoted, t, h
  <1>5. CASE ~(s.slot[h].freq > 0)
    <2>1. t = RemoveSlot(s, h)
      BY <1>5 DEF EvictMain
    <2> HIDE DEF t, h
    <2>2. /\ Linked(t, {}) /\ t.ring = s.ring /\ t.slot = [s.slot EXCEPT ![h] = NoSlot]
          /\ \A g \in Hashes \ {h} : IsLast(s, "Small", g) => IsLast(t, "Small", g)
      BY <1>1, <2>1, RemoveKeeps DEF Sound
    <2>3. t.slot[h] = NoSlot /\ \A g \in Hashes \ {h} : t.slot[g] = s.slot[g]
      BY <1>2, <2>2, FieldsOf DEF Sound, Linked
    <2> QED
      BY <1>1, <2>2, <2>3 DEF Demoted, Sound, t, h
  <1> QED
    BY <1>4, <1>5

LEMMA EmptyQueue ==
  ASSUME NEW s, Linked(s, {}), NEW q \in Queues, s.queue[q] = <<>>
  PROVE  s.bytes[q] = 0 /\ \A h \in Occupied(s) : s.slot[h].queue # q
  <1>1. InQueue(s, {}, q)
    BY DEF Linked
  <1> DEFINE c == CostsOf(s, q)
  <1>2. c \in Seq(Nat) /\ Len(c) = Len(s.queue[q])
    BY CostsTyped
  <1> HIDE DEF c
  <1>3. c = <<>>
    BY <1>2
  <1>4. s.bytes[q] = 0
    BY <1>1, <1>3, SumOfNone DEF InQueue, c
  <1>5. ASSUME NEW h \in Occupied(s) PROVE ~Queued(s, h, q)
    BY DEF Queued
  <1> QED
    BY <1>1, <1>4, <1>5 DEF InQueue, Occupied

LEMMA RingCost ==
  ASSUME NEW s, Sound(s)
  PROVE  /\ Len(s.ring) * GhostCost <= GhostCap * GhostCost
         /\ Len(s.ring) * GhostCost \in Nat /\ Len(s.ring) \in Nat
  <1>1. Len(s.ring) \in Nat /\ Len(s.ring) <= GhostCap /\ GhostCap \in Nat /\ GhostCost \in Nat
    BY StoreAssumption DEF Sound, RingKept
  <1> QED
    BY <1>1, Multiplied

LEMMA BeganTyped == \A at \in Began : at \in Nat
  BY DEF Began

LEMMA SizesTyped ==
  /\ Budget \in Nat /\ OversizeLimit \in Nat /\ GhostCost \in Nat /\ MaxFreq \in Nat
  BY StoreAssumption

LEMMA TotalTyped ==
  ASSUME NEW s, Sound(s)
  PROVE  Total(s) \in Int
  <1>1. s.bytes \in [Queues -> Int] /\ "Small" \in Queues /\ "Main" \in Queues
    BY FieldsOf DEF Sound, Linked, Queues
  <1>2. s.bytes.Small \in Int /\ s.bytes.Main \in Int
    BY <1>1
  <1> DEFINE r == Len(s.ring) * GhostCost
  <1>3. r \in Nat /\ Total(s) = s.bytes.Small + s.bytes.Main + r
    BY RingCost DEF Total
  <1> HIDE DEF r
  <1> QED
    BY <1>2, <1>3

(* A newcomer of the small queue's share is last in that queue, and is not  *)
(* evicted from it.                                                         *)
Newcomer(s, g) == g \in Hashes /\ IsLast(s, "Small", g) /\ s.slot[g].cost <= SmallTarget

LEMMA NotTheNewcomer ==
  ASSUME NEW s, Sound(s), Total(s) > Budget, s.queue["Small"] # <<>>,
         s.bytes.Small > SmallTarget \/ s.queue.Main = <<>>,
         NEW g, Newcomer(s, g)
  PROVE  g # Head(s.queue["Small"])
  <1> DEFINE queue == s.queue["Small"]
             c == CostsOf(s, "Small")
  <1>0. Linked(s, {}) /\ "Small" \in Queues /\ "Main" \in Queues
    BY DEF Sound, Queues
  <1>1. SUFFICES ASSUME g = Head(queue) PROVE FALSE
    OBVIOUS
  <1>2. /\ g \in Occupied(s) /\ g = queue[1] /\ Len(queue) \in Nat \ {0}
        /\ queue \in Seq(Hashes)
    BY <1>0, <1>1, HeadOccupied, FieldsOf DEF Linked
  <1>3. Len(queue) = 1
    <2>1. queue[Len(queue)] = g /\ 1 \in DOMAIN queue /\ Len(queue) \in DOMAIN queue
      BY <1>2 DEF Newcomer, IsLast
    <2>2. \A i, j \in DOMAIN queue : queue[i] = queue[j] => i = j
      BY <1>0 DEF Linked, InQueue
    <2> HIDE DEF queue
    <2> QED
      BY <1>2, <2>1, <2>2
  <1>4. c \in Seq(Nat) /\ Len(c) = 1 /\ c[1] = s.slot[g].cost
    BY <1>0, <1>2, <1>3, CostsTyped
  <1> HIDE DEF c
  <1>5. s.bytes["Small"] = s.slot[g].cost
    <2>1. s.bytes["Small"] = SumOf(c)
      BY <1>0 DEF Linked, InQueue, c
    <2> QED
      BY <1>4, <2>1, SumOfOne
  <1>6. /\ s.slot[g].cost \in Nat /\ s.slot[g].cost <= OversizeLimit /\ s.slot[g].cost <= SmallTarget
        /\ SmallTarget \in Nat /\ OversizeLimit \in Nat /\ Budget \in Nat
    BY <1>0, <1>2, StoreAssumption DEF Newcomer, Linked, Entry, Slots
  <1>7. s.queue["Main"] = <<>>
    BY <1>5, <1>6
  <1>8. s.bytes["Main"] = 0
    BY <1>0, <1>7, EmptyQueue
  <1>9. Total(s) = s.slot[g].cost + 0 + Len(s.ring) * GhostCost
    BY <1>5, <1>8 DEF Total
  <1>10. GhostCap * GhostCost + OversizeLimit <= Budget /\ GhostCap * GhostCost \in Nat
    BY StoreAssumption
  <1> DEFINE r == Len(s.ring) * GhostCost
             m == GhostCap * GhostCost
  <1>11. r \in Nat /\ r <= m
    BY RingCost
  <1> HIDE DEF r, m
  <1> QED
    BY <1>6, <1>9, <1>10, <1>11 DEF r, m

LEMMA EvictOneKeeps ==
  ASSUME NEW s, Sound(s), Total(s) > Budget
  PROVE  LET t == EvictOne(s) IN
         /\ Sound(t) /\ \E h \in Hashes : Demoted(s, t, h)
         /\ \A g : Newcomer(s, g) => t.slot[g] = s.slot[g] /\ Newcomer(t, g)
  <1> DEFINE t == EvictOne(s)
  <1>0. Linked(s, {}) /\ "Small" \in Queues /\ "Main" \in Queues
    BY DEF Sound, Queues
  <1>1. CASE (s.bytes.Small > SmallTarget \/ s.queue.Main = <<>>) /\ s.queue["Small"] # <<>>
    <2> DEFINE h == Head(s.queue["Small"])
    <2>1. t = EvictSmall(s)
      BY <1>1 DEF EvictOne
    <2> HIDE DEF t
    <2>2. /\ Sound(t) /\ Demoted(s, t, h)
          /\ \A g \in Hashes \ {h} : IsLast(s, "Small", g) => IsLast(t, "Small", g)
      BY <1>1, <2>1, EvictSmallKeeps
    <2>3. \A g : Newcomer(s, g) => g # h
      BY <1>1, NotTheNewcomer
    <2> HIDE DEF h
    <2>4. \A g : Newcomer(s, g) => t.slot[g] = s.slot[g] /\ Newcomer(t, g)
      BY <2>2, <2>3 DEF Newcomer, Demoted
    <2>5. h \in Hashes
      BY <2>2 DEF Demoted, Occupied
    <2> QED
      BY <2>2, <2>4, <2>5 DEF t
  <1>2. CASE (s.bytes.Small > SmallTarget \/ s.queue.Main = <<>>) /\ s.queue["Small"] = <<>>
    <2>1. s.bytes["Small"] = 0 /\ s.queue["Main"] = <<>> /\ s.bytes["Main"] = 0
      BY <1>0, <1>2, EmptyQueue, StoreAssumption
    <2>2. Total(s) = Len(s.ring) * GhostCost
      BY <2>1, RingCost DEF Total
    <2> DEFINE r == Len(s.ring) * GhostCost
               m == GhostCap * GhostCost
    <2>3. r \in Nat /\ r <= m /\ m \in Nat /\ m + OversizeLimit <= Budget
      BY RingCost, StoreAssumption
    <2>4. OversizeLimit \in Nat /\ Budget \in Nat
      BY StoreAssumption
    <2> HIDE DEF r, m
    <2> QED
      BY <2>2, <2>3, <2>4 DEF r
  <1>3. CASE ~(s.bytes.Small > SmallTarget \/ s.queue.Main = <<>>)
    <2> DEFINE h == Head(s.queue["Main"])
    <2>1. t = EvictMain(s)
      BY <1>3 DEF EvictOne
    <2> HIDE DEF t
    <2>2. /\ Sound(t) /\ Demoted(s, t, h) /\ s.slot[h].queue = "Main"
          /\ \A g \in Hashes \ {h} : IsLast(s, "Small", g) => IsLast(t, "Small", g)
      BY <1>3, <2>1, EvictMainKeeps
    <2>3. ASSUME NEW g, Newcomer(s, g) PROVE g # h
      <3>1. g \in Hashes /\ Queued(s, g, "Small")
        <4>1. s.queue["Small"] \in Seq(Hashes)
          BY <1>0, FieldsOf DEF Linked
        <4> QED
          BY <2>3, <4>1 DEF Newcomer, IsLast, Queued
      <3>2. s.slot[g].queue = "Small"
        BY <1>0, <3>1 DEF Linked, InQueue
      <3> QED
        BY <2>2, <3>2
    <2> HIDE DEF h
    <2>4. \A g : Newcomer(s, g) => t.slot[g] = s.slot[g] /\ Newcomer(t, g)
      BY <2>2, <2>3 DEF Newcomer, Demoted
    <2>5. h \in Hashes
      BY <2>2 DEF Demoted, Occupied
    <2> QED
      BY <2>2, <2>4, <2>5 DEF t
  <1> QED
    BY <1>1, <1>2, <1>3

LEMMA FirstIsExpired ==
  ASSUME NEW s, Sound(s), NEW at \in Nat, NEW index \in [Hashes -> Nat],
         \E h \in Occupied(s) : s.slot[h].expires <= at
  PROVE  /\ FirstExpired(s, at, index) \in Occupied(s)
         /\ s.slot[FirstExpired(s, at, index)].expires <= at
  <1> DEFINE expired == {h \in Occupied(s) : s.slot[h].expires <= at}
             Before(g, h) == \/ s.slot[h].expires < s.slot[g].expires
                             \/ s.slot[h].expires = s.slot[g].expires /\ index[h] <= index[g]
             Ends == {s.slot[h].expires : h \in expired}
  <1>1. ASSUME NEW h \in Occupied(s) PROVE h \in Hashes /\ s.slot[h].expires \in Nat
    BY DEF Sound, Linked, Entry, Slots, Occupied
  <1>2. PICK m \in Ends : \A k \in Ends : m <= k
    <2>1. Ends \in SUBSET Nat /\ Ends # {}
      BY <1>1
    <2> HIDE DEF Ends
    <2> QED
      BY <2>1, Least
  <1> DEFINE Firsts == {h \in expired : s.slot[h].expires = m}
             Places == {index[h] : h \in Firsts}
  <1>3. PICK p \in Places : \A k \in Places : p <= k
    <2>1. Places \in SUBSET Nat /\ Places # {}
      BY <1>1, <1>2
    <2> HIDE DEF Places
    <2> QED
      BY <2>1, Least
  <1>4. PICK h \in Firsts : index[h] = p
    BY <1>3
  <1>5. ASSUME NEW g \in expired PROVE Before(g, h)
    <2>1. m <= s.slot[g].expires /\ s.slot[h].expires = m
      BY <1>2, <1>4
    <2>2. s.slot[g].expires = m => index[h] <= index[g]
      BY <1>3, <1>4
    <2> QED
      BY <1>1, <1>2, <2>1, <2>2
  <1>6. \E x \in expired : \A g \in expired : Before(g, x)
    BY <1>4, <1>5
  <1> DEFINE f == CHOOSE x \in expired : \A g \in expired : Before(g, x)
  <1>7. f \in expired
    <2> HIDE DEF expired, Before
    <2> QED
      BY <1>6
  <1>8. FirstExpired(s, at, index) = f
    BY DEF FirstExpired
  <1> HIDE DEF f
  <1> QED
    BY <1>7, <1>8

(* One iteration of make_room on a shard that is over its budget.           *)
RoomMade(s, t, at) ==
    /\ Sound(t)
    /\ \E h \in Hashes : Demoted(s, t, h)
    /\ \A g \in Occupied(s) : s.slot[g].expires <= at => t.slot[g] \in {s.slot[g], NoSlot}
    /\ \A g : Newcomer(s, g) /\ s.slot[g].expires > at => t.slot[g] = s.slot[g] /\ Newcomer(t, g)

LEMMA RoomStepKeeps ==
  ASSUME NEW s, Sound(s), NEW at \in Nat, NEW index \in [Hashes -> Nat], Total(s) > Budget
  PROVE  RoomMade(s, RoomStep(s, at, index), at)
  <1> DEFINE t == RoomStep(s, at, index)
  <1>0. ~(Total(s) <= Budget)
    <2>1. Budget \in Nat /\ Total(s) \in Int
      BY TotalTyped, StoreAssumption
    <2> QED
      BY <2>1
  <1>1. ASSUME NEW h \in Occupied(s)
        PROVE  h \in Hashes /\ s.slot[h].expires \in Nat /\ s.slot[h] # NoSlot
    BY DEF Sound, Linked, Entry, Slots, Occupied
  <1>2. CASE \E h \in Occupied(s) : s.slot[h].expires <= at
    <2> DEFINE h == FirstExpired(s, at, index)
    <2>1. h \in Occupied(s) /\ s.slot[h].expires <= at
      BY <1>2, FirstIsExpired
    <2>2. t = RemoveSlot(s, h)
      BY <1>0, <1>2 DEF RoomStep
    <2> HIDE DEF h, t
    <2>3. /\ Linked(t, {}) /\ t.ring = s.ring /\ t.slot = [s.slot EXCEPT ![h] = NoSlot]
          /\ \A q \in Queues, g \in Hashes \ {h} : IsLast(s, q, g) => IsLast(t, q, g)
      BY <2>1, <2>2, RemoveKeeps DEF Sound
    <2>4. h \in Hashes /\ t.slot[h] = NoSlot /\ \A g \in Hashes \ {h} : t.slot[g] = s.slot[g]
      BY <1>1, <2>1, <2>3, FieldsOf DEF Sound, Linked
    <2>5. Sound(t) /\ Demoted(s, t, h)
      BY <2>1, <2>3, <2>4 DEF Sound, Demoted
    <2>6. \A g \in Occupied(s) : t.slot[g] \in {s.slot[g], NoSlot}
      BY <1>1, <2>4
    <2>7. ASSUME NEW g, Newcomer(s, g), s.slot[g].expires > at
          PROVE  t.slot[g] = s.slot[g] /\ Newcomer(t, g)
      <3>1. g # h
        BY <1>1, <2>1, <2>7
      <3> QED
        BY <2>3, <2>4, <2>7, <3>1 DEF Newcomer, Queues
    <2> QED
      BY <2>4, <2>5, <2>6, <2>7 DEF RoomMade, t
  <1>3. CASE ~\E h \in Occupied(s) : s.slot[h].expires <= at
    <2>1. t = EvictOne(s)
      BY <1>0, <1>3 DEF RoomStep
    <2> HIDE DEF t
    <2>2. /\ Sound(t) /\ \E h \in Hashes : Demoted(s, t, h)
          /\ \A g : Newcomer(s, g) => t.slot[g] = s.slot[g] /\ Newcomer(t, g)
      BY <2>1, EvictOneKeeps
    <2> QED
      BY <1>3, <2>2 DEF RoomMade, t
  <1> QED
    BY <1>2, <1>3

(* The chances the entries still have: each iteration takes one away.       *)
Chances == Hashes \X (0 .. MaxFreq + 1)

Tokens(s) == {x \in Chances : s.slot[x[1]] # NoSlot /\ x[2] < Weight(s.slot[x[1]])}

LEMMA ChancesFinite ==
  IsFiniteSet(Chances) /\ Cardinality(Chances) = Iterations /\ Iterations \in Nat
  <1>1. MaxFreq \in Nat /\ IsFiniteSet(Hashes) /\ Cardinality(Hashes) \in Nat
    BY StoreAssumption, FS_CardinalityType
  <1>2. IsFiniteSet(0 .. MaxFreq + 1) /\ Cardinality(0 .. MaxFreq + 1) = MaxFreq + 2
    <2>1. 0 \in Int /\ MaxFreq + 1 \in Int /\ ~(0 > MaxFreq + 1) /\ (MaxFreq + 1) - 0 + 1 = MaxFreq + 2
      BY <1>1
    <2> HIDE <1>1
    <2> QED
      BY <2>1, FS_Interval
  <1>3. IsFiniteSet(Chances) /\ Cardinality(Chances) = Cardinality(Hashes) * (MaxFreq + 2)
    <2> DEFINE T == 0 .. MaxFreq + 1
    <2> HIDE DEF T
    <2>1. IsFiniteSet(Hashes \X T) /\ Cardinality(Hashes \X T) = Cardinality(Hashes) * Cardinality(T)
      BY <1>1, <1>2, FS_Product DEF T
    <2> QED
      BY <1>2, <2>1 DEF Chances, T
  <1> QED
    BY <1>1, <1>3 DEF Iterations

LEMMA TokensBound ==
  ASSUME NEW s
  PROVE  /\ IsFiniteSet(Tokens(s)) /\ Cardinality(Tokens(s)) \in Nat
         /\ Cardinality(Tokens(s)) <= Iterations
  <1>1. Tokens(s) \in SUBSET Chances
    BY DEF Tokens
  <1> QED
    BY <1>1, ChancesFinite, FS_Subset, FS_CardinalityType

LEMMA WeightRange ==
  ASSUME NEW s, Sound(s), NEW h \in Occupied(s)
  PROVE  Weight(s.slot[h]) \in 1 .. MaxFreq + 1
  <1>1. /\ s.slot[h].freq \in Nat /\ s.slot[h].freq <= MaxFreq /\ MaxFreq \in Nat
    BY StoreAssumption DEF Sound, Linked, Entry, Slots
  <1> QED
    BY <1>1 DEF Weight

LEMMA OneChanceLess ==
  ASSUME NEW s, Sound(s), NEW t, Sound(t), NEW h, Demoted(s, t, h)
  PROVE  Cardinality(Tokens(t)) < Cardinality(Tokens(s))
  <1> DEFINE w == Weight(s.slot[h])
             x == <<h, w - 1>>
  <1>1. h \in Occupied(s) /\ h \in Hashes /\ s.slot[h] # NoSlot /\ w \in 1 .. MaxFreq + 1 /\ MaxFreq \in Nat
    BY WeightRange, StoreAssumption DEF Demoted, Occupied
  <1>2. t.slot[h] # NoSlot => Weight(t.slot[h]) \in Nat /\ Weight(t.slot[h]) < w
    <2>1. ASSUME t.slot[h] # NoSlot PROVE h \in Occupied(t)
      BY <1>1, <2>1 DEF Occupied
    <2>2. ASSUME t.slot[h] # NoSlot PROVE Weight(t.slot[h]) \in 1 .. MaxFreq + 1
      BY <2>1, <2>2, WeightRange
    <2> QED
      BY <1>1, <2>2 DEF Demoted
  <1> HIDE DEF w
  <1>3. x \in Chances /\ x[1] = h /\ x[2] = w - 1
    BY <1>1 DEF Chances
  <1> HIDE DEF x
  <1>4. x \in Tokens(s)
    BY <1>1, <1>3 DEF Tokens, w
  <1>5. x \notin Tokens(t)
    BY <1>1, <1>2, <1>3 DEF Tokens
  <1>6. ASSUME NEW y \in Tokens(t) PROVE y \in Tokens(s)
    <2>1. y \in Chances /\ y[1] \in Hashes /\ y[2] \in Int /\ t.slot[y[1]] # NoSlot
      BY StoreAssumption DEF Tokens, Chances
    <2>2. CASE y[1] = h
      BY <1>1, <1>2, <1>6, <2>1, <2>2 DEF Tokens, w
    <2>3. CASE y[1] # h
      BY <1>6, <2>1, <2>3 DEF Tokens, Demoted
    <2> QED
      BY <2>2, <2>3
  <1>7. Tokens(t) \in SUBSET Tokens(s) /\ Tokens(s) # Tokens(t)
    BY <1>4, <1>5, <1>6
  <1>8. /\ Cardinality(Tokens(t)) <= Cardinality(Tokens(s))
        /\ Cardinality(Tokens(s)) # Cardinality(Tokens(t))
    BY <1>7, TokensBound, FS_Subset
  <1> QED
    BY <1>8, TokensBound

SoundShards == {s \in Shards : Sound(s)}

(* The states a run of make_room goes through.                              *)
RoomRun(u, s, at, index) ==
    /\ u \in [0 .. Iterations -> SoundShards]
    /\ u[0] = s
    /\ \A n \in 1 .. Iterations : u[n] = RoomStep(u[n - 1], at, index)
    /\ MakeRoom(s, at, index) = u[Iterations]

LEMMA MakeRoomIs ==
  ASSUME NEW s, Sound(s), NEW at \in Nat, NEW index \in [Hashes -> Nat]
  PROVE  \E u : RoomRun(u, s, at, index)
  <1> DEFINE N == Iterations
             step == [n \in 1 .. N |-> [v \in SoundShards |-> RoomStep(v, at, index)]]
             Is(w) == w = [n \in 0 .. N |-> IF n = 0 THEN s ELSE RoomStep(w[n - 1], at, index)]
             u == CHOOSE w : w = [n \in 0 .. N |->
                                    IF n = 0 THEN s ELSE RoomStep(w[n - 1], at, index)]
  <1>0. N \in Nat /\ s \in SoundShards
    BY ChancesFinite DEF SoundShards, Sound, Linked
  <1>1. ASSUME NEW v \in SoundShards PROVE RoomStep(v, at, index) \in SoundShards
    <2>1. Sound(v)
      BY DEF SoundShards
    <2>2. CASE Total(v) <= Budget
      BY <2>2 DEF RoomStep
    <2>3. CASE ~(Total(v) <= Budget)
      <3>1. Total(v) > Budget
        BY <2>1, <2>3, TotalTyped, StoreAssumption
      <3>2. Sound(RoomStep(v, at, index))
        BY <2>1, <3>1, RoomStepKeeps DEF RoomMade
      <3> QED
        BY <3>2 DEF SoundShards, Sound, Linked
    <2> QED
      BY <2>2, <2>3
  <1>2. step \in [1 .. N -> [SoundShards -> SoundShards]]
    BY <1>1
  <1>3. PICK g : Iterated(g, N, SoundShards, s, step)
    <2> HIDE DEF step, N
    <2> QED
      BY <1>0, <1>2, Iterates
  <1> HIDE DEF N
  <1>4. Is(g)
    <2>1. ASSUME NEW n \in 1 .. N PROVE g[n] = RoomStep(g[n - 1], at, index)
      <3>1. g[n - 1] \in SoundShards /\ g[n] = step[n][g[n - 1]]
        <4> HIDE DEF step
        <4> QED
          BY <1>0, <1>3 DEF Iterated
      <3> QED
        BY <3>1
    <2> HIDE DEF step
    <2> QED
      BY <1>0, <1>3, <2>1 DEF Iterated
  <1>5. Is(u)
    BY <1>4, Zenon
  <1>6. MakeRoom(s, at, index) = u[N]
    BY DEF MakeRoom, N
  <1> HIDE DEF u, step
  <1>7. u[0] = s /\ \A n \in 1 .. N : u[n] = RoomStep(u[n - 1], at, index)
    BY <1>0, <1>5
  <1> DEFINE S == {n \in 0 .. N : u[n] \in SoundShards}
  <1>8. 0 \in S /\ \A n \in 1 .. N : n - 1 \in S => n \in S
    BY <1>0, <1>1, <1>7
  <1>9. 0 .. N \subseteq S
    <2> HIDE DEF S
    <2> QED
      BY <1>0, <1>8, Stepwise
  <1>10. u \in [0 .. N -> SoundShards]
    BY <1>5, <1>9
  <1> QED
    BY <1>6, <1>7, <1>10 DEF RoomRun, N

(* What any number of iterations of make_room has done to a shard.          *)
Progress(s, t, at) ==
    /\ Sound(t)
    /\ \A h \in Hashes :
          t.slot[h] = NoSlot \/ (s.slot[h] # NoSlot /\ SameEntry(s.slot[h], t.slot[h]))
    /\ \A g \in Occupied(s) : s.slot[g].expires <= at => t.slot[g] \in {s.slot[g], NoSlot}
    /\ \A g : Newcomer(s, g) /\ s.slot[g].expires > at => t.slot[g] = s.slot[g] /\ Newcomer(t, g)

LEMMA NoProgressYet ==
  ASSUME NEW s, Sound(s), NEW at
  PROVE  Progress(s, s, at)
  BY DEF Progress, SameEntry

LEMMA MoreProgress ==
  ASSUME NEW s, NEW t, NEW w, NEW at, Progress(s, t, at), RoomMade(t, w, at)
  PROVE  Progress(s, w, at)
  <1>1. PICK d \in Hashes : Demoted(t, w, d)
    BY DEF RoomMade
  <1>2. ASSUME NEW h \in Hashes
        PROVE  w.slot[h] = NoSlot \/ (s.slot[h] # NoSlot /\ SameEntry(s.slot[h], w.slot[h]))
    <2>1. \/ w.slot[h] \in {NoSlot, t.slot[h]}
          \/ t.slot[h] # NoSlot /\ SameEntry(t.slot[h], w.slot[h])
      <3>1. CASE h = d
        BY <1>1, <3>1 DEF Demoted, Occupied
      <3>2. CASE h # d
        BY <1>1, <3>2 DEF Demoted
      <3> QED
        BY <3>1, <3>2
    <2>2. t.slot[h] = NoSlot \/ (s.slot[h] # NoSlot /\ SameEntry(s.slot[h], t.slot[h]))
      BY DEF Progress
    <2> QED
      BY <2>1, <2>2 DEF SameEntry
  <1>3. ASSUME NEW g \in Occupied(s), s.slot[g].expires <= at
        PROVE  w.slot[g] \in {s.slot[g], NoSlot}
    <2>1. t.slot[g] \in {s.slot[g], NoSlot} /\ g \in Hashes
      BY <1>3 DEF Progress, Occupied
    <2>2. CASE t.slot[g] = NoSlot
      BY <1>1, <2>1, <2>2 DEF Demoted, Occupied
    <2>3. CASE t.slot[g] # NoSlot
      <3>1. g \in Occupied(t) /\ t.slot[g] = s.slot[g]
        BY <2>1, <2>3 DEF Occupied
      <3> QED
        BY <1>3, <3>1 DEF RoomMade
    <2> QED
      BY <2>2, <2>3
  <1>4. ASSUME NEW g, Newcomer(s, g), s.slot[g].expires > at
        PROVE  w.slot[g] = s.slot[g] /\ Newcomer(w, g)
    BY <1>4 DEF Progress, RoomMade
  <1> QED
    BY <1>2, <1>3, <1>4 DEF Progress, RoomMade

(* make_room ends within the budget: as long as it has not, every iteration *)
(* has taken a chance from an entry, and Iterations counts them all.        *)
LEMMA MadeRoom ==
  ASSUME NEW s, Sound(s), NEW at \in Nat, NEW index \in [Hashes -> Nat]
  PROVE  /\ Progress(s, MakeRoom(s, at, index), at)
         /\ Total(MakeRoom(s, at, index)) <= Budget
  <1>1. PICK u : RoomRun(u, s, at, index)
    BY MakeRoomIs
  <1> DEFINE N == Iterations
             Over(n) == ~(Total(u[n]) <= Budget)
             Left(n) == Cardinality(Tokens(u[n]))
             S == {n \in 0 .. N : Progress(s, u[n], at) /\ (Over(n) => Left(n) + n <= N)}
  <1>2. N \in Nat /\ Budget \in Nat
    BY ChancesFinite, StoreAssumption
  <1>3. /\ u[0] = s /\ MakeRoom(s, at, index) = u[N]
        /\ \A n \in 1 .. N : u[n] = RoomStep(u[n - 1], at, index)
    BY <1>1 DEF RoomRun
  <1>4. ASSUME NEW n \in 0 .. N
        PROVE  Sound(u[n]) /\ Total(u[n]) \in Int /\ Left(n) \in Nat /\ Left(n) <= N
    <2>1. Sound(u[n])
      BY <1>1 DEF RoomRun, SoundShards
    <2> QED
      BY <2>1, TotalTyped, TokensBound
  <1> HIDE DEF N
  <1>5. 0 \in S
    <2>1. Progress(s, u[0], at)
      BY <1>3, NoProgressYet
    <2> QED
      BY <1>2, <1>4, <2>1
  <1>6. ASSUME NEW n \in 0 .. N, Over(n) PROVE RoomMade(u[n], RoomStep(u[n], at, index), at)
    <2>1. Total(u[n]) > Budget
      BY <1>2, <1>4, <1>6
    <2> QED
      BY <1>4, <2>1, RoomStepKeeps
  <1>7. ASSUME NEW n \in 1 .. N, n - 1 \in S PROVE n \in S
    <2> DEFINE m == n - 1
    <2>0. m \in 0 .. N /\ n = m + 1 /\ u[n] = RoomStep(u[m], at, index) /\ Progress(s, u[m], at)
      BY <1>2, <1>3, <1>7
    <2>00. Over(m) => Left(m) + m <= N
      BY <1>7
    <2> HIDE DEF m, Over, Left
    <2>1. CASE ~Over(m)
      <3>1. u[n] = u[m]
        BY <2>0, <2>1 DEF RoomStep, Over
      <3>2. ~Over(n)
        BY <2>1, <3>1 DEF Over
      <3> QED
        BY <2>0, <3>1, <3>2
    <2>2. CASE Over(m)
      <3>1. RoomMade(u[m], u[n], at)
        BY <1>6, <2>0, <2>2
      <3>2. Progress(s, u[n], at)
        BY <2>0, <3>1, MoreProgress
      <3>3. PICK d \in Hashes : Demoted(u[m], u[n], d)
        BY <3>1 DEF RoomMade
      <3>4. Left(n) < Left(m)
        BY <1>4, <2>0, <3>3, OneChanceLess DEF Left
      <3>5. Left(n) \in Nat /\ Left(m) \in Nat
        BY <1>4, <2>0 DEF Left
      <3>6. Left(n) + n <= N
        BY <1>2, <2>0, <2>00, <2>2, <3>4, <3>5
      <3> QED
        BY <3>2, <3>6
    <2> QED
      BY <2>1, <2>2
  <1>8. N \in S
    <2> HIDE DEF S
    <2>1. 0 .. N \subseteq S
      BY <1>2, <1>5, <1>7, Stepwise
    <2> QED
      BY <1>2, <2>1
  <1>9. N \in 0 .. N
    BY <1>2
  <1>10. ~Over(N)
    <2> SUFFICES ASSUME Over(N) PROVE FALSE
      OBVIOUS
    <2>1. Left(N) = 0
      BY <1>2, <1>4, <1>8, <1>9
    <2>2. PICK d \in Hashes : Demoted(u[N], RoomStep(u[N], at, index), d)
      BY <1>6, <1>9 DEF RoomMade
    <2>3. Sound(RoomStep(u[N], at, index)) /\ Sound(u[N])
      BY <1>4, <1>6, <1>9 DEF RoomMade
    <2>4. Cardinality(Tokens(RoomStep(u[N], at, index))) < Left(N)
      BY <2>2, <2>3, OneChanceLess
    <2> QED
      BY <2>1, <2>4, TokensBound
  <1> QED
    BY <1>3, <1>8, <1>10

-----------------------------------------------------------------------------
(* What the operations do to a shard.                                       *)
LEMMA Removed ==
  ASSUME NEW s, Sound(s), NEW h \in Occupied(s)
  PROVE  LET t == RemoveSlot(s, h) IN
         /\ Sound(t) /\ t.ring = s.ring /\ h \in Hashes
         /\ t.slot[h] = NoSlot /\ \A g \in Hashes \ {h} : t.slot[g] = s.slot[g]
         /\ Total(t) + GhostCost <= Total(s)
  <1> DEFINE t == RemoveSlot(s, h)
             q == s.slot[h].queue
             c == s.slot[h].cost
             r == Len(s.ring) * GhostCost
  <1>1. /\ Linked(t, {}) /\ t.ring = s.ring /\ t.slot = [s.slot EXCEPT ![h] = NoSlot]
        /\ t.bytes = [s.bytes EXCEPT ![q] = @ - c]
    BY RemoveKeeps DEF Sound
  <1>2. /\ h \in Hashes /\ q \in Queues /\ c \in Nat /\ GhostCost <= c /\ s \in Shards
    BY DEF Sound, Linked, Entry, Slots, Occupied, Queues
  <1>3. /\ s.slot \in [Hashes -> Slots \cup {NoSlot}] /\ s.bytes \in [Queues -> Int]
    BY <1>2, FieldsOf
  <1> HIDE DEF t, q, c
  <1>4. t.slot[h] = NoSlot /\ \A g \in Hashes \ {h} : t.slot[g] = s.slot[g]
    BY <1>1, <1>2, <1>3
  <1>5. r \in Nat /\ Total(s) = s.bytes["Small"] + s.bytes["Main"] + r
          /\ Total(t) = t.bytes["Small"] + t.bytes["Main"] + r
    BY <1>1, RingCost DEF Total
  <1> HIDE DEF r
  <1>6. t.bytes["Small"] + t.bytes["Main"] = s.bytes["Small"] + s.bytes["Main"] - c
          /\ s.bytes["Small"] \in Int /\ s.bytes["Main"] \in Int
          /\ t.bytes["Small"] \in Int /\ t.bytes["Main"] \in Int
    BY <1>1, <1>2, <1>3 DEF Queues
  <1>7. Total(t) + GhostCost <= Total(s)
    BY <1>2, <1>5, <1>6, StoreAssumption
  <1>8. Sound(t)
    BY <1>1 DEF Sound
  <1> QED
    BY <1>1, <1>2, <1>4, <1>7, <1>8 DEF t

(* An entry that is dropped and remembered gives room for its ghost.        *)
LEMMA Dropped ==
  ASSUME NEW s, Sound(s), NEW h \in Occupied(s)
  PROVE  LET t == PushGhost(RemoveSlot(s, h), h) IN
         /\ Sound(t)
         /\ t.slot[h] = NoSlot /\ \A g \in Hashes \ {h} : t.slot[g] = s.slot[g]
         /\ Total(t) <= Total(s)
  <1> DEFINE u == RemoveSlot(s, h)
             t == PushGhost(u, h)
             n == Len(u.ring)
             m == Len(t.ring)
  <1>1. /\ Sound(u) /\ h \in Hashes
        /\ u.slot[h] = NoSlot /\ \A g \in Hashes \ {h} : u.slot[g] = s.slot[g]
        /\ Total(u) + GhostCost <= Total(s)
    BY Removed
  <1> HIDE DEF u
  <1>2. Sound(t) /\ t.slot = u.slot /\ t.bytes = u.bytes /\ m <= n + 1
    BY <1>1, GhostKeeps
  <1> HIDE DEF t
  <1>3. m \in Nat /\ n \in Nat /\ GhostCost \in Nat
    BY <1>1, <1>2, RingCost, StoreAssumption
  <1>4. m * GhostCost <= (n + 1) * GhostCost /\ m * GhostCost \in Nat
    <2> HIDE DEF m, n
    <2> QED
      BY <1>2, <1>3, Multiplied
  <1>5. (n + 1) * GhostCost = n * GhostCost + GhostCost /\ n * GhostCost \in Nat
    <2> HIDE DEF m, n
    <2> QED
      BY <1>3
  <1>6. u.bytes.Small + u.bytes.Main \in Int
    <2>1. u.bytes \in [Queues -> Int] /\ "Small" \in Queues /\ "Main" \in Queues
      BY <1>1, FieldsOf DEF Sound, Linked, Queues
    <2>2. u.bytes["Small"] \in Int /\ u.bytes["Main"] \in Int
      BY <2>1
    <2> QED
      BY <2>2
  <1>7. Total(t) <= Total(u) + GhostCost
    <2> DEFINE b == u.bytes.Small + u.bytes.Main
               x == m * GhostCost
               y == n * GhostCost
    <2>1. Total(t) = b + x /\ Total(u) = b + y /\ b \in Int /\ x \in Nat /\ y \in Nat
      BY <1>2, <1>4, <1>5, <1>6 DEF Total
    <2>2. x <= y + GhostCost
      BY <1>4, <1>5
    <2> HIDE DEF b, x, y
    <2> QED
      BY <1>3, <2>1, <2>2
  <1>8. Total(t) <= Total(s)
    BY <1>1, <1>2, <1>3, <1>7, TotalTyped
  <1> QED
    BY <1>1, <1>2, <1>8 DEF t, u

LEMMA OutOfQueues ==
  ASSUME NEW s, Linked(s, {}), NEW h \in Hashes, s.slot[h] = NoSlot
  PROVE  Linked(s, {h})
  <1>1. ASSUME NEW q \in Queues PROVE InQueue(s, {h}, q)
    BY DEF Linked, InQueue
  <1> QED
    BY <1>1 DEF Linked

(* What insert leaves before it makes room.                                 *)
PlacedIs(t, k, a, at) ==
    /\ Sound(t)
    /\ \A g \in Hashes \ {HashOf[k]} : t.slot[g] = shard.slot[g]
    /\ \/ t.slot[HashOf[k]] = NoSlot
       \/ SameEntry(NewSlot(k, a, at), t.slot[HashOf[k]])
    /\ a.cost > OversizeLimit => Total(t) <= Total(shard)
    /\ /\ shard.slot[HashOf[k]] = NoSlot /\ ~Remembered(shard, HashOf[k])
       /\ ~(a.cost > OversizeLimit) /\ a.cost <= SmallTarget
       => t.slot[HashOf[k]] = NewSlot(k, a, at) /\ Newcomer(t, HashOf[k])

LEMMA PlacedKeeps ==
  ASSUME NEW k \in Keys, NEW a \in Answers, NEW at \in Nat, Sound(shard)
  PROVE  PlacedIs(Placed(k, a, at), k, a, at)
  <1> DEFINE h == HashOf[k]
             old == shard.slot[h]
             reused == old # NoSlot /\ old.key = k /\ (old.freq > 0 \/ old.queue = "Main")
             cleared == IF old = NoSlot THEN shard ELSE RemoveSlot(shard, h)
             queue == IF reused \/ Remembered(cleared, h) THEN "Main" ELSE "Small"
             new == NewSlot(k, a, at)
             t == Placed(k, a, at)
  <1>0. /\ h \in Hashes /\ a.cost \in Nat /\ GhostCost <= a.cost /\ at + a.life \in Nat
        /\ OversizeLimit \in Nat /\ MaxFreq \in Nat /\ a.failure \in BOOLEAN /\ GhostCost \in Nat
    BY StoreAssumption
  <1>1. /\ Sound(cleared) /\ cleared.slot[h] = NoSlot /\ Total(cleared) <= Total(shard)
        /\ \A g \in Hashes \ {h} : cleared.slot[g] = shard.slot[g]
        /\ old = NoSlot => cleared = shard
    <2>1. CASE old = NoSlot
      <3>1. cleared = shard
        BY <2>1, Zenon
      <3>2. Total(shard) <= Total(shard)
        BY TotalTyped
      <3> QED
        BY <2>1, <3>1, <3>2, Zenon
    <2>2. CASE old # NoSlot
      <3>1. h \in Occupied(shard)
        BY <1>0, <2>2 DEF Occupied
      <3>2. /\ Sound(RemoveSlot(shard, h)) /\ RemoveSlot(shard, h).slot[h] = NoSlot
            /\ \A g \in Hashes \ {h} : RemoveSlot(shard, h).slot[g] = shard.slot[g]
            /\ Total(RemoveSlot(shard, h)) + GhostCost <= Total(shard)
        BY <3>1, Removed
      <3>3. Total(RemoveSlot(shard, h)) <= Total(shard)
        BY <1>0, <3>2, TotalTyped
      <3> QED
        BY <2>2, <3>2, <3>3
    <2> QED
      BY <2>1, <2>2
  <1>2. CASE a.cost > OversizeLimit
    <2>1. t = cleared
      BY <1>2 DEF Placed
    <2> HIDE DEF t, cleared
    <2> QED
      BY <1>1, <1>2, <2>1 DEF PlacedIs, t
  <1>3. CASE ~(a.cost > OversizeLimit)
    <2> DEFINE b == [cleared EXCEPT !.ring = Forgotten(@, h)]
               c == [b EXCEPT !.slot[h] = new]
    <2>1. t = PushBack([cleared EXCEPT !.ring = Forgotten(@, h), !.slot[h] = new], h, queue)
      BY <1>3 DEF Placed
    <2>2. /\ new \in Slots /\ new.key = k /\ new.answers = k /\ new.freq = 0
          /\ new.cost = a.cost /\ new.queue = "Small"
      BY <1>0 DEF NewSlot, Slots
    <2>3. queue \in Queues
      BY DEF Queues
    <2>4. old = NoSlot /\ ~Remembered(shard, h) => queue = "Small"
      BY <1>1
    <2> HIDE DEF queue, cleared, new
    <2>5. [cleared EXCEPT !.ring = Forgotten(@, h), !.slot[h] = new] = c
      BY <1>1, Zenon DEF Sound, Linked, Shards
    <2>6. RingKept(Forgotten(cleared.ring, h)) /\ Forgotten(cleared.ring, h) \in Seq(Ghosts)
      BY <1>0, <1>1, ForgottenKeeps DEF Sound, RingKept
    <2>7. Linked(cleared, {h})
      BY <1>0, <1>1, OutOfQueues DEF Sound
    <2>8. Linked(b, {h}) /\ b.ring = Forgotten(cleared.ring, h) /\ b.slot = cleared.slot
      BY <2>6, <2>7, RingReplaced
    <2>9. Entry(h, new) /\ new # NoSlot
      BY <1>0, <1>3, <2>2, StoreAssumption DEF Entry
    <2> HIDE DEF b
    <2>10. Linked(c, {h}) /\ c.slot = [b.slot EXCEPT ![h] = new] /\ c.ring = b.ring
      BY <1>0, <2>8, <2>9, SlotReplaced
    <2> HIDE DEF c
    <2>11. c.slot[h] = new /\ \A g \in Hashes \ {h} : c.slot[g] = cleared.slot[g]
      <3>1. b.slot \in [Hashes -> Slots \cup {NoSlot}]
        BY <2>8, FieldsOf DEF Linked
      <3> QED
        BY <1>0, <2>8, <2>10, <3>1
    <2>12. h \in Occupied(c)
      BY <1>0, <2>9, <2>11 DEF Occupied
    <2>13. PushedBack(c, PushBack(c, h, queue), h, queue)
      BY <2>3, <2>10, <2>12, PushBackKeeps
    <2>14. t = PushBack(c, h, queue)
      BY <2>1, <2>5
    <2> HIDE DEF t
    <2>15. /\ Linked(t, {}) /\ t.ring = c.ring
           /\ t.slot = [c.slot EXCEPT ![h] = [@ EXCEPT !.queue = queue]]
           /\ IsLast(t, queue, h)
      BY <2>13, <2>14 DEF PushedBack
    <2>16. t.slot[h] = [new EXCEPT !.queue = queue] /\ \A g \in Hashes \ {h} : t.slot[g] = shard.slot[g]
      <3>1. c.slot \in [Hashes -> Slots \cup {NoSlot}]
        BY <2>10, FieldsOf DEF Linked
      <3> QED
        BY <1>0, <1>1, <2>11, <2>15, <3>1
    <2>17. Sound(t)
      BY <2>6, <2>8, <2>10, <2>15 DEF Sound
    <2>18. /\ SameEntry(new, [new EXCEPT !.queue = queue])
           /\ queue = "Small" => [new EXCEPT !.queue = queue] = new
      BY <2>2, <2>3 DEF SameEntry, Slots, Queues
    <2>19. queue = "Small" /\ a.cost <= SmallTarget => t.slot[h] = new /\ Newcomer(t, h)
      BY <1>0, <2>2, <2>15, <2>16, <2>18 DEF Newcomer
    <2> QED
      BY <1>3, <2>4, <2>16, <2>17, <2>18, <2>19 DEF PlacedIs, t, new
  <1> QED
    BY <1>2, <1>3

LEMMA IndicesTyped ==
  ASSUME NEW at, NEW index \in Indices(at)
  PROVE  index \in [Hashes -> Nat]
  <1> DEFINE N == Cardinality(Hashes)
  <1>1. N \in Nat
    BY StoreAssumption, FS_CardinalityType
  <1>2. PICK f : f \in Bijection(1 .. N, Hashes)
    BY StoreAssumption, FS_CardinalityType, Zenon DEF ExistsBijection
  <1> DEFINE place == [h \in Hashes |-> CHOOSE i \in 1 .. N : f[i] = h]
  <1>3. ASSUME NEW h \in Hashes PROVE place[h] \in 1 .. N /\ f[place[h]] = h
    <2>1. \E i \in 1 .. N : f[i] = h
      BY <1>2 DEF Bijection, Surjection
    <2> QED
      BY <2>1
  <1> HIDE DEF place
  <1>4. AllIndices # {}
    <2>1. place \in [Hashes -> 1 .. N]
      BY <1>3 DEF place
    <2>2. \A g, h \in Hashes : place[g] = place[h] => g = h
      BY <1>3
    <2> QED
      BY <2>1, <2>2 DEF AllIndices
  <1>5. index \in AllIndices
    <2>1. (CHOOSE g \in AllIndices : TRUE) \in AllIndices
      BY <1>4
    <2> QED
      BY <2>1 DEF Indices
  <1>6. index \in [Hashes -> 1 .. N]
    BY <1>5 DEF AllIndices
  <1> QED
    BY <1>1, <1>6

(* remove_matching visits every doomed entry once.                          *)
LEMMA Listed ==
  ASSUME NEW S \in SUBSET Hashes
  PROVE  /\ Listing(S) \in Seq(S)
         /\ \A i, j \in 1 .. Len(Listing(S)) : Listing(S)[i] = Listing(S)[j] => i = j
  <1> DEFINE N == Cardinality(S)
             q == Listing(S)
  <1>1. IsFiniteSet(S) /\ N \in Nat
    BY StoreAssumption, FS_Subset, FS_CardinalityType
  <1>2. PICK f : f \in Bijection(1 .. N, S)
    BY <1>1, FS_CardinalityType, Zenon DEF ExistsBijection
  <1>3. f \in [1 .. N -> S] /\ IsInjective(f)
    BY <1>2 DEF Bijection, Injection, IsInjective
  <1>4. q \in [1 .. N -> S] /\ IsInjective(q)
    BY <1>3, Zenon DEF Listing
  <1> HIDE DEF q, N
  <1>5. q \in Seq(S) /\ DOMAIN q = 1 .. Len(q)
    BY <1>1, <1>4
  <1> QED
    BY <1>4, <1>5 DEF IsInjective, q

PurgedTo(s, t, doomed, n) ==
    /\ Sound(t) /\ Total(t) <= Total(s)
    /\ \A g \in Hashes : t.slot[g] \in {s.slot[g], NoSlot}
    /\ \A i \in 1 .. Len(doomed) : i > n => doomed[i] \in Occupied(t)

PurgeStep(t, h) == IF Sound(t) /\ h \in Occupied(t) THEN RemoveSlot(t, h) ELSE t

LEMMA Purging ==
  ASSUME NEW s, Sound(s), NEW doomed \in Seq(Occupied(s)),
         \A i, j \in 1 .. Len(doomed) : doomed[i] = doomed[j] => i = j,
         NEW w, w[0] = s,
         \A n \in 1 .. Len(doomed) :
            Sound(w[n - 1]) /\ doomed[n] \in Occupied(w[n - 1])
                => w[n] = RemoveSlot(w[n - 1], doomed[n])
  PROVE  \A n \in 0 .. Len(doomed) : PurgedTo(s, w[n], doomed, n)
  <1> DEFINE N == Len(doomed)
             S == {n \in 0 .. N : PurgedTo(s, w[n], doomed, n)}
  <1>1. N \in Nat /\ \A i \in 1 .. N : doomed[i] \in Occupied(s)
    OBVIOUS
  <1>2. 0 \in S
    BY <1>1, TotalTyped DEF PurgedTo
  <1>3. ASSUME NEW n \in 1 .. N, n - 1 \in S PROVE n \in S
    <2> DEFINE v == w[n - 1]
               h == doomed[n]
    <2>1. PurgedTo(s, v, doomed, n - 1)
      BY <1>3
    <2>2. Sound(v) /\ h \in Occupied(v)
      BY <1>1, <2>1 DEF PurgedTo
    <2>3. w[n] = RemoveSlot(v, h)
      BY <2>2
    <2> HIDE DEF v
    <2>4. /\ Sound(w[n]) /\ h \in Hashes /\ w[n].slot[h] = NoSlot
          /\ \A g \in Hashes \ {h} : w[n].slot[g] = v.slot[g]
          /\ Total(w[n]) + GhostCost <= Total(v)
      <3> HIDE DEF h
      <3> QED
        BY <2>2, <2>3, Removed
    <2>5. Total(w[n]) <= Total(s)
      <3>1. Total(v) <= Total(s) /\ GhostCost \in Nat
        BY <2>1, StoreAssumption DEF PurgedTo
      <3> QED
        BY <2>2, <2>4, <3>1, TotalTyped
    <2>6. \A g \in Hashes : w[n].slot[g] \in {s.slot[g], NoSlot}
      <3> HIDE DEF h
      <3> QED
        BY <2>1, <2>4 DEF PurgedTo
    <2>7. ASSUME NEW i \in 1 .. N, i > n PROVE doomed[i] \in Occupied(w[n])
      <3>1. doomed[i] \in Occupied(v) /\ doomed[i] # h
        BY <1>1, <2>1, <2>7 DEF PurgedTo
      <3> QED
        BY <2>4, <3>1 DEF Occupied
    <2>8. PurgedTo(s, w[n], doomed, n)
      BY <2>4, <2>5, <2>6, <2>7, Zenon DEF PurgedTo
    <2>9. n \in 0 .. N
      BY <1>1
    <2> QED
      BY <2>8, <2>9, Zenon
  <1>4. 0 .. N \subseteq S
    <2> HIDE DEF S, N
    <2> QED
      BY <1>1, <1>2, <1>3, Stepwise
  <1> QED
    BY <1>4

LEMMA Purged ==
  ASSUME NEW matching, RemoveMatching(matching), Sound(shard)
  PROVE  /\ Sound(shard') /\ Total(shard') <= Total(shard)
         /\ \A g \in Hashes : shard'.slot[g] \in {shard.slot[g], NoSlot}
  <1> DEFINE D == {h \in Occupied(shard) : shard.slot[h].key \in matching}
             doomed == Listing(D)
             N == Len(doomed)
             Is(w) == w = [n \in 0 .. N |-> IF n = 0 THEN shard ELSE RemoveSlot(w[n - 1], doomed[n])]
             u == CHOOSE w : w = [n \in 0 .. N |->
                                    IF n = 0 THEN shard ELSE RemoveSlot(w[n - 1], doomed[n])]
             step == [n \in 1 .. N |-> [t \in SoundShards |-> PurgeStep(t, doomed[n])]]
  <1>1. D \in SUBSET Hashes /\ D \subseteq Occupied(shard)
    BY DEF Occupied
  <1>2. shard' = u[N]
    BY DEF RemoveMatching
  <1> HIDE DEF D
  <1>3. doomed \in Seq(D) /\ \A i, j \in 1 .. N : doomed[i] = doomed[j] => i = j
    BY <1>1, Listed
  <1>4. doomed \in Seq(Occupied(shard)) /\ N \in Nat /\ \A n \in 1 .. N : doomed[n] \in Hashes
    <2> HIDE DEF doomed
    <2> QED
      BY <1>1, <1>3
  <1>5. step \in [1 .. N -> [SoundShards -> SoundShards]]
    <2>1. ASSUME NEW t \in SoundShards, NEW h PROVE PurgeStep(t, h) \in SoundShards
      <3>1. CASE Sound(t) /\ h \in Occupied(t)
        <4>1. Sound(RemoveSlot(t, h))
          BY <3>1, Removed
        <4> QED
          BY <3>1, <4>1 DEF PurgeStep, SoundShards, Sound, Linked
      <3>2. CASE ~(Sound(t) /\ h \in Occupied(t))
        BY <3>2 DEF PurgeStep
      <3> QED
        BY <3>1, <3>2
    <2> HIDE DEF doomed, N
    <2> QED
      BY <2>1
  <1>6. shard \in SoundShards
    BY DEF SoundShards, Sound, Linked
  <1>7. PICK g : Iterated(g, N, SoundShards, shard, step)
    <2> HIDE DEF step, N
    <2> QED
      BY <1>4, <1>5, <1>6, Iterates
  <1> HIDE DEF doomed
  <1>8. g[0] = shard /\ \A n \in 1 .. N : g[n] = PurgeStep(g[n - 1], doomed[n])
    <2>1. ASSUME NEW n \in 1 .. N PROVE g[n] = PurgeStep(g[n - 1], doomed[n])
      <3>1. g[n - 1] \in SoundShards /\ g[n] = step[n][g[n - 1]]
        <4> HIDE DEF step
        <4> QED
          BY <1>4, <1>7 DEF Iterated
      <3> QED
        BY <3>1
    <2> HIDE DEF step
    <2> QED
      BY <1>7, <2>1 DEF Iterated
  <1>9. \A n \in 0 .. N : PurgedTo(shard, g[n], doomed, n)
    BY <1>3, <1>4, <1>8, Purging DEF PurgeStep
  <1>10. ASSUME NEW n \in 1 .. N PROVE g[n] = RemoveSlot(g[n - 1], doomed[n])
    <2>1. PurgedTo(shard, g[n - 1], doomed, n - 1)
      BY <1>4, <1>9
    <2>2. Sound(g[n - 1]) /\ doomed[n] \in Occupied(g[n - 1])
      BY <1>4, <2>1 DEF PurgedTo
    <2> QED
      BY <1>8, <2>2 DEF PurgeStep
  <1>11. Is(g)
    BY <1>4, <1>7, <1>8, <1>10 DEF Iterated
  <1>12. Is(u)
    BY <1>11, Zenon
  <1> HIDE DEF u
  <1>13. u[0] = shard /\ \A n \in 1 .. N : u[n] = RemoveSlot(u[n - 1], doomed[n])
    BY <1>4, <1>12
  <1>14. PurgedTo(shard, u[N], doomed, N)
    <2>1. \A n \in 0 .. N : PurgedTo(shard, u[n], doomed, n)
      BY <1>3, <1>4, <1>13, Purging
    <2> QED
      BY <1>4, <2>1
  <1> QED
    BY <1>2, <1>14 DEF PurgedTo

-----------------------------------------------------------------------------
(* Every operation leaves a shard whose structures agree, within the        *)
(* budget, with what it held before except for what it lost or was given.   *)
StoreInv ==
    /\ now \in 0 .. MaxTime
    /\ Sound(shard)
    /\ Total(shard) <= Budget

Kept(s, t, out) ==
    \A g \in Hashes \ out :
        t.slot[g] = NoSlot \/ (s.slot[g] # NoSlot /\ SameEntry(s.slot[g], t.slot[g]))

Given(t, k) ==
    \/ t.slot[HashOf[k]] = NoSlot
    \/ \E a \in Answers, at \in Nat : SameEntry(NewSlot(k, a, at), t.slot[HashOf[k]])

Fine(t) == Sound(t) /\ Total(t) <= Budget

LEMMA NewShardFine ==
  Fine(NewShard) /\ \A h \in Hashes : NewShard.slot[h] = NoSlot
  <1> DEFINE s == NewShard
  <1>1. /\ s.slot = [h \in Hashes |-> NoSlot] /\ s.ring = <<>>
        /\ s.queue["Small"] = <<>> /\ s.queue["Main"] = <<>>
        /\ s.bytes["Small"] = 0 /\ s.bytes["Main"] = 0
    BY DEF NewShard
  <1>2. s \in Shards
    <2>1. [Small |-> <<>>, Main |-> <<>>] \in [Queues -> Seq(Hashes)]
      <3>1. ASSUME NEW S, NEW e \in S PROVE [Small |-> e, Main |-> e] \in [Queues -> S]
        BY DEF Queues
      <3>2. <<>> \in Seq(Hashes)
        OBVIOUS
      <3> QED
        BY <3>1, <3>2, Zenon
    <2>2. [Small |-> 0, Main |-> 0] \in [Queues -> Int]
      BY DEF Queues
    <2>3. <<>> \in Seq(Ghosts)
      OBVIOUS
    <2> QED
      BY <2>1, <2>2, <2>3 DEF NewShard, Shards
  <1> HIDE DEF s
  <1>3. \A h \in Hashes : s.slot[h] = NoSlot
    BY <1>1
  <1>4. ASSUME NEW q \in Queues PROVE InQueue(s, {}, q)
    <2>1. s.queue[q] = <<>> /\ s.bytes[q] = 0
      BY <1>1 DEF Queues
    <2>2. CostsOf(s, q) = <<>>
      BY <2>1 DEF CostsOf
    <2>3. \A h \in Hashes : ~Queued(s, h, q)
      BY <2>1 DEF Queued
    <2>4. s.bytes[q] = SumOf(CostsOf(s, q))
      BY <2>1, <2>2, SumOfNone
    <2> QED
      BY <1>3, <2>1, <2>3, <2>4 DEF InQueue
  <1>5. Linked(s, {})
    BY <1>2, <1>3, <1>4 DEF Linked, Occupied
  <1>6. RingKept(s.ring)
    BY <1>1, StoreAssumption DEF RingKept
  <1>7. Total(s) <= Budget
    <2>1. Len(s.ring) * GhostCost = 0
      BY <1>1, StoreAssumption
    <2> QED
      BY <1>1, <2>1, StoreAssumption DEF Total
  <1> QED
    BY <1>3, <1>5, <1>6, <1>7 DEF Fine, Sound, s

LEMMA GetStep ==
  ASSUME NEW k \in Keys, Get(k), StoreInv
  PROVE  Fine(shard') /\ Kept(shard, shard', {})
  <1> DEFINE h == HashOf[k]
             e == shard.slot[h]
             f == IF e.freq < MaxFreq THEN e.freq + 1 ELSE e.freq
             t == [shard EXCEPT !.slot[h].freq = f]
  <1>1. h \in Hashes /\ e # NoSlot /\ h \in Occupied(shard) /\ Sound(shard) /\ Total(shard) <= Budget
    BY StoreAssumption DEF Get, Occupied, StoreInv
  <1>2. Entry(h, e) /\ e.freq \in Nat /\ e.freq <= MaxFreq /\ MaxFreq \in Nat
    BY <1>1, StoreAssumption DEF Sound, Linked, Entry, Slots
  <1>3. Budget \in Nat /\ GhostCost \in Nat /\ Total(shard) \in Int
    BY <1>1, TotalTyped, SizesTyped, Zenon
  <1>4. CASE now < e.expires
    <2>1. shard' = t
      BY <1>4 DEF Get
    <2>2. f \in 0 .. MaxFreq
      <3>1. \A x, y \in Nat : x <= y => (IF x < y THEN x + 1 ELSE x) \in 0 .. y
        OBVIOUS
      <3> QED
        BY <1>2, <3>1, Zenon
    <2> HIDE DEF f
    <2>3. /\ Linked(t, {}) /\ t.slot = [shard.slot EXCEPT ![h] = [@ EXCEPT !.freq = f]]
          /\ t.bytes = shard.bytes /\ t.ring = shard.ring
      BY <1>1, <2>2, SlotTouched DEF Sound
    <2> HIDE DEF t
    <2>4. Fine(t)
      BY <1>1, <2>3 DEF Fine, Sound, Total
    <2>5. /\ t.slot[h] = [e EXCEPT !.freq = f]
          /\ \A g \in Hashes \ {h} : t.slot[g] = shard.slot[g]
      <3>1. shard.slot \in [Hashes -> Slots \cup {NoSlot}]
        BY <1>1, FieldsOf DEF Sound, Linked
      <3> QED
        BY <1>1, <2>3, <3>1
    <2>6. SameEntry(e, [e EXCEPT !.freq = f])
      BY <1>2 DEF SameEntry, Entry, Slots
    <2>7. Kept(shard, t, {})
      BY <1>1, <2>5, <2>6 DEF Kept, SameEntry
    <2> QED
      BY <2>1, <2>4, <2>7
  <1>5. CASE ~(now < e.expires) /\ e.freq > 0
    <2>1. shard' = PushGhost(RemoveSlot(shard, h), h)
      BY <1>5 DEF Get
    <2>2. /\ Sound(shard') /\ Total(shard') <= Total(shard)
          /\ shard'.slot[h] = NoSlot /\ \A g \in Hashes \ {h} : shard'.slot[g] = shard.slot[g]
      BY <1>1, <2>1, Dropped
    <2>3. Total(shard') <= Budget
      BY <1>1, <1>3, <2>2, TotalTyped
    <2> QED
      BY <1>1, <2>2, <2>3 DEF Fine, Kept, SameEntry
  <1>6. CASE ~(now < e.expires) /\ ~(e.freq > 0)
    <2>1. shard' = RemoveSlot(shard, h)
      BY <1>6 DEF Get
    <2>2. /\ Sound(shard') /\ Total(shard') + GhostCost <= Total(shard)
          /\ shard'.slot[h] = NoSlot /\ \A g \in Hashes \ {h} : shard'.slot[g] = shard.slot[g]
      BY <1>1, <2>1, Removed
    <2>3. Total(shard') <= Budget
      BY <1>1, <1>3, <2>2, TotalTyped
    <2> QED
      BY <1>1, <2>2, <2>3 DEF Fine, Kept, SameEntry
  <1> QED
    BY <1>4, <1>5, <1>6

LEMMA ForgetStep ==
  ASSUME NEW k \in Keys, ForgetFailure(k), StoreInv
  PROVE  Fine(shard') /\ Kept(shard, shard', {})
  <1> DEFINE h == HashOf[k]
  <1>1. h \in Occupied(shard) /\ Sound(shard) /\ Total(shard) <= Budget /\ shard' = RemoveSlot(shard, h)
    BY StoreAssumption DEF ForgetFailure, Occupied, StoreInv
  <1> HIDE DEF h
  <1>2. /\ Sound(shard') /\ Total(shard') + GhostCost <= Total(shard)
        /\ shard'.slot[h] = NoSlot /\ \A g \in Hashes \ {h} : shard'.slot[g] = shard.slot[g]
    BY <1>1, Removed
  <1>3. Total(shard') <= Budget
    BY <1>1, <1>2, TotalTyped, StoreAssumption
  <1> QED
    BY <1>2, <1>3 DEF Fine, Kept, SameEntry

LEMMA PurgeStepKeeps ==
  ASSUME NEW matching, RemoveMatching(matching), StoreInv
  PROVE  Fine(shard') /\ Kept(shard, shard', {})
  <1>1. /\ Sound(shard') /\ Total(shard') <= Total(shard)
        /\ \A g \in Hashes : shard'.slot[g] \in {shard.slot[g], NoSlot}
    BY Purged DEF StoreInv
  <1>2. Total(shard') <= Budget
    BY <1>1, TotalTyped, StoreAssumption DEF StoreInv
  <1> QED
    BY <1>1, <1>2 DEF Fine, Kept, SameEntry

LEMMA InsertStep ==
  ASSUME NEW k \in Keys, NEW a \in Answers, NEW at, Insert(k, a, at), StoreInv
  PROVE  Fine(shard') /\ Kept(shard, shard', {HashOf[k]}) /\ Given(shard', k)
  <1> DEFINE h == HashOf[k]
             p == Placed(k, a, at)
  <1>1. h \in Hashes /\ at \in Nat /\ Sound(shard) /\ Total(shard) <= Budget
    BY StoreAssumption DEF Insert, Began, StoreInv
  <1>2. PlacedIs(p, k, a, at)
    BY <1>1, PlacedKeeps
  <1>3. /\ Sound(p) /\ \A g \in Hashes \ {h} : p.slot[g] = shard.slot[g]
        /\ p.slot[h] = NoSlot \/ SameEntry(NewSlot(k, a, at), p.slot[h])
        /\ a.cost > OversizeLimit => Total(p) <= Total(shard)
    BY <1>2 DEF PlacedIs
  <1>4. CASE a.cost > OversizeLimit
    <2>1. shard' = p
      BY <1>4 DEF Insert
    <2> HIDE DEF p
    <2>2. Total(shard') <= Budget
      <3>1. Total(p) \in Int /\ Total(shard) \in Int /\ Total(p) <= Total(shard)
        BY <1>1, <1>3, <1>4, TotalTyped, Zenon
      <3>2. \A x, y \in Int : x <= y /\ y <= Budget => x <= Budget
        BY SizesTyped
      <3> QED
        BY <1>1, <2>1, <3>1, <3>2, Zenon
    <2> QED
      BY <1>1, <1>3, <2>1, <2>2 DEF Fine, Kept, Given, SameEntry
  <1>5. CASE ~(a.cost > OversizeLimit)
    <2>1. PICK index \in Indices(at) : shard' = MakeRoom(p, at, index)
      BY <1>5 DEF Insert
    <2> HIDE DEF p
    <2>2. index \in [Hashes -> Nat]
      BY IndicesTyped
    <2>3. Progress(p, shard', at) /\ Total(shard') <= Budget
      BY <1>1, <1>3, <2>1, <2>2, MadeRoom
    <2>4. Sound(shard')
      BY <2>3 DEF Progress
    <2>5. Kept(p, shard', {})
      BY <2>3 DEF Progress, Kept
    <2>6. Kept(shard, shard', {h})
      BY <1>3, <2>5 DEF Kept
    <2>7. shard'.slot[h] = NoSlot \/ SameEntry(NewSlot(k, a, at), shard'.slot[h])
      BY <1>1, <1>3, <2>5 DEF Kept, SameEntry
    <2> QED
      BY <1>1, <2>3, <2>4, <2>6, <2>7 DEF Fine, Given
  <1> QED
    BY <1>4, <1>5

LEMMA NextKeeps ==
  ASSUME StoreInv, [Next]_vars
  PROVE  /\ StoreInv'
         /\ Kept(shard, shard', {}) \/ \E k \in Keys : Kept(shard, shard', {HashOf[k]}) /\ Given(shard', k)
  <1>0. now \in 0 .. MaxTime /\ MaxTime \in Nat /\ Fine(shard)
    BY StoreAssumption DEF StoreInv, Fine
  <1> USE DEF StoreInv, Fine
  <1>1. ASSUME NEW k \in Keys, Get(k)
        PROVE  StoreInv' /\ Kept(shard, shard', {})
    <2>1. Fine(shard') /\ Kept(shard, shard', {})
      BY <1>1, GetStep
    <2> QED
      BY <1>0, <1>1, <2>1 DEF Get
  <1>2. ASSUME NEW k \in Keys, ForgetFailure(k)
        PROVE  StoreInv' /\ Kept(shard, shard', {})
    <2>1. Fine(shard') /\ Kept(shard, shard', {})
      BY <1>2, ForgetStep
    <2> QED
      BY <1>0, <1>2, <2>1 DEF ForgetFailure
  <1>3. ASSUME NEW k \in Keys, NEW a \in Answers, NEW at, Insert(k, a, at)
        PROVE  StoreInv' /\ Kept(shard, shard', {HashOf[k]}) /\ Given(shard', k)
    <2>1. Fine(shard') /\ Kept(shard, shard', {HashOf[k]}) /\ Given(shard', k)
      BY <1>3, InsertStep
    <2> QED
      BY <1>0, <1>3, <2>1 DEF Insert
  <1>4. ASSUME Clear PROVE StoreInv' /\ Kept(shard, shard', {})
    <2>1. shard' = NewShard /\ now' = now
      BY <1>4 DEF Clear
    <2> QED
      BY <1>0, <2>1, NewShardFine DEF Kept
  <1>5. ASSUME NEW matching, RemoveMatching(matching)
        PROVE  StoreInv' /\ Kept(shard, shard', {})
    <2>1. Fine(shard') /\ Kept(shard, shard', {})
      BY <1>5, PurgeStepKeeps
    <2> QED
      BY <1>0, <1>5, <2>1 DEF RemoveMatching
  <1>6. ASSUME Tick \/ UNCHANGED vars PROVE StoreInv' /\ Kept(shard, shard', {})
    <2>1. shard' = shard /\ now' \in 0 .. MaxTime
      BY <1>0, <1>6 DEF Tick, vars
    <2> QED
      BY <1>0, <2>1 DEF Kept, SameEntry
  <1> QED
    BY <1>1, <1>2, <1>3, <1>4, <1>5, <1>6 DEF Next

LEMMA InitInv == Init => StoreInv
  BY NewShardFine, StoreAssumption DEF Init, StoreInv, Fine

LEMMA NextInv == StoreInv /\ [Next]_vars => StoreInv'
  BY NextKeeps

LEMMA Invariance == Spec => []StoreInv
  BY InitInv, NextInv, PTL DEF Spec

(* The structures of a shard agree after every operation (store.rs          *)
(* push_back, unlink, remove_slot, push_ghost, evict_one, insert): the      *)
(* queues hold the occupied slots, each once, and the byte counts are the   *)
(* sums of what they hold, for every number of keys, hashes and answers.    *)
THEOREM ShardsAgree == Spec => []ShardAgrees
  <1>1. ASSUME StoreInv PROVE ShardAgrees
    <2>0. now \in 0 .. MaxTime /\ Linked(shard, {}) /\ RingKept(shard.ring) /\ shard \in Shards
      BY <1>1 DEF StoreInv, Sound, Linked
    <2>1. ASSUME NEW h \in Occupied(shard)
          PROVE  /\ HashOf[shard.slot[h].key] = h /\ shard.slot[h].freq \in 0 .. MaxFreq
                 /\ shard.slot[h].queue \in {"Small", "Main"} /\ shard.slot[h].cost <= OversizeLimit
      <3>1. Entry(h, shard.slot[h])
        BY <2>0, Zenon DEF Linked
      <3>2. shard.slot[h].freq \in Nat /\ shard.slot[h].queue \in {"Small", "Main"}
        BY <3>1 DEF Entry, Slots
      <3>3. \A x \in Nat : x <= MaxFreq => x \in 0 .. MaxFreq
        BY SizesTyped
      <3> QED
        BY <3>1, <3>2, <3>3, Zenon DEF Entry
    <2>2. ASSUME NEW queue \in {"Small", "Main"}
          PROVE  /\ IsInjective(shard.queue[queue])
                 /\ Range(shard.queue[queue])
                       = {h \in Occupied(shard) : shard.slot[h].queue = queue}
                 /\ shard.bytes[queue] = SumOf(CostsOf(shard, queue))
      <3>1. InQueue(shard, {}, queue) /\ shard.queue[queue] \in Seq(Hashes)
        BY <2>0, FieldsOf DEF Linked, Queues
      <3>2. ASSUME NEW h
            PROVE  h \in Range(shard.queue[queue])
                     <=> h \in Occupied(shard) /\ shard.slot[h].queue = queue
        <4>1. h \in Range(shard.queue[queue]) <=> h \in Hashes /\ Queued(shard, h, queue)
          BY <3>1 DEF Range, Queued
        <4> QED
          BY <3>1, <4>1 DEF InQueue, Occupied
      <3>3. IsInjective(shard.queue[queue])
        BY <3>1 DEF InQueue, IsInjective
      <3> QED
        BY <3>1, <3>2, <3>3 DEF InQueue
    <2> QED
      BY <2>0, <2>1, <2>2 DEF ShardAgrees, RingKept
  <1> QED
    BY <1>1, Invariance, PTL

(* "evicts ... until the shard is back within its budget" (store.rs         *)
(* make_room): the eviction loop always ends there, whatever the mix of     *)
(* costs, hits, promotions and ghosts.                                      *)
THEOREM BudgetHolds == Spec => []WithinBudget
  <1>1. StoreInv => WithinBudget
    BY DEF StoreInv, WithinBudget
  <1> QED
    BY <1>1, Invariance, PTL

(* Insertion never refuses a newcomer of the small queue's share: it is     *)
(* stored and survives the eviction its own insertion causes (store.rs      *)
(* insert, evict_one).                                                      *)
THEOREM NewcomersStay == Spec => []NewcomerStays
  <1>1. ASSUME StoreInv PROVE NewcomerStays
    <2> SUFFICES ASSUME NEW k \in Keys, NEW a \in Answers, NEW at \in Began,
                        shard.slot[HashOf[k]] = NoSlot, ~Remembered(shard, HashOf[k]),
                        a.cost <= SmallTarget, a.cost <= OversizeLimit, a.life > 0,
                        NEW index \in Indices(at)
                 PROVE  MakeRoom(Placed(k, a, at), at, index).slot[HashOf[k]] = NewSlot(k, a, at)
      BY DEF NewcomerStays
    <2> DEFINE h == HashOf[k]
               p == Placed(k, a, at)
               new == NewSlot(k, a, at)
    <2>1. at \in Nat /\ Sound(shard) /\ ~(a.cost > OversizeLimit) /\ a.life \in Nat
      <3>1. a.cost \in Nat /\ a.life \in Nat
        BY StoreAssumption, Zenon
      <3>2. ~(a.cost > OversizeLimit)
        BY <3>1, SizesTyped, NotAbove, Zenon
      <3>3. at \in Nat /\ Sound(shard)
        BY <1>1, BeganTyped, Zenon DEF StoreInv
      <3> QED
        BY <3>1, <3>2, <3>3, Zenon
    <2>2. PlacedIs(p, k, a, at) /\ index \in [Hashes -> Nat]
      BY <2>1, PlacedKeeps, IndicesTyped
    <2>3. Sound(p) /\ p.slot[h] = new /\ Newcomer(p, h)
      BY <2>1, <2>2, Zenon DEF PlacedIs
    <2>4. new.expires > at
      <3>1. new.expires = at + a.life
        BY Zenon DEF NewSlot
      <3> HIDE DEF new
      <3> QED
        BY <2>1, <3>1, SumAbove, Zenon
    <2> HIDE DEF p, new, h
    <2>5. Progress(p, MakeRoom(p, at, index), at)
      BY <2>1, <2>2, <2>3, MadeRoom
    <2> QED
      BY <2>3, <2>4, <2>5 DEF Progress, p, new, h
  <1> QED
    BY <1>1, Invariance, PTL

(* "An expired entry is therefore never promoted or reinserted" (store.rs   *)
(* make_room): it keeps its place and its chances, or leaves.               *)
THEOREM ExpiredStayPut == Spec => []ExpiredNeverPromoted
  <1>1. ASSUME StoreInv PROVE ExpiredNeverPromoted
    <2> SUFFICES ASSUME NEW k \in Keys, NEW a \in Answers, NEW at \in Began,
                        NEW h \in Occupied(shard) \ {HashOf[k]}, shard.slot[h].expires <= at,
                        NEW index \in Indices(at)
                 PROVE  MakeRoom(Placed(k, a, at), at, index).slot[h] \in {shard.slot[h], NoSlot}
      BY DEF ExpiredNeverPromoted
    <2> DEFINE p == Placed(k, a, at)
    <2>1. at \in Nat /\ Sound(shard) /\ h \in Hashes /\ shard.slot[h] # NoSlot
      BY <1>1, StoreAssumption DEF Began, StoreInv, Occupied
    <2>2. PlacedIs(p, k, a, at) /\ index \in [Hashes -> Nat]
      BY <2>1, PlacedKeeps, IndicesTyped
    <2> HIDE DEF p
    <2>3. Sound(p) /\ p.slot[h] = shard.slot[h] /\ h \in Occupied(p)
      BY <2>1, <2>2 DEF PlacedIs, Occupied
    <2>4. Progress(p, MakeRoom(p, at, index), at)
      BY <2>1, <2>2, <2>3, MadeRoom
    <2> QED
      BY <2>3, <2>4 DEF Progress, p
  <1> QED
    BY <1>1, Invariance, PTL

-----------------------------------------------------------------------------
(* The refinement of the lossy map.                                         *)
LEMMA StillFound ==
  ASSUME NEW j \in Keys, NEW out, Kept(shard, shard', out), HashOf[j] \notin out
  PROVE  Found(j)' \in {Found(j), NoSlot}
  <1> DEFINE g == HashOf[j]
  <1>1. g \in Hashes \ out
    BY StoreAssumption
  <1>2. \/ shard'.slot[g] = NoSlot
        \/ shard.slot[g] # NoSlot /\ SameEntry(shard.slot[g], shard'.slot[g])
    BY <1>1 DEF Kept
  <1> QED
    BY <1>2 DEF Found, SameEntry

LEMMA FoundAfterPut ==
  ASSUME NEW k \in Keys, Given(shard', k)
  PROVE  /\ Found(k)' \in [answers : {k}, failure : BOOLEAN, expires : Nat] \cup {NoSlot}
         /\ \A j \in Keys \ {k} : HashOf[j] = HashOf[k] => Found(j)' = NoSlot
  <1> DEFINE e == shard'.slot[HashOf[k]]
  <1>1. CASE e = NoSlot
    BY <1>1 DEF Found
  <1>2. CASE e # NoSlot
    <2>1. PICK a \in Answers, at \in Nat : SameEntry(NewSlot(k, a, at), e)
      BY <1>2 DEF Given
    <2>2. a.failure \in BOOLEAN /\ at + a.life \in Nat
      BY StoreAssumption
    <2>3. e.key = k /\ e.answers = k /\ e.failure \in BOOLEAN /\ e.expires \in Nat
      BY <2>1, <2>2 DEF SameEntry, NewSlot
    <2> QED
      BY <1>2, <2>3 DEF Found
  <1> QED
    BY <1>1, <1>2

(* "a 64-bit collision can never serve a mismatched answer: the newer key   *)
(* replaces the older one" (store.rs get, insert): the shard implements a   *)
(* map from keys to what was last stored for that very key, which may lose  *)
(* entries and nothing else, whatever the hash function.                    *)
THEOREM ImplementsLossyMap == Spec => IsLossyMap
  <1>1. Init => Lossy!Init
    BY NewShardFine, StoreAssumption DEF Init, Lossy!Init, Found
  <1>2. ASSUME StoreInv, [Next]_vars PROVE [Lossy!Next]_[k \in Keys |-> Found(k)]
    <2> DEFINE stored == [k \in Keys |-> Found(k)]
               ValuesOf == [k \in Keys |-> [answers : {k}, failure : BOOLEAN, expires : Nat]]
    <2>1. CASE Kept(shard, shard', {})
      <3>1. \A j \in Keys : stored'[j] \in {stored[j], NoSlot}
        BY <2>1, StillFound
      <3> QED
        BY <3>1 DEF Lossy!Next, Lossy!Lose, Lossy!KeepsOrLoses
    <2>2. ASSUME NEW k \in Keys, Kept(shard, shard', {HashOf[k]}), Given(shard', k)
          PROVE  Lossy!Put(k)
      <3>1. stored'[k] \in ValuesOf[k] \cup {NoSlot}
        BY <2>2, FoundAfterPut
      <3>2. ASSUME NEW j \in Keys \ {k} PROVE stored'[j] \in {stored[j], NoSlot}
        <4>1. CASE HashOf[j] = HashOf[k]
          BY <2>2, <4>1, FoundAfterPut
        <4>2. CASE HashOf[j] # HashOf[k]
          BY <2>2, <4>2, StillFound
        <4> QED
          BY <4>1, <4>2
      <3> QED
        BY <3>1, <3>2 DEF Lossy!Put, Lossy!KeepsOrLoses
    <2> QED
      BY <1>2, <2>1, <2>2, NextKeeps DEF Lossy!Next
  <1> QED
    BY <1>1, <1>2, Invariance, PTL DEF Spec, IsLossyMap, Lossy!Spec

=============================================================================
