---------------------------- MODULE StreamProofs ----------------------------
(* What the pipelined engine keeps, for any number of callers, connections, *)
(* ids and slots: the inductive invariant, the proof that every step of     *)
(* Stream preserves it, and what a step does to the account of the answers  *)
(* that a server owes.                                                      *)
EXTENDS Stream, CommonFacts

Slot == {Free, Orphan} \cup {Pending(q) : q \in Callers}
Pcs == {"idle", "acquire", "submit", "full", "wait", "ok", "drop", "release"}

StreamTypeOK ==
    /\ pooled \in [Conns -> {"new", "in", "out"}]
    /\ closed \in [Conns -> BOOLEAN] /\ dead \in [Conns -> BOOLEAN]
    /\ answered \in [Conns -> BOOLEAN]
    /\ slots \in [Conns -> [Ids -> Slot]] /\ tombs \in [Conns -> Seq(Ids)]
    /\ nextId \in [Conns -> Ids] /\ slack \in [Conns -> Nat]
    /\ frames \in [Conns -> Seq(Frame)]
    /\ served \in [Conns -> [Frame -> Nat]]
    /\ hand \in [Conns -> Taken \cup {None}]
    /\ failing \in [Conns -> Doomed \cup {None}]
    /\ pc \in [Callers -> Pcs] /\ fresh \in [Callers -> BOOLEAN]
    /\ lease \in [Callers -> Conns \cup {None}] /\ wid \in [Callers -> Ids \cup {None}]
    /\ inbox \in [Callers -> Message \cup {None}]
    /\ tries \in [Callers -> Nat] /\ calls \in Nat

(* Where a caller stands says whether it has a lease, an id and a message.  *)
CallerState(q) ==
    /\ lease[q] = None <=> pc[q] \in {"idle", "acquire"}
    /\ lease[q] # None => pooled[lease[q]] # "new"
    /\ pc[q] \in {"wait", "drop"} => wid[q] # None
    /\ inbox[q] # None => pc[q] \in {"wait", "ok"}
    /\ pc[q] = "ok" => inbox[q] # None /\ inbox[q].asks = q

(* An attempt queues one frame, and only a fresh one is the second.         *)
Unsent == {"idle", "acquire", "submit", "full"}
Budget(q) == (IF fresh[q] THEN 1 ELSE 0) + (IF pc[q] \in Unsent THEN 0 ELSE 1)
RetryState(q) == tries[q] <= Budget(q) /\ (fresh[q] => q \notin Updates)

LeasesBounded == \A c \in Conns : Leases(c) <= MaxInFlight

(* PendingTable: the queue of tombstones lists every orphaned id once, and  *)
(* the slots in use are within the capacity.                                *)
Table(s, t) ==
    /\ \A i, j \in DOMAIN t : t[i] = t[j] => i = j
    /\ \A i \in Ids : s[i] = Orphan <=> \E j \in DOMAIN t : t[j] = i
    /\ Cardinality(InUse(s)) <= MaxInFlight

(* The table of a closed connection is empty, and only a closed connection  *)
(* has waiters to be failed.                                                *)
ClosedEmpty(c) ==
    /\ failing[c] # None => closed[c]
    /\ closed[c] => slots[c] = [i \in Ids |-> Free] /\ tombs[c] = <<>>

(* The places a waiter can be in.                                           *)
InSlot(q, c, i) == slots[c][i].caller = q
InHand(q, c) == hand[c] # None /\ hand[c].to = q
InFail(q, c) == failing[c] # None /\ q \in failing[c].to
Has(q) == \E c \in Conns : InHand(q, c) \/ InFail(q, c) \/ \E i \in Ids : InSlot(q, c, i)

(* A waiter is in one place only; its caller has no message yet and is at   *)
(* the attempt that made it, or has left; and who waits for a message has a *)
(* waiter.                                                                  *)
Waiter(q) ==
    /\ \A c \in Conns, i \in Ids : InSlot(q, c, i) =>
        pc[q] \in {"wait", "drop"} /\ lease[q] = c /\ wid[q] = i /\ inbox[q] = None
    /\ \A c \in Conns : InHand(q, c) \/ InFail(q, c) =>
        /\ inbox[q] = None
        /\ pc[q] = "idle" \/ (pc[q] \in {"wait", "drop", "release"} /\ lease[q] = c)
    /\ \A c \in Conns : InHand(q, c) => ~InFail(q, c) /\ \A i \in Ids : ~InSlot(q, c, i)
    /\ pc[q] = "wait" /\ inbox[q] = None => Has(q)

StreamInv ==
    /\ StreamTypeOK
    /\ \A q \in Callers : CallerState(q) /\ RetryState(q) /\ Waiter(q)
    /\ LeasesBounded
    /\ \A c \in Conns : Table(slots[c], tombs[c]) /\ ClosedEmpty(c)

-----------------------------------------------------------------------------
(* PendingTable.                                                            *)
LEMMA SlotCases ==
  ASSUME NEW x \in Slot
  PROVE  \/ x = Free /\ x # Orphan /\ x.caller = None /\ ~x.tomb
         \/ x = Orphan /\ x # Free /\ x.caller = None /\ x.tomb
         \/ /\ x.caller \in Callers /\ x = Pending(x.caller) /\ x.caller # None
            /\ x # Free /\ x # Orphan /\ ~x.tomb
  BY StreamAssumption DEF Slot, Free, Orphan, Pending

LEMMA SlotKinds ==
  /\ Free \in Slot /\ Free.caller = None /\ Free # Orphan /\ Orphan \in Slot /\ Orphan.caller = None
  /\ \A q \in Callers : Pending(q) \in Slot /\ Pending(q).caller = q /\ Pending(q) # Orphan
                        /\ Pending(q) # Free /\ q # None
  BY StreamAssumption, Zenon DEF Slot, Free, Orphan, Pending

LEMMA IdsFinite == IsFiniteSet(Ids) /\ Cardinality(Ids) = IdCount
  <1>1. IdCount \in Nat \ {0}
    BY StreamAssumption
  <1>2. IsFiniteSet(0 .. IdCount - 1) /\ Cardinality(0 .. IdCount - 1) = IdCount
    BY <1>1, FS_Interval
  <1> QED
    BY <1>2 DEF Ids

(* The ids in use are finitely many.                                        *)
LEMMA InUseFinite ==
  ASSUME NEW s
  PROVE  IsFiniteSet(InUse(s)) /\ Cardinality(InUse(s)) \in Nat
  BY IdsFinite, FS_Subset, FS_CardinalityType DEF InUse

(* sweep and evict_oldest_tombstone: dropping the oldest tombstones frees   *)
(* their slots and touches no pending one.                                  *)
LEMMA Dropped ==
  ASSUME NEW s \in [Ids -> Slot], NEW t \in Seq(Ids), Table(s, t), NEW k \in 0 .. Len(t)
  PROVE  LET w == Without(s, t, k)
             d == Drop(t, k)
         IN  /\ w \in [Ids -> Slot] /\ d \in Seq(Ids) /\ Table(w, d)
             /\ \A i \in Ids : w[i] = s[i] \/ (s[i] = Orphan /\ w[i] = Free)
             /\ k > 0 => Cardinality(InUse(w)) < Cardinality(InUse(s))
  <1> DEFINE w == Without(s, t, k)
             d == Drop(t, k)
             old == {i \in Ids : \E j \in 1 .. k : t[j] = i}
  <1>1. w \in [Ids -> Slot] /\ \A i \in Ids : w[i] = IF i \in old THEN Free ELSE s[i]
    BY SlotKinds DEF Without
  <1>2. Len(t) \in Nat /\ DOMAIN t = 1 .. Len(t) /\ k \in Nat /\ k <= Len(t)
    OBVIOUS
  <1>3. d \in Seq(Ids) /\ DOMAIN d = 1 .. Len(t) - k /\ \A j \in 1 .. Len(t) - k : d[j] = t[k + j]
    BY <1>2 DEF Drop
  <1>4. \A i \in old : s[i] = Orphan
    BY <1>2 DEF Table
  <1> HIDE DEF w, d
  <1>5. \A i \in Ids : w[i] = s[i] \/ (s[i] = Orphan /\ w[i] = Free)
    BY <1>1, <1>4
  <1>6. \A i, j \in DOMAIN d : d[i] = d[j] => i = j
    <2> SUFFICES ASSUME NEW i \in DOMAIN d, NEW j \in DOMAIN d, d[i] = d[j] PROVE i = j
      OBVIOUS
    <2>1. k + i \in DOMAIN t /\ k + j \in DOMAIN t /\ t[k + i] = t[k + j]
      BY <1>2, <1>3
    <2>2. k + i = k + j
      BY <2>1 DEF Table
    <2> QED
      BY <1>2, <1>3, <2>2
  <1>7. ASSUME NEW i \in Ids PROVE w[i] = Orphan <=> \E j \in DOMAIN d : d[j] = i
    <2>1. ASSUME w[i] = Orphan PROVE \E j \in DOMAIN d : d[j] = i
      <3>1. i \notin old /\ s[i] = Orphan
        BY <1>1, <2>1, SlotKinds
      <3>2. PICK n \in DOMAIN t : t[n] = i
        BY <3>1 DEF Table
      <3>3. n \notin 1 .. k
        BY <3>1, <3>2
      <3>4. n - k \in DOMAIN d /\ d[n - k] = t[n]
        BY <1>2, <1>3, <3>3
      <3> QED
        BY <3>2, <3>4
    <2>2. ASSUME NEW j \in DOMAIN d, d[j] = i PROVE w[i] = Orphan
      <3>1. k + j \in DOMAIN t /\ t[k + j] = i
        BY <1>2, <1>3, <2>2
      <3>2. s[i] = Orphan
        BY <3>1 DEF Table
      <3>3. \A n \in 1 .. k : n \in DOMAIN t /\ n # k + j
        BY <1>2, <1>3
      <3>4. i \notin old
        BY <3>1, <3>3 DEF Table
      <3> QED
        BY <1>1, <3>2, <3>4
    <2> QED
      BY <2>1, <2>2
  <1>8. InUse(w) \subseteq InUse(s)
    BY <1>5 DEF InUse
  <1>9. Cardinality(InUse(w)) <= Cardinality(InUse(s))
    BY <1>8, InUseFinite, FS_Subset
  <1>10. Cardinality(InUse(w)) <= MaxInFlight
    BY <1>9, InUseFinite, StreamAssumption DEF Table
  <1>11. ASSUME k > 0 PROVE Cardinality(InUse(w)) < Cardinality(InUse(s))
    <2>1. 1 \in 1 .. k /\ t[1] \in Ids /\ 1 \in DOMAIN t
      BY <1>2, <1>11
    <2>2. t[1] \in InUse(s) /\ t[1] \notin InUse(w)
      BY <1>1, <1>4, <2>1, SlotKinds DEF InUse
    <2>3. InUse(w) \subseteq InUse(s) /\ InUse(w) # InUse(s)
      BY <1>8, <2>2
    <2> QED
      BY <2>3, InUseFinite, FS_Subset
  <1>12. Table(w, d)
    BY <1>6, <1>7, <1>10 DEF Table
  <1> QED
    BY <1>1, <1>3, <1>5, <1>11, <1>12 DEF w, d

(* register's scan ends: while the table is not full there is a free id at  *)
(* or after the counter, wrapping.                                          *)
LEMMA FreeFound ==
  ASSUME NEW s \in [Ids -> Slot], NEW n \in Ids, Cardinality(InUse(s)) < MaxInFlight
  PROVE  FirstFree(s, n) \in Ids /\ s[FirstFree(s, n)] = Free
  <1> DEFINE At(k) == (n + k) % IdCount
             K == {k \in 0 .. IdCount - 1 : s[At(k)] = Free}
  <1>0. IdCount \in Nat \ {0} /\ MaxInFlight \in Nat /\ MaxInFlight <= IdCount /\ Ids = 0 .. IdCount - 1
    BY StreamAssumption DEF Ids
  <1>1. PICK i \in Ids : s[i] = Free
    <2>1. InUse(s) # Ids
      BY <1>0, IdsFinite, InUseFinite
    <2> QED
      BY <2>1 DEF InUse
  <1>2. PICK k \in 0 .. IdCount - 1 : At(k) = i
    BY <1>0, Cyclic, Zenon
  <1>3. K \in SUBSET Nat /\ K # {}
    BY <1>1, <1>2
  <1>4. PICK m \in K : \A j \in K : m <= j
    BY <1>3, Least, Zenon
  <1>5. m \in 0 .. IdCount - 1 /\ s[At(m)] = Free /\ \A j \in 0 .. m - 1 : s[At(j)] # Free
    <2>1. \A j \in 0 .. m - 1 : j \in 0 .. IdCount - 1 /\ ~(m <= j)
      BY <1>0
    <2>2. \A j \in 0 .. m - 1 : j \notin K
      BY <1>4, <2>1
    <2> QED
      BY <2>1, <2>2
  <1> DEFINE first == CHOOSE k1 \in 0 .. IdCount - 1 :
                        s[At(k1)] = Free /\ \A j \in 0 .. k1 - 1 : s[At(j)] # Free
  <1>6. first \in 0 .. IdCount - 1 /\ s[At(first)] = Free
    BY <1>5
  <1>7. FirstFree(s, n) = At(first)
    BY DEF FirstFree
  <1>8. At(first) \in Ids
    <2> HIDE DEF first
    <2> QED
      BY <1>0, <1>6
  <1> QED
    BY <1>6, <1>7, <1>8

(* Only tombstones were dropped.                                            *)
Kept(s, w) == \A i \in Ids : w[i] = s[i] \/ (s[i] = Orphan /\ w[i] = Free)

(* A new query takes a free slot of a table that is not full.               *)
LEMMA SlotPlaced ==
  ASSUME NEW s \in [Ids -> Slot], NEW t \in Seq(Ids), Table(s, t),
         Cardinality(InUse(s)) < MaxInFlight,
         NEW id \in Ids, s[id] = Free, NEW q \in Callers
  PROVE  LET w == [s EXCEPT ![id] = Pending(q)] IN w \in [Ids -> Slot] /\ Table(w, t)
  <1> DEFINE w == [s EXCEPT ![id] = Pending(q)]
  <1>1. w \in [Ids -> Slot] /\ \A i \in Ids : w[i] = IF i = id THEN Pending(q) ELSE s[i]
    BY SlotKinds
  <1> HIDE DEF w
  <1>2. \A i \in Ids : w[i] = Orphan <=> s[i] = Orphan
    BY <1>1, SlotKinds
  <1>3. InUse(w) = InUse(s) \cup {id} /\ id \notin InUse(s)
    BY <1>1, SlotKinds DEF InUse
  <1>4. Cardinality(InUse(w)) = Cardinality(InUse(s)) + 1
    BY <1>3, InUseFinite, FS_AddElement, Zenon
  <1>5. Cardinality(InUse(w)) <= MaxInFlight
    BY <1>4, InUseFinite, StreamAssumption
  <1>6. Table(w, t)
    BY <1>2, <1>5 DEF Table
  <1> QED
    BY <1>1, <1>6 DEF w

(* register, after the sweep: it is refused when nothing can be evicted, or *)
(* finds a free id in a table that kept every pending slot.                 *)
LEMMA RegisterFinds ==
  ASSUME StreamTypeOK, NEW c \in Conns, NEW q \in Callers, Table(slots[c], tombs[c]),
         NEW k \in 0 .. Len(tombs[c])
  PROVE  LET r == Register(c, q, k) IN
         \/ /\ r.ok = FALSE /\ r.tombs \in Seq(Ids) /\ r.slots \in [Ids -> Slot]
            /\ Table(r.slots, r.tombs) /\ Kept(slots[c], r.slots)
         \/ /\ r.ok = TRUE /\ r.tombs \in Seq(Ids) /\ r.id \in Ids
            /\ \E room \in [Ids -> Slot] :
                /\ r.slots = [room EXCEPT ![r.id] = Pending(q)] /\ room[r.id] = Free
                /\ Table(room, r.tombs) /\ Kept(slots[c], room)
                /\ Cardinality(InUse(room)) < MaxInFlight
  <1> DEFINE s == Without(slots[c], tombs[c], k)
             t == Drop(tombs[c], k)
             full == Cardinality(InUse(s)) >= MaxInFlight
             e == IF full THEN 1 ELSE 0
             room == Without(s, t, e)
             left == Drop(t, e)
             id == FirstFree(room, nextId[c])
             no == [ok |-> FALSE, slots |-> s, tombs |-> t]
             yes == [ok |-> TRUE, id |-> id, slots |-> [room EXCEPT ![id] = Pending(q)], tombs |-> left]
  <1>r. Register(c, q, k) = IF full /\ t = <<>> THEN no ELSE yes
    BY DEF Register
  <1>0. slots[c] \in [Ids -> Slot] /\ tombs[c] \in Seq(Ids) /\ nextId[c] \in Ids /\ MaxInFlight \in Nat
    BY StreamAssumption DEF StreamTypeOK
  <1>1. s \in [Ids -> Slot] /\ t \in Seq(Ids) /\ Table(s, t) /\ Kept(slots[c], s)
    BY <1>0, Dropped DEF Kept
  <1> HIDE DEF s, t
  <1>2. CASE full /\ t = <<>>
    <2>1. Register(c, q, k) = no
      BY <1>r, <1>2
    <2> QED
      BY <1>1, <2>1
  <1>3. CASE ~(full /\ t = <<>>)
    <2>1. Register(c, q, k) = yes
      BY <1>r, <1>3
    <2>2. e \in 0 .. Len(t)
      BY <1>1, <1>3
    <2>3. /\ room \in [Ids -> Slot] /\ left \in Seq(Ids) /\ Table(room, left) /\ Kept(s, room)
          /\ e > 0 => Cardinality(InUse(room)) < Cardinality(InUse(s))
      <3> HIDE DEF e
      <3> QED
        BY <1>1, <2>2, Dropped DEF Kept
    <2>4. Cardinality(InUse(room)) < MaxInFlight
      <3> DEFINE u == Cardinality(InUse(room))
                 v == Cardinality(InUse(s))
      <3>1. u \in Nat /\ v \in Nat /\ v <= MaxInFlight
        BY <1>1, InUseFinite DEF Table
      <3>2. CASE full
        <4>1. u < v
          BY <2>3, <3>2
        <4> HIDE DEF u, v
        <4> QED
          BY <1>0, <3>1, <4>1 DEF u
      <3>3. CASE ~full
        <4>1. \A i \in Ids : s[i] = Free => room[i] = Free
          BY <2>3, SlotKinds DEF Kept
        <4>2. InUse(room) \subseteq InUse(s)
          BY <4>1, Zenon DEF InUse
        <4>3. u <= v
          BY <4>2, InUseFinite, FS_Subset
        <4> QED
          BY <1>0, <3>1, <3>3, <4>3
      <3> QED
        BY <3>2, <3>3
    <2>5. Kept(slots[c], room)
      BY <1>1, <2>3, SlotKinds DEF Kept
    <2> HIDE DEF room, left, e
    <2>6. id \in Ids /\ room[id] = Free
      BY <1>0, <2>3, <2>4, FreeFound
    <2> DEFINE r == Register(c, q, k)
    <2> HIDE DEF id
    <2>7. r.ok = TRUE /\ r.tombs = left /\ r.id = id /\ r.slots = [room EXCEPT ![id] = Pending(q)]
      BY <2>1
    <2> HIDE DEF r
    <2>8. \E w \in [Ids -> Slot] :
            /\ r.slots = [w EXCEPT ![r.id] = Pending(q)] /\ w[r.id] = Free
            /\ Table(w, r.tombs) /\ Kept(slots[c], w)
            /\ Cardinality(InUse(w)) < MaxInFlight
      BY <2>3, <2>4, <2>5, <2>6, <2>7, Zenon
    <2> QED
      BY <2>3, <2>6, <2>7, <2>8, Zenon DEF r
  <1> QED
    BY <1>2, <1>3, Zenon

-----------------------------------------------------------------------------
(* submit, in the three ways it can end.                                    *)
Refused(q) ==
    /\ Kept(slots[lease[q]], slots'[lease[q]])
    /\ ConnectionFailed(q, FALSE)
    /\ UNCHANGED <<nextId, frames>>

NoRoom(q) ==
    /\ Kept(slots[lease[q]], slots'[lease[q]])
    /\ pc' = [pc EXCEPT ![q] = "full"]
    /\ UNCHANGED <<frames, wid, tries, pooled, fresh, lease, inbox>>

Queued(q) ==
    \E id \in Ids, room \in [Ids -> Slot] :
        /\ Kept(slots[lease[q]], room) /\ room[id] = Free
        /\ slots'[lease[q]] = [room EXCEPT ![id] = Pending(q)]
        /\ frames' = [frames EXCEPT ![lease[q]] = Append(@, [id |-> id, q |-> q])]
        /\ wid' = [wid EXCEPT ![q] = id]
        /\ tries' = [tries EXCEPT ![q] = @ + 1]
        /\ pc' = [pc EXCEPT ![q] = "wait"]
        /\ UNCHANGED <<pooled, fresh, lease, inbox>>

LEMMA Submitted ==
  ASSUME StreamInv, NEW q \in Callers, Submit(q)
  PROVE  /\ lease[q] \in Conns /\ pc[q] = "submit" /\ ~closed[lease[q]]
         /\ slots' \in [Conns -> [Ids -> Slot]] /\ tombs' \in [Conns -> Seq(Ids)]
         /\ nextId' \in [Conns -> Ids]
         /\ \A c \in Conns : c # lease[q] => slots'[c] = slots[c] /\ tombs'[c] = tombs[c]
         /\ Table(slots'[lease[q]], tombs'[lease[q]])
         /\ Refused(q) \/ NoRoom(q) \/ Queued(q)
         /\ UNCHANGED <<closed, dead, answered, slack, served, hand, failing, calls>>
  <1> DEFINE c == lease[q]
             room == Len(frames[c]) < MaxInFlight
  <1>t. StreamTypeOK /\ CallerState(q)
    BY DEF StreamInv
  <1>1. /\ c \in Conns /\ pc[q] = "submit" /\ ~closed[c]
        /\ UNCHANGED <<closed, dead, answered, slack, served, hand, failing, calls>>
    BY <1>t DEF Submit, CallerState, StreamTypeOK
  <1> DEFINE r(k) == Register(c, q, k)
  <1>2. PICK k \in 0 .. Len(tombs[c]) :
        /\ tombs' = [tombs EXCEPT ![c] = r(k).tombs]
        /\ \/ /\ ~r(k).ok
              /\ slots' = [slots EXCEPT ![c] = r(k).slots]
              /\ ConnectionFailed(q, FALSE)
              /\ UNCHANGED <<nextId, frames>>
           \/ /\ r(k).ok
              /\ slots' = [slots EXCEPT ![c] =
                    IF room THEN r(k).slots ELSE [r(k).slots EXCEPT ![r(k).id] = Free]]
              /\ nextId' = [nextId EXCEPT ![c] = (r(k).id + 1) % IdCount]
              /\ IF room
                 THEN /\ frames' = [frames EXCEPT ![c] = Append(@, [id |-> r(k).id, q |-> q])]
                      /\ wid' = [wid EXCEPT ![q] = r(k).id]
                      /\ tries' = [tries EXCEPT ![q] = @ + 1]
                      /\ pc' = [pc EXCEPT ![q] = "wait"]
                 ELSE /\ pc' = [pc EXCEPT ![q] = "full"]
                      /\ UNCHANGED <<frames, wid, tries>>
              /\ UNCHANGED <<pooled, fresh, lease, inbox>>
    BY Zenon DEF Submit
  <1> DEFINE g == r(k)
  <1>3. \/ /\ g.ok = FALSE /\ g.tombs \in Seq(Ids) /\ g.slots \in [Ids -> Slot]
           /\ Table(g.slots, g.tombs) /\ Kept(slots[c], g.slots)
        \/ /\ g.ok = TRUE /\ g.tombs \in Seq(Ids) /\ g.id \in Ids
           /\ \E w \in [Ids -> Slot] :
                /\ g.slots = [w EXCEPT ![g.id] = Pending(q)] /\ w[g.id] = Free
                /\ Table(w, g.tombs) /\ Kept(slots[c], w)
                /\ Cardinality(InUse(w)) < MaxInFlight
    BY <1>1, <1>t, RegisterFinds, Zenon DEF StreamInv
  <1>a. slots \in [Conns -> [Ids -> Slot]] /\ tombs \in [Conns -> Seq(Ids)] /\ nextId \in [Conns -> Ids]
    BY <1>t DEF StreamTypeOK
  <1> HIDE DEF r
  <1>5. CASE g.ok = FALSE
    <2>1. slots' = [slots EXCEPT ![c] = g.slots] /\ tombs' = [tombs EXCEPT ![c] = g.tombs]
      BY <1>2, <1>5, Zenon
    <2>2. g.slots \in [Ids -> Slot] /\ g.tombs \in Seq(Ids) /\ Table(g.slots, g.tombs) /\ Kept(slots[c], g.slots)
      BY <1>3, <1>5
    <2>3. nextId' = nextId /\ Refused(q) /\ slots'[c] = g.slots /\ tombs'[c] = g.tombs
      BY <1>1, <1>2, <1>5, <1>a, <2>1, <2>2, Zenon DEF Refused
    <2> HIDE DEF g
    <2> QED
      BY <1>1, <1>a, <2>1, <2>2, <2>3
  <1>6. CASE g.ok = TRUE
    <2>1. g.tombs \in Seq(Ids) /\ g.id \in Ids
      BY <1>3, <1>6
    <2>2. PICK w \in [Ids -> Slot] :
                /\ g.slots = [w EXCEPT ![g.id] = Pending(q)] /\ w[g.id] = Free
                /\ Table(w, g.tombs) /\ Kept(slots[c], w)
                /\ Cardinality(InUse(w)) < MaxInFlight
      BY <1>3, <1>6
    <2>3. tombs' = [tombs EXCEPT ![c] = g.tombs] /\ nextId' = [nextId EXCEPT ![c] = (g.id + 1) % IdCount]
      BY <1>2, <1>6, Zenon
    <2>4. (g.id + 1) % IdCount \in Ids
      BY <2>1, StreamAssumption DEF Ids
    <2>n. nextId' \in [Conns -> Ids] /\ tombs' \in [Conns -> Seq(Ids)] /\ tombs'[c] = g.tombs
      <3> HIDE DEF g
      <3> QED
        BY <1>1, <1>a, <2>1, <2>3, <2>4
    <2>5. CASE room
      <3>1. /\ slots' = [slots EXCEPT ![c] = g.slots]
            /\ frames' = [frames EXCEPT ![c] = Append(@, [id |-> g.id, q |-> q])]
            /\ wid' = [wid EXCEPT ![q] = g.id]
            /\ tries' = [tries EXCEPT ![q] = @ + 1]
            /\ pc' = [pc EXCEPT ![q] = "wait"]
            /\ UNCHANGED <<pooled, fresh, lease, inbox>>
        BY <1>2, <1>6, <2>5, Zenon
      <3>2. g.slots \in [Ids -> Slot] /\ Table(g.slots, g.tombs)
        <4> DEFINE id == g.id
                   left == g.tombs
                   after == g.slots
        <4>1. id \in Ids /\ left \in Seq(Ids) /\ w[id] = Free /\ after = [w EXCEPT ![id] = Pending(q)]
          BY <2>1, <2>2
        <4>2. Table(w, left) /\ Cardinality(InUse(w)) < MaxInFlight
          BY <2>2
        <4> HIDE DEF id, left, after
        <4>3. after \in [Ids -> Slot] /\ Table(after, left)
          BY <4>1, <4>2, SlotPlaced, Zenon
        <4> QED
          BY <4>3 DEF after, left
      <3> HIDE DEF g
      <3>3. slots' \in [Conns -> [Ids -> Slot]] /\ slots'[c] = g.slots
        BY <1>1, <1>a, <3>1, <3>2
      <3>4. Queued(q)
        BY <2>1, <2>2, <3>1, <3>3, Zenon DEF Queued
      <3> QED
        BY <1>1, <1>a, <2>n, <2>3, <3>1, <3>2, <3>3, <3>4
    <2>6. CASE ~room
      <3>1. /\ slots' = [slots EXCEPT ![c] = [g.slots EXCEPT ![g.id] = Free]]
            /\ pc' = [pc EXCEPT ![q] = "full"]
            /\ UNCHANGED <<frames, wid, tries, pooled, fresh, lease, inbox>>
        BY <1>2, <1>6, <2>6, Zenon
      <3> HIDE DEF g
      <3>2. [g.slots EXCEPT ![g.id] = Free] = w
        BY <2>1, <2>2, Zenon
      <3>3. slots' = [slots EXCEPT ![c] = w]
        BY <3>1, <3>2, Zenon
      <3>4. slots' \in [Conns -> [Ids -> Slot]] /\ slots'[c] = w
        BY <1>1, <1>a, <3>3
      <3>5. NoRoom(q)
        BY <2>2, <3>1, <3>4, Zenon DEF NoRoom
      <3> QED
        BY <1>1, <1>a, <2>2, <2>n, <2>3, <3>3, <3>4, <3>5
    <2> QED
      BY <2>5, <2>6
  <1> QED
    BY <1>3, <1>5, <1>6, Zenon

(* fail, under the lock: the pending callers move from the table to the     *)
(* list of those to be failed.                                              *)
Emptied(c) ==
    /\ closed' = [closed EXCEPT ![c] = TRUE]
    /\ slots' = [slots EXCEPT ![c] = [i \in Ids |-> Free]]
    /\ tombs' = [tombs EXCEPT ![c] = <<>>]
    /\ failing'[c] \in Doomed
    /\ failing'[c].to = {slots[c][i].caller : i \in PendingIds(c)}
    /\ \A d \in Conns \ {c} : failing'[d] = failing[d]

LEMMA AskedTyped ==
  ASSUME NEW c \in Conns, served \in [Conns -> [Frame -> Nat]], frames[c] \in Seq(Frame)
  PROVE  Asked(c) \in [Frame -> Nat]
  <1> SUFFICES ASSUME NEW f \in Frame
               PROVE  served[c][f] + Cardinality({i \in DOMAIN frames[c] : frames[c][i] = f}) \in Nat
    BY DEF Asked
  <1>1. DOMAIN frames[c] = 1 .. Len(frames[c]) /\ Len(frames[c]) \in Nat
    OBVIOUS
  <1>2. IsFiniteSet(DOMAIN frames[c])
    BY <1>1, FS_Interval
  <1>3. IsFiniteSet({i \in DOMAIN frames[c] : frames[c][i] = f})
    BY <1>2, FS_Subset
  <1>4. Cardinality({i \in DOMAIN frames[c] : frames[c][i] = f}) \in Nat
    BY <1>3, FS_CardinalityType
  <1>5. served[c][f] \in Nat
    OBVIOUS
  <1> QED
    BY <1>4, <1>5

LEMMA FailEmpties ==
  ASSUME StreamTypeOK, NEW c \in Conns, NEW level \in BOOLEAN, Fail(c, level)
  PROVE  /\ closed' \in [Conns -> BOOLEAN] /\ slots' \in [Conns -> [Ids -> Slot]]
         /\ tombs' \in [Conns -> Seq(Ids)] /\ nextId' \in [Conns -> Ids]
         /\ slack' \in [Conns -> Nat] /\ frames' \in [Conns -> Seq(Frame)]
         /\ served' \in [Conns -> [Frame -> Nat]]
         /\ failing' \in [Conns -> Doomed \cup {None}]
         /\ \/ closed[c] /\ UNCHANGED <<closed, slots, tombs, failing>>
            \/ ~closed[c] /\ Emptied(c)
  <1>1. CASE closed[c]
    <2>1. UNCHANGED <<closed, tableVars, failing, frames, served>>
      BY <1>1 DEF Fail
    <2> QED
      BY <1>1, <2>1 DEF StreamTypeOK, tableVars
  <1>2. CASE ~closed[c]
    <2> DEFINE f == [to |-> {slots[c][i].caller : i \in PendingIds(c)}, level |-> level]
    <2>1. /\ closed' = [closed EXCEPT ![c] = TRUE]
          /\ failing' = [failing EXCEPT ![c] = f]
          /\ slots' = [slots EXCEPT ![c] = [i \in Ids |-> Free]]
          /\ tombs' = [tombs EXCEPT ![c] = <<>>]
          /\ nextId' = [nextId EXCEPT ![c] = Start]
          /\ slack' = [slack EXCEPT ![c] = Limit]
          /\ frames' = [frames EXCEPT ![c] = <<>>]
          /\ served' = [served EXCEPT ![c] = [g \in Frame |-> 0]]
      BY <1>2 DEF Fail
    <2>2. f \in Doomed
      <3>1. \A i \in PendingIds(c) : slots[c][i].caller \in Callers
        BY SlotCases DEF StreamTypeOK, PendingIds
      <3> QED
        BY <3>1 DEF Doomed
    <2>3. f.to = {slots[c][i].caller : i \in PendingIds(c)}
      OBVIOUS
    <2> HIDE DEF f
    <2>4. failing' \in [Conns -> Doomed \cup {None}] /\ failing'[c] = f /\ \A d \in Conns \ {c} : failing'[d] = failing[d]
      BY <2>1, <2>2 DEF StreamTypeOK
    <2>5. slots' \in [Conns -> [Ids -> Slot]] /\ closed' \in [Conns -> BOOLEAN]
      BY <2>1, SlotKinds DEF StreamTypeOK
    <2>6. /\ nextId' \in [Conns -> Ids] /\ slack' \in [Conns -> Nat]
          /\ tombs' \in [Conns -> Seq(Ids)] /\ frames' \in [Conns -> Seq(Frame)]
      BY <2>1, StreamAssumption DEF StreamTypeOK
    <2>7. served' \in [Conns -> [Frame -> Nat]]
      BY <2>1 DEF StreamTypeOK
    <2>8. Emptied(c)
      BY <2>1, <2>2, <2>3, <2>4 DEF Emptied
    <2> QED
      BY <1>2, <2>4, <2>5, <2>6, <2>7, <2>8
  <1> QED
    BY <1>1, <1>2

(* A message only reaches a caller that still listens.                      *)
LEMMA SentTo ==
  ASSUME StreamTypeOK, NEW msgs \in [Callers -> Message \cup {None}], inbox' = Sent(msgs)
  PROVE  /\ inbox' \in [Callers -> Message \cup {None}]
         /\ \A q \in Callers :
                inbox'[q] = IF pc[q] = "wait" /\ msgs[q] # None THEN msgs[q] ELSE inbox[q]
  BY DEF Sent, Listening, StreamTypeOK

LEMMA MessageKinds ==
  /\ \A q \in Callers : [ok |-> TRUE, asks |-> q] \in Message
  /\ \A level \in BOOLEAN : [ok |-> FALSE, level |-> level] \in Message
  /\ None \notin Message /\ None \notin Taken /\ None \notin Doomed
  <1>1. \A q \in Callers : [ok |-> TRUE, asks |-> q] \in Message
    BY DEF Message
  <1>2. \A level \in BOOLEAN : [ok |-> FALSE, level |-> level] \in Message
    BY DEF Message
  <1>3. None \notin Message /\ None \notin Taken /\ None \notin Doomed
    BY StreamAssumption
  <1> QED
    BY <1>1, <1>2, <1>3

(* The messages Notify and Deliver send.                                    *)
LEMMA Notices ==
  ASSUME StreamTypeOK, NEW c \in Conns, failing[c] # None
  PROVE  LET msgs == [q \in Callers |-> IF q \in failing[c].to
                                        THEN [ok |-> FALSE, level |-> failing[c].level] ELSE None]
         IN  /\ msgs \in [Callers -> Message \cup {None}]
             /\ \A q \in Callers : msgs[q] # None <=> InFail(q, c)
  <1> DEFINE m == [ok |-> FALSE, level |-> failing[c].level]
  <1>1. failing[c] \in Doomed
    BY DEF StreamTypeOK
  <1>2. m \in Message /\ m # None
    <2>1. failing[c].level \in BOOLEAN
      BY <1>1 DEF Doomed
    <2> QED
      BY <2>1, MessageKinds
  <1> HIDE DEF m
  <1> QED
    BY <1>2 DEF InFail, m

LEMMA Answers ==
  ASSUME StreamTypeOK, NEW c \in Conns, hand[c] # None
  PROVE  LET yes == [q \in Callers |-> IF q = hand[c].to
                                       THEN [ok |-> TRUE, asks |-> hand[c].asks] ELSE None]
             no == [q \in Callers |-> IF q = hand[c].to THEN [ok |-> FALSE, level |-> FALSE] ELSE None]
         IN  /\ hand[c].asks # None =>
                    /\ yes \in [Callers -> Message \cup {None}]
                    /\ \A q \in Callers : yes[q] # None <=> InHand(q, c)
             /\ no \in [Callers -> Message \cup {None}]
             /\ \A q \in Callers : no[q] # None <=> InHand(q, c)
  <1>1. hand[c] \in Taken
    BY DEF StreamTypeOK
  <1> DEFINE y == [ok |-> TRUE, asks |-> hand[c].asks]
             n == [ok |-> FALSE, level |-> FALSE]
  <1>2. n \in Message /\ n # None
    BY MessageKinds, Zenon
  <1>3. hand[c].asks # None => y \in Message /\ y # None
    <2>1. hand[c].asks \in Callers \cup {None}
      BY <1>1 DEF Taken
    <2> QED
      BY <2>1, MessageKinds
  <1> HIDE DEF y, n
  <1> QED
    BY <1>2, <1>3 DEF InHand, y, n

-----------------------------------------------------------------------------
(* What a step leaves of a caller.                                          *)
SameCaller(p) ==
    /\ pc'[p] = pc[p] /\ fresh'[p] = fresh[p] /\ lease'[p] = lease[p]
    /\ wid'[p] = wid[p] /\ inbox'[p] = inbox[p] /\ tries'[p] = tries[p]

CallTypes ==
    /\ pc \in [Callers -> Pcs] /\ fresh \in [Callers -> BOOLEAN]
    /\ lease \in [Callers -> Conns \cup {None}] /\ wid \in [Callers -> Ids \cup {None}]
    /\ inbox \in [Callers -> Message \cup {None}]
    /\ tries \in [Callers -> Nat]

LEMMA Returned ==
  ASSUME StreamTypeOK, NEW q \in Callers, Return(q)
  PROVE  /\ CallTypes' /\ \A p \in Callers \ {q} : SameCaller(p)
         /\ pc'[q] = "idle" /\ lease'[q] = None /\ inbox'[q] = None /\ CallerState(q)'
         /\ RetryState(q)'
  <1>1. CallTypes'
    BY DEF StreamTypeOK, Return, CallTypes, Pcs
  <1>2. \A p \in Callers \ {q} : SameCaller(p)
    BY DEF StreamTypeOK, Return, SameCaller
  <1>3. /\ pc'[q] = "idle" /\ lease'[q] = None /\ inbox'[q] = None /\ tries'[q] = 0
        /\ fresh'[q] = FALSE
    BY DEF StreamTypeOK, Return
  <1> QED
    BY <1>1, <1>2, <1>3 DEF CallerState, RetryState, Budget, Unsent

LEMMA Ended ==
  ASSUME StreamTypeOK, NEW q \in Callers, RetryState(q), lease[q] \in Conns, NEW level,
         ConnectionFailed(q, level)
  PROVE  /\ CallTypes' /\ \A p \in Callers \ {q} : SameCaller(p)
         /\ pc'[q] \in {"idle", "acquire"} /\ lease'[q] = None /\ inbox'[q] = None
         /\ CallerState(q)' /\ RetryState(q)'
         /\ pooled' \in [Conns -> {"new", "in", "out"}]
         /\ \A c \in Conns : pooled[c] # "new" => pooled'[c] # "new"
  <1>p. /\ pooled' \in [Conns -> {"new", "in", "out"}]
        /\ \A c \in Conns : pooled[c] # "new" => pooled'[c] # "new"
    BY DEF StreamTypeOK, ConnectionFailed
  <1>1. CASE Return(q)
    BY <1>p, <1>1, Returned
  <1>2. CASE /\ MayRetry(q, level)
             /\ pc' = [pc EXCEPT ![q] = "acquire"]
             /\ fresh' = [fresh EXCEPT ![q] = TRUE]
             /\ lease' = [lease EXCEPT ![q] = None]
             /\ wid' = [wid EXCEPT ![q] = None]
             /\ inbox' = [inbox EXCEPT ![q] = None]
             /\ UNCHANGED tries
    <2>1. CallTypes'
      BY <1>2 DEF StreamTypeOK, CallTypes, Pcs
    <2>2. \A p \in Callers \ {q} : SameCaller(p)
      BY <1>2 DEF StreamTypeOK, SameCaller
    <2>3. /\ pc'[q] = "acquire" /\ lease'[q] = None /\ inbox'[q] = None /\ tries'[q] = tries[q]
          /\ fresh'[q] = TRUE /\ tries[q] \in Nat
      BY <1>2 DEF StreamTypeOK
    <2>4. fresh[q] = FALSE /\ q \notin Updates
      BY <1>2 DEF MayRetry, StreamTypeOK
    <2>5. tries[q] <= 1
      BY <2>3, <2>4 DEF RetryState, Budget
    <2> QED
      BY <1>p, <2>1, <2>2, <2>3, <2>4, <2>5 DEF CallerState, RetryState, Budget, Unsent
  <1> QED
    BY <1>1, <1>2 DEF ConnectionFailed

-----------------------------------------------------------------------------
(* take and orphan_if on a table.                                           *)
LEMMA Freed ==
  ASSUME NEW s \in [Ids -> Slot], NEW id \in Ids
  PROVE  LET w == [s EXCEPT ![id] = Free] IN
         w \in [Ids -> Slot] /\ Cardinality(InUse(w)) <= Cardinality(InUse(s))
  <1> DEFINE w == [s EXCEPT ![id] = Free]
  <1>1. w \in [Ids -> Slot] /\ \A i \in Ids : w[i] = IF i = id THEN Free ELSE s[i]
    BY SlotKinds
  <1> HIDE DEF w
  <1>2. InUse(w) \subseteq InUse(s)
    BY <1>1 DEF InUse
  <1> QED
    BY <1>1, <1>2, InUseFinite, FS_Subset, Zenon DEF w

LEMMA TakePending ==
  ASSUME NEW s \in [Ids -> Slot], NEW t \in Seq(Ids), Table(s, t), NEW id \in Ids, s[id] # Orphan
  PROVE  Table([s EXCEPT ![id] = Free], t)
  <1> DEFINE w == [s EXCEPT ![id] = Free]
  <1>1. \A i \in Ids : w[i] = Orphan <=> s[i] = Orphan
    BY SlotKinds
  <1>2. Cardinality(InUse(w)) <= Cardinality(InUse(s))
    BY Freed, Zenon
  <1> HIDE DEF w
  <1>3. Cardinality(InUse(w)) <= MaxInFlight
    BY <1>2, InUseFinite, StreamAssumption DEF Table
  <1>4. Table(w, t)
    BY <1>1, <1>3 DEF Table
  <1> QED
    BY <1>4 DEF w

LEMMA TakeOrphan ==
  ASSUME NEW s \in [Ids -> Slot], NEW t \in Seq(Ids), Table(s, t), NEW id \in Ids,
         NEW k \in DOMAIN t, t[k] = id
  PROVE  WithoutAt(t, k) \in Seq(Ids) /\ Table([s EXCEPT ![id] = Free], WithoutAt(t, k))
  <1> DEFINE w == [s EXCEPT ![id] = Free]
             u == WithoutAt(t, k)
  <1>1. /\ u \in Seq(Ids) /\ \A i, j \in DOMAIN u : u[i] = u[j] => i = j
        /\ \A y : (\E i \in DOMAIN u : u[i] = y) <=> y # t[k] /\ \E i \in DOMAIN t : t[i] = y
    <2>1. \A i, j \in DOMAIN t : t[i] = t[j] => i = j
      BY DEF Table
    <2> QED
      BY <2>1, TakenOut, Zenon DEF WithoutAt
  <1>2. \A i \in Ids : w[i] = Orphan <=> i # id /\ s[i] = Orphan
    BY SlotKinds
  <1>3. Cardinality(InUse(w)) <= Cardinality(InUse(s))
    BY Freed, Zenon
  <1> HIDE DEF w, u
  <1>4. Cardinality(InUse(w)) <= MaxInFlight
    BY <1>3, InUseFinite, StreamAssumption DEF Table
  <1>5. ASSUME NEW i \in Ids PROVE w[i] = Orphan <=> \E j \in DOMAIN u : u[j] = i
    <2>1. s[i] = Orphan <=> \E j \in DOMAIN t : t[j] = i
      BY DEF Table
    <2> QED
      BY <1>1, <1>2, <2>1, Zenon
  <1>6. Table(w, u)
    BY <1>1, <1>4, <1>5 DEF Table
  <1> QED
    BY <1>1, <1>6 DEF w, u

LEMMA OrphanIf ==
  ASSUME NEW s \in [Ids -> Slot], NEW t \in Seq(Ids), Table(s, t), NEW id \in Ids,
         NEW q \in Callers, s[id] = Pending(q)
  PROVE  LET w == [s EXCEPT ![id] = Orphan] IN
         w \in [Ids -> Slot] /\ Append(t, id) \in Seq(Ids) /\ Table(w, Append(t, id))
  <1> DEFINE w == [s EXCEPT ![id] = Orphan]
             u == Append(t, id)
  <1>0. s[id] # Orphan /\ s[id] # Free
    BY SlotKinds
  <1>1. w \in [Ids -> Slot] /\ \A i \in Ids : w[i] = IF i = id THEN Orphan ELSE s[i]
    BY SlotKinds
  <1>2. \A i, j \in DOMAIN t : t[i] = t[j] => i = j
    BY DEF Table
  <1>3. \A i \in DOMAIN t : t[i] # id
    BY <1>0 DEF Table
  <1>4. /\ u \in Seq(Ids) /\ \A i, j \in DOMAIN u : u[i] = u[j] => i = j
        /\ \A y : (\E i \in DOMAIN u : u[i] = y) <=> y = id \/ \E i \in DOMAIN t : t[i] = y
    <2>1. u \in Seq(Ids)
      OBVIOUS
    <2>2. /\ \A i, j \in DOMAIN u : u[i] = u[j] => i = j
          /\ \A y : (\E i \in DOMAIN u : u[i] = y) <=> y = id \/ \E i \in DOMAIN t : t[i] = y
      BY <1>2, <1>3, Appended, Zenon
    <2> QED
      BY <2>1, <2>2, Zenon
  <1> HIDE DEF w, u
  <1>5. InUse(w) = InUse(s)
    BY <1>0, <1>1, SlotKinds DEF InUse
  <1>6. ASSUME NEW i \in Ids PROVE w[i] = Orphan <=> \E j \in DOMAIN u : u[j] = i
    <2>1. s[i] = Orphan <=> \E j \in DOMAIN t : t[j] = i
      BY DEF Table
    <2> QED
      BY <1>1, <1>4, <2>1, Zenon
  <1>7. Table(w, u)
    BY <1>4, <1>5, <1>6 DEF Table
  <1> QED
    BY <1>1, <1>4, <1>7 DEF w, u

(* dispatch, under the lock: the waiter of the id, if there is one, passes  *)
(* into the reader's hand.                                                  *)
LEMMA Dispatched ==
  ASSUME StreamInv, NEW c \in Conns, NEW id \in Ids, NEW asks \in Callers \cup {None},
         hand[c] = None, Take(c, id, asks)
  PROVE  /\ slots' \in [Conns -> [Ids -> Slot]] /\ tombs' \in [Conns -> Seq(Ids)]
         /\ slack' \in [Conns -> Nat] /\ hand' \in [Conns -> Taken \cup {None}]
         /\ slots' = [slots EXCEPT ![c] = [slots[c] EXCEPT ![id] = Free]]
         /\ \A d \in Conns \ {c} : tombs'[d] = tombs[d] /\ hand'[d] = hand[d]
         /\ Table(slots'[c], tombs'[c])
         /\ \A p \in Callers : InHand(p, c)' <=> InSlot(p, c, id)
  <1> DEFINE s == slots[c]
             t == tombs[c]
             w == [s EXCEPT ![id] = Free]
             given == [to |-> s[id].caller, asks |-> asks]
             none == [to |-> None, asks |-> None]
  <1>t. /\ slots \in [Conns -> [Ids -> Slot]] /\ tombs \in [Conns -> Seq(Ids)]
        /\ slack \in [Conns -> Nat] /\ hand \in [Conns -> Taken \cup {None}]
    BY DEF StreamInv, StreamTypeOK
  <1>s. s \in [Ids -> Slot] /\ t \in Seq(Ids) /\ Table(s, t) /\ s[id] \in Slot /\ slack[c] \in Nat
    BY <1>t DEF StreamInv
  <1>1. slots' = [slots EXCEPT ![c] = w]
    BY <1>t DEF Take
  <1>2. w \in [Ids -> Slot]
    BY <1>s, Freed, Zenon
  <1>3. slots' \in [Conns -> [Ids -> Slot]] /\ slots'[c] = w
    <2> HIDE DEF w
    <2> QED
      BY <1>t, <1>1, <1>2
  <1>c. /\ given.to = s[id].caller /\ none.to = None /\ none \in Taken
        /\ s[id].caller \in Callers => given \in Taken
    BY DEF Taken
  <1>m. None \notin Taken /\ None \notin Callers /\ Limit \in Nat
    BY StreamAssumption
  <1> HIDE DEF w, given, none
  <1>4. CASE /\ s[id].caller # None
             /\ slack' = [slack EXCEPT ![c] = IF @ < Limit THEN Limit ELSE @]
             /\ hand' = [hand EXCEPT ![c] = given]
             /\ UNCHANGED tombs
    <2>1. s[id].caller \in Callers /\ s[id] # Orphan
      BY <1>s, <1>4, SlotCases
    <2>2. Table(w, t)
      BY <1>s, <2>1, TakePending DEF w
    <2>3. hand' \in [Conns -> Taken \cup {None}] /\ hand'[c] = given /\ \A d \in Conns \ {c} : hand'[d] = hand[d]
      BY <1>t, <1>c, <1>4, <2>1
    <2>4. slack' \in [Conns -> Nat]
      BY <1>t, <1>s, <1>m, <1>4
    <2>5. \A p \in Callers : InHand(p, c)' <=> InSlot(p, c, id)
      BY <1>c, <1>m, <2>1, <2>3 DEF InHand, InSlot
    <2> QED
      BY <1>t, <1>1, <1>3, <1>4, <2>2, <2>3, <2>4, <2>5 DEF w
  <1>5. CASE /\ s[id].tomb
             /\ \E j \in DOMAIN t : t[j] = id /\ tombs' = [tombs EXCEPT ![c] = WithoutAt(@, j)]
             /\ UNCHANGED <<slack, hand>>
    <2>1. PICK k \in DOMAIN t : t[k] = id /\ tombs' = [tombs EXCEPT ![c] = WithoutAt(@, k)]
      BY <1>5, Zenon
    <2> DEFINE u == WithoutAt(t, k)
    <2>2. u \in Seq(Ids) /\ Table(w, u)
      BY <1>s, <2>1, TakeOrphan DEF w
    <2>3. tombs' = [tombs EXCEPT ![c] = u]
      BY <1>t, <2>1
    <2> HIDE DEF u
    <2>4. tombs' \in [Conns -> Seq(Ids)] /\ tombs'[c] = u /\ \A d \in Conns \ {c} : tombs'[d] = tombs[d]
      BY <1>t, <2>2, <2>3
    <2>5. s[id].caller = None
      BY <1>s, <1>5, SlotCases
    <2>6. \A p \in Callers : InHand(p, c)' <=> InSlot(p, c, id)
      BY <1>m, <1>5, <2>5 DEF InHand, InSlot
    <2> QED
      BY <1>t, <1>1, <1>3, <1>5, <2>2, <2>4, <2>6 DEF w
  <1>6. CASE /\ s[id] = Free
             /\ UNCHANGED tombs
             /\ \/ slack[c] > 0 /\ slack' = [slack EXCEPT ![c] = @ - 1] /\ UNCHANGED hand
                \/ slack[c] = 0 /\ hand' = [hand EXCEPT ![c] = none] /\ UNCHANGED slack
    <2>1. s[id] # Orphan /\ s[id].caller = None
      BY <1>6, SlotKinds
    <2>2. Table(w, t)
      BY <1>s, <2>1, TakePending DEF w
    <2>3. slack' \in [Conns -> Nat]
      <3>1. slack[c] > 0 => slack[c] - 1 \in Nat
        BY <1>s
      <3> QED
        BY <1>t, <1>6, <3>1, Zenon
    <2>4. /\ hand' \in [Conns -> Taken \cup {None}] /\ hand'[c] \in {None, none}
          /\ \A d \in Conns \ {c} : hand'[d] = hand[d]
      BY <1>t, <1>c, <1>6
    <2>5. \A p \in Callers : InHand(p, c)' <=> InSlot(p, c, id)
      BY <1>c, <1>m, <2>1, <2>4 DEF InHand, InSlot
    <2> QED
      BY <1>t, <1>1, <1>3, <1>6, <2>2, <2>3, <2>4, <2>5 DEF w
  <1> QED
    BY <1>4, <1>5, <1>6 DEF Take, given, none

-----------------------------------------------------------------------------
(* Type correctness.                                                        *)
ConnTypes ==
    /\ pooled \in [Conns -> {"new", "in", "out"}]
    /\ closed \in [Conns -> BOOLEAN] /\ dead \in [Conns -> BOOLEAN]
    /\ answered \in [Conns -> BOOLEAN]
    /\ slots \in [Conns -> [Ids -> Slot]] /\ tombs \in [Conns -> Seq(Ids)]
    /\ nextId \in [Conns -> Ids] /\ slack \in [Conns -> Nat]
    /\ frames \in [Conns -> Seq(Frame)]
    /\ served \in [Conns -> [Frame -> Nat]]
    /\ hand \in [Conns -> Taken \cup {None}]
    /\ failing \in [Conns -> Doomed \cup {None}]

LEMMA TypeParts == StreamTypeOK <=> ConnTypes /\ CallTypes /\ calls \in Nat
  BY DEF StreamTypeOK, ConnTypes, CallTypes

LEMMA CallerTypes ==
  ASSUME StreamInv, NEW q \in Callers, CallerStep(q)
  PROVE  ConnTypes' /\ CallTypes' /\ calls' \in Nat
  <1>t. StreamTypeOK /\ CallerState(q) /\ RetryState(q)
    BY DEF StreamInv
  <1>c. ConnTypes /\ CallTypes /\ calls \in Nat
    BY <1>t, TypeParts
  <1>u. ASSUME UNCHANGED connVars PROVE ConnTypes'
    BY <1>c, <1>u DEF ConnTypes, connVars, tableVars, taskVars
  <1>l. pc[q] \in {"submit", "full", "wait", "ok", "drop", "release"} => lease[q] \in Conns
    BY <1>t DEF CallerState, StreamTypeOK
  <1>1. CASE Call(q)
    BY <1>c, <1>u, <1>1 DEF Call, CallTypes, Pcs
  <1>2. CASE Acquire(q)
    <2>1. PICK c \in Conns : pooled' = [pooled EXCEPT ![c] = "in"] /\ lease' = [lease EXCEPT ![q] = c]
      BY <1>2, Zenon DEF Acquire, Offered, Usable, Unopened, Unused
    <2>2. CallTypes' /\ calls' \in Nat
      BY <1>c, <1>2, <2>1 DEF Acquire, CallTypes, Pcs
    <2>3. ConnTypes'
      BY <1>c, <1>2, <2>1, Zenon DEF Acquire, ConnTypes, tableVars, taskVars
    <2> QED
      BY <2>2, <2>3
  <1>3. CASE AcquireFails(q) \/ Release(q)
    BY <1>c, <1>t, <1>u, <1>3, Returned DEF AcquireFails, Release
  <1>4. CASE SubmitClosed(q)
    <2>1. lease[q] \in Conns /\ ConnectionFailed(q, TRUE)
      BY <1>l, <1>4, Zenon DEF SubmitClosed
    <2>2. CallTypes' /\ pooled' \in [Conns -> {"new", "in", "out"}]
      BY <1>t, <2>1, Ended, Zenon
    <2> QED
      BY <1>c, <1>4, <2>2 DEF SubmitClosed, ConnTypes, tableVars, taskVars
  <1>5. CASE Submit(q)
    <2>1. /\ lease[q] \in Conns /\ slots' \in [Conns -> [Ids -> Slot]] /\ tombs' \in [Conns -> Seq(Ids)]
          /\ nextId' \in [Conns -> Ids] /\ (Refused(q) \/ NoRoom(q) \/ Queued(q))
          /\ UNCHANGED <<closed, dead, answered, slack, served, hand, failing, calls>>
      BY <1>5, Submitted
    <2>2. CASE Refused(q)
      <3>1. CallTypes' /\ pooled' \in [Conns -> {"new", "in", "out"}]
        BY <1>t, <2>1, <2>2, Ended, Zenon DEF Refused
      <3> QED
        BY <1>c, <2>1, <2>2, <3>1 DEF Refused, ConnTypes
    <2>3. CASE NoRoom(q)
      BY <1>c, <2>1, <2>3 DEF NoRoom, ConnTypes, CallTypes, Pcs
    <2>4. CASE Queued(q)
      <3>1. PICK id \in Ids :
                /\ frames' = [frames EXCEPT ![lease[q]] = Append(@, [id |-> id, q |-> q])]
                /\ wid' = [wid EXCEPT ![q] = id]
                /\ tries' = [tries EXCEPT ![q] = @ + 1]
                /\ pc' = [pc EXCEPT ![q] = "wait"]
                /\ UNCHANGED <<pooled, fresh, lease, inbox>>
        BY <2>4, Zenon DEF Queued
      <3>2. CallTypes'
        BY <1>c, <3>1 DEF CallTypes, Pcs
      <3>3. [id |-> id, q |-> q] \in Frame
        BY DEF Frame
      <3>4. frames' \in [Conns -> Seq(Frame)]
        <4>0. frames[lease[q]] \in Seq(Frame)
          BY <1>c, <2>1 DEF ConnTypes
        <4>1. Append(frames[lease[q]], [id |-> id, q |-> q]) \in Seq(Frame)
          BY <3>3, <4>0
        <4> QED
          BY <1>c, <2>1, <3>1, <4>1, Zenon DEF ConnTypes
      <3> QED
        BY <1>c, <2>1, <3>1, <3>2, <3>4, Zenon DEF ConnTypes
    <2> QED
      BY <2>1, <2>2, <2>3, <2>4
  <1>6. CASE SubmitFull(q)
    <2>1. /\ lease[q] \in Conns /\ Fail(lease[q], TRUE) /\ ConnectionFailed(q, TRUE)
          /\ UNCHANGED <<dead, answered, hand, calls>>
      BY <1>l, <1>6, Zenon DEF SubmitFull
    <2>2. CallTypes' /\ pooled' \in [Conns -> {"new", "in", "out"}]
      BY <1>t, <2>1, Ended, Zenon
    <2>3. /\ closed' \in [Conns -> BOOLEAN] /\ slots' \in [Conns -> [Ids -> Slot]]
          /\ tombs' \in [Conns -> Seq(Ids)] /\ nextId' \in [Conns -> Ids]
          /\ slack' \in [Conns -> Nat] /\ frames' \in [Conns -> Seq(Frame)]
          /\ served' \in [Conns -> [Frame -> Nat]]
          /\ failing' \in [Conns -> Doomed \cup {None}]
      BY <1>t, <2>1, FailEmpties, Zenon
    <2> QED
      BY <1>c, <2>1, <2>2, <2>3 DEF ConnTypes
  <1>7. CASE Receive(q)
    <2>1. lease[q] \in Conns
      BY <1>l, <1>7, Zenon DEF Receive
    <2>2. \/ /\ pc' = [pc EXCEPT ![q] = "ok"]
             /\ UNCHANGED <<pooled, fresh, lease, wid, inbox, tries>>
          \/ Return(q) /\ UNCHANGED pooled
          \/ ConnectionFailed(q, inbox[q].level)
      BY <1>7 DEF Receive
    <2>3. CallTypes' /\ pooled' \in [Conns -> {"new", "in", "out"}]
      <3>1. CASE pc' = [pc EXCEPT ![q] = "ok"] /\ UNCHANGED <<pooled, fresh, lease, wid, inbox, tries>>
        BY <1>c, <3>1 DEF CallTypes, ConnTypes, Pcs
      <3>2. CASE Return(q) /\ UNCHANGED pooled
        BY <1>c, <1>t, <3>2, Returned DEF ConnTypes
      <3>3. CASE ConnectionFailed(q, inbox[q].level)
        BY <1>t, <2>1, <3>3, Ended
      <3> QED
        BY <2>2, <3>1, <3>2, <3>3
    <2> QED
      BY <1>c, <1>7, <2>3 DEF Receive, ConnTypes, tableVars, taskVars
  <1>8. CASE GiveUp(q)
    BY <1>c, <1>u, <1>8 DEF GiveUp, CallTypes, Pcs
  <1>9. CASE DropGuard(q)
    <2> DEFINE c == lease[q]
               id == wid[q]
    <2>1. c \in Conns /\ id \in Ids
      BY <1>l, <1>t, <1>9 DEF DropGuard, CallerState, StreamTypeOK
    <2>2. CallTypes' /\ calls' \in Nat
      BY <1>c, <1>9 DEF DropGuard, CallTypes, Pcs
    <2>3. slots[c] \in [Ids -> Slot] /\ tombs[c] \in Seq(Ids) /\ slack[c] \in Nat
      BY <1>c, <2>1, Zenon DEF ConnTypes
    <2>4. [slots[c] EXCEPT ![id] = Orphan] \in [Ids -> Slot] /\ Append(tombs[c], id) \in Seq(Ids)
      <3> HIDE DEF c, id
      <3>1. [slots[c] EXCEPT ![id] = Orphan] \in [Ids -> Slot]
        BY <2>1, <2>3, SlotKinds, Zenon
      <3>2. Append(tombs[c], id) \in Seq(Ids)
        BY <2>1, <2>3
      <3> QED
        BY <3>1, <3>2
    <2>5. slots' \in [Conns -> [Ids -> Slot]] /\ tombs' \in [Conns -> Seq(Ids)] /\ slack' \in [Conns -> Nat]
      <3>1. CASE Owns(q)
        <4>1. /\ slots' = [slots EXCEPT ![c] = [slots[c] EXCEPT ![id] = Orphan]]
              /\ tombs' = [tombs EXCEPT ![c] = Append(tombs[c], id)]
              /\ slack' = [slack EXCEPT ![c] = IF @ < SlackCap THEN @ + 1 ELSE @]
          BY <1>c, <1>9, <2>1, <3>1, Zenon DEF DropGuard, ConnTypes
        <4> HIDE DEF c, id
        <4>2. /\ slots \in [Conns -> [Ids -> Slot]] /\ tombs \in [Conns -> Seq(Ids)]
              /\ slack \in [Conns -> Nat]
          BY <1>c, Zenon DEF ConnTypes
        <4>3. slots' \in [Conns -> [Ids -> Slot]]
          BY <2>1, <2>4, <4>1, <4>2, Zenon
        <4>4. tombs' \in [Conns -> Seq(Ids)]
          BY <2>1, <2>4, <4>1, <4>2, Zenon
        <4>5. (IF slack[c] < SlackCap THEN slack[c] + 1 ELSE slack[c]) \in Nat
          BY <2>3
        <4>6. slack' \in [Conns -> Nat]
          BY <2>1, <4>1, <4>2, <4>5, Zenon
        <4> QED
          BY <4>3, <4>4, <4>6
      <3>2. CASE ~Owns(q)
        BY <1>c, <1>9, <3>2 DEF DropGuard, ConnTypes
      <3> QED
        BY <3>1, <3>2
    <2> QED
      BY <1>c, <1>9, <2>2, <2>5, Zenon DEF DropGuard, ConnTypes, taskVars
  <1> QED
    BY <1>1, <1>2, <1>3, <1>4, <1>5, <1>6, <1>7, <1>8, <1>9 DEF CallerStep

LEMMA ConnStepTypes ==
  ASSUME StreamInv, NEW c \in Conns, ConnStep(c)
  PROVE  ConnTypes' /\ CallTypes' /\ calls' \in Nat
  <1>t. StreamTypeOK
    BY DEF StreamInv
  <1>c. ConnTypes /\ CallTypes /\ calls \in Nat
    BY <1>t, TypeParts
  <1>u. ASSUME UNCHANGED callVars PROVE CallTypes' /\ calls' \in Nat
    BY <1>c, <1>u DEF CallTypes, callVars
  <1>f. ASSUME NEW level \in BOOLEAN, Fail(c, level)
        PROVE  /\ closed' \in [Conns -> BOOLEAN] /\ slots' \in [Conns -> [Ids -> Slot]]
               /\ tombs' \in [Conns -> Seq(Ids)] /\ nextId' \in [Conns -> Ids]
               /\ slack' \in [Conns -> Nat] /\ frames' \in [Conns -> Seq(Frame)]
               /\ served' \in [Conns -> [Frame -> Nat]]
               /\ failing' \in [Conns -> Doomed \cup {None}]
    BY <1>t, <1>f, FailEmpties
  <1>1. CASE Notify(c)
    <2> DEFINE msgs == [q \in Callers |-> IF q \in failing[c].to
                            THEN [ok |-> FALSE, level |-> failing[c].level] ELSE None]
    <2>1. failing[c] # None /\ inbox' = Sent(msgs)
      BY <1>1, Zenon DEF Notify
    <2>2. msgs \in [Callers -> Message \cup {None}]
      BY <1>t, <2>1, Notices
    <2> HIDE DEF msgs
    <2>3. inbox' \in [Callers -> Message \cup {None}]
      BY <1>t, <2>1, <2>2, SentTo
    <2>4. CallTypes' /\ calls' \in Nat
      BY <1>c, <1>1, <2>3 DEF Notify, CallTypes
    <2>5. ConnTypes'
      BY <1>c, <1>1 DEF Notify, ConnTypes, tableVars, taskVars
    <2> QED
      BY <2>4, <2>5
  <1>2. CASE Written(c)
    <2>1. Asked(c) \in [Frame -> Nat]
      <3>1. frames[c] \in Seq(Frame) /\ served \in [Conns -> [Frame -> Nat]]
        BY <1>c DEF ConnTypes
      <3> QED
        BY <3>1, AskedTyped
    <2>2. served' = [served EXCEPT ![c] = Asked(c)]
      BY <1>2 DEF Written
    <2>5. served' \in [Conns -> [Frame -> Nat]]
      BY <1>c, <2>1, <2>2 DEF ConnTypes
    <2>6. frames' \in [Conns -> Seq(Frame)]
      BY <1>c, <1>2 DEF Written, ConnTypes
    <2> QED
      BY <1>c, <1>u, <1>2, <2>5, <2>6 DEF Written, ConnTypes, tableVars
  <1>3. CASE WriteFails(c)
    BY <1>c, <1>u, <1>f, <1>3, Zenon DEF WriteFails, ConnTypes
  <1>4. CASE ReadFails(c)
    BY <1>c, <1>u, <1>f, <1>4, Zenon DEF ReadFails, ConnTypes
  <1>5. CASE Dispatch(c)
    <2>0. hand[c] = None /\ UNCHANGED <<pooled, closed, dead, answered, nextId, frames, failing, callVars>>
      BY <1>5, Zenon DEF Dispatch
    <2>1. PICK id \in Ids, asks \in Callers \cup {None} : Take(c, id, asks)
      <3>1. \A f \in Frame : f.id \in Ids /\ f.q \in Callers
        BY DEF Frame
      <3> QED
        BY <1>5, <3>1, Zenon DEF Dispatch
    <2>2. /\ slots' \in [Conns -> [Ids -> Slot]] /\ tombs' \in [Conns -> Seq(Ids)]
          /\ slack' \in [Conns -> Nat] /\ hand' \in [Conns -> Taken \cup {None}]
      BY <2>0, <2>1, Dispatched
    <2>3. served' \in [Conns -> [Frame -> Nat]]
      <3>1. CASE UNCHANGED served
        BY <1>c, <3>1 DEF ConnTypes
      <3>2. ASSUME NEW f \in Frame, served[c][f] > 0, served' = [served EXCEPT ![c][f] = @ - 1]
            PROVE  served' \in [Conns -> [Frame -> Nat]]
        BY <1>c, <3>2 DEF ConnTypes
      <3> QED
        BY <1>5, <3>1, <3>2, Zenon DEF Dispatch
    <2> QED
      BY <1>c, <1>u, <2>0, <2>2, <2>3 DEF ConnTypes
  <1>6. CASE Deliver(c)
    <2>0. hand[c] # None /\ UNCHANGED <<pooled, dead, pc, fresh, lease, wid, tries, calls>>
      BY <1>6 DEF Deliver
    <2>1. hand' \in [Conns -> Taken \cup {None}]
      BY <1>c, <1>6 DEF Deliver, ConnTypes
    <2>2. inbox' \in [Callers -> Message \cup {None}]
      <3> DEFINE yes == [q \in Callers |-> IF q = hand[c].to
                                       THEN [ok |-> TRUE, asks |-> hand[c].asks] ELSE None]
                 no == [q \in Callers |-> IF q = hand[c].to THEN [ok |-> FALSE, level |-> FALSE] ELSE None]
      <3>1. \/ hand[c].asks # None /\ inbox' = Sent(yes)
            \/ inbox' = Sent(no)
        BY <1>6, Zenon DEF Deliver
      <3>2. /\ hand[c].asks # None => yes \in [Callers -> Message \cup {None}]
            /\ no \in [Callers -> Message \cup {None}]
        BY <1>t, <2>0, Answers
      <3> HIDE DEF yes, no
      <3> QED
        BY <1>t, <3>1, <3>2, SentTo
    <2>3. CallTypes' /\ calls' \in Nat
      BY <1>c, <2>0, <2>2 DEF CallTypes
    <2>4. CASE UNCHANGED <<closed, tableVars, failing, frames, served>> /\ answered' = [answered EXCEPT ![c] = TRUE]
      BY <1>c, <2>0, <2>1, <2>3, <2>4 DEF ConnTypes, tableVars
    <2>5. CASE Fail(c, TRUE) /\ UNCHANGED answered
      BY <1>c, <1>f, <2>0, <2>1, <2>3, <2>5, Zenon DEF ConnTypes
    <2> QED
      BY <1>6, <2>4, <2>5, Zenon DEF Deliver
  <1>7. CASE Retire(c)
    BY <1>c, <1>u, <1>f, <1>7, Zenon DEF Retire, ConnTypes
  <1> QED
    BY <1>1, <1>2, <1>3, <1>4, <1>5, <1>6, <1>7 DEF ConnStep

LEMMA TypeStep ==
  ASSUME StreamInv, StreamNext
  PROVE  StreamTypeOK'
  <1>1. ConnTypes' /\ CallTypes' /\ calls' \in Nat
    BY CallerTypes, ConnStepTypes DEF StreamNext
  <1> QED
    BY <1>1 DEF StreamTypeOK, ConnTypes, CallTypes

-----------------------------------------------------------------------------
(* The tables.                                                              *)
LEMMA EmptyTable == Table([i \in Ids |-> Free], <<>>)
  <1> DEFINE s == [i \in Ids |-> Free]
  <1>1. InUse(s) = {}
    BY DEF InUse
  <1>2. Cardinality(InUse(s)) <= MaxInFlight
    BY <1>1, FS_EmptySet, StreamAssumption
  <1>3. \A i \in Ids : s[i] # Orphan
    BY SlotKinds
  <1> QED
    BY <1>2, <1>3 DEF Table

TableKept(d) == Table(slots'[d], tombs'[d]) /\ ClosedEmpty(d)'

LEMMA TableSame ==
  ASSUME StreamInv, NEW d \in Conns, slots'[d] = slots[d], tombs'[d] = tombs[d],
         closed'[d] = closed[d], failing'[d] = failing[d] \/ failing'[d] = None
  PROVE  TableKept(d)
  <1>1. Table(slots[d], tombs[d]) /\ ClosedEmpty(d)
    BY DEF StreamInv
  <1> QED
    BY <1>1 DEF TableKept, ClosedEmpty

LEMMA TableFailed ==
  ASSUME StreamInv, NEW c \in Conns, NEW level \in BOOLEAN, Fail(c, level), NEW d \in Conns
  PROVE  TableKept(d)
  <1>t. StreamTypeOK
    BY DEF StreamInv
  <1>1. CASE closed[c] /\ UNCHANGED <<closed, slots, tombs, failing>>
    BY <1>1, TableSame
  <1>2. CASE ~closed[c] /\ Emptied(c)
    <2>1. CASE d = c
      <3>1. closed'[c] = TRUE /\ slots'[c] = [i \in Ids |-> Free] /\ tombs'[c] = <<>>
        BY <1>t, <1>2 DEF Emptied, StreamTypeOK
      <3> QED
        BY <2>1, <3>1, EmptyTable DEF TableKept, ClosedEmpty
    <2>2. CASE d # c
      <3>1. slots'[d] = slots[d] /\ tombs'[d] = tombs[d] /\ closed'[d] = closed[d] /\ failing'[d] = failing[d]
        BY <1>t, <1>2, <2>2 DEF Emptied, StreamTypeOK
      <3> QED
        BY <3>1, TableSame
    <2> QED
      BY <2>1, <2>2
  <1> QED
    BY <1>t, <1>1, <1>2, FailEmpties

LEMMA TableStep ==
  ASSUME StreamInv, StreamNext, NEW d \in Conns
  PROVE  TableKept(d)
  <1>t. StreamTypeOK
    BY DEF StreamInv
  <1>i. Table(slots[d], tombs[d]) /\ ClosedEmpty(d)
    BY DEF StreamInv
  <1>s. ASSUME UNCHANGED <<slots, tombs, closed, failing>> PROVE TableKept(d)
    BY <1>s, TableSame
  <1>1. ASSUME NEW q \in Callers,
               \/ Call(q) \/ Acquire(q) \/ AcquireFails(q) \/ SubmitClosed(q)
               \/ Receive(q) \/ GiveUp(q) \/ Release(q)
        PROVE  TableKept(d)
    <2>1. UNCHANGED <<slots, tombs, closed, failing>>
      BY <1>1, Zenon DEF Call, Acquire, AcquireFails, SubmitClosed, Receive, GiveUp, Release, connVars, tableVars
    <2> QED
      BY <1>s, <2>1
  <1>2. ASSUME NEW q \in Callers, Submit(q)
        PROVE  TableKept(d)
    <2>1. /\ lease[q] \in Conns /\ ~closed[lease[q]]
          /\ \A c \in Conns : c # lease[q] => slots'[c] = slots[c] /\ tombs'[c] = tombs[c]
          /\ Table(slots'[lease[q]], tombs'[lease[q]])
          /\ UNCHANGED <<closed, failing>>
      BY <1>2, Submitted, Zenon
    <2>2. CASE d = lease[q]
      BY <1>i, <2>1, <2>2, Zenon DEF TableKept, ClosedEmpty
    <2>3. CASE d # lease[q]
      BY <2>1, <2>3, TableSame
    <2> QED
      BY <2>2, <2>3
  <1>3. ASSUME NEW q \in Callers, SubmitFull(q)
        PROVE  TableKept(d)
    <2>1. lease[q] \in Conns /\ Fail(lease[q], TRUE)
      BY <1>3, <1>t, Zenon DEF StreamInv, CallerState, StreamTypeOK, SubmitFull
    <2> QED
      BY <2>1, TableFailed, Zenon
  <1>4. ASSUME NEW q \in Callers, DropGuard(q)
        PROVE  TableKept(d)
    <2> DEFINE c == lease[q]
               id == wid[q]
    <2>1. c \in Conns /\ id \in Ids
      BY <1>4, <1>t, Zenon DEF StreamInv, CallerState, StreamTypeOK, DropGuard
    <2>2. CASE Owns(q)
      <3>1. slots[c] \in [Ids -> Slot] /\ tombs[c] \in Seq(Ids) /\ slots[c][id] = Pending(q)
        BY <1>t, <2>1, <2>2 DEF StreamTypeOK, Owns
      <3>2. /\ slots' = [slots EXCEPT ![c] = [slots[c] EXCEPT ![id] = Orphan]]
            /\ tombs' = [tombs EXCEPT ![c] = Append(tombs[c], id)]
            /\ UNCHANGED <<closed, failing>>
        BY <1>t, <1>4, <2>1, <2>2 DEF DropGuard, StreamTypeOK
      <3>3. CASE d = c
        <4>1. ~closed[c]
          BY <1>i, <2>1, <3>1, <3>3, SlotKinds, Zenon DEF ClosedEmpty
        <4>2. slots'[c] = [slots[c] EXCEPT ![id] = Orphan] /\ tombs'[c] = Append(tombs[c], id)
          BY <1>t, <2>1, <3>2 DEF StreamTypeOK
        <4>3. Table([slots[c] EXCEPT ![id] = Orphan], Append(tombs[c], id))
          BY <1>i, <2>1, <3>1, <3>3, OrphanIf
        <4> QED
          BY <1>i, <3>2, <3>3, <4>1, <4>2, <4>3 DEF TableKept, ClosedEmpty
      <3>4. CASE d # c
        <4>1. slots'[d] = slots[d] /\ tombs'[d] = tombs[d]
          BY <1>t, <3>2, <3>4 DEF StreamTypeOK
        <4> QED
          BY <3>2, <4>1, TableSame
      <3> QED
        BY <3>3, <3>4
    <2>3. CASE ~Owns(q)
      BY <1>s, <1>4, <2>3 DEF DropGuard
    <2> QED
      BY <2>2, <2>3
  <1>5. ASSUME NEW c \in Conns, Notify(c)
        PROVE  TableKept(d)
    <2>1. UNCHANGED <<slots, tombs, closed>> /\ (failing'[d] = failing[d] \/ failing'[d] = None)
      BY <1>5, <1>t, Zenon DEF Notify, StreamTypeOK, tableVars
    <2> QED
      BY <2>1, TableSame
  <1>6. ASSUME NEW c \in Conns, Written(c)
        PROVE  TableKept(d)
    BY <1>s, <1>6 DEF Written, tableVars
  <1>7. ASSUME NEW c \in Conns, WriteFails(c) \/ ReadFails(c) \/ Retire(c)
        PROVE  TableKept(d)
    <2>1. PICK level \in BOOLEAN : Fail(c, level)
      BY <1>7, Zenon DEF WriteFails, ReadFails, Retire
    <2> QED
      BY <2>1, TableFailed
  <1>8. ASSUME NEW c \in Conns, Dispatch(c)
        PROVE  TableKept(d)
    <2>0. hand[c] = None /\ ~closed[c] /\ UNCHANGED <<closed, failing>>
      BY <1>8 DEF Dispatch
    <2>1. PICK id \in Ids, asks \in Callers \cup {None} : Take(c, id, asks)
      <3>1. \A f \in Frame : f.id \in Ids /\ f.q \in Callers
        BY DEF Frame
      <3> QED
        BY <1>8, <3>1, Zenon DEF Dispatch
    <2>2. /\ slots' = [slots EXCEPT ![c] = [slots[c] EXCEPT ![id] = Free]]
          /\ \A e \in Conns \ {c} : tombs'[e] = tombs[e]
          /\ Table(slots'[c], tombs'[c])
      BY <2>0, <2>1, Dispatched
    <2>3. CASE d = c
      BY <1>i, <2>0, <2>2, <2>3 DEF TableKept, ClosedEmpty
    <2>4. CASE d # c
      <3>1. slots'[d] = slots[d] /\ tombs'[d] = tombs[d]
        BY <1>t, <2>2, <2>4 DEF StreamTypeOK
      <3> QED
        BY <2>0, <3>1, TableSame, Zenon
    <2> QED
      BY <2>3, <2>4
  <1>9. ASSUME NEW c \in Conns, Deliver(c)
        PROVE  TableKept(d)
    <2>1. CASE UNCHANGED <<closed, tableVars, failing, frames, served>>
      BY <1>s, <2>1 DEF tableVars
    <2>2. CASE Fail(c, TRUE)
      BY <2>2, TableFailed, Zenon
    <2> QED
      BY <1>9, <2>1, <2>2, Zenon DEF Deliver
  <1> QED
    BY <1>1, <1>2, <1>3, <1>4, <1>5, <1>6, <1>7, <1>8, <1>9 DEF StreamNext, CallerStep, ConnStep

-----------------------------------------------------------------------------
(* The callers.                                                             *)
CallerKept(p) == CallerState(p)' /\ RetryState(p)'

(* No connection becomes unopened again.                                    *)
StaysOpened == \A c \in Conns : pooled[c] # "new" => pooled'[c] # "new"

LEMMA CallerUntouched ==
  ASSUME StreamInv, NEW p \in Callers, StaysOpened,
         pc'[p] = pc[p], fresh'[p] = fresh[p], lease'[p] = lease[p], wid'[p] = wid[p],
         tries'[p] = tries[p], inbox'[p] = inbox[p] \/ pc[p] = "wait"
  PROVE  CallerKept(p)
  <1>1. CallerState(p) /\ RetryState(p) /\ lease[p] \in Conns \cup {None}
    BY Zenon DEF StreamInv, StreamTypeOK
  <1>2. CallerState(p)'
    BY <1>1, Zenon DEF CallerState, StaysOpened
  <1>3. RetryState(p)'
    BY <1>1, Zenon DEF RetryState, Budget
  <1> QED
    BY <1>2, <1>3 DEF CallerKept

LEMMA CallerStateStep ==
  ASSUME StreamInv, StreamNext, NEW p \in Callers
  PROVE  CallerKept(p)
  <1>t. StreamTypeOK
    BY DEF StreamInv
  <1>i. \A q \in Callers : CallerState(q) /\ RetryState(q)
    BY DEF StreamInv
  <1>l. \A q \in Callers : pc[q] \notin {"idle", "acquire"} => lease[q] \in Conns
    BY <1>t, <1>i DEF CallerState, StreamTypeOK
  <1>o. ASSUME NEW q \in Callers, p # q, StaysOpened, \A x \in Callers \ {q} : SameCaller(x)
        PROVE  CallerKept(p)
    BY <1>o, CallerUntouched, Zenon DEF SameCaller
  <1>s. pooled' = pooled => StaysOpened
    BY DEF StaysOpened
  <1>1. ASSUME NEW q \in Callers, Call(q)
        PROVE  CallerKept(p)
    <2>1. pc[q] = "idle" /\ pc' = [pc EXCEPT ![q] = "acquire"] /\ UNCHANGED <<pooled, fresh, lease, wid, inbox, tries>>
      BY <1>1 DEF Call, connVars
    <2>2. CASE p # q
      BY <1>s, <1>t, <2>1, <2>2, CallerUntouched DEF StreamTypeOK
    <2>3. CASE p = q
      <3>1. pc'[p] = "acquire" /\ CallerState(p) /\ RetryState(p)
        BY <1>i, <1>t, <2>1, <2>3 DEF StreamTypeOK
      <3> QED
        BY <2>1, <2>3, <3>1 DEF CallerKept, CallerState, RetryState, Budget, Unsent
    <2> QED
      BY <2>2, <2>3
  <1>2. ASSUME NEW q \in Callers, Acquire(q)
        PROVE  CallerKept(p)
    <2>1. pc[q] = "acquire" /\ pc' = [pc EXCEPT ![q] = "submit"] /\ UNCHANGED <<fresh, wid, inbox, tries>>
      BY <1>2 DEF Acquire
    <2>2. PICK c \in Conns : pooled' = [pooled EXCEPT ![c] = "in"] /\ lease' = [lease EXCEPT ![q] = c]
      BY <1>2, Zenon DEF Acquire, Offered, Usable, Unopened, Unused
    <2>3. StaysOpened
      BY <1>t, <2>2 DEF StaysOpened, StreamTypeOK
    <2>4. CASE p # q
      BY <1>t, <2>1, <2>2, <2>3, <2>4, CallerUntouched DEF StreamTypeOK
    <2>5. CASE p = q
      <3>1. /\ pc'[p] = "submit" /\ lease'[p] = c /\ pooled'[c] = "in" /\ c # None
            /\ CallerState(p) /\ RetryState(p)
        BY <1>i, <1>t, <2>1, <2>2, <2>5, StreamAssumption DEF StreamTypeOK
      <3> QED
        BY <2>1, <2>5, <3>1, Zenon DEF CallerKept, CallerState, RetryState, Budget, Unsent
    <2> QED
      BY <2>4, <2>5
  <1>3. ASSUME NEW q \in Callers, AcquireFails(q) \/ Release(q)
        PROVE  CallerKept(p)
    <2>1. Return(q) /\ pooled' = pooled
      BY <1>3 DEF AcquireFails, Release, connVars
    <2> QED
      BY <1>o, <1>s, <1>t, <2>1, Returned, Zenon DEF CallerKept
  <1>4. ASSUME NEW q \in Callers, NEW level, pc[q] \notin {"idle", "acquire"}, ConnectionFailed(q, level)
        PROVE  CallerKept(p)
    <2>1. /\ \A x \in Callers \ {q} : SameCaller(x)
          /\ CallerState(q)' /\ RetryState(q)' /\ StaysOpened
      BY <1>i, <1>l, <1>t, <1>4, Ended DEF StaysOpened
    <2> QED
      BY <1>o, <2>1 DEF CallerKept
  <1>5. ASSUME NEW q \in Callers, SubmitClosed(q) \/ SubmitFull(q)
        PROVE  CallerKept(p)
    BY <1>4, <1>5, Zenon DEF SubmitClosed, SubmitFull
  <1>6. ASSUME NEW q \in Callers, Submit(q)
        PROVE  CallerKept(p)
    <2>1. pc[q] = "submit" /\ (Refused(q) \/ NoRoom(q) \/ Queued(q))
      BY <1>6, Submitted
    <2>2. CASE Refused(q)
      BY <1>4, <2>1, <2>2, Zenon DEF Refused
    <2>3. CASE NoRoom(q)
      <3>1. pc' = [pc EXCEPT ![q] = "full"] /\ UNCHANGED <<wid, tries, pooled, fresh, lease, inbox>>
        BY <2>3 DEF NoRoom
      <3>2. CASE p # q
        BY <1>s, <1>t, <3>1, <3>2, CallerUntouched DEF StreamTypeOK
      <3>3. CASE p = q
        <4>1. pc'[p] = "full" /\ CallerState(p) /\ RetryState(p)
          BY <1>i, <1>t, <3>1, <3>3 DEF StreamTypeOK
        <4> QED
          BY <2>1, <3>1, <3>3, <4>1 DEF CallerKept, CallerState, RetryState, Budget, Unsent
      <3> QED
        BY <3>2, <3>3
    <2>4. CASE Queued(q)
      <3>1. PICK id \in Ids :
                /\ wid' = [wid EXCEPT ![q] = id] /\ tries' = [tries EXCEPT ![q] = @ + 1]
                /\ pc' = [pc EXCEPT ![q] = "wait"] /\ UNCHANGED <<pooled, fresh, lease, inbox>>
        BY <2>4, Zenon DEF Queued
      <3>2. CASE p # q
        BY <1>s, <1>t, <3>1, <3>2, CallerUntouched DEF StreamTypeOK
      <3>3. CASE p = q
        <4>1. /\ pc'[p] = "wait" /\ wid'[p] = id /\ tries'[p] = tries[p] + 1 /\ tries[p] \in Nat
              /\ CallerState(p) /\ RetryState(p) /\ id # None
          BY <1>i, <1>t, <3>1, <3>3, StreamAssumption DEF StreamTypeOK, Ids
        <4>2. CallerState(p)'
          BY <2>1, <3>1, <3>3, <4>1 DEF CallerState
        <4>3. RetryState(p)'
          BY <2>1, <3>1, <3>3, <4>1 DEF RetryState, Budget, Unsent
        <4> QED
          BY <4>2, <4>3 DEF CallerKept
      <3> QED
        BY <3>2, <3>3
    <2> QED
      BY <2>1, <2>2, <2>3, <2>4
  <1>7. ASSUME NEW q \in Callers, Receive(q)
        PROVE  CallerKept(p)
    <2>1. pc[q] = "wait" /\ inbox[q] # None
      BY <1>7 DEF Receive
    <2>2. CASE /\ inbox[q].asks = q /\ pc' = [pc EXCEPT ![q] = "ok"]
               /\ UNCHANGED <<pooled, fresh, lease, wid, inbox, tries>>
      <3>1. CASE p # q
        BY <1>s, <1>t, <2>2, <3>1, CallerUntouched DEF StreamTypeOK
      <3>2. CASE p = q
        <4>1. pc'[p] = "ok" /\ CallerState(p) /\ RetryState(p)
          BY <1>i, <1>t, <2>2, <3>2 DEF StreamTypeOK
        <4> QED
          BY <2>1, <2>2, <3>2, <4>1 DEF CallerKept, CallerState, RetryState, Budget, Unsent
      <3> QED
        BY <3>1, <3>2
    <2>3. CASE Return(q) /\ UNCHANGED pooled
      BY <1>o, <1>s, <1>t, <2>3, Returned, Zenon DEF CallerKept
    <2>4. CASE ConnectionFailed(q, inbox[q].level)
      BY <1>4, <2>1, <2>4
    <2> QED
      BY <1>7, <2>2, <2>3, <2>4 DEF Receive, Validates
  <1>8. ASSUME NEW q \in Callers, GiveUp(q) \/ DropGuard(q)
        PROVE  CallerKept(p)
    <2>1. /\ \/ pc[q] = "wait" /\ pc'[q] = "drop" /\ inbox'[q] = None
             \/ pc[q] = "drop" /\ pc'[q] = "release" /\ inbox' = inbox
          /\ \A x \in Callers \ {q} : SameCaller(x)
          /\ UNCHANGED <<pooled, fresh, lease, wid, tries>>
      BY <1>8, <1>t, Zenon DEF GiveUp, DropGuard, StreamTypeOK, SameCaller, connVars
    <2>2. CASE p # q
      BY <1>o, <1>s, <2>1, <2>2
    <2>3. CASE p = q
      BY <1>i, <2>1, <2>3 DEF CallerKept, CallerState, RetryState, Budget, Unsent
    <2> QED
      BY <2>2, <2>3
  <1>9. ASSUME NEW c \in Conns, ConnStep(c)
        PROVE  CallerKept(p)
    <2>1. UNCHANGED <<pc, fresh, lease, wid, tries>>
      BY <1>9, Zenon DEF ConnStep, Notify, Written, WriteFails, ReadFails, Dispatch, Deliver, Retire, callVars
    <2>2. StaysOpened
      BY <1>9, <1>s, <1>t, Zenon
        DEF ConnStep, Notify, Written, WriteFails, ReadFails, Dispatch, Deliver, Retire, StaysOpened, StreamTypeOK
    <2>3. inbox'[p] = inbox[p] \/ pc[p] = "wait"
      <3>1. CASE inbox' = inbox
        BY <3>1
      <3>2. ASSUME NEW msgs, inbox' = Sent(msgs) PROVE inbox'[p] = inbox[p] \/ pc[p] = "wait"
        BY <3>2 DEF Sent, Listening
      <3> QED
        BY <1>9, <3>1, <3>2, Zenon
          DEF ConnStep, Notify, Written, WriteFails, ReadFails, Dispatch, Deliver, Retire, callVars
    <2> QED
      BY <2>1, <2>2, <2>3, CallerUntouched
  <1> QED
    BY <1>1, <1>2, <1>3, <1>5, <1>6, <1>7, <1>8, <1>9 DEF StreamNext, CallerStep

-----------------------------------------------------------------------------
(* The leases.                                                              *)
LEMMA LeasesShrink ==
  ASSUME StreamInv, \A q \in Callers : lease'[q] = lease[q] \/ lease'[q] = None, NEW c \in Conns
  PROVE  Cardinality({q \in Callers : lease'[q] = c}) <= MaxInFlight
  <1> DEFINE now == {q \in Callers : lease[q] = c}
             next == {q \in Callers : lease'[q] = c}
  <1>1. IsFiniteSet(now) /\ next \subseteq now
    BY FS_Subset, StreamAssumption
  <1>2. Cardinality(next) <= Cardinality(now) /\ Cardinality(now) \in Nat /\ Cardinality(next) \in Nat
    BY <1>1, FS_Subset, FS_CardinalityType, Zenon
  <1>3. Cardinality(now) <= MaxInFlight
    BY DEF StreamInv, LeasesBounded, Leases
  <1> HIDE DEF now, next
  <1>4. Cardinality(next) <= MaxInFlight
    BY <1>2, <1>3, StreamAssumption
  <1> QED
    BY <1>4 DEF next

LEMMA LeasesStep ==
  ASSUME StreamInv, StreamNext
  PROVE  LeasesBounded'
  <1> SUFFICES ASSUME NEW c \in Conns
               PROVE  Cardinality({x \in Callers : lease'[x] = c}) <= MaxInFlight
    BY DEF LeasesBounded, Leases
  <1>t. StreamTypeOK
    BY DEF StreamInv
  <1>1. ASSUME NEW q \in Callers, Acquire(q)
        PROVE  Cardinality({x \in Callers : lease'[x] = c}) <= MaxInFlight
    <2>1. PICK d \in Usable \cup Unopened : lease' = [lease EXCEPT ![q] = d]
      BY <1>1, Zenon DEF Acquire, Offered, Unused
    <2>2. CASE c # d
      <3>1. {x \in Callers : lease'[x] = c} \subseteq {x \in Callers : lease[x] = c}
        BY <1>t, <2>1, <2>2 DEF StreamTypeOK
      <3>2. IsFiniteSet({x \in Callers : lease[x] = c})
        BY FS_Subset, StreamAssumption
      <3>3. Cardinality({x \in Callers : lease[x] = c}) <= MaxInFlight
        BY DEF StreamInv, LeasesBounded, Leases
      <3> DEFINE u == {x \in Callers : lease[x] = c}
                 v == {x \in Callers : lease'[x] = c}
      <3> HIDE DEF u, v
      <3>4. v \subseteq u /\ IsFiniteSet(u) /\ Cardinality(u) <= MaxInFlight
        BY <3>1, <3>2, <3>3 DEF u, v
      <3>5. Cardinality(v) <= Cardinality(u) /\ Cardinality(u) \in Nat /\ Cardinality(v) \in Nat
        BY <3>4, FS_Subset, FS_CardinalityType
      <3>6. Cardinality(v) <= MaxInFlight
        BY <3>4, <3>5, StreamAssumption
      <3> QED
        BY <3>6 DEF v
    <2>3. CASE c = d
      <3> DEFINE u == {x \in Callers : lease[x] = c}
                 v == {x \in Callers : lease'[x] = c}
      <3>1. IsFiniteSet(u) /\ v = u \cup {q}
        BY <1>t, <2>1, <2>3, FS_Subset, StreamAssumption DEF StreamTypeOK
      <3>2. Cardinality(u) < MaxInFlight
        <4>1. CASE c \in Usable
          BY <4>1 DEF Usable, Leases
        <4>2. CASE c \in Unopened
          <5>1. u = {}
            BY <4>2, StreamAssumption DEF StreamInv, CallerState, Unopened
          <5> QED
            BY <5>1, FS_EmptySet, StreamAssumption
        <4> QED
          BY <2>1, <2>3, <4>1, <4>2
      <3> HIDE DEF u, v
      <3>3. Cardinality(v) <= Cardinality(u) + 1 /\ Cardinality(u) \in Nat /\ Cardinality(v) \in Nat
        <4>1. Cardinality(u) \in Nat
          BY <3>1, FS_CardinalityType
        <4>2. Cardinality(v) = Cardinality(u) \/ Cardinality(v) = Cardinality(u) + 1
          BY <3>1, FS_AddElement, Zenon
        <4> QED
          BY <4>1, <4>2
      <3>4. Cardinality(v) <= MaxInFlight
        BY <3>2, <3>3, StreamAssumption
      <3> QED
        BY <3>4 DEF v
    <2> QED
      BY <2>2, <2>3
  <1>2. ASSUME NEW q \in Callers, CallerStep(q), ~Acquire(q)
        PROVE  \A x \in Callers : lease'[x] = lease[x] \/ lease'[x] = None
    <2>1. \/ UNCHANGED lease
          \/ lease' = [lease EXCEPT ![q] = None]
      <3>1. CASE Submit(q)
        <4>1. Refused(q) \/ NoRoom(q) \/ Queued(q)
          BY <3>1, Submitted, Zenon
        <4> QED
          BY <4>1, Zenon DEF Refused, NoRoom, Queued, ConnectionFailed, Return
      <3>2. CASE ~Submit(q)
        BY <1>2, <3>2, Zenon DEF CallerStep, Call, AcquireFails, SubmitClosed, SubmitFull, Receive,
             GiveUp, DropGuard, Release, ConnectionFailed, Return
      <3> QED
        BY <3>1, <3>2
    <2> QED
      BY <1>t, <2>1 DEF StreamTypeOK
  <1>3. ASSUME NEW d \in Conns, ConnStep(d)
        PROVE  \A x \in Callers : lease'[x] = lease[x] \/ lease'[x] = None
    BY <1>3, Zenon DEF ConnStep, Notify, Written, WriteFails, ReadFails, Dispatch, Deliver, Retire, callVars
  <1> QED
    BY <1>1, <1>2, <1>3, LeasesShrink DEF StreamNext

-----------------------------------------------------------------------------
(* The waiters.  How a step moves the waiter of p.                          *)
SameSlots(p) == \A c \in Conns, i \in Ids : InSlot(p, c, i)' <=> InSlot(p, c, i)
SameHand(p) == \A c \in Conns : InHand(p, c)' <=> InHand(p, c)
SameFail(p) == \A c \in Conns : InFail(p, c)' <=> InFail(p, c)
SameAttempt(p) == pc'[p] = pc[p] /\ lease'[p] = lease[p] /\ wid'[p] = wid[p]

(* fail() moves it from the table of c to those to be failed.               *)
Moved(p, c) ==
    /\ ~InFail(p, c) /\ \A i \in Ids : ~InSlot(p, c, i)'
    /\ InFail(p, c)' <=> \E i \in Ids : InSlot(p, c, i)
    /\ \A d \in Conns \ {c} : InFail(p, d)' <=> InFail(p, d)
    /\ \A d \in Conns \ {c}, i \in Ids : InSlot(p, d, i)' <=> InSlot(p, d, i)

LEMMA WaiterStays ==
  ASSUME NEW p, Waiter(p), SameAttempt(p), inbox'[p] = inbox[p],
         SameSlots(p), SameHand(p), SameFail(p)
  PROVE  Waiter(p)'
  <1>1. Has(p)' <=> Has(p)
    BY Zenon DEF Has, SameSlots, SameHand, SameFail
  <1> QED
    BY <1>1, Zenon DEF Waiter, SameAttempt, SameSlots, SameHand, SameFail

LEMMA WaiterGone ==
  ASSUME NEW p, ~Has(p)', pc'[p] = "wait" => inbox'[p] # None
  PROVE  Waiter(p)'
  BY DEF Waiter, Has

LEMMA NoWaiter ==
  ASSUME NEW p, Waiter(p),
         pc[p] \in {"acquire", "submit", "full", "ok"} \/ inbox[p] # None
  PROVE  ~Has(p)
  BY DEF Waiter, Has

LEMMA StillNone ==
  ASSUME NEW p, ~Has(p), SameSlots(p), SameHand(p), SameFail(p)
  PROVE  ~Has(p)'
  BY DEF Has, SameSlots, SameHand, SameFail

LEMMA FailMoves ==
  ASSUME StreamInv, NEW c \in Conns, NEW level \in BOOLEAN, Fail(c, level), NEW p \in Callers
  PROVE  (SameSlots(p) /\ SameFail(p)) \/ Moved(p, c)
  <1>t. StreamTypeOK /\ p # None
    BY StreamAssumption DEF StreamInv
  <1>1. CASE closed[c] /\ UNCHANGED <<closed, slots, tombs, failing>>
    BY <1>1 DEF SameSlots, SameFail, InSlot, InFail
  <1>2. CASE ~closed[c] /\ Emptied(c)
    <2>1. \A i \in Ids : slots'[c][i] = Free
      BY <1>t, <1>2 DEF Emptied, StreamTypeOK
    <2>2. \A i \in Ids : ~InSlot(p, c, i)'
      BY <1>t, <2>1, SlotKinds DEF InSlot
    <2>3. failing'[c] # None /\ failing'[c].to = {slots[c][i].caller : i \in PendingIds(c)}
      BY <1>2, MessageKinds DEF Emptied
    <2>4. InFail(p, c)' <=> \E i \in Ids : InSlot(p, c, i)
      BY <1>t, <2>3 DEF InFail, InSlot, PendingIds
    <2>5. \A d \in Conns \ {c} : failing'[d] = failing[d] /\ slots'[d] = slots[d]
      BY <1>t, <1>2, Zenon DEF Emptied, StreamTypeOK
    <2>6. ~InFail(p, c)
      BY <1>2, Zenon DEF StreamInv, ClosedEmpty, InFail
    <2> QED
      BY <2>2, <2>4, <2>5, <2>6 DEF Moved, InFail, InSlot
  <1> QED
    BY <1>t, <1>1, <1>2, FailEmpties, Zenon

(* A connection fails, with or without an answer delivered before: whoever  *)
(* was in the reader's hand got a message, the others moved.                *)
LEMMA WaiterMoves ==
  ASSUME NEW p, NEW c \in Conns, Waiter(p), SameAttempt(p),
         (SameSlots(p) /\ SameFail(p)) \/ Moved(p, c),
         \/ SameHand(p) /\ inbox'[p] = inbox[p]
         \/ /\ ~InHand(p, c)' /\ \A d \in Conns \ {c} : InHand(p, d)' <=> InHand(p, d)
            /\ ~(InHand(p, c) /\ pc[p] = "wait") => inbox'[p] = inbox[p]
            /\ InHand(p, c) /\ pc[p] = "wait" => inbox'[p] # None
  PROVE  Waiter(p)'
  <1>h. \A d \in Conns : InHand(p, d)' => InHand(p, d)
    BY DEF SameHand
  <1>f. \A d \in Conns : InFail(p, d)' => InFail(p, d) \/ (d = c /\ \E i \in Ids : InSlot(p, c, i))
    BY Zenon DEF SameFail, Moved
  <1>s. \A d \in Conns, i \in Ids : InSlot(p, d, i)' => InSlot(p, d, i)
    BY Zenon DEF SameSlots, Moved
  <1>1. CASE InHand(p, c) /\ pc[p] = "wait" /\ ~InHand(p, c)'
    <2>a. \A d \in Conns, i \in Ids : ~InSlot(p, d, i)
      BY <1>1, Zenon DEF Waiter
    <2>b. \A d \in Conns : ~InFail(p, d) /\ (d # c => ~InHand(p, d))
      BY <1>1, Zenon DEF Waiter
    <2>1. ~Has(p)'
      BY <1>1, <1>h, <1>f, <1>s, <2>a, <2>b, Zenon DEF Has
    <2>2. inbox'[p] # None
      BY <1>1, Zenon DEF SameHand
    <2> QED
      BY <2>1, <2>2, WaiterGone
  <1>2. CASE ~(InHand(p, c) /\ pc[p] = "wait" /\ ~InHand(p, c)')
    <2>1. inbox'[p] = inbox[p]
      BY <1>2
    <2>2. \A d \in Conns, i \in Ids : InSlot(p, d, i)' =>
            pc'[p] \in {"wait", "drop"} /\ lease'[p] = d /\ wid'[p] = i /\ inbox'[p] = None
      BY <1>s, <2>1, Zenon DEF Waiter, SameAttempt
    <2>3. \A d \in Conns : InHand(p, d)' \/ InFail(p, d)' =>
            /\ inbox'[p] = None
            /\ pc'[p] = "idle" \/ (pc'[p] \in {"wait", "drop", "release"} /\ lease'[p] = d)
      BY <1>h, <1>f, <2>1, Zenon DEF Waiter, SameAttempt
    <2>4. \A d \in Conns : InHand(p, d)' => ~InFail(p, d)' /\ \A i \in Ids : ~InSlot(p, d, i)'
      BY <1>h, <1>f, <1>s, Zenon DEF Waiter
    <2>5. pc'[p] = "wait" /\ inbox'[p] = None => Has(p)'
      <3> SUFFICES ASSUME pc'[p] = "wait", inbox'[p] = None
                   PROVE  Has(p)'
        BY Zenon
      <3>1. PICK d \in Conns : InHand(p, d) \/ InFail(p, d) \/ \E i \in Ids : InSlot(p, d, i)
        BY <2>1, Zenon DEF Waiter, SameAttempt, Has
      <3>2. CASE InHand(p, d)
        <4>1. InHand(p, d)'
          BY <1>2, <3>2, Zenon DEF SameHand, SameAttempt
        <4> QED
          BY <4>1, Zenon DEF Has
      <3>3. CASE InFail(p, d) \/ \E i \in Ids : InSlot(p, d, i)
        <4>1. InFail(p, d)' \/ \E i \in Ids : InSlot(p, d, i)'
          BY <3>3, Zenon DEF SameFail, SameSlots, Moved
        <4> QED
          BY <4>1, Zenon DEF Has
      <3> QED
        BY <3>1, <3>2, <3>3, Zenon
    <2> QED
      BY <2>2, <2>3, <2>4, <2>5, Zenon DEF Waiter
  <1> QED
    BY <1>1, <1>2, Zenon

(* A waiter of p that is in a table is in the slot its guard holds.         *)
LEMMA OwnSlot ==
  ASSUME StreamTypeOK, NEW p \in Callers, Waiter(p), NEW c \in Conns, NEW i \in Ids
  PROVE  InSlot(p, c, i) <=> slots[c][i] = Pending(p)
  <1>1. slots[c][i] \in Slot
    BY DEF StreamTypeOK
  <1>2. slots[c][i].caller = p => slots[c][i] = Pending(p)
    <2> DEFINE x == slots[c][i]
    <2> HIDE DEF x
    <2>1. x \in Slot
      BY <1>1 DEF x
    <2>2. x.caller = p => x = Pending(p)
      BY <2>1, SlotCases, SlotKinds
    <2> QED
      BY <2>2 DEF x
  <1>3. Pending(p).caller = p
    BY SlotKinds
  <1> QED
    BY <1>2, <1>3 DEF InSlot

LEMMA KeptSlots ==
  ASSUME NEW p \in Callers, NEW c \in Conns, NEW w, Kept(slots[c], w), NEW i \in Ids
  PROVE  w[i].caller = p <=> InSlot(p, c, i)
  BY SlotKinds DEF Kept, InSlot

LEMMA CallerWaiters ==
  ASSUME StreamInv, NEW q \in Callers, CallerStep(q), NEW p \in Callers
  PROVE  Waiter(p)'
  <1>t. StreamTypeOK
    BY DEF StreamInv
  <1>i. \A x \in Callers : Waiter(x) /\ CallerState(x)
    BY DEF StreamInv
  <1>l. pc[q] \notin {"idle", "acquire"} => lease[q] \in Conns
    BY <1>t, <1>i DEF CallerState, StreamTypeOK
  <1>n. p # None
    BY StreamAssumption
  <1>u. UNCHANGED <<slots, hand, failing>> => SameSlots(p) /\ SameHand(p) /\ SameFail(p)
    BY DEF SameSlots, SameHand, SameFail, InSlot, InHand, InFail
  <1>h. UNCHANGED <<hand, failing>> => SameHand(p) /\ SameFail(p)
    BY DEF SameHand, SameFail, InHand, InFail
  <1>o. ASSUME p # q, SameSlots(p), SameHand(p), SameFail(p), \A x \in Callers \ {q} : SameCaller(x)
        PROVE  Waiter(p)'
    BY <1>i, <1>o, WaiterStays DEF SameCaller, SameAttempt
  <1>g. ASSUME p = q, ~Has(q), SameSlots(p), SameHand(p), SameFail(p), pc'[q] # "wait"
        PROVE  Waiter(p)'
    BY <1>g, StillNone, WaiterGone
  <1>1. CASE Call(q)
    <2>1. /\ UNCHANGED <<slots, hand, failing>> /\ pc[q] = "idle" /\ pc'[q] = "acquire"
          /\ \A x \in Callers \ {q} : SameCaller(x)
      BY <1>t, <1>1 DEF Call, connVars, tableVars, taskVars, StreamTypeOK, SameCaller
    <2>2. ~Has(q)
      <3>1. \A c \in Conns : ~InHand(q, c) /\ ~InFail(q, c)
        BY <1>1, Zenon DEF Call, HeldBy, InHand, InFail
      <3> QED
        BY <1>i, <2>1, <3>1, Zenon DEF Waiter, Has
    <2> QED
      BY <1>u, <1>o, <1>g, <2>1, <2>2, Zenon
  <1>2. CASE Acquire(q)
    <2>1. /\ UNCHANGED <<slots, hand, failing>> /\ pc[q] = "acquire" /\ pc'[q] = "submit"
          /\ \A x \in Callers \ {q} : SameCaller(x)
      BY <1>t, <1>2 DEF Acquire, tableVars, taskVars, StreamTypeOK, SameCaller
    <2> QED
      BY <1>i, <1>u, <1>o, <1>g, <2>1, NoWaiter, Zenon
  <1>3. CASE AcquireFails(q)
    <2>1. UNCHANGED <<slots, hand, failing>> /\ pc[q] = "acquire" /\ Return(q)
      BY <1>3 DEF AcquireFails, connVars, tableVars, taskVars
    <2> QED
      BY <1>i, <1>t, <1>u, <1>o, <1>g, <2>1, NoWaiter, Returned, Zenon
  <1>4. CASE Release(q)
    <2>1. /\ UNCHANGED <<slots, hand, failing>> /\ pc[q] \in {"release", "ok"}
          /\ pc'[q] = "idle" /\ inbox'[q] = None /\ \A x \in Callers \ {q} : SameCaller(x)
      BY <1>t, <1>4, Returned DEF Release, connVars, tableVars, taskVars
    <2>2. CASE p # q
      BY <1>u, <1>o, <2>1, <2>2
    <2>3. CASE p = q
      <3>1. Waiter(p) /\ SameSlots(p) /\ SameHand(p) /\ SameFail(p)
        BY <1>i, <1>u, <2>1, Zenon
      <3> QED
        BY <2>1, <2>3, <3>1, Zenon DEF Waiter, SameSlots, SameHand, SameFail
    <2> QED
      BY <2>2, <2>3
  <1>5. CASE SubmitClosed(q)
    <2>1. /\ UNCHANGED <<slots, hand, failing>> /\ pc[q] = "submit" /\ ConnectionFailed(q, TRUE)
      BY <1>5, Zenon DEF SubmitClosed, tableVars, taskVars
    <2>2. pc'[q] \in {"idle", "acquire"} /\ \A x \in Callers \ {q} : SameCaller(x)
      BY <1>l, <1>t, <2>1, Ended, Zenon DEF StreamInv
    <2> QED
      BY <1>i, <1>u, <1>o, <1>g, <2>1, <2>2, NoWaiter, Zenon
  <1>6. CASE Submit(q)
    <2> DEFINE c == lease[q]
    <2>1. /\ c \in Conns /\ pc[q] = "submit" /\ ~closed[c]
          /\ \A d \in Conns : d # c => slots'[d] = slots[d]
          /\ (Refused(q) \/ NoRoom(q) \/ Queued(q))
          /\ UNCHANGED <<hand, failing>>
      BY <1>6, Submitted, Zenon
    <2>2. SameHand(p) /\ SameFail(p) /\ ~Has(q)
      BY <1>h, <1>i, <2>1, NoWaiter, Zenon
    <2>3. ASSUME Kept(slots[c], slots'[c]) PROVE SameSlots(p)
      <3>1. \A d \in Conns, i \in Ids : slots'[d][i].caller = p <=> InSlot(p, d, i)
        <4>1. \A i \in Ids : slots'[c][i].caller = p <=> InSlot(p, c, i)
          BY <2>1, <2>3, KeptSlots, Zenon
        <4>2. \A d \in Conns : d # c => \A i \in Ids : slots'[d][i].caller = p <=> InSlot(p, d, i)
          BY <2>1, Zenon DEF InSlot
        <4> QED
          BY <4>1, <4>2, Zenon
      <3> QED
        BY <3>1, Zenon DEF SameSlots, InSlot
    <2>4. CASE Refused(q)
      <3>1. pc'[q] \in {"idle", "acquire"} /\ \A x \in Callers \ {q} : SameCaller(x)
        BY <1>t, <2>1, <2>4, Ended, Zenon DEF Refused, StreamInv
      <3> QED
        BY <1>o, <1>g, <2>2, <2>3, <2>4, <3>1, Zenon DEF Refused
    <2>5. CASE NoRoom(q)
      <3>1. pc'[q] = "full" /\ \A x \in Callers \ {q} : SameCaller(x)
        BY <1>t, <2>5, Zenon DEF NoRoom, SameCaller, StreamTypeOK
      <3> QED
        BY <1>o, <1>g, <2>2, <2>3, <2>5, <3>1, Zenon DEF NoRoom
    <2>6. CASE Queued(q)
      <3>1. PICK id \in Ids, room \in [Ids -> Slot] :
                /\ Kept(slots[c], room) /\ room[id] = Free
                /\ slots'[c] = [room EXCEPT ![id] = Pending(q)]
                /\ wid' = [wid EXCEPT ![q] = id]
                /\ tries' = [tries EXCEPT ![q] = @ + 1]
                /\ pc' = [pc EXCEPT ![q] = "wait"]
                /\ UNCHANGED <<pooled, fresh, lease, inbox>>
        BY <2>6, Zenon DEF Queued
      <3>2. /\ pc'[q] = "wait" /\ wid'[q] = id /\ lease'[q] = c /\ inbox'[q] = inbox[q]
            /\ \A x \in Callers \ {q} : SameCaller(x)
        <4>1. pc \in [Callers -> Pcs] /\ wid \in [Callers -> Ids \cup {None}] /\ tries \in [Callers -> Nat]
          BY <1>t DEF StreamTypeOK
        <4> QED
          BY <3>1, <4>1, Zenon DEF SameCaller
      <3>r. \A j \in Ids : room[j].caller = p <=> InSlot(p, c, j)
        <4>1. Kept(slots[c], room) /\ c \in Conns
          BY <2>1, <3>1
        <4> QED
          BY <4>1, KeptSlots
      <3>3. ASSUME NEW d \in Conns, NEW i \in Ids
            PROVE  InSlot(p, d, i)' <=> InSlot(p, d, i) \/ (p = q /\ d = c /\ i = id)
        <4>1. CASE d # c
          BY <2>1, <4>1 DEF InSlot
        <4>2. CASE d = c /\ i = id
          <5>1. slots'[d][i].caller = q
            BY <3>1, <4>2, SlotKinds, Zenon
          <5>2. ~InSlot(p, d, i)
            <6>1. room[i].caller = p <=> InSlot(p, d, i)
              BY <3>r, <4>2
            <6> QED
              BY <1>n, <3>1, <4>2, <6>1, SlotKinds, Zenon
          <5> QED
            BY <4>2, <5>1, <5>2 DEF InSlot
        <4>3. CASE d = c /\ i # id
          <5>1. room[i].caller = p <=> InSlot(p, d, i)
            BY <3>r, <4>3
          <5>2. slots'[d] = [room EXCEPT ![id] = Pending(q)]
            BY <3>1, <4>3
          <5>3. slots'[d][i] = room[i]
            BY <4>3, <5>2
          <5> QED
            BY <4>3, <5>1, <5>3 DEF InSlot
        <4> QED
          BY <4>1, <4>2, <4>3
      <3>4. CASE p # q
        <4>1. SameSlots(p)
          BY <3>3, <3>4 DEF SameSlots
        <4> QED
          BY <1>o, <2>2, <3>2, <3>4, <4>1, Zenon
      <3>5. CASE p = q
        <4>1. /\ \A d \in Conns, i \in Ids : InSlot(p, d, i)' <=> d = c /\ i = id
              /\ \A d \in Conns : ~InHand(p, d)' /\ ~InFail(p, d)'
          BY <2>2, <3>3, <3>5 DEF Has, SameHand, SameFail
        <4>2. inbox[q] = None
          BY <1>i, <2>1 DEF CallerState
        <4>3. Has(p)'
          BY <2>1, <4>1, Zenon DEF Has
        <4> HIDE DEF c
        <4> QED
          BY <3>2, <3>5, <4>1, <4>2, <4>3, Zenon DEF Waiter
      <3> QED
        BY <3>4, <3>5
    <2> QED
      BY <2>1, <2>4, <2>5, <2>6
  <1>7. CASE SubmitFull(q)
    <2>1. PICK c \in Conns : /\ c = lease[q] /\ pc[q] = "full" /\ Fail(c, TRUE)
                             /\ ConnectionFailed(q, TRUE) /\ UNCHANGED hand
      BY <1>l, <1>7, Zenon DEF SubmitFull
    <2>2. pc'[q] \in {"idle", "acquire"} /\ \A x \in Callers \ {q} : SameCaller(x)
      BY <1>t, <2>1, Ended, Zenon DEF StreamInv
    <2>3. (SameSlots(p) /\ SameFail(p)) \/ Moved(p, c)
      BY <2>1, FailMoves, Zenon
    <2>4. SameHand(p)
      BY <2>1 DEF SameHand, InHand
    <2>5. CASE p # q
      BY <1>i, <2>1, <2>2, <2>3, <2>4, <2>5, WaiterMoves, Zenon DEF SameCaller, SameAttempt
    <2>6. CASE p = q
      <3>1. ~Has(p)
        BY <1>i, <2>1, <2>6, NoWaiter
      <3>2. ~Has(p)'
        <4>1. CASE SameSlots(p) /\ SameFail(p)
          BY <2>4, <3>1, <4>1, StillNone
        <4>2. CASE Moved(p, c)
          <5>1. \A d \in Conns : ~InHand(p, d)'
            BY <2>4, <3>1 DEF Has, SameHand
          <5>2. \A d \in Conns : ~InFail(p, d)' /\ \A i \in Ids : ~InSlot(p, d, i)'
            <6>1. \A d \in Conns : ~InFail(p, d) /\ \A i \in Ids : ~InSlot(p, d, i)
              BY <3>1 DEF Has
            <6>2. ~InFail(p, c)' /\ \A i \in Ids : ~InSlot(p, c, i)'
              BY <2>1, <4>2, <6>1, Zenon DEF Moved
            <6>3. \A d \in Conns \ {c} : ~InFail(p, d)' /\ \A i \in Ids : ~InSlot(p, d, i)'
              BY <4>2, <6>1 DEF Moved
            <6> QED
              BY <6>2, <6>3
          <5> QED
            BY <5>1, <5>2 DEF Has
        <4> QED
          BY <2>3, <4>1, <4>2
      <3> QED
        BY <2>2, <2>6, <3>2, WaiterGone
    <2> QED
      BY <2>5, <2>6
  <1>8. CASE Receive(q)
    <2>1. UNCHANGED <<slots, hand, failing>> /\ pc[q] = "wait" /\ inbox[q] # None
      BY <1>8 DEF Receive, tableVars, taskVars
    <2>2. pc'[q] # "wait" /\ \A x \in Callers \ {q} : SameCaller(x)
      <3>1. CASE pc' = [pc EXCEPT ![q] = "ok"] /\ UNCHANGED <<pooled, fresh, lease, wid, inbox, tries>>
        BY <1>t, <3>1 DEF StreamTypeOK, SameCaller
      <3>2. CASE Return(q)
        BY <1>t, <3>2, Returned
      <3>3. CASE ConnectionFailed(q, inbox[q].level)
        BY <1>l, <1>t, <2>1, <3>3, Ended, Zenon DEF StreamInv
      <3> QED
        BY <1>8, <3>1, <3>2, <3>3 DEF Receive
    <2> QED
      BY <1>i, <1>u, <1>o, <1>g, <2>1, <2>2, NoWaiter, Zenon
  <1>9. CASE GiveUp(q)
    <2>1. /\ UNCHANGED <<slots, hand, failing>> /\ pc[q] = "wait" /\ pc'[q] = "drop"
          /\ inbox'[q] = None /\ lease' = lease /\ wid' = wid /\ \A x \in Callers \ {q} : SameCaller(x)
      BY <1>t, <1>9, Zenon DEF GiveUp, connVars, tableVars, taskVars, StreamTypeOK, SameCaller
    <2>2. CASE p # q
      BY <1>u, <1>o, <2>1, <2>2, Zenon
    <2>3. CASE p = q
      <3>1. Waiter(p) /\ SameSlots(p) /\ SameHand(p) /\ SameFail(p)
        BY <1>i, <1>u, <2>1, Zenon
      <3> QED
        BY <2>1, <2>3, <3>1, Zenon DEF Waiter, SameSlots, SameHand, SameFail
    <2> QED
      BY <2>2, <2>3
  <1>10. CASE DropGuard(q)
    <2> DEFINE c == lease[q]
               id == wid[q]
    <2>1. /\ c \in Conns /\ id \in Ids /\ pc[q] = "drop" /\ pc'[q] = "release"
          /\ UNCHANGED <<hand, failing, lease, wid, inbox>> /\ \A x \in Callers \ {q} : SameCaller(x)
      BY <1>l, <1>i, <1>t, <1>10 DEF DropGuard, CallerState, StreamTypeOK, taskVars, SameCaller
    <2>2. \A d \in Conns, i \in Ids : slots'[d][i] =
            IF d = c /\ i = id /\ Owns(q) THEN Orphan ELSE slots[d][i]
      <3>1. CASE Owns(q)
        <4>1. slots' = [slots EXCEPT ![c] = [slots[c] EXCEPT ![id] = Orphan]]
          BY <1>t, <1>10, <2>1, <3>1 DEF DropGuard, StreamTypeOK
        <4>2. slots \in [Conns -> [Ids -> Slot]]
          BY <1>t DEF StreamTypeOK
        <4> HIDE DEF c, id
        <4> QED
          BY <2>1, <3>1, <4>1, <4>2, Zenon
      <3>2. CASE ~Owns(q)
        BY <1>10, <3>2 DEF DropGuard
      <3> QED
        BY <3>1, <3>2, Zenon
    <2>3. SameHand(p) /\ SameFail(p)
      BY <1>h, <2>1
    <2>4. CASE p # q
      <3>1. Owns(q) => ~InSlot(p, c, id)
        BY <2>4, SlotKinds DEF Owns, InSlot
      <3>2. SameSlots(p)
        <4> HIDE DEF c, id
        <4> QED
          BY <1>n, <2>2, <3>1, SlotKinds DEF SameSlots, InSlot
      <3> QED
        BY <1>o, <2>1, <2>3, <2>4, <3>2
    <2>5. CASE p = q
      <3>1. \A d \in Conns, i \in Ids : ~InSlot(p, d, i)'
        <4> SUFFICES ASSUME NEW d \in Conns, NEW i \in Ids, InSlot(p, d, i)'
                     PROVE  FALSE
          OBVIOUS
        <4>1. InSlot(p, d, i) /\ ~(d = c /\ i = id /\ Owns(q))
          BY <1>n, <2>2, SlotKinds DEF InSlot
        <4>2. d = c /\ i = id
          BY <1>i, <2>5, <4>1, Zenon DEF Waiter
        <4>3. Owns(q)
          BY <1>i, <1>t, <2>1, <2>5, <4>1, <4>2, OwnSlot, Zenon DEF Owns
        <4> QED
          BY <4>1, <4>2, <4>3, Zenon
      <3>2. Waiter(p)
        BY <1>i
      <3> QED
        BY <2>1, <2>3, <2>5, <3>1, <3>2, Zenon DEF Waiter, SameHand, SameFail
    <2> QED
      BY <2>4, <2>5
  <1> QED
    BY <1>1, <1>2, <1>3, <1>4, <1>5, <1>6, <1>7, <1>8, <1>9, <1>10 DEF CallerStep

LEMMA ConnWaiters ==
  ASSUME StreamInv, NEW c \in Conns, ConnStep(c), NEW p \in Callers
  PROVE  Waiter(p)'
  <1>t. StreamTypeOK
    BY DEF StreamInv
  <1>i. Waiter(p) /\ ClosedEmpty(c) /\ p # None
    BY StreamAssumption DEF StreamInv
  <1>1. CASE Notify(c)
    <2> DEFINE msgs == [q \in Callers |-> IF q \in failing[c].to
                            THEN [ok |-> FALSE, level |-> failing[c].level] ELSE None]
    <2>1. /\ failing[c] # None /\ inbox' = Sent(msgs) /\ failing' = [failing EXCEPT ![c] = None]
          /\ UNCHANGED <<slots, hand, pc, lease, wid>>
      BY <1>1, Zenon DEF Notify, tableVars, taskVars
    <2>2. /\ msgs \in [Callers -> Message \cup {None}]
          /\ \A q \in Callers : msgs[q] # None <=> InFail(q, c)
      BY <1>t, <2>1, Notices, Zenon
    <2> HIDE DEF msgs
    <2>3. inbox'[p] = IF pc[p] = "wait" /\ msgs[p] # None THEN msgs[p] ELSE inbox[p]
      BY <1>t, <2>1, <2>2, SentTo, Zenon
    <2>4. SameAttempt(p) /\ SameSlots(p) /\ SameHand(p)
      BY <2>1 DEF SameAttempt, SameSlots, SameHand, InSlot, InHand
    <2>5. ~InFail(p, c)' /\ \A d \in Conns \ {c} : InFail(p, d)' <=> InFail(p, d)
      BY <1>t, <2>1, Zenon DEF StreamTypeOK, InFail
    <2>6. CASE InFail(p, c) /\ pc[p] = "wait"
      <3>1. inbox'[p] # None
        BY <2>2, <2>3, <2>6
      <3>2. \A i \in Ids : ~InSlot(p, c, i)
        BY <1>i, <2>1, SlotKinds, Zenon DEF ClosedEmpty, InSlot
      <3>a. \A d \in Conns : ~InHand(p, d) /\ (d # c => ~InFail(p, d))
        BY <1>i, <2>6, Zenon DEF Waiter
      <3>b. \A d \in Conns, i \in Ids : ~InSlot(p, d, i)
        BY <1>i, <2>6, <3>2, Zenon DEF Waiter
      <3>3. ~Has(p)'
        BY <2>4, <2>5, <3>a, <3>b, Zenon DEF Has, SameSlots, SameHand
      <3> QED
        BY <3>1, <3>3, WaiterGone
    <2>7. CASE ~InFail(p, c)
      <3>1. SameFail(p) /\ inbox'[p] = inbox[p]
        BY <2>2, <2>3, <2>5, <2>7 DEF SameFail
      <3> QED
        BY <1>i, <2>4, <3>1, WaiterStays, Zenon
    <2>8. CASE pc[p] # "wait"
      <3>1. inbox'[p] = inbox[p]
        BY <2>3, <2>8
      <3> QED
        BY <1>i, <2>4, <2>5, <2>8, <3>1, Zenon DEF Waiter, SameAttempt, SameSlots, SameHand
    <2> QED
      BY <2>6, <2>7, <2>8
  <1>2. CASE Written(c)
    <2>1. SameAttempt(p) /\ inbox'[p] = inbox[p] /\ SameSlots(p) /\ SameHand(p) /\ SameFail(p)
      BY <1>2, Zenon DEF Written, tableVars, callVars, SameAttempt, SameSlots, SameHand, SameFail,
           InSlot, InHand, InFail
    <2> QED
      BY <1>i, <2>1, WaiterStays, Zenon
  <1>3. CASE WriteFails(c) \/ ReadFails(c) \/ Retire(c)
    <2>1. PICK level \in BOOLEAN : Fail(c, level)
      BY <1>3, Zenon DEF WriteFails, ReadFails, Retire
    <2>2. SameAttempt(p) /\ inbox'[p] = inbox[p] /\ SameHand(p)
      BY <1>3, Zenon DEF WriteFails, ReadFails, Retire, callVars, SameAttempt, SameHand, InHand
    <2>3. (SameSlots(p) /\ SameFail(p)) \/ Moved(p, c)
      BY <2>1, FailMoves
    <2> QED
      BY <1>i, <2>2, <2>3, WaiterMoves, Zenon
  <1>4. CASE Dispatch(c)
    <2>0. hand[c] = None /\ ~closed[c] /\ UNCHANGED <<failing, callVars>>
      BY <1>4, Zenon DEF Dispatch
    <2>1. PICK id \in Ids, asks \in Callers \cup {None} : Take(c, id, asks)
      <3>1. \A f \in Frame : f.id \in Ids /\ f.q \in Callers
        BY DEF Frame
      <3> QED
        BY <1>4, <3>1, Zenon DEF Dispatch
    <2>2. /\ slots' = [slots EXCEPT ![c] = [slots[c] EXCEPT ![id] = Free]]
          /\ \A d \in Conns \ {c} : hand'[d] = hand[d]
          /\ InHand(p, c)' <=> InSlot(p, c, id)
      BY <2>0, <2>1, Dispatched
    <2>3. \A d \in Conns, i \in Ids : slots'[d][i] = IF d = c /\ i = id THEN Free ELSE slots[d][i]
      <3>1. slots \in [Conns -> [Ids -> Slot]]
        BY <1>t DEF StreamTypeOK
      <3> QED
        BY <2>2, <3>1, Zenon
    <2>4. \A d \in Conns, i \in Ids : InSlot(p, d, i)' <=> InSlot(p, d, i) /\ ~(d = c /\ i = id)
      BY <1>i, <2>3, SlotKinds, Zenon DEF InSlot
    <2>5. /\ SameFail(p) /\ SameAttempt(p) /\ inbox'[p] = inbox[p]
          /\ \A d \in Conns \ {c} : InHand(p, d)' <=> InHand(p, d)
      BY <2>0, <2>2 DEF SameFail, SameAttempt, InHand, InFail, callVars
    <2>6. ~InHand(p, c) /\ ~InFail(p, c)
      BY <1>i, <2>0, Zenon DEF ClosedEmpty, InHand, InFail
    <2>7. CASE ~InSlot(p, c, id)
      <3>1. SameSlots(p) /\ SameHand(p)
        BY <2>2, <2>4, <2>5, <2>6, <2>7 DEF SameSlots, SameHand
      <3> QED
        BY <1>i, <2>5, <3>1, WaiterStays, Zenon
    <2>8. CASE InSlot(p, c, id)
      <3>1. pc[p] \in {"wait", "drop"} /\ lease[p] = c /\ wid[p] = id /\ inbox[p] = None
        BY <1>i, <2>8, Zenon DEF Waiter
      <3>2. \A d \in Conns, i \in Ids : ~InSlot(p, d, i)'
        BY <1>i, <2>4, <3>1, Zenon DEF Waiter
      <3>3. \A d \in Conns : ~InFail(p, d)' /\ (InHand(p, d)' => d = c)
        BY <1>i, <2>5, <2>6, <3>1, Zenon DEF Waiter, SameFail
      <3>4. Has(p)'
        BY <2>2, <2>8 DEF Has
      <3> QED
        BY <2>5, <3>1, <3>2, <3>3, <3>4, Zenon DEF Waiter, SameAttempt
    <2> QED
      BY <2>7, <2>8
  <1>5. CASE Deliver(c)
    <2>0. /\ hand[c] # None /\ hand' = [hand EXCEPT ![c] = None]
          /\ UNCHANGED <<pc, lease, wid>>
      BY <1>5 DEF Deliver
    <2>1. ~InHand(p, c)' /\ \A d \in Conns \ {c} : InHand(p, d)' <=> InHand(p, d)
      BY <1>t, <2>0, Zenon DEF StreamTypeOK, InHand
    <2>2. (SameSlots(p) /\ SameFail(p)) \/ Moved(p, c)
      <3>1. CASE UNCHANGED <<closed, tableVars, failing, frames, served>>
        BY <3>1 DEF tableVars, SameSlots, SameFail, InSlot, InFail
      <3>2. CASE Fail(c, TRUE)
        BY <3>2, FailMoves, Zenon
      <3> QED
        BY <1>5, <3>1, <3>2, Zenon DEF Deliver
    <2>3. /\ ~(InHand(p, c) /\ pc[p] = "wait") => inbox'[p] = inbox[p]
          /\ InHand(p, c) /\ pc[p] = "wait" => inbox'[p] # None
      <3> DEFINE yes == [q \in Callers |-> IF q = hand[c].to
                                       THEN [ok |-> TRUE, asks |-> hand[c].asks] ELSE None]
                 no == [q \in Callers |-> IF q = hand[c].to THEN [ok |-> FALSE, level |-> FALSE] ELSE None]
      <3>1. \/ hand[c].asks # None /\ inbox' = Sent(yes)
            \/ inbox' = Sent(no)
        BY <1>5, Zenon DEF Deliver
      <3>2. /\ hand[c].asks # None =>
                    /\ yes \in [Callers -> Message \cup {None}]
                    /\ \A q \in Callers : yes[q] # None <=> InHand(q, c)
            /\ no \in [Callers -> Message \cup {None}]
            /\ \A q \in Callers : no[q] # None <=> InHand(q, c)
        BY <1>t, <2>0, Answers, Zenon
      <3> HIDE DEF yes, no
      <3>3. PICK msgs \in [Callers -> Message \cup {None}] :
                inbox' = Sent(msgs) /\ \A q \in Callers : msgs[q] # None <=> InHand(q, c)
        BY <3>1, <3>2, Zenon
      <3>4. inbox'[p] = IF pc[p] = "wait" /\ msgs[p] # None THEN msgs[p] ELSE inbox[p]
        BY <1>t, <3>3, SentTo
      <3> QED
        BY <3>3, <3>4
    <2>4. SameAttempt(p)
      BY <2>0 DEF SameAttempt
    <2> QED
      BY <1>i, <2>1, <2>2, <2>3, <2>4, WaiterMoves, Zenon
  <1> QED
    BY <1>1, <1>2, <1>3, <1>4, <1>5 DEF ConnStep

-----------------------------------------------------------------------------
(* The invariant.                                                           *)
LEMMA StreamInvStep ==
  ASSUME StreamInv, StreamNext
  PROVE  StreamInv'
  <1>1. StreamTypeOK' /\ LeasesBounded'
    BY TypeStep, LeasesStep
  <1>2. \A q \in Callers : CallerState(q)' /\ RetryState(q)'
    BY CallerStateStep DEF CallerKept
  <1>3. \A q \in Callers : Waiter(q)'
    BY CallerWaiters, ConnWaiters DEF StreamNext
  <1>4. \A c \in Conns : Table(slots[c], tombs[c])' /\ ClosedEmpty(c)'
    BY TableStep DEF TableKept
  <1> QED
    BY <1>1, <1>2, <1>3, <1>4 DEF StreamInv

LEMMA StreamInvKept ==
  ASSUME StreamInv, UNCHANGED streamVars
  PROVE  StreamInv'
  <1> USE DEF streamVars, connVars, tableVars, taskVars, callVars
  <1>1. StreamTypeOK'
    BY DEF StreamInv, StreamTypeOK
  <1>2. ASSUME NEW q \in Callers PROVE CallerState(q)' /\ RetryState(q)'
    BY DEF StreamInv, CallerState, RetryState, Budget
  <1>3. ASSUME NEW q \in Callers PROVE Waiter(q)'
    <2>1. Waiter(q)
      BY Zenon DEF StreamInv
    <2>2. /\ slots' = slots /\ hand' = hand /\ failing' = failing
          /\ pc' = pc /\ lease' = lease /\ wid' = wid /\ inbox' = inbox
      BY Zenon
    <2>3. /\ \A c \in Conns : InHand(q, c)' = InHand(q, c) /\ InFail(q, c)' = InFail(q, c)
          /\ \A c \in Conns, i \in Ids : InSlot(q, c, i)' = InSlot(q, c, i)
      BY <2>2, Zenon DEF InHand, InFail, InSlot
    <2>4. Has(q)' = Has(q)
      BY <2>2, Zenon DEF Has, InHand, InFail, InSlot
    <2> QED
      BY <2>1, <2>2, <2>3, <2>4, Zenon DEF Waiter
  <1>4. LeasesBounded'
    BY Zenon DEF StreamInv, LeasesBounded, Leases
  <1>5. ASSUME NEW c \in Conns PROVE Table(slots[c], tombs[c])' /\ ClosedEmpty(c)'
    BY Zenon DEF StreamInv, ClosedEmpty
  <1> QED
    BY <1>1, <1>2, <1>3, <1>4, <1>5, Zenon DEF StreamInv

LEMMA StreamInvInit ==
  ASSUME StreamInit
  PROVE  StreamInv
  <1>1. StreamTypeOK
    <2>2. ConnTypes
      BY SlotKinds, StreamAssumption DEF StreamInit, ConnTypes
    <2>3. CallTypes /\ calls \in Nat
      BY DEF StreamInit, CallTypes, Pcs
    <2> QED
      BY <2>2, <2>3, TypeParts
  <1>2. \A q \in Callers : CallerState(q) /\ RetryState(q)
    BY DEF StreamInit, CallerState, RetryState, Budget, Unsent
  <1>3. \A q \in Callers : Waiter(q)
    <2>1. \A q \in Callers, c \in Conns : ~InHand(q, c) /\ ~InFail(q, c)
      BY DEF StreamInit, InHand, InFail
    <2>2. \A q \in Callers, c \in Conns, i \in Ids : ~InSlot(q, c, i)
      BY SlotKinds DEF StreamInit, InSlot
    <2>3. \A q \in Callers : pc[q] # "wait"
      BY DEF StreamInit
    <2> QED
      BY <2>1, <2>2, <2>3, Zenon DEF Waiter
  <1>4. LeasesBounded
    <2> SUFFICES ASSUME NEW c \in Conns PROVE Leases(c) <= MaxInFlight
      BY DEF LeasesBounded
    <2>1. {q \in Callers : lease[q] = c} = {}
      BY StreamAssumption DEF StreamInit
    <2> QED
      BY <2>1, FS_EmptySet, StreamAssumption DEF Leases
  <1>5. \A c \in Conns : Table(slots[c], tombs[c]) /\ ClosedEmpty(c)
    BY EmptyTable DEF StreamInit, ClosedEmpty
  <1> QED
    BY <1>1, <1>2, <1>3, <1>4, <1>5, Zenon DEF StreamInv

-----------------------------------------------------------------------------
(* What the invariant gives.                                                *)
LEMMA InvSentAtMostTwice == StreamInv => SentAtMostTwice
  <1> SUFFICES ASSUME StreamInv, NEW q \in Callers
               PROVE  tries[q] <= IF q \in Updates THEN 1 ELSE 2
    BY DEF SentAtMostTwice
  <1>1. RetryState(q) /\ tries[q] \in Nat /\ fresh[q] \in BOOLEAN
    BY DEF StreamInv, StreamTypeOK
  <1>2. tries[q] <= Budget(q) /\ (fresh[q] => q \notin Updates)
    BY <1>1, Zenon DEF RetryState
  <1>3. CASE fresh[q]
    BY <1>1, <1>2, <1>3 DEF Budget
  <1>4. CASE ~fresh[q]
    BY <1>1, <1>2, <1>4 DEF Budget
  <1> QED
    BY <1>3, <1>4, Zenon

LEMMA InvWaiterHeld == StreamInv => WaiterHeld
  <1> SUFFICES ASSUME StreamInv, NEW q \in Callers, pc[q] = "wait", inbox[q] = None
               PROVE  \/ ~closed[lease[q]] /\ slots[lease[q]][wid[q]] = Pending(q)
                      \/ hand[lease[q]] # None /\ hand[lease[q]].to = q
                      \/ failing[lease[q]] # None /\ q \in failing[lease[q]].to
    BY Zenon DEF WaiterHeld
  <1>1. StreamTypeOK /\ Waiter(q) /\ q # None
    BY StreamAssumption DEF StreamInv
  <1>2. PICK c \in Conns : InHand(q, c) \/ InFail(q, c) \/ \E i \in Ids : InSlot(q, c, i)
    BY <1>1, Zenon DEF Waiter, Has
  <1>3. CASE InHand(q, c) \/ InFail(q, c)
    BY <1>1, <1>3, Zenon DEF Waiter, InHand, InFail
  <1>4. CASE \E i \in Ids : InSlot(q, c, i)
    <2>1. PICK i \in Ids : InSlot(q, c, i)
      BY <1>4, Zenon
    <2>2. lease[q] = c /\ wid[q] = i /\ slots[c][i] = Pending(q)
      BY <1>1, <2>1, OwnSlot, Zenon DEF Waiter
    <2>3. ~closed[c]
      BY <1>1, <2>2, SlotKinds, Zenon DEF StreamInv, ClosedEmpty
    <2> QED
      BY <2>2, <2>3, Zenon
  <1> QED
    BY <1>2, <1>3, <1>4, Zenon

(* The pending slots of a connection belong to different leases on it, and  *)
(* the lease of a caller that is about to submit has none.                  *)
LEMMA InvSlotForEveryLease == StreamInv => SlotForEveryLease
  <1> SUFFICES ASSUME StreamInv, NEW q \in Callers, pc[q] = "submit"
               PROVE  Cardinality(PendingIds(lease[q])) < MaxInFlight
    BY DEF SlotForEveryLease
  <1>1. StreamTypeOK /\ \A x \in Callers : Waiter(x)
    BY DEF StreamInv
  <1>2. PICK c \in Conns : c = lease[q]
    BY <1>1, Zenon DEF StreamInv, CallerState, StreamTypeOK
  <1> DEFINE S == PendingIds(c)
             T == {x \in Callers : lease[x] = c}
             f == [i \in S |-> slots[c][i].caller]
  <1>3. ASSUME NEW i \in S PROVE i \in Ids /\ f[i] \in Callers /\ InSlot(f[i], c, i)
    <2>1. i \in Ids /\ slots[c][i] \in Slot /\ slots[c][i].caller # None
      BY <1>1 DEF PendingIds, StreamTypeOK
    <2>2. slots[c][i].caller \in Callers
      BY <2>1, SlotCases
    <2> QED
      BY <2>1, <2>2 DEF InSlot
  <1>4. \A i \in S : lease[f[i]] = c /\ wid[f[i]] = i /\ f[i] # q
    BY <1>1, <1>3, Zenon DEF Waiter
  <1>5. IsFiniteSet(T) /\ q \in T /\ Cardinality(T) <= MaxInFlight
    BY <1>2, FS_Subset, StreamAssumption DEF StreamInv, LeasesBounded, Leases
  <1>6. f \in [S -> T \ {q}] /\ \A i, j \in S : f[i] = f[j] => i = j
    <2>1. \A i \in S : f[i] \in T \ {q}
      BY <1>3, <1>4
    <2>2. \A i, j \in S : f[i] = f[j] => i = j
      BY <1>4
    <2> QED
      BY <2>1, <2>2
  <1> HIDE DEF S, T, f
  <1>7. f \in Injection(S, T \ {q})
    BY <1>6 DEF Injection, IsInjective
  <1>8. IsFiniteSet(T \ {q}) /\ Cardinality(T \ {q}) = Cardinality(T) - 1 /\ Cardinality(T) \in Nat
    BY <1>5, FS_RemoveElement, FS_CardinalityType
  <1>9. IsFiniteSet(S) /\ Cardinality(S) <= Cardinality(T \ {q})
    BY <1>7, <1>8, FS_Injection
  <1>10. Cardinality(S) \in Nat
    BY <1>9, FS_CardinalityType
  <1>11. Cardinality(S) < MaxInFlight
    BY <1>5, <1>8, <1>9, <1>10, StreamAssumption
  <1> QED
    BY <1>2, <1>11 DEF S

-----------------------------------------------------------------------------
(* The allowance for late answers.  How many copies of each frame a server  *)
(* has is a number; the copies themselves can be counted as a set.          *)
Copies(a) == UNION {{f} \X (1 .. a[f]) : f \in Frame}

LEMMA FramesFinite == IsFiniteSet(Frame)
  <1> DEFINE pair == [f \in Frame |-> <<f.id, f.q>>]
  <1>1. IsFiniteSet(Ids \X Callers)
    BY IdsFinite, StreamAssumption, FS_Product, Zenon
  <1>2. pair \in Injection(Frame, Ids \X Callers)
    <2>1. pair \in [Frame -> Ids \X Callers]
      BY DEF Frame
    <2>2. \A f, g \in Frame : pair[f] = pair[g] => f = g
      BY DEF Frame
    <2>3. DOMAIN pair = Frame
      OBVIOUS
    <2> HIDE DEF pair
    <2> QED
      BY <2>1, <2>2, <2>3, Zenon DEF Injection, IsInjective
  <1> QED
    BY <1>1, <1>2, FS_Injection, Zenon

LEMMA CopyIs ==
  ASSUME NEW a \in [Frame -> Nat]
  PROVE  \A x : x \in Copies(a) <=> \E f \in Frame : \E n \in 1 .. a[f] : x = <<f, n>>
  BY DEF Copies

LEMMA CopiesFinite ==
  ASSUME NEW a \in [Frame -> Nat]
  PROVE  IsFiniteSet(Copies(a)) /\ Cardinality(Copies(a)) \in Nat
  <1> DEFINE of == [f \in Frame |-> {f} \X (1 .. a[f])]
             All == {of[f] : f \in Frame}
  <1>1. IsFiniteSet(All)
    <2>1. of \in Surjection(Frame, All)
      <3>1. of \in [Frame -> All]
        BY Zenon
      <3>2. \A t \in All : \E s \in Frame : of[s] = t
        BY Zenon
      <3> HIDE DEF of, All
      <3> QED
        BY <3>1, <3>2, Zenon DEF Surjection
    <2> QED
      BY <2>1, FramesFinite, FS_Surjection, Zenon
  <1>2. \A t \in All : IsFiniteSet(t)
    <2> SUFFICES ASSUME NEW f \in Frame PROVE IsFiniteSet({f} \X (1 .. a[f]))
      BY Zenon
    <2>1. IsFiniteSet({f})
      BY FS_Singleton, Zenon
    <2>2. a[f] \in Int /\ 1 \in Int
      OBVIOUS
    <2>3. IsFiniteSet(1 .. a[f])
      BY <2>2, FS_Interval, Zenon
    <2> QED
      BY <2>1, <2>3, FS_Product, Zenon
  <1>3. IsFiniteSet(UNION All)
    BY <1>1, <1>2, FS_UNION, Zenon
  <1>4. UNION All = Copies(a)
    BY Zenon DEF Copies
  <1>5. IsFiniteSet(Copies(a))
    BY <1>3, <1>4, Zenon
  <1> QED
    BY <1>5, FS_CardinalityType, Zenon

LEMMA OneMoreCopy ==
  ASSUME NEW a \in [Frame -> Nat], NEW b \in [Frame -> Nat], NEW f \in Frame,
         b = [a EXCEPT ![f] = @ + 1]
  PROVE  Cardinality(Copies(b)) = Cardinality(Copies(a)) + 1
  <1> DEFINE new == <<f, a[f] + 1>>
  <1>1. new \notin Copies(a)
    <2>1. ~(a[f] + 1 \in 1 .. a[f])
      OBVIOUS
    <2> QED
      BY <2>1, CopyIs
  <1>2. Copies(b) = Copies(a) \cup {new}
    <2>1. \A n : n \in 1 .. a[f] + 1 <=> n \in 1 .. a[f] \/ n = a[f] + 1
      OBVIOUS
    <2>2. b[f] = a[f] + 1 /\ \A g \in Frame \ {f} : b[g] = a[g]
      OBVIOUS
    <2>3. ASSUME NEW x \in Copies(b) PROVE x \in Copies(a) \cup {new}
      <3>0. PICK g \in Frame : \E n \in 1 .. b[g] : x = <<g, n>>
        BY <2>3, CopyIs, Zenon
      <3>1. PICK n \in 1 .. b[g] : x = <<g, n>>
        BY <3>0
      <3>2. CASE g = f
        BY <2>1, <2>2, <3>1, <3>2, CopyIs
      <3>3. CASE g # f
        BY <2>2, <3>1, <3>3, CopyIs
      <3> QED
        BY <3>2, <3>3
    <2>4. ASSUME NEW x \in Copies(a) PROVE x \in Copies(b)
      <3>0. PICK g \in Frame : \E n \in 1 .. a[g] : x = <<g, n>>
        BY <2>4, CopyIs
      <3>1. PICK n \in 1 .. a[g] : x = <<g, n>>
        BY <3>0
      <3>2. n \in 1 .. b[g]
        BY <2>1, <2>2, <3>1
      <3> QED
        BY <3>1, <3>2, CopyIs, Zenon
    <2>5. new \in Copies(b)
      <3>1. a[f] + 1 \in 1 .. b[f]
        BY <2>2
      <3> QED
        BY <3>1, CopyIs, Zenon
    <2> QED
      BY <2>3, <2>4, <2>5, Zenon
  <1> HIDE DEF new
  <1> QED
    BY <1>1, <1>2, CopiesFinite, FS_AddElement, Zenon

LEMMA OneCopyLess ==
  ASSUME NEW a \in [Frame -> Nat], NEW b \in [Frame -> Nat], NEW f \in Frame, a[f] > 0,
         b = [a EXCEPT ![f] = @ - 1]
  PROVE  Cardinality(Copies(b)) = Cardinality(Copies(a)) - 1
  <1>1. a = [b EXCEPT ![f] = @ + 1]
    <2>1. DOMAIN a = Frame /\ DOMAIN b = Frame
      OBVIOUS
    <2>2. b[f] = a[f] - 1 /\ \A g \in Frame \ {f} : b[g] = a[g]
      OBVIOUS
    <2>3. \A g \in Frame : [b EXCEPT ![f] = @ + 1][g] = a[g]
      BY <2>2
    <2> QED
      BY <2>1, <2>3, Zenon
  <1>2. Cardinality(Copies(a)) = Cardinality(Copies(b)) + 1
    BY <1>1, OneMoreCopy
  <1>3. Cardinality(Copies(b)) \in Nat
    BY CopiesFinite, Zenon
  <1> QED
    BY <1>2, <1>3

(* Every pending query of a connection is among the frames its server has   *)
(* or will get, because its answer, or any other with its id, frees its     *)
(* slot.                                                                    *)
PendingAsked(c) ==
    \A i \in PendingIds(c) : Asked(c)[[id |-> i, q |-> slots[c][i].caller]] > 0

StormInv == \A c \in Honest : ~closed[c] => PendingAsked(c)

(* What is asked of a server.                                               *)
LEMMA AskedIs ==
  ASSUME StreamTypeOK, NEW c \in Conns
  PROVE  /\ Asked(c) \in [Frame -> Nat] /\ Owed(c) = Copies(Asked(c))
         /\ served[c] \in [Frame -> Nat] /\ frames[c] \in Seq(Frame)
  <1>1. served \in [Conns -> [Frame -> Nat]] /\ frames[c] \in Seq(Frame)
    BY DEF StreamTypeOK
  <1>2. Asked(c) \in [Frame -> Nat]
    BY <1>1, AskedTyped
  <1>3. Owed(c) = Copies(Asked(c))
    BY Zenon DEF Owed, Copies
  <1> QED
    BY <1>1, <1>2, <1>3

LEMMA AskedSame ==
  ASSUME NEW c, served'[c] = served[c], frames'[c] = frames[c]
  PROVE  Asked(c)' = Asked(c)
  BY Zenon DEF Asked

(* The writer moves frames, and takes none away.                            *)
LEMMA AskedWritten ==
  ASSUME StreamTypeOK, NEW c \in Conns, Written(c)
  PROVE  \A d \in Conns : Asked(d)' = Asked(d)
  <1>1. /\ served' = [served EXCEPT ![c] = Asked(c)] /\ frames' = [frames EXCEPT ![c] = <<>>]
        /\ served \in [Conns -> [Frame -> Nat]] /\ frames \in [Conns -> Seq(Frame)]
    BY Zenon DEF Written, StreamTypeOK
  <1>2. ASSUME NEW d \in Conns, d # c PROVE Asked(d)' = Asked(d)
    BY <1>1, <1>2, AskedSame, Zenon
  <1>3. Asked(c)' = Asked(c)
    <2>1. served'[c] = Asked(c) /\ frames'[c] = <<>>
      BY <1>1, Zenon
    <2>2. ASSUME NEW f \in Frame
          PROVE  served'[c][f] + Cardinality({i \in DOMAIN frames'[c] : frames'[c][i] = f}) = Asked(c)[f]
      <3>1. {i \in DOMAIN frames'[c] : frames'[c][i] = f} = {}
        BY <2>1
      <3>2. Cardinality({i \in DOMAIN frames'[c] : frames'[c][i] = f}) = 0
        BY <3>1, FS_EmptySet, Zenon
      <3>3. Asked(c)[f] \in Nat
        BY AskedIs
      <3> QED
        BY <2>1, <3>2, <3>3
    <2>3. Asked(c)' = [f \in Frame |-> Asked(c)[f]]
      BY <2>2, Zenon DEF Asked
    <2>4. Asked(c) \in [Frame -> Nat]
      BY AskedIs
    <2> QED
      BY <2>3, <2>4
  <1> QED
    BY <1>2, <1>3

(* A queued frame is one more copy, an answered one is one less.            *)
LEMMA AskedQueued ==
  ASSUME StreamTypeOK, NEW c \in Conns, NEW f \in Frame,
         served'[c] = served[c], frames'[c] = Append(frames[c], f)
  PROVE  Asked(c)' = [Asked(c) EXCEPT ![f] = @ + 1]
  <1>t. served[c] \in [Frame -> Nat] /\ frames[c] \in Seq(Frame) /\ Asked(c) \in [Frame -> Nat]
    BY AskedIs
  <1> DEFINE w == frames[c]
             At(v, g) == {i \in DOMAIN v : v[i] = g}
             N == Len(w)
  <1>1. /\ N \in Nat /\ DOMAIN w = 1 .. N /\ DOMAIN Append(w, f) = 1 .. N + 1
        /\ \A i \in 1 .. N : Append(w, f)[i] = w[i]
        /\ Append(w, f)[N + 1] = f
    BY <1>t
  <1>2. ASSUME NEW g \in Frame
        PROVE  Cardinality(At(Append(w, f), g)) = Cardinality(At(w, g)) + (IF g = f THEN 1 ELSE 0)
    <2>1. IsFiniteSet(At(w, g))
      <3>1. IsFiniteSet(1 .. N)
        BY <1>1, FS_Interval
      <3>2. At(w, g) \in SUBSET (1 .. N)
        BY <1>1
      <3> HIDE DEF At
      <3> QED
        BY <3>1, <3>2, FS_Subset, Zenon
    <2>2. CASE g = f
      <3>1. At(Append(w, f), g) = At(w, g) \cup {N + 1}
        BY <1>1, <2>2
      <3>2. ~(N + 1 \in At(w, g))
        BY <1>1
      <3> HIDE DEF At, N
      <3> QED
        BY <2>1, <2>2, <3>1, <3>2, FS_AddElement, Zenon
    <2>3. CASE g # f
      <3>1. At(Append(w, f), g) = At(w, g)
        BY <1>1, <2>3
      <3>2. Cardinality(At(w, g)) \in Nat
        BY <2>1, FS_CardinalityType, Zenon
      <3> HIDE DEF At
      <3> QED
        BY <2>3, <3>1, <3>2
    <2> QED
      BY <2>2, <2>3, Zenon
  <1>3. ASSUME NEW g \in Frame
        PROVE  Asked(c)'[g] = IF g = f THEN Asked(c)[g] + 1 ELSE Asked(c)[g]
    <2>1. /\ Asked(c)'[g] = served[c][g] + Cardinality(At(Append(w, f), g))
          /\ Asked(c)[g] = served[c][g] + Cardinality(At(w, g))
      BY Zenon DEF Asked
    <2>2. Asked(c)[g] \in Nat /\ served[c][g] \in Nat
      BY <1>t
    <2>3. Cardinality(At(w, g)) \in Nat
      <3>1. IsFiniteSet(1 .. N)
        BY <1>1, FS_Interval
      <3>2. At(w, g) \in SUBSET (1 .. N)
        BY <1>1
      <3> HIDE DEF At
      <3> QED
        BY <3>1, <3>2, FS_Subset, FS_CardinalityType, Zenon
    <2> DEFINE old == Asked(c)[g]
               new == Asked(c)'[g]
               m == Cardinality(At(w, g))
               k == served[c][g]
    <2>4. new = k + (m + (IF g = f THEN 1 ELSE 0)) /\ old = k + m
      BY <1>2, <2>1, Zenon
    <2>5. k \in Nat /\ m \in Nat
      BY <2>2, <2>3, Zenon
    <2> HIDE DEF old, new, m, k
    <2>6. new = IF g = f THEN old + 1 ELSE old
      BY <2>4, <2>5
    <2> QED
      BY <2>6, Zenon DEF old, new
  <1>4. Asked(c)' = [g \in Frame |-> Asked(c)'[g]]
    BY Zenon DEF Asked
  <1> QED
    BY <1>t, <1>3, <1>4, Zenon

LEMMA AskedAnswered ==
  ASSUME StreamTypeOK, NEW c \in Conns, NEW f \in Frame, served[c][f] > 0,
         served'[c] = [served[c] EXCEPT ![f] = @ - 1], frames'[c] = frames[c]
  PROVE  Asked(c)' = [Asked(c) EXCEPT ![f] = @ - 1] /\ Asked(c)[f] > 0
  <1>t. served[c] \in [Frame -> Nat] /\ frames[c] \in Seq(Frame) /\ Asked(c) \in [Frame -> Nat]
    BY AskedIs
  <1> DEFINE n(g) == Cardinality({i \in DOMAIN frames[c] : frames[c][i] = g})
  <1>1. ASSUME NEW g \in Frame
        PROVE  /\ Asked(c)'[g] = served'[c][g] + n(g) /\ Asked(c)[g] = served[c][g] + n(g)
               /\ n(g) \in Nat
    <2>1. Asked(c)'[g] = served'[c][g] + n(g) /\ Asked(c)[g] = served[c][g] + n(g)
      BY Zenon DEF Asked
    <2>2. n(g) \in Nat
      <3> DEFINE At == {i \in DOMAIN frames[c] : frames[c][i] = g}
      <3>1. DOMAIN frames[c] = 1 .. Len(frames[c]) /\ Len(frames[c]) \in Nat
        BY <1>t, SMTT(30)
      <3>2. IsFiniteSet(1 .. Len(frames[c]))
        BY <3>1, FS_Interval
      <3>3. At \in SUBSET (1 .. Len(frames[c]))
        BY <3>1, Zenon
      <3>4. IsFiniteSet(At)
        BY <3>2, <3>3, FS_Subset, Zenon
      <3> QED
        BY <3>4, FS_CardinalityType, Zenon
    <2> QED
      BY <2>1, <2>2, Zenon
  <1> HIDE DEF n
  <1>2. ASSUME NEW g \in Frame
        PROVE  Asked(c)'[g] = IF g = f THEN Asked(c)[g] - 1 ELSE Asked(c)[g]
    <2> DEFINE old == Asked(c)[g]
               new == Asked(c)'[g]
               m == n(g)
               k == served[c][g]
    <2>1. served'[c][g] = IF g = f THEN k - 1 ELSE k
      BY <1>t
    <2>2. new = served'[c][g] + m /\ old = k + m
      BY <1>1, Zenon
    <2>3. k \in Nat /\ m \in Nat
      BY <1>t, <1>1, Zenon
    <2> HIDE DEF old, new, m, k
    <2>4. new = IF g = f THEN old - 1 ELSE old
      BY <2>1, <2>2, <2>3
    <2> QED
      BY <2>4, Zenon DEF old, new
  <1>3. Asked(c)' = [g \in Frame |-> Asked(c)'[g]]
    BY Zenon DEF Asked
  <1>4. Asked(c)[f] > 0
    BY <1>t, <1>1
  <1> QED
    BY <1>t, <1>2, <1>3, <1>4, Zenon

-----------------------------------------------------------------------------
(* What a step does to the account of an open connection: nothing, a frame  *)
(* is queued, an answer is read, or a pending query is cancelled.           *)
Undisturbed(c) ==
    /\ Asked(c)' = Asked(c) /\ Kept(slots[c], slots'[c]) /\ slack'[c] = slack[c]
    /\ slots'[c] = slots[c] \/ Submits(c)

TakesFrame(c, q) ==
    /\ Submits(c) /\ slack'[c] = slack[c]
    /\ \E id \in Ids, room \in [Ids -> Slot] :
        /\ Kept(slots[c], room) /\ room[id] = Free
        /\ slots'[c] = [room EXCEPT ![id] = Pending(q)]
        /\ Asked(c)' = [Asked(c) EXCEPT ![[id |-> id, q |-> q]] = @ + 1]

TakesAnswer(c, f) ==
    /\ Asked(c)[f] > 0 /\ Asked(c)' = [Asked(c) EXCEPT ![f] = @ - 1]
    /\ slots'[c] = [slots[c] EXCEPT ![f.id] = Free]
    /\ slack'[c] >= slack[c] - (IF slots[c][f.id] = Free THEN 1 ELSE 0)

Cancels(c, q) ==
    /\ wid[q] \in Ids /\ slots[c][wid[q]] = Pending(q)
    /\ slots'[c] = [slots[c] EXCEPT ![wid[q]] = Orphan]
    /\ slack'[c] = IF slack[c] < SlackCap THEN slack[c] + 1 ELSE slack[c]
    /\ Asked(c)' = Asked(c)

LEMMA FailElsewhere ==
  ASSUME StreamTypeOK, NEW d \in Conns, NEW level, Fail(d, level), NEW c \in Conns, ~closed'[c]
  PROVE  /\ ~closed[c] /\ c # d /\ slots'[c] = slots[c] /\ slack'[c] = slack[c]
         /\ frames'[c] = frames[c] /\ served'[c] = served[c]
  <1>t. /\ closed \in [Conns -> BOOLEAN] /\ slots \in [Conns -> [Ids -> Slot]]
        /\ slack \in [Conns -> Nat] /\ frames \in [Conns -> Seq(Frame)]
        /\ served \in [Conns -> [Frame -> Nat]]
    BY Zenon DEF StreamTypeOK
  <1>1. CASE closed[d]
    <2>1. closed' = closed /\ slots' = slots /\ slack' = slack /\ frames' = frames /\ served' = served
      BY <1>1, Zenon DEF Fail, tableVars
    <2> QED
      BY <1>1, <2>1
  <1>2. CASE ~closed[d]
    <2>1. /\ closed' = [closed EXCEPT ![d] = TRUE]
          /\ slots' = [slots EXCEPT ![d] = [i \in Ids |-> Free]]
          /\ slack' = [slack EXCEPT ![d] = Limit]
          /\ frames' = [frames EXCEPT ![d] = <<>>]
          /\ served' = [served EXCEPT ![d] = [f \in Frame |-> 0]]
      BY <1>2, Zenon DEF Fail
    <2>2. c # d
      BY <2>1, <1>t
    <2> QED
      BY <2>1, <2>2, <1>t
  <1> QED
    BY <1>1, <1>2, Zenon

LEMMA KeptItself ==
  ASSUME NEW s \in [Ids -> Slot] PROVE Kept(s, s)
  BY Zenon DEF Kept

LEMMA LeftAlone ==
  ASSUME StreamTypeOK, NEW c \in Conns, slots'[c] = slots[c], slack'[c] = slack[c],
         frames'[c] = frames[c], served'[c] = served[c]
  PROVE  Undisturbed(c)
  <1>1. slots[c] \in [Ids -> Slot]
    BY DEF StreamTypeOK
  <1> QED
    BY <1>1, KeptItself, AskedSame, Zenon DEF Undisturbed

LEMMA CallerSends ==
  ASSUME StreamInv, NEW q \in Callers, CallerStep(q), NEW c \in Conns, ~closed'[c]
  PROVE  ~closed[c] /\ (Undisturbed(c) \/ TakesFrame(c, q) \/ Cancels(c, q))
  <1>t. StreamTypeOK /\ CallerState(q)
    BY DEF StreamInv
  <1>l. lease[q] # None => lease[q] \in Conns
    BY <1>t DEF StreamTypeOK
  <1>1. CASE Call(q) \/ Acquire(q) \/ AcquireFails(q) \/ SubmitClosed(q) \/ Receive(q)
             \/ GiveUp(q) \/ Release(q)
    <2>1. closed' = closed /\ slots' = slots /\ slack' = slack /\ frames' = frames /\ served' = served
      BY <1>1, Zenon DEF Call, Acquire, AcquireFails, SubmitClosed, Receive, GiveUp, Release,
         connVars, tableVars, taskVars
    <2> QED
      BY <2>1, <1>t, LeftAlone, Zenon
  <1>2. CASE Submit(q)
    <2> DEFINE d == lease[q]
    <2>1. /\ d \in Conns /\ pc[q] = "submit"
          /\ \A e \in Conns : e # d => slots'[e] = slots[e]
          /\ Refused(q) \/ NoRoom(q) \/ Queued(q)
          /\ closed' = closed /\ slack' = slack /\ served' = served
      BY <1>2, Submitted, Zenon
    <2>2. CASE Refused(q) \/ NoRoom(q)
      <3>1. /\ frames' = frames /\ Kept(slots[d], slots'[d])
            /\ \E x \in {"acquire", "idle", "full"} : pc' = [pc EXCEPT ![q] = x]
        BY <2>2, Zenon DEF Refused, NoRoom, ConnectionFailed, Return
      <3>2. CASE c = d
        <4>1. pc \in [Callers -> Pcs]
          BY <1>t DEF StreamTypeOK
        <4>2. pc'[q] # "submit"
          BY <3>1, <4>1
        <4>3. Submits(c)
          BY <2>1, <3>2, <4>2, Zenon DEF Submits
        <4> QED
          BY <2>1, <3>1, <3>2, <4>3, AskedSame, Zenon DEF Undisturbed
      <3>3. CASE c # d
        BY <2>1, <3>1, <3>3, <1>t, LeftAlone, Zenon
      <3> QED
        BY <2>1, <3>2, <3>3, Zenon
    <2>3. CASE Queued(q)
      <3>1. PICK id \in Ids, room \in [Ids -> Slot] :
                /\ Kept(slots[d], room) /\ room[id] = Free
                /\ slots'[d] = [room EXCEPT ![id] = Pending(q)]
                /\ frames' = [frames EXCEPT ![d] = Append(@, [id |-> id, q |-> q])]
                /\ pc' = [pc EXCEPT ![q] = "wait"] /\ lease' = lease
        BY <2>3, Zenon DEF Queued
      <3>2. frames \in [Conns -> Seq(Frame)] /\ pc \in [Callers -> Pcs]
        BY <1>t DEF StreamTypeOK
      <3>3. CASE c = d
        <4>1. frames'[c] = Append(frames[c], [id |-> id, q |-> q]) /\ pc'[q] = "wait"
          BY <3>1, <3>2, <3>3, Zenon
        <4>2. [id |-> id, q |-> q] \in Frame
          BY DEF Frame
        <4>3. Asked(c)' = [Asked(c) EXCEPT ![[id |-> id, q |-> q]] = @ + 1]
          BY <2>1, <4>1, <4>2, <1>t, AskedQueued, Zenon
        <4>4. Submits(c)
          BY <2>1, <3>3, <4>1, Zenon DEF Submits
        <4> QED
          BY <2>1, <3>1, <3>3, <4>3, <4>4, Zenon DEF TakesFrame
      <3>4. CASE c # d
        <4>1. frames'[c] = frames[c]
          BY <3>1, <3>2, <3>4, Zenon
        <4> QED
          BY <2>1, <3>4, <4>1, <1>t, LeftAlone, Zenon
      <3> QED
        BY <3>3, <3>4
    <2> QED
      BY <2>1, <2>2, <2>3, Zenon
  <1>3. CASE SubmitFull(q)
    <2>1. Fail(lease[q], TRUE) /\ pc[q] = "full"
      BY <1>3, Zenon DEF SubmitFull
    <2>2. lease[q] \in Conns
      BY <2>1, <1>t, <1>l DEF CallerState
    <2> QED
      BY <2>1, <2>2, <1>t, FailElsewhere, LeftAlone, Zenon
  <1>4. CASE DropGuard(q)
    <2>1. closed' = closed /\ frames' = frames /\ served' = served /\ pc[q] = "drop"
      BY <1>4, Zenon DEF DropGuard, taskVars
    <2>2. lease[q] \in Conns /\ wid[q] \in Ids
      BY <2>1, <1>t, <1>l DEF CallerState, StreamTypeOK
    <2>3. CASE Owns(q)
      <3>1. /\ slots' = [slots EXCEPT ![lease[q]][wid[q]] = Orphan]
            /\ slack' = [slack EXCEPT ![lease[q]] = IF @ < SlackCap THEN @ + 1 ELSE @]
        BY <1>4, <2>3, Zenon DEF DropGuard
      <3>2. slots \in [Conns -> [Ids -> Slot]] /\ slack \in [Conns -> Nat]
        BY <1>t DEF StreamTypeOK
      <3>3. CASE c = lease[q]
        <4>1. /\ slots'[c] = [slots[c] EXCEPT ![wid[q]] = Orphan]
              /\ slack'[c] = IF slack[c] < SlackCap THEN slack[c] + 1 ELSE slack[c]
          BY <3>1, <3>2, <3>3, Zenon
        <4>2. slots[c][wid[q]] = Pending(q)
          BY <2>3, <3>3, Zenon DEF Owns
        <4> QED
          BY <2>1, <2>2, <4>1, <4>2, AskedSame, Zenon DEF Cancels
      <3>4. CASE c # lease[q]
        <4>1. slots'[c] = slots[c] /\ slack'[c] = slack[c]
          BY <3>1, <3>2, <3>4, Zenon
        <4> QED
          BY <2>1, <4>1, <1>t, LeftAlone, Zenon
      <3> QED
        BY <3>3, <3>4, Zenon
    <2>4. CASE ~Owns(q)
      <3>1. slots' = slots /\ slack' = slack
        BY <1>4, <2>4, Zenon DEF DropGuard
      <3> QED
        BY <2>1, <3>1, <1>t, LeftAlone, Zenon
    <2> QED
      BY <2>3, <2>4
  <1> QED
    BY <1>1, <1>2, <1>3, <1>4, Zenon DEF CallerStep

LEMMA TakeCharges ==
  ASSUME StreamInv, NEW c \in Conns, NEW id \in Ids, NEW asks \in Callers \cup {None},
         Take(c, id, asks)
  PROVE  /\ slots' = [slots EXCEPT ![c][id] = Free]
         /\ slack'[c] >= slack[c] - (IF slots[c][id] = Free THEN 1 ELSE 0)
         /\ \A d \in Conns \ {c} : slack'[d] = slack[d]
  <1>t. slack \in [Conns -> Nat] /\ slots \in [Conns -> [Ids -> Slot]] /\ Limit \in Nat
    BY StreamAssumption, Zenon DEF StreamInv, StreamTypeOK
  <1> DEFINE slot == slots[c][id]
  <1>1. slots' = [slots EXCEPT ![c][id] = Free]
    BY Zenon DEF Take
  <1>2. CASE slot.caller # None /\ slack' = [slack EXCEPT ![c] = IF @ < Limit THEN Limit ELSE @]
    <2>1. slot # Free
      BY <1>2, SlotKinds, Zenon
    <2>2. slack'[c] >= slack[c] /\ \A d \in Conns \ {c} : slack'[d] = slack[d]
      BY <1>2, <1>t
    <2> QED
      BY <1>1, <2>1, <2>2, <1>t
  <1>3. CASE slack' = slack
    BY <1>1, <1>3, <1>t
  <1>4. CASE slot = Free /\ slack[c] > 0 /\ slack' = [slack EXCEPT ![c] = @ - 1]
    <2>1. slack'[c] = slack[c] - 1 /\ \A d \in Conns \ {c} : slack'[d] = slack[d]
      BY <1>4, <1>t
    <2> QED
      BY <1>1, <1>4, <2>1, <1>t
  <1> QED
    BY <1>2, <1>3, <1>4, Zenon DEF Take

LEMMA ConnReads ==
  ASSUME StreamInv, NEW d \in Conns, ConnStep(d), NEW c \in Honest, ~closed'[c]
  PROVE  ~closed[c] /\ (Undisturbed(c) \/ \E f \in Frame : TakesAnswer(c, f))
  <1>t. StreamTypeOK /\ c \in Conns
    BY StreamAssumption DEF StreamInv
  <1>1. CASE Notify(d)
    <2>1. closed' = closed /\ slots' = slots /\ slack' = slack /\ frames' = frames /\ served' = served
      BY <1>1, Zenon DEF Notify, tableVars, taskVars
    <2> QED
      BY <2>1, <1>t, LeftAlone, Zenon
  <1>2. CASE Written(d)
    <2>1. closed' = closed /\ slots' = slots /\ slack' = slack
      BY <1>2, Zenon DEF Written, tableVars, callVars
    <2>2. slots[c] \in [Ids -> Slot]
      BY <1>t DEF StreamTypeOK
    <2>3. Asked(c)' = Asked(c)
      BY <1>2, <1>t, AskedWritten, Zenon
    <2> QED
      BY <2>1, <2>2, <2>3, KeptItself, Zenon DEF Undisturbed
  <1>3. CASE WriteFails(d) \/ ReadFails(d) \/ Retire(d)
    <2>1. \E level : Fail(d, level)
      BY <1>3, Zenon DEF WriteFails, ReadFails, Retire, callVars
    <2> QED
      BY <2>1, <1>t, FailElsewhere, LeftAlone, Zenon
  <1>4. CASE Deliver(d)
    <2>1. \/ Fail(d, TRUE)
          \/ closed' = closed /\ slots' = slots /\ slack' = slack /\ frames' = frames /\ served' = served
      BY <1>4, Zenon DEF Deliver, tableVars
    <2> QED
      BY <2>1, <1>t, FailElsewhere, LeftAlone, Zenon
  <1>5. CASE Dispatch(d)
    <2>1. closed' = closed /\ frames' = frames
      BY <1>5, Zenon DEF Dispatch, callVars
    <2>s. served \in [Conns -> [Frame -> Nat]] /\ slots \in [Conns -> [Ids -> Slot]]
      BY <1>t DEF StreamTypeOK
    <2>2. CASE c = d
      <3>1. PICK f \in Frame : /\ served[c][f] > 0 /\ Take(c, f.id, f.q)
                               /\ served' = [served EXCEPT ![c][f] = @ - 1]
        BY <1>5, <2>2, Zenon DEF Dispatch
      <3>2. f.id \in Ids /\ f.q \in Callers \cup {None}
        BY DEF Frame
      <3>3. /\ slots' = [slots EXCEPT ![c][f.id] = Free]
            /\ slack'[c] >= slack[c] - (IF slots[c][f.id] = Free THEN 1 ELSE 0)
        BY <3>1, <3>2, <1>t, TakeCharges, Zenon
      <3>4. slots'[c] = [slots[c] EXCEPT ![f.id] = Free]
        BY <3>3, <2>s, <1>t, Zenon
      <3>5. served'[c] = [served[c] EXCEPT ![f] = @ - 1] /\ frames'[c] = frames[c]
        BY <3>1, <2>1, <2>s, <1>t, Zenon
      <3>6. Asked(c)' = [Asked(c) EXCEPT ![f] = @ - 1] /\ Asked(c)[f] > 0
        BY <3>1, <3>5, <1>t, AskedAnswered, Zenon
      <3> QED
        BY <2>1, <3>3, <3>4, <3>6, Zenon DEF TakesAnswer
    <2>3. CASE c # d
      <3>1. PICK id \in Ids, asks \in Callers \cup {None} : Take(d, id, asks)
        <4>1. \A f \in Frame : f.id \in Ids /\ f.q \in Callers \cup {None}
          BY DEF Frame
        <4> QED
          BY <1>5, <4>1, Zenon DEF Dispatch
      <3>2. slots' = [slots EXCEPT ![d][id] = Free] /\ slack'[c] = slack[c]
        BY <2>3, <3>1, <1>t, TakeCharges, Zenon
      <3>3. slots'[c] = slots[c]
        BY <2>3, <3>2, <2>s, <1>t, Zenon
      <3>4. served'[c] = served[c]
        BY <1>5, <2>3, <2>s, <1>t, Zenon DEF Dispatch
      <3> QED
        BY <2>1, <3>2, <3>3, <3>4, <1>t, LeftAlone, Zenon
    <2> QED
      BY <2>2, <2>3
  <1> QED
    BY <1>1, <1>2, <1>3, <1>4, <1>5, Zenon DEF ConnStep

-----------------------------------------------------------------------------
(* A connection once closed stays closed.                                   *)
LEMMA FailCloses ==
  ASSUME StreamTypeOK, NEW d \in Conns, NEW level, Fail(d, level)
  PROVE  closed'[d] /\ \A c \in Conns : closed[c] => closed'[c]
  <1>1. closed \in [Conns -> BOOLEAN]
    BY DEF StreamTypeOK
  <1>2. \A c \in Conns : closed[c] => closed'[c]
    BY FailElsewhere, Zenon
  <1>3. closed'[d]
    BY FailElsewhere, Zenon
  <1> QED
    BY <1>2, <1>3

(* Closing is for good.                                                     *)
LEMMA StaysClosed ==
  ASSUME StreamInv, StreamNext, NEW c \in Conns, closed[c]
  PROVE  closed'[c]
  <1>t. StreamTypeOK
    BY DEF StreamInv
  <1>1. CASE \E q \in Callers : CallerStep(q)
    BY <1>1, CallerSends, Zenon
  <1>2. ASSUME NEW d \in Conns, ConnStep(d) PROVE closed'[c]
    <2>1. closed' = closed \/ \E level : Fail(d, level)
      BY <1>2, Zenon DEF ConnStep, Notify, Written, WriteFails, ReadFails, Dispatch, Deliver, Retire
    <2> QED
      BY <2>1, <1>t, FailCloses, Zenon
  <1> QED
    BY <1>1, <1>2 DEF StreamNext
=============================================================================
