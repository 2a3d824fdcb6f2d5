---------------------------- MODULE CommonFacts -----------------------------
(* Facts about numbers, finite sets and sequences that the proofs about the *)
(* components share.                                                        *)
EXTENDS Integers, Sequences, FiniteSetTheorems, TLAPS

(* A set of naturals that is not empty has a least element.                 *)
LEMMA Least ==
  ASSUME NEW S \in SUBSET Nat, S # {}
  PROVE  \E m \in S : \A k \in S : m <= k
  <1>1. PICK m \in S : \A k \in S : <<k, m>> \notin OpToRel(<, Nat)
    BY WFMin, NatLessThanWellFounded, Zenon
  <1>2. ASSUME NEW k \in S, k < m PROVE FALSE
    <2>1. k \in Nat /\ m \in Nat
      OBVIOUS
    <2>2. <<k, m>>[1] < <<k, m>>[2]
      BY <1>2
    <2>3. <<k, m>> \in Nat \X Nat
      BY <2>1
    <2> QED
      BY <1>1, <2>2, <2>3, Zenon DEF OpToRel
  <1> QED
    BY <1>2

(* Induction up to a bound, and the definition of a function by it.         *)
LEMMA Stepwise ==
  ASSUME NEW N \in Nat, NEW S, 0 \in S, \A n \in 1 .. N : n - 1 \in S => n \in S
  PROVE  0 .. N \subseteq S
  <1> DEFINE Missing == (0 .. N) \ S
  <1>1. SUFFICES ASSUME Missing # {} PROVE FALSE
    OBVIOUS
  <1>2. PICK m \in Missing : \A k \in Missing : m <= k
    <2>1. Missing \in SUBSET Nat
      OBVIOUS
    <2> HIDE DEF Missing
    <2> QED
      BY <1>1, <2>1, Least
  <1>3. m \in 1 .. N /\ m - 1 \in 0 .. N
    BY <1>2
  <1>4. m - 1 \in S
    BY <1>2, <1>3
  <1> QED
    BY <1>2, <1>3, <1>4

Iterated(g, N, V, v, step) ==
    /\ g \in [0 .. N -> V]
    /\ g[0] = v
    /\ \A n \in 1 .. N : g[n] = step[n][g[n - 1]]

LEMMA Iterates ==
  ASSUME NEW N \in Nat, NEW V, NEW v \in V, NEW step \in [1 .. N -> [V -> V]]
  PROVE  \E g : Iterated(g, N, V, v, step)
  <1> DEFINE Upto(g, m) == /\ g \in [0 .. m -> V] /\ g[0] = v
                           /\ \A n \in 1 .. m : g[n] = step[n][g[n - 1]]
             S == {m \in 0 .. N : \E g : Upto(g, m)}
  <1>1. 0 \in S
    <2>1. Upto([i \in 0 .. 0 |-> v], 0)
      OBVIOUS
    <2> HIDE DEF Upto
    <2> QED
      BY <2>1
  <1>2. ASSUME NEW m \in 1 .. N, m - 1 \in S PROVE m \in S
    <2>1. PICK g : Upto(g, m - 1)
      BY <1>2
    <2> DEFINE f == [i \in 0 .. m |-> IF i < m THEN g[i] ELSE step[m][g[m - 1]]]
    <2>2. f \in [0 .. m -> V] /\ f[0] = v
      BY <2>1
    <2>3. ASSUME NEW n \in 1 .. m PROVE f[n] = step[n][f[n - 1]]
      BY <2>1
    <2>4. Upto(f, m)
      BY <2>2, <2>3
    <2> HIDE DEF f, Upto
    <2> QED
      BY <2>4
  <1>3. N \in S
    <2> HIDE DEF S
    <2>1. 0 .. N \subseteq S
      BY <1>1, <1>2, Stepwise
    <2> QED
      BY <2>1
  <1> QED
    BY <1>3 DEF Iterated

(* One step of a cyclic count is an addition or wraps once.                 *)
LEMMA Wraps ==
  ASSUME NEW n \in Nat \ {0}, NEW a \in 0 .. n - 1, NEW b \in 0 .. n - 1
  PROVE  (a + b) % n = IF a + b < n THEN a + b ELSE a + b - n
  OBVIOUS

(* A cyclic search that starts anywhere reaches every number below n.       *)
LEMMA Cyclic ==
  ASSUME NEW n \in Nat \ {0}, NEW a \in 0 .. n - 1, NEW i \in 0 .. n - 1
  PROVE  \E k \in 0 .. n - 1 : (a + k) % n = i
  <1>1. CASE a <= i
    <2>1. i - a \in 0 .. n - 1 /\ (a + (i - a)) % n = i
      BY <1>1, Wraps
    <2> QED
      BY <2>1
  <1>2. CASE i < a
    <2>1. i + n - a \in 0 .. n - 1 /\ (a + (i + n - a)) % n = i
      BY <1>2, Wraps
    <2> QED
      BY <2>1
  <1> QED
    BY <1>1, <1>2

(* If m members of T belong to each member of S, there are at least         *)
(* Cardinality(S) * m of them.                                              *)
LEMMA Shares ==
  ASSUME NEW S, NEW T, IsFiniteSet(S), IsFiniteSet(T), NEW m \in Nat, NEW of,
         \A e \in S : Cardinality({c \in T : of[c] = e}) >= m
  PROVE  Cardinality(S) * m <= Cardinality({c \in T : of[c] \in S})
  <1> DEFINE All == {c \in T : of[c] \in S}
             Mine(e) == {c \in T : of[c] = e}
             First(e) == CHOOSE g \in [1 .. m -> Mine(e)] :
                             \A i, j \in 1 .. m : g[i] = g[j] => i = j
             f == [x \in S \X (1 .. m) |-> First(x[1])[x[2]]]
  <1>1. ASSUME NEW e \in S
        PROVE  /\ First(e) \in [1 .. m -> Mine(e)]
               /\ \A i, j \in 1 .. m : First(e)[i] = First(e)[j] => i = j
    <2>1. IsFiniteSet(Mine(e))
      BY FS_Subset
    <2>2. PICK g : g \in Bijection(1 .. Cardinality(Mine(e)), Mine(e))
      BY <2>1, FS_CardinalityType DEF ExistsBijection
    <2>3. Cardinality(Mine(e)) \in Nat /\ m <= Cardinality(Mine(e))
      BY <2>1, FS_CardinalityType
    <2> DEFINE n == Cardinality(Mine(e))
    <2> HIDE DEF Mine
    <2>i. g \in [1 .. n -> Mine(e)] /\ \A i, j \in 1 .. n : g[i] = g[j] => i = j
      BY <2>2 DEF Bijection, Injection, IsInjective
    <2>j. 1 .. m \subseteq 1 .. n
      BY <2>3
    <2> HIDE DEF n
    <2>4. [i \in 1 .. m |-> g[i]] \in [1 .. m -> Mine(e)]
      BY <2>i, <2>j
    <2>5. \A i, j \in 1 .. m : [k \in 1 .. m |-> g[k]][i] = [k \in 1 .. m |-> g[k]][j] => i = j
      BY <2>i, <2>j
    <2> QED
      BY <2>4, <2>5
  <1>2. IsFiniteSet(All)
    BY FS_Subset
  <1>3. f \in Injection(S \X (1 .. m), All)
    <2> HIDE DEF First
    <2>1. ASSUME NEW x \in S \X (1 .. m)
          PROVE  f[x] \in T /\ of[f[x]] = x[1]
      BY <1>1
    <2>2. f \in [S \X (1 .. m) -> All]
      BY <2>1
    <2>3. ASSUME NEW x \in S \X (1 .. m), NEW y \in S \X (1 .. m), f[x] = f[y]
          PROVE  x = y
      <3>1. x[1] = y[1]
        BY <2>1, <2>3
      <3>2. x[2] = y[2]
        BY <1>1, <2>3, <3>1
      <3> QED
        BY <3>1, <3>2
    <2> DEFINE D == S \X (1 .. m)
    <2>4. f \in [D -> All] /\ \A x, y \in D : f[x] = f[y] => x = y
      BY <2>2, <2>3
    <2> HIDE DEF f, All, D
    <2>5. f \in Injection(D, All)
      BY <2>4 DEF Injection, IsInjective
    <2> QED
      BY <2>5 DEF D
  <1>4. Cardinality(S \X (1 .. m)) <= Cardinality(All)
    <2> HIDE DEF f, All
    <2> QED
      BY <1>2, <1>3, FS_Injection
  <1>5. Cardinality(S \X (1 .. m)) = Cardinality(S) * m
    <2>1. IsFiniteSet(1 .. m) /\ Cardinality(1 .. m) = m
      BY FS_Interval
    <2> QED
      BY <2>1, FS_Product
  <1> QED
    BY <1>4, <1>5

-----------------------------------------------------------------------------
(* Sequences without duplicates: appending, and taking one element out.     *)
LEMMA Appended ==
  ASSUME NEW S, NEW q \in Seq(S), NEW x \in S,
         \A i, j \in DOMAIN q : q[i] = q[j] => i = j, \A i \in DOMAIN q : q[i] # x
  PROVE  /\ \A i, j \in DOMAIN Append(q, x) : Append(q, x)[i] = Append(q, x)[j] => i = j
         /\ \A y : (\E i \in DOMAIN Append(q, x) : Append(q, x)[i] = y)
                        <=> y = x \/ \E i \in DOMAIN q : q[i] = y
  <1> DEFINE r == Append(q, x)
  <1>1. Len(q) \in Nat /\ DOMAIN q = 1 .. Len(q) /\ DOMAIN r = 1 .. Len(q) + 1
    OBVIOUS
  <1>2. /\ r[Len(q) + 1] = x /\ \A i \in 1 .. Len(q) : r[i] = q[i]
    OBVIOUS
  <1> HIDE DEF r
  <1>3. \A i, j \in DOMAIN r : r[i] = r[j] => i = j
    BY <1>1, <1>2
  <1>4. ASSUME NEW y PROVE (\E i \in DOMAIN r : r[i] = y) <=> y = x \/ \E i \in DOMAIN q : q[i] = y
    BY <1>1, <1>2
  <1> QED
    BY <1>3, <1>4 DEF r

LEMMA Joined ==
  ASSUME NEW S, NEW a \in Seq(S), NEW b \in Seq(S)
  PROVE  a \o b \in Seq(S) /\ Len(a \o b) = Len(a) + Len(b)
  OBVIOUS

LEMMA SecondPart ==
  ASSUME NEW S, NEW a \in Seq(S), NEW b \in Seq(S), NEW i \in 1 .. Len(a) + Len(b), i > Len(a)
  PROVE  (a \o b)[i] = b[i - Len(a)]
  OBVIOUS

LEMMA OneLess ==
  ASSUME NEW S, NEW q \in Seq(S), NEW k \in DOMAIN q
  PROVE  LET r == SubSeq(q, 1, k - 1) \o SubSeq(q, k + 1, Len(q)) IN
         /\ r \in Seq(S) /\ DOMAIN r = 1 .. Len(q) - 1 /\ Len(r) = Len(q) - 1
         /\ \A i \in 1 .. Len(q) - 1 : r[i] = q[IF i < k THEN i ELSE i + 1]
  <1> DEFINE a == SubSeq(q, 1, k - 1)
             b == SubSeq(q, k + 1, Len(q))
             r == a \o b
  <1>1. Len(q) \in Nat /\ DOMAIN q = 1 .. Len(q) /\ k \in 1 .. Len(q)
    OBVIOUS
  <1>a. a \in Seq(S) /\ Len(a) = k - 1 /\ \A i \in 1 .. k - 1 : a[i] = q[i]
    BY <1>1
  <1>b. b \in Seq(S) /\ Len(b) = Len(q) - k /\ \A i \in 1 .. Len(q) - k : b[i] = q[k + i]
    <2>1. b \in Seq(S) /\ Len(b) = Len(q) - k
      BY <1>1
    <2>2. ASSUME NEW i \in 1 .. Len(q) - k PROVE b[i] = q[k + i]
      BY <1>1
    <2> QED
      BY <2>1, <2>2
  <1> HIDE DEF a, b
  <1>2. r \in Seq(S) /\ DOMAIN r = 1 .. Len(q) - 1 /\ Len(r) = Len(q) - 1
    <2>1. r \in Seq(S) /\ Len(r) = Len(a) + Len(b)
      BY <1>a, <1>b, Joined
    <2>2. Len(a) + Len(b) = Len(q) - 1
      BY <1>1, <1>a, <1>b
    <2> HIDE DEF r
    <2>3. DOMAIN r = 1 .. Len(r)
      BY <2>1
    <2> QED
      BY <2>1, <2>2, <2>3
  <1>3. ASSUME NEW i \in 1 .. Len(q) - 1 PROVE r[i] = q[IF i < k THEN i ELSE i + 1]
    <2>1. CASE i < k
      <3>1. i \in 1 .. k - 1
        BY <1>1, <2>1
      <3>2. r[i] = a[i]
        BY <1>a, <1>b, <3>1
      <3> QED
        BY <1>a, <2>1, <3>1, <3>2
    <2>2. CASE i >= k
      <3> DEFINE n == i - (k - 1)
      <3>1. n \in 1 .. Len(q) - k /\ k + n = i + 1
        BY <1>1, <2>2
      <3>2. r[i] = b[n]
        <4>1. i \in 1 .. Len(a) + Len(b) /\ i > Len(a) /\ n = i - Len(a)
          BY <1>1, <1>a, <1>b, <2>2
        <4> QED
          BY <1>a, <1>b, <4>1, SecondPart
      <3> HIDE DEF n
      <3>3. r[i] = q[i + 1]
        BY <1>b, <3>1, <3>2
      <3> QED
        BY <1>1, <2>2, <3>3
    <2> HIDE DEF r
    <2> QED
      BY <1>1, <2>1, <2>2
  <1> HIDE DEF r
  <1> QED
    BY <1>2, <1>3 DEF r, a, b

LEMMA TakenOut ==
  ASSUME NEW S, NEW q \in Seq(S), NEW k \in DOMAIN q,
         \A i, j \in DOMAIN q : q[i] = q[j] => i = j
  PROVE  LET r == SubSeq(q, 1, k - 1) \o SubSeq(q, k + 1, Len(q)) IN
         /\ r \in Seq(S)
         /\ \A i, j \in DOMAIN r : r[i] = r[j] => i = j
         /\ \A y : (\E i \in DOMAIN r : r[i] = y) <=> y # q[k] /\ \E i \in DOMAIN q : q[i] = y
  <1> DEFINE r == SubSeq(q, 1, k - 1) \o SubSeq(q, k + 1, Len(q))
  <1>1. Len(q) \in Nat /\ DOMAIN q = 1 .. Len(q) /\ k \in 1 .. Len(q)
    OBVIOUS
  <1>2. r \in Seq(S) /\ DOMAIN r = 1 .. Len(q) - 1
    BY OneLess
  <1>3. ASSUME NEW i \in 1 .. Len(q) - 1 PROVE r[i] = q[IF i < k THEN i ELSE i + 1]
    BY OneLess
  <1> HIDE DEF r
  <1>4. ASSUME NEW i \in DOMAIN r, NEW j \in DOMAIN r, r[i] = r[j] PROVE i = j
    <2> DEFINE At(n) == IF n < k THEN n ELSE n + 1
    <2>1. At(i) \in DOMAIN q /\ At(j) \in DOMAIN q
      BY <1>1, <1>2
    <2>2. At(i) = At(j)
      BY <1>2, <1>3, <1>4, <2>1
    <2> QED
      BY <1>1, <1>2, <2>2
  <1>5. ASSUME NEW y PROVE (\E i \in DOMAIN r : r[i] = y) <=> y # q[k] /\ \E i \in DOMAIN q : q[i] = y
    <2>1. ASSUME NEW i \in DOMAIN r, r[i] = y PROVE y # q[k] /\ \E j \in DOMAIN q : q[j] = y
      BY <1>1, <1>2, <1>3, <2>1
    <2>2. ASSUME NEW i \in DOMAIN q, q[i] = y, y # q[k] PROVE \E j \in DOMAIN r : r[j] = y
      <3>1. CASE i < k
        BY <1>1, <1>2, <1>3, <2>2, <3>1
      <3>2. CASE i > k
        <4>1. i - 1 \in DOMAIN r /\ r[i - 1] = q[i]
          BY <1>1, <1>2, <1>3, <3>2
        <4> QED
          BY <2>2, <4>1
      <3> QED
        BY <1>1, <2>2, <3>1, <3>2
    <2> QED
      BY <2>1, <2>2
  <1> QED
    BY <1>2, <1>4, <1>5 DEF r

LEMMA HeadTaken ==
  ASSUME NEW S, NEW q \in Seq(S), q # <<>>,
         \A i, j \in DOMAIN q : q[i] = q[j] => i = j
  PROVE  /\ Tail(q) \in Seq(S)
         /\ \A i, j \in DOMAIN Tail(q) : Tail(q)[i] = Tail(q)[j] => i = j
         /\ \A y : (\E i \in DOMAIN Tail(q) : Tail(q)[i] = y)
                        <=> y # Head(q) /\ \E i \in DOMAIN q : q[i] = y
  <1> DEFINE r == Tail(q)
  <1>1. Len(q) \in Nat \ {0} /\ DOMAIN q = 1 .. Len(q) /\ Head(q) = q[1]
    OBVIOUS
  <1>2. r \in Seq(S) /\ DOMAIN r = 1 .. Len(q) - 1 /\ \A i \in 1 .. Len(q) - 1 : r[i] = q[i + 1]
    OBVIOUS
  <1> HIDE DEF r
  <1>3. ASSUME NEW i \in DOMAIN r, NEW j \in DOMAIN r, r[i] = r[j] PROVE i = j
    <2>1. i + 1 \in DOMAIN q /\ j + 1 \in DOMAIN q /\ q[i + 1] = q[j + 1]
      BY <1>1, <1>2, <1>3
    <2> QED
      BY <1>2, <2>1
  <1>4. ASSUME NEW y PROVE (\E i \in DOMAIN r : r[i] = y) <=> y # Head(q) /\ \E i \in DOMAIN q : q[i] = y
    <2>1. ASSUME NEW i \in DOMAIN r, r[i] = y PROVE y # Head(q) /\ \E j \in DOMAIN q : q[j] = y
      BY <1>1, <1>2, <2>1
    <2>2. ASSUME NEW i \in DOMAIN q, q[i] = y, y # Head(q) PROVE \E j \in DOMAIN r : r[j] = y
      <3>1. i - 1 \in DOMAIN r /\ r[i - 1] = q[i]
        BY <1>1, <1>2, <2>2
      <3> QED
        BY <2>2, <3>1
    <2> QED
      BY <2>1, <2>2
  <1> QED
    BY <1>2, <1>3, <1>4 DEF r

(* A product grows with its factors.                                        *)
LEMMA NotAbove == \A x, y \in Nat : x <= y => ~(x > y)
  OBVIOUS

LEMMA SumAbove == \A x, y \in Nat : y > 0 => x + y > x
  OBVIOUS

LEMMA LastOne == \A x \in Nat : (IF x = 0 THEN 0 ELSE x - 1) = 0 => x <= 1
  OBVIOUS

LEMMA Multiplied ==
  ASSUME NEW a \in Nat, NEW b \in Nat, NEW c \in Nat, a <= b
  PROVE  a * c <= b * c /\ a * c \in Nat
  OBVIOUS

=============================================================================
