--------------------------- MODULE FrontendProofs ----------------------------
(***************************************************************************)
(* What holds of the path of a query through the program, and of the Fake   *)
(* IP pool it may end at, for every policy, every set of queries, tasks and *)
(* backends, and every size of the address ranges.                          *)
(***************************************************************************)
EXTENDS Frontend, CommonFacts

-----------------------------------------------------------------------------
(* Sequences.                                                               *)
Holds(list, x) == \E i \in DOMAIN list : list[i] = x

Distinct(list) == \A i, j \in DOMAIN list : list[i] = list[j] => i = j

(* What Without computes, prefix by prefix.                                 *)
Drops(list, gone, X, u) ==
    /\ u \in [0 .. Len(list) -> Seq(X)] /\ u[0] = <<>>
    /\ \A n \in 1 .. Len(list) :
        u[n] = IF list[n] \in gone THEN u[n - 1] ELSE Append(u[n - 1], list[n])

LEMMA WithoutIs ==
  ASSUME NEW X, NEW list \in Seq(X), NEW gone
  PROVE  \E u : Drops(list, gone, X, u) /\ Without(list, gone) = u[Len(list)]
  <1> DEFINE N == Len(list)
             Is(w) == w = [n \in 0 .. N |-> IF n = 0 THEN <<>>
                            ELSE IF list[n] \in gone THEN w[n - 1] ELSE Append(w[n - 1], list[n])]
             u == CHOOSE w : w = [n \in 0 .. N |-> IF n = 0 THEN <<>>
                            ELSE IF list[n] \in gone THEN w[n - 1] ELSE Append(w[n - 1], list[n])]
             step == [n \in 1 .. N |-> [r \in Seq(X) |->
                            IF list[n] \in gone THEN r ELSE Append(r, list[n])]]
  <1>1. N \in Nat /\ \A n \in 1 .. N : list[n] \in X
    OBVIOUS
  <1>2. step \in [1 .. N -> [Seq(X) -> Seq(X)]]
    <2> HIDE DEF N
    <2>1. ASSUME NEW n \in 1 .. N, NEW r \in Seq(X)
          PROVE  (IF list[n] \in gone THEN r ELSE Append(r, list[n])) \in Seq(X)
      BY <1>1
    <2> QED
      BY <2>1, Zenon
  <1>e. <<>> \in Seq(X)
    OBVIOUS
  <1>3. PICK g : Iterated(g, N, Seq(X), <<>>, step)
    <2> HIDE DEF step, N
    <2> QED
      BY <1>1, <1>2, <1>e, Iterates
  <1>4. Is(g)
    <2>1. ASSUME NEW n \in 1 .. N
          PROVE  g[n] = IF list[n] \in gone THEN g[n - 1] ELSE Append(g[n - 1], list[n])
      <3>1. g[n - 1] \in Seq(X) /\ g[n] = step[n][g[n - 1]]
        <4> HIDE DEF step
        <4> QED
          BY <1>1, <1>3 DEF Iterated
      <3>2. step[n] = [r \in Seq(X) |-> IF list[n] \in gone THEN r ELSE Append(r, list[n])]
        BY Zenon
      <3> QED
        BY <3>1, <3>2, Zenon
    <2>2. g = [n \in 0 .. N |-> g[n]] /\ g[0] = <<>>
      BY <1>3, Zenon DEF Iterated
    <2>3. ASSUME NEW n \in 0 .. N
          PROVE  g[n] = IF n = 0 THEN <<>>
                        ELSE IF list[n] \in gone THEN g[n - 1] ELSE Append(g[n - 1], list[n])
      <3>1. n = 0 \/ n \in 1 .. N
        BY <1>1
      <3> QED
        BY <2>1, <2>2, <3>1
    <2> QED
      BY <2>2, <2>3
  <1>5. Is(u)
    BY <1>4, Zenon
  <1>6. Without(list, gone) = u[N]
    BY DEF Without
  <1> HIDE DEF u, N, step
  <1>7. u[0] = <<>> /\ \A n \in 1 .. N :
            u[n] = IF list[n] \in gone THEN u[n - 1] ELSE Append(u[n - 1], list[n])
    <2>1. ASSUME NEW n \in 0 .. N
          PROVE  u[n] = IF n = 0 THEN <<>>
                        ELSE IF list[n] \in gone THEN u[n - 1] ELSE Append(u[n - 1], list[n])
      BY <1>5, Zenon
    <2>2. 0 \in 0 .. N /\ \A n \in 1 .. N : n \in 0 .. N /\ n # 0
      BY <1>1
    <2> QED
      BY <2>1, <2>2, Zenon
  <1>8. \A n \in 0 .. N : u[n] \in Seq(X)
    <2> DEFINE S == {n \in 0 .. N : u[n] \in Seq(X)}
    <2>1. 0 \in S
      <3>1. 0 \in 0 .. N
        BY <1>1
      <3> QED
        BY <1>7, <1>e, <3>1, Zenon
    <2>2. ASSUME NEW n \in 1 .. N, n - 1 \in S PROVE n \in S
      <3>1. u[n - 1] \in Seq(X) /\ list[n] \in X /\ n \in 0 .. N
        BY <1>1, <2>2
      <3>2. u[n] = u[n - 1] \/ u[n] = Append(u[n - 1], list[n])
        BY <1>7, Zenon
      <3>3. ASSUME NEW r \in Seq(X), NEW x \in X PROVE Append(r, x) \in Seq(X)
        OBVIOUS
      <3> QED
        BY <3>1, <3>2, <3>3, Zenon
    <2> HIDE DEF S
    <2>3. 0 .. N \subseteq S
      BY <1>1, <2>1, <2>2, Stepwise
    <2> QED
      BY <2>3 DEF S
  <1>9. u \in [0 .. N -> Seq(X)]
    BY <1>5, <1>8
  <1> QED
    BY <1>6, <1>7, <1>9 DEF Drops, N

LEMMA AppendFacts ==
  ASSUME NEW X, NEW list \in Seq(X), NEW x \in X, Distinct(list), ~Holds(list, x)
  PROVE  /\ Append(list, x) \in Seq(X) /\ Distinct(Append(list, x))
         /\ \A y : Holds(Append(list, x), y) <=> y = x \/ Holds(list, y)
  <1> DEFINE r == Append(list, x)
  <1>1. \A i, j \in DOMAIN list : list[i] = list[j] => i = j
    BY Zenon DEF Distinct
  <1>2. \A i \in DOMAIN list : list[i] # x
    BY Zenon DEF Holds
  <1>3. /\ \A i, j \in DOMAIN r : r[i] = r[j] => i = j
        /\ \A y : (\E i \in DOMAIN r : r[i] = y) <=> y = x \/ \E i \in DOMAIN list : list[i] = y
    BY <1>1, <1>2, Appended, Zenon
  <1>4. r \in Seq(X)
    OBVIOUS
  <1> HIDE DEF r
  <1>5. Distinct(r) /\ \A y : Holds(r, y) <=> y = x \/ Holds(list, y)
    BY <1>3, Zenon DEF Distinct, Holds
  <1> QED
    BY <1>4, <1>5 DEF r

LEMMA WithoutFacts ==
  ASSUME NEW X, NEW list \in Seq(X), NEW gone
  PROVE  /\ Without(list, gone) \in Seq(X)
         /\ \A x : Holds(Without(list, gone), x) <=> x \notin gone /\ Holds(list, x)
         /\ Distinct(list) => Distinct(Without(list, gone))
  <1> DEFINE N == Len(list)
             Seen(n, x) == \E i \in 1 .. n : list[i] = x
             Right(n, w) == /\ \A x : Holds(w, x) <=> x \notin gone /\ Seen(n, x)
                            /\ Distinct(list) => Distinct(w)
  <1>1. N \in Nat /\ DOMAIN list = 1 .. N /\ \A n \in 1 .. N : list[n] \in X
    OBVIOUS
  <1>2. PICK u : Drops(list, gone, X, u) /\ Without(list, gone) = u[N]
    BY WithoutIs
  <1> HIDE DEF N
  <1>3. /\ \A n \in 0 .. N : u[n] \in Seq(X)
        /\ u[0] = <<>>
        /\ \A n \in 1 .. N : u[n] = IF list[n] \in gone THEN u[n - 1] ELSE Append(u[n - 1], list[n])
    BY <1>2, Zenon DEF Drops, N
  <1> DEFINE S == {n \in 0 .. N : Right(n, u[n])}
  <1>4. 0 \in S
    <2>1. 0 \in 0 .. N /\ DOMAIN u[0] = {} /\ 1 .. 0 = {}
      BY <1>1, <1>3
    <2> QED
      BY <2>1, Zenon DEF Holds, Distinct
  <1>5. ASSUME NEW n \in 1 .. N, n - 1 \in S PROVE n \in S
    <2>1. /\ n \in 0 .. N /\ n - 1 \in 0 .. N /\ list[n] \in X /\ u[n - 1] \in Seq(X)
      BY <1>1, <1>3
    <2>2. Right(n - 1, u[n - 1])
      BY <1>5, Zenon
    <2>3. \A x : Seen(n, x) <=> Seen(n - 1, x) \/ x = list[n]
      <3>1. \A i : i \in 1 .. n <=> i \in 1 .. n - 1 \/ i = n
        BY <1>1
      <3> QED
        BY <3>1, Zenon
    <2>4. CASE list[n] \in gone
      <3>1. u[n] = u[n - 1]
        BY <1>3, <2>4, Zenon
      <3> QED
        BY <2>1, <2>2, <2>3, <2>4, <3>1, Zenon
    <2>5. CASE list[n] \notin gone
      <3> DEFINE w == u[n - 1]
      <3>1. u[n] = Append(w, list[n])
        BY <1>3, <2>5, Zenon
      <3> HIDE DEF w
      <3>2. w \in Seq(X) /\ Right(n - 1, w)
        BY <2>1, <2>2 DEF w
      <3>3. \A y : Holds(Append(w, list[n]), y) <=> y = list[n] \/ Holds(w, y)
        <4>1. Len(w) \in Nat /\ DOMAIN w = 1 .. Len(w) /\ DOMAIN Append(w, list[n]) = 1 .. Len(w) + 1
          BY <2>1, <3>2
        <4>2. Append(w, list[n])[Len(w) + 1] = list[n]
              /\ \A i \in 1 .. Len(w) : Append(w, list[n])[i] = w[i]
          BY <2>1, <3>2
        <4> QED
          BY <4>1, <4>2 DEF Holds
      <3>4. ASSUME Distinct(list) PROVE Distinct(Append(w, list[n]))
        <4>1. ~Holds(w, list[n])
          <5>1. ~Seen(n - 1, list[n])
            BY <1>1, <3>4 DEF Distinct
          <5> QED
            BY <3>2, <5>1, Zenon
        <4>2. Distinct(w)
          BY <3>2, <3>4, Zenon
        <4> QED
          BY <2>1, <3>2, <4>1, <4>2, AppendFacts, Zenon
      <3>5. \A x : Holds(Append(w, list[n]), x) <=> x \notin gone /\ Seen(n, x)
        BY <2>3, <2>5, <3>2, <3>3, Zenon
      <3>6. Right(n, u[n])
        BY <3>1, <3>4, <3>5, Zenon
      <3> QED
        BY <2>1, <3>6, Zenon
    <2> QED
      BY <2>4, <2>5
  <1>6. Right(N, u[N])
    <2> HIDE DEF S
    <2>1. 0 .. N \subseteq S
      BY <1>1, <1>4, <1>5, Stepwise, Zenon
    <2>2. N \in 0 .. N
      BY <1>1
    <2> QED
      BY <2>1, <2>2, Zenon DEF S
  <1>7. u[N] \in Seq(X)
    BY <1>1, <1>3
  <1>8. \A x : Seen(N, x) <=> Holds(list, x)
    BY <1>1, Zenon DEF Holds
  <1> QED
    BY <1>2, <1>6, <1>7, <1>8, Zenon

-----------------------------------------------------------------------------
(* The choice of a rule.                                                    *)
RuleOf(labels, values) ==
    [kind : {"exact", "suffix", "wildcard"}, name : Seq(labels), value : values]

LEMMA Specificity ==
  ASSUME NEW L, NEW V, NEW r \in RuleOf(L, V), NEW s \in RuleOf(L, V), NEW t \in RuleOf(L, V)
  PROVE  /\ ~MoreSpecific(r, r)
         /\ MoreSpecific(r, s) => ~MoreSpecific(s, r)
         /\ MoreSpecific(r, s) /\ ~MoreSpecific(t, s) => MoreSpecific(r, t)
  <1>1. ASSUME NEW x \in RuleOf(L, V) PROVE KindRank(x) \in 0 .. 2 /\ Len(x.name) \in Nat
    BY DEF RuleOf, KindRank
  <1>2. /\ KindRank(r) \in 0 .. 2 /\ KindRank(s) \in 0 .. 2 /\ KindRank(t) \in 0 .. 2
        /\ Len(r.name) \in Nat /\ Len(s.name) \in Nat /\ Len(t.name) \in Nat
    BY <1>1
  <1> QED
    BY <1>2 DEF MoreSpecific

(* The rule that decides: none of the others matches better, and those      *)
(* before it worse.                                                         *)
Beats(rules, hits, m) ==
    /\ m \in hits
    /\ \A j \in hits : /\ ~MoreSpecific(rules[j], rules[m])
                       /\ j < m => MoreSpecific(rules[m], rules[j])

(* What the scan holds, rule by rule.                                       *)
Scanned(rules, name, u) ==
    /\ u[0] = <<>>
    /\ \A n \in 1 .. Len(rules) :
        u[n] = IF ~Matches(rules[n], name)
                    \/ (u[n - 1] # <<>> /\ ~MoreSpecific(rules[n], u[n - 1][1]))
               THEN u[n - 1] ELSE <<rules[n]>>

LEMMA ResolveIs ==
  ASSUME NEW R, NEW rules \in Seq(R), NEW name
  PROVE  \E u : Scanned(rules, name, u) /\ Resolve(rules, name) = u[Len(rules)]
  <1> DEFINE N == Len(rules)
             Step(best, rule) ==
                IF ~Matches(rule, name) \/ (best # <<>> /\ ~MoreSpecific(rule, best[1]))
                THEN best ELSE <<rule>>
             Is(w) == w = [n \in 0 .. N |-> IF n = 0 THEN <<>> ELSE Step(w[n - 1], rules[n])]
             u == CHOOSE w : w = [n \in 0 .. N |-> IF n = 0 THEN <<>> ELSE Step(w[n - 1], rules[n])]
             V == {<<>>} \cup {<<rules[i]>> : i \in 1 .. N}
             step == [n \in 1 .. N |-> [b \in V |-> Step(b, rules[n])]]
  <1>1. N \in Nat
    OBVIOUS
  <1> HIDE DEF N
  <1>2. step \in [1 .. N -> [V -> V]]
    <2>1. ASSUME NEW n \in 1 .. N, NEW b \in V PROVE Step(b, rules[n]) \in V
      BY Zenon
    <2> HIDE DEF V, Step
    <2> QED
      BY <2>1, Zenon
  <1>3. PICK g : Iterated(g, N, V, <<>>, step)
    <2>1. <<>> \in V
      OBVIOUS
    <2> HIDE DEF step, V
    <2> QED
      BY <1>1, <1>2, <2>1, Iterates
  <1> HIDE DEF V, Step
  <1>4. Is(g)
    <2>1. ASSUME NEW n \in 1 .. N PROVE g[n] = Step(g[n - 1], rules[n])
      <3>1. g[n - 1] \in V /\ g[n] = step[n][g[n - 1]]
        <4> HIDE DEF step
        <4> QED
          BY <1>1, <1>3 DEF Iterated
      <3>2. step[n] = [b \in V |-> Step(b, rules[n])]
        BY Zenon
      <3> QED
        BY <3>1, <3>2, Zenon
    <2>2. g = [n \in 0 .. N |-> g[n]] /\ g[0] = <<>>
      BY <1>3, Zenon DEF Iterated
    <2>3. ASSUME NEW n \in 0 .. N PROVE g[n] = IF n = 0 THEN <<>> ELSE Step(g[n - 1], rules[n])
      <3>1. n = 0 \/ n \in 1 .. N
        BY <1>1
      <3> QED
        BY <2>1, <2>2, <3>1
    <2> QED
      BY <2>2, <2>3
  <1>5. Is(u)
    BY <1>4, Zenon
  <1>6. Resolve(rules, name) = u[N]
    BY DEF Resolve, Step, N
  <1> HIDE DEF u
  <1>7. u[0] = <<>> /\ \A n \in 1 .. N : u[n] = Step(u[n - 1], rules[n])
    <2>1. ASSUME NEW n \in 0 .. N PROVE u[n] = IF n = 0 THEN <<>> ELSE Step(u[n - 1], rules[n])
      BY <1>5, Zenon
    <2>2. 0 \in 0 .. N /\ \A n \in 1 .. N : n \in 0 .. N /\ n # 0
      BY <1>1
    <2> QED
      BY <2>1, <2>2, Zenon
  <1> QED
    BY <1>6, <1>7, Zenon DEF Scanned, Step, N

LEMMA ScanLeads ==
  ASSUME NEW L, NEW V, NEW rules \in Seq(RuleOf(L, V)), NEW name
  PROVE  LET hits == {i \in DOMAIN rules : Matches(rules[i], name)} IN
         \/ hits = {} /\ Resolve(rules, name) = <<>>
         \/ \E m : Beats(rules, hits, m) /\ Resolve(rules, name) = <<rules[m]>>
  <1> DEFINE N == Len(rules)
             Hits(n) == {i \in 1 .. n : Matches(rules[i], name)}
             Right(n, b) == \/ Hits(n) = {} /\ b = <<>>
                            \/ \E m : Beats(rules, Hits(n), m) /\ b = <<rules[m]>>
  <1>1. N \in Nat /\ DOMAIN rules = 1 .. N /\ \A n \in 1 .. N : rules[n] \in RuleOf(L, V)
    OBVIOUS
  <1>2. PICK u : Scanned(rules, name, u) /\ Resolve(rules, name) = u[N]
    BY ResolveIs
  <1> HIDE DEF N
  <1>3. /\ u[0] = <<>>
        /\ \A n \in 1 .. N :
            u[n] = IF ~Matches(rules[n], name)
                        \/ (u[n - 1] # <<>> /\ ~MoreSpecific(rules[n], u[n - 1][1]))
                   THEN u[n - 1] ELSE <<rules[n]>>
    BY <1>2, Zenon DEF Scanned, N
  <1> DEFINE S == {n \in 0 .. N : Right(n, u[n])}
  <1>4. 0 \in S
    <2>1. 0 \in 0 .. N /\ 1 .. 0 = {}
      BY <1>1
    <2> QED
      BY <1>3, <2>1, Zenon
  <1>5. ASSUME NEW n \in 1 .. N, n - 1 \in S PROVE n \in S
    <2>1. n \in 0 .. N /\ Right(n - 1, u[n - 1])
      <3>1. n \in 0 .. N
        BY <1>1
      <3> QED
        BY <1>5, <3>1, Zenon
    <2>2. \A i : i \in 1 .. n <=> i \in 1 .. n - 1 \/ i = n
      BY <1>1
    <2>3. \A i \in 1 .. n - 1 : i < n /\ ~(n < i) /\ i \in 1 .. N
      BY <1>1
    <2>n. ~(n < n)
      BY <1>1
    <2> DEFINE b == u[n - 1]
               H == Hits(n - 1)
    <2>4. CASE ~Matches(rules[n], name)
      <3>1. Hits(n) = H /\ u[n] = b
        BY <1>3, <2>2, <2>4, Zenon
      <3> QED
        BY <2>1, <3>1, Zenon
    <2>5. CASE Matches(rules[n], name)
      <3>1. Hits(n) = H \cup {n}
        BY <2>2, <2>5, Zenon
      <3>2. CASE H = {} /\ b = <<>>
        <4>1. u[n] = <<rules[n]>> /\ Hits(n) = {n}
          BY <1>3, <2>5, <3>1, <3>2, Zenon
        <4>2. Beats(rules, {n}, n)
          BY <1>1, <2>n, Specificity, Zenon DEF Beats
        <4> QED
          BY <2>1, <4>1, <4>2, Zenon
      <3>3. ASSUME NEW m, Beats(rules, H, m), b = <<rules[m]>> PROVE n \in S
        <4>1. m \in H /\ m \in 1 .. n - 1 /\ b # <<>> /\ b[1] = rules[m]
          <5>1. b # <<>> /\ b[1] = rules[m]
            BY <3>3
          <5> QED
            BY <3>3, <5>1, Zenon DEF Beats
        <4>2. /\ m \in 1 .. N /\ m < n /\ ~(n < m) /\ rules[m] \in RuleOf(L, V)
              /\ rules[n] \in RuleOf(L, V)
              /\ \A j \in H : j \in 1 .. n - 1 /\ rules[j] \in RuleOf(L, V)
          BY <1>1, <2>3, <4>1, Zenon
        <4> HIDE DEF b, H
        <4>3. CASE ~MoreSpecific(rules[n], rules[m])
          <5>1. u[n] = <<rules[m]>>
            BY <1>3, <3>3, <4>1, <4>3, Zenon DEF b
          <5>2. Beats(rules, H \cup {n}, m)
            BY <3>3, <4>2, <4>3, Zenon DEF Beats
          <5> QED
            BY <2>1, <3>1, <5>1, <5>2, Zenon DEF H
        <4>4. CASE MoreSpecific(rules[n], rules[m])
          <5>1. u[n] = <<rules[n]>>
            BY <1>3, <2>5, <4>1, <4>4, Zenon DEF b
          <5>2. ASSUME NEW j \in H
                PROVE  ~MoreSpecific(rules[j], rules[n]) /\ MoreSpecific(rules[n], rules[j])
            <6>1. ~MoreSpecific(rules[j], rules[m])
              BY <3>3, Zenon DEF Beats
            <6>2. MoreSpecific(rules[n], rules[j])
              BY <4>2, <4>4, <6>1, Specificity, Zenon
            <6> QED
              BY <4>2, <6>2, Specificity, Zenon
          <5>3. ~MoreSpecific(rules[n], rules[n])
            BY <4>2, Specificity, Zenon
          <5>4. Beats(rules, H \cup {n}, n)
            BY <2>n, <5>2, <5>3, Zenon DEF Beats
          <5> QED
            BY <2>1, <3>1, <5>1, <5>4, Zenon DEF H
        <4> QED
          BY <4>3, <4>4
      <3> QED
        BY <2>1, <3>2, <3>3, Zenon
    <2> QED
      BY <2>4, <2>5
  <1>6. Right(N, u[N])
    <2> HIDE DEF S
    <2>1. 0 .. N \subseteq S
      BY <1>1, <1>4, <1>5, Stepwise, Zenon
    <2>2. N \in 0 .. N
      BY <1>1
    <2> QED
      BY <2>1, <2>2, Zenon DEF S
  <1> QED
    BY <1>1, <1>2, <1>6, Zenon

(* Of any list of rules, resolve takes the first of the most specific ones  *)
(* that match a name, and resolve_all lists that one first (matcher.rs), as *)
(* the documentation of DomainMatcher says.                                 *)
THEOREM MatcherIsRight ==
  ASSUME NEW L, NEW V, NEW rules \in Seq(RuleOf(L, V)), NEW name
  PROVE  FirstOfTheMostSpecific(rules, name)
  <1> DEFINE hits == {i \in DOMAIN rules : Matches(rules[i], name)}
             best == {i \in hits : \A j \in hits : ~MoreSpecific(rules[j], rules[i])}
             First(i, j) == \/ MoreSpecific(rules[i], rules[j])
                            \/ ~MoreSpecific(rules[j], rules[i]) /\ i < j
             At(k) == CHOOSE i \in hits : Cardinality({j \in hits : First(j, i)}) = k - 1
             all == [k \in 1 .. Cardinality(hits) |-> rules[At(k)]]
  <1>1. /\ DOMAIN rules \in SUBSET Nat /\ IsFiniteSet(DOMAIN rules)
        /\ \A i \in DOMAIN rules : rules[i] \in RuleOf(L, V)
    BY FS_Interval
  <1>2. ResolveAll(rules, name) = all
    BY DEF ResolveAll
  <1>3. /\ IsFiniteSet(hits) /\ hits \in SUBSET Nat /\ Cardinality(hits) \in Nat
        /\ Cardinality(hits) = 0 <=> hits = {}
    BY <1>1, FS_Subset, FS_CardinalityType, FS_EmptySet
  <1>4. \/ hits = {} /\ Resolve(rules, name) = <<>>
        \/ \E m : Beats(rules, hits, m) /\ Resolve(rules, name) = <<rules[m]>>
    BY ScanLeads, Zenon
  <1>5. CASE hits = {} /\ Resolve(rules, name) = <<>>
    <2>1. Cardinality(hits) = 0
      BY <1>3, <1>5
    <2>2. all = <<>>
      <3> HIDE DEF hits
      <3> QED
        BY <2>1
    <2> QED
      BY <1>2, <1>5, <2>2, Zenon DEF FirstOfTheMostSpecific
  <1>6. ASSUME NEW m, Beats(rules, hits, m), Resolve(rules, name) = <<rules[m]>>
        PROVE  FirstOfTheMostSpecific(rules, name)
    <2>1. /\ m \in hits /\ m \in Nat
          /\ \A j \in hits : j \in Nat /\ ~MoreSpecific(rules[j], rules[m])
                                       /\ (j < m => MoreSpecific(rules[m], rules[j]))
      BY <1>3, <1>6, Zenon DEF Beats
    <2> HIDE DEF hits
    <2>2. m \in best /\ \A j \in best : j \in Nat /\ ~(j < m)
      BY <2>1, Zenon
    <2>3. (CHOOSE i \in best : \A j \in best : i <= j) = m
      <3> HIDE DEF best
      <3>1. \A j \in best : m <= j
        BY <2>1, <2>2
      <3>2. \A i \in best : (\A j \in best : i <= j) => i = m
        BY <2>1, <2>2
      <3> QED
        BY <2>2, <3>1, <3>2, Zenon
    <2>4. \A i \in hits : First(i, m) => FALSE
      BY <2>1, Zenon
    <2>5. ASSUME NEW i \in hits, Cardinality({j \in hits : First(j, i)}) = 0 PROVE i = m
      <3>1. IsFiniteSet({j \in hits : First(j, i)})
        BY <1>3, FS_Subset, Zenon
      <3>2. {j \in hits : First(j, i)} = {}
        BY <2>5, <3>1, FS_EmptySet, Zenon
      <3>3. ~First(m, i)
        BY <2>1, <3>2, Zenon
      <3>4. ~(m < i) /\ ~(i < m)
        BY <2>1, <3>3, Zenon
      <3> QED
        BY <2>1, <3>4
    <2>6. At(1) = m
      <3>1. {j \in hits : First(j, m)} = {}
        BY <2>4, Zenon
      <3>2. Cardinality({j \in hits : First(j, m)}) = 0
        BY <3>1, FS_EmptySet, Zenon
      <3>3. 1 - 1 = 0
        OBVIOUS
      <3> HIDE DEF First
      <3> QED
        BY <2>1, <2>5, <3>2, <3>3, Zenon
    <2>7. 1 \in 1 .. Cardinality(hits) /\ Head(all) = all[1]
      <3>1. Cardinality(hits) >= 1
        BY <1>3, <2>1
      <3> HIDE DEF At
      <3> QED
        BY <1>3, <3>1
    <2>8. Head(ResolveAll(rules, name)) = rules[m]
      <3> HIDE DEF At
      <3> QED
        BY <1>2, <2>6, <2>7, Zenon
    <2>9. hits # {}
      BY <2>1
    <2> QED
      BY <1>6, <2>3, <2>8, <2>9, Zenon DEF FirstOfTheMostSpecific, hits
  <1> QED
    BY <1>4, <1>5, <1>6

-----------------------------------------------------------------------------
(* The lifetimes.                                                           *)
LEMMA MinIs ==
  ASSUME NEW S \in SUBSET Nat, S # {}
  PROVE  Min(S) \in S /\ \A x \in S : Min(S) <= x
  <1>1. \E m \in S : \A x \in S : m <= x
    BY Least
  <1> QED
    BY <1>1, Zenon DEF Min

LEMMA MaxOfTwo ==
  ASSUME NEW a \in Int, NEW b \in Int
  PROVE  Max({a, b}) = IF a >= b THEN a ELSE b
  <1> DEFINE m == IF a >= b THEN a ELSE b
  <1>1. m \in {a, b} /\ \A x \in {a, b} : m >= x
    OBVIOUS
  <1>2. \A y \in {a, b} : (\A x \in {a, b} : y >= x) => y = m
    OBVIOUS
  <1> HIDE DEF m
  <1>3. Max({a, b}) = m
    BY <1>1, <1>2, Zenon DEF Max
  <1> QED
    BY <1>3 DEF m

BoundsOf == {bounds \in [min : Nat, max : Nat] : bounds.min <= bounds.max}

PolicyOf == [positive : BoundsOf, negative : BoundsOf, withoutSoa : SUBSET Nat]

AnswerOf ==
    [negative : BOOLEAN, ttls : SUBSET Nat, soa : Seq([ttl : Nat, minimum : Nat])]

LEMMA ClampIs ==
  ASSUME NEW bounds \in BoundsOf, NEW t \in Nat
  PROVE  /\ Clamp(bounds, t) \in Nat /\ Clamp(bounds, t) <= bounds.max
         /\ Clamp(bounds, t) <= t \/ Clamp(bounds, t) = bounds.min
  BY DEF BoundsOf, Clamp

(* The lifetime cacheable_answer gives an entry respects the policy's       *)
(* bounds, the SOA's minimum and every record it stores, so that the TTLs   *)
(* cache_hit_response gives out count down without a step until the entry   *)
(* expires, whatever the policy and the answer (engine.rs).                 *)
THEOREM LifetimeIsWithinRecords ==
  ASSUME NEW policy \in PolicyOf, NEW answer \in AnswerOf
  PROVE  LifetimeWithinRecords(policy, answer)
  <1> DEFINE bounds == IF answer.negative THEN policy.negative ELSE policy.positive
             ttl == EntryTtl(policy, answer)
             records == {Clamp(bounds, t) : t \in answer.ttls}
             soa == IF answer.negative
                    THEN IF answer.soa # <<>> THEN {SoaTtl(bounds, answer.soa[1])}
                         ELSE {Clamp(bounds, t) : t \in policy.withoutSoa}
                    ELSE {Clamp(bounds, answer.soa[i].ttl) : i \in DOMAIN answer.soa}
             all == records \cup soa
  <1>1. /\ bounds \in BoundsOf /\ bounds.min \in Nat /\ bounds.max \in Nat
        /\ answer.ttls \in SUBSET Nat /\ policy.withoutSoa \in SUBSET Nat
    BY DEF PolicyOf, AnswerOf, BoundsOf
  <1>2. \A i \in DOMAIN answer.soa : answer.soa[i].ttl \in Nat /\ answer.soa[i].minimum \in Nat
    <2>1. answer.soa \in Seq([ttl : Nat, minimum : Nat])
      BY DEF AnswerOf
    <2>2. ASSUME NEW R, NEW s \in Seq(R), NEW i \in DOMAIN s PROVE s[i] \in R
      OBVIOUS
    <2>3. \A i \in DOMAIN answer.soa : answer.soa[i] \in [ttl : Nat, minimum : Nat]
      BY <2>1, <2>2, Zenon
    <2> QED
      BY <2>3
  <1>3. answer.soa # <<>> => 1 \in DOMAIN answer.soa
    BY DEF AnswerOf
  <1>4. ttl = IF all = {} \/ (answer.negative /\ soa = {}) THEN 0 ELSE Min(all)
    BY Zenon DEF EntryTtl
  <1> HIDE DEF bounds, ttl
  <1>5. ASSUME answer.soa # <<>>
        PROVE  LET c == SoaTtl(bounds, answer.soa[1]) IN
               c \in Nat /\ c <= bounds.max
                   /\ (c <= answer.soa[1].minimum \/ c = bounds.min)
    <2> DEFINE s == answer.soa[1]
               S == {Clamp(bounds, s.ttl), s.minimum}
    <2>1. s.ttl \in Nat /\ s.minimum \in Nat
      BY <1>2, <1>3, <1>5
    <2> HIDE DEF s
    <2>2. S \in SUBSET Nat /\ S # {} /\ s.minimum \in S
      BY <1>1, <2>1, ClampIs
    <2> HIDE DEF S
    <2>3. Min(S) \in Nat /\ Min(S) <= s.minimum
      BY <2>2, MinIs
    <2>4. SoaTtl(bounds, s) = Clamp(bounds, Min(S))
      BY Zenon DEF SoaTtl, S
    <2>5. /\ Clamp(bounds, Min(S)) \in Nat /\ Clamp(bounds, Min(S)) <= bounds.max
          /\ Clamp(bounds, Min(S)) <= Min(S) \/ Clamp(bounds, Min(S)) = bounds.min
      BY <1>1, <2>3, ClampIs, Zenon
    <2>6. Clamp(bounds, Min(S)) <= Min(S) => Clamp(bounds, Min(S)) <= s.minimum
      BY <2>1, <2>3, <2>5
    <2> QED
      BY <2>4, <2>5, <2>6, Zenon DEF s
  <1>6. \A c \in all : c \in Nat /\ c <= bounds.max
    <2>1. \A c \in records : c \in Nat /\ c <= bounds.max
      BY <1>1, ClampIs, Zenon
    <2>2. \A c \in soa : c \in Nat /\ c <= bounds.max
      BY <1>1, <1>2, <1>5, ClampIs, Zenon
    <2> QED
      BY <2>1, <2>2, Zenon
  <1>7. ASSUME ttl > 0
        PROVE  /\ ttl \in Nat /\ ttl <= bounds.max /\ \A c \in all : ttl <= c
    <2> HIDE DEF all, soa
    <2>1. ttl = Min(all) /\ all # {}
      BY <1>4, <1>7
    <2>2. all \in SUBSET Nat
      BY <1>6, Zenon
    <2>3. Min(all) \in all /\ \A c \in all : Min(all) <= c
      BY <2>1, <2>2, MinIs, Zenon
    <2> QED
      BY <1>6, <2>1, <2>3, Zenon
  <1>8. ASSUME ttl > 0, NEW t \in answer.ttls, NEW e \in 0 .. ttl - 1
        PROVE  ServedTtl(Clamp(bounds, t), e) + e = Clamp(bounds, t)
    <2> DEFINE c == Clamp(bounds, t)
    <2>1. c \in Nat /\ ttl \in Nat /\ ttl <= c
      BY <1>6, <1>7, <1>8
    <2> HIDE DEF c
    <2>2. c - e \in Int /\ c - e >= 1 /\ 1 \in Int
      BY <2>1
    <2>3. Max({c - e, 1}) = c - e
      BY <2>2, MaxOfTwo
    <2>4. c - e + e = c
      BY <2>1
    <2> QED
      BY <2>3, <2>4 DEF ServedTtl, c
  <1>9. ASSUME ttl > 0, answer.negative, answer.soa # <<>>
        PROVE  ttl <= Max({bounds.min, answer.soa[1].minimum})
    <2> DEFINE c == SoaTtl(bounds, answer.soa[1])
               least == answer.soa[1].minimum
    <2>1. c \in all
      BY <1>9, Zenon
    <2>2. ttl \in Nat /\ ttl <= c
      BY <1>7, <1>9, <2>1, Zenon
    <2>3. c \in Nat /\ (c <= least \/ c = bounds.min)
      BY <1>5, <1>9, Zenon
    <2>4. least \in Nat
      BY <1>2, <1>3, <1>9
    <2> HIDE DEF c, least
    <2>5. Max({bounds.min, least}) = IF bounds.min >= least THEN bounds.min ELSE least
      BY <1>1, <2>4, MaxOfTwo
    <2>6. ttl <= Max({bounds.min, least})
      BY <1>1, <2>2, <2>3, <2>4, <2>5
    <2> QED
      BY <2>6 DEF least
  <1> QED
    BY <1>7, <1>8, <1>9, Zenon DEF LifetimeWithinRecords, bounds, ttl

-----------------------------------------------------------------------------
(* The Fake IP pool.                                                        *)

(* A family's state: two maps that are each other's inverse, and the order  *)
(* of use.                                                                  *)
Sound(f, s) ==
    /\ DOMAIN s = {"forward", "reverse", "order"}
    /\ DOMAIN s.forward \subseteq Names
    /\ \A n \in DOMAIN s.forward :
        /\ s.forward[n].expires \in Nat
        /\ s.forward[n].address \in DOMAIN s.reverse /\ s.reverse[s.forward[n].address] = n
    /\ DOMAIN s.reverse \subseteq Addresses(f)
    /\ \A a \in DOMAIN s.reverse :
        s.reverse[a] \in DOMAIN s.forward /\ s.forward[s.reverse[a]].address = a
    /\ s.order \in Seq(Names) /\ Distinct(s.order)
    /\ \A n \in Names : Holds(s.order, n) <=> n \in DOMAIN s.forward

EntryOf(f) == [name : Names, address : Addresses(f), remaining : Nat]

ListsOf(got) == DOMAIN got = Families /\ \A f \in Families : got[f] \in Seq(EntryOf(f))

Promises(f) == [Addresses(f) -> [name : Names \cup {None}, until : Nat]]

ViewInv ==
    view # None =>
        /\ view.at \in 0 .. now /\ view.todo \in Seq(Families) /\ view.todo # <<>>
        /\ ListsOf(view.got) /\ snap = None /\ restored = "no"

SnapInv == snap # None => snap.at \in 0 .. now /\ ListsOf(snap.got) /\ restored = "no"

PoolInv == DOMAIN pool = Families /\ \A f \in Families : Sound(f, pool[f])

PromiseInv == DOMAIN promise = Families /\ \A f \in Families : promise[f] \in Promises(f)

FakeInv ==
    now \in Nat /\ PoolInv /\ ViewInv /\ SnapInv /\ PromiseInv /\ RecordsHonoured

LEMMA UnmapSound ==
  ASSUME NEW f, NEW s, Sound(f, s), NEW gone \in SUBSET DOMAIN s.forward
  PROVE  LET r == Unmap(s, gone) IN
         /\ Sound(f, r)
         /\ DOMAIN r.forward = DOMAIN s.forward \ gone
         /\ \A n \in DOMAIN r.forward : r.forward[n] = s.forward[n]
         /\ \A a : a \in DOMAIN r.reverse <=> a \in DOMAIN s.reverse /\ s.reverse[a] \notin gone
         /\ \A a \in DOMAIN r.reverse : r.reverse[a] = s.reverse[a]
  <1> DEFINE F == Restrict(s.forward, DOMAIN s.forward \ gone)
             left == DOMAIN s.reverse \ {s.forward[n].address : n \in gone}
             R == Restrict(s.reverse, left)
             O == Without(s.order, gone)
             r == Unmap(s, gone)
  <1>1. r = [forward |-> F, reverse |-> R, order |-> O]
    BY DEF Unmap
  <1>2. /\ DOMAIN F = DOMAIN s.forward \ gone /\ \A n \in DOMAIN F : F[n] = s.forward[n]
        /\ DOMAIN R = left /\ \A a \in left : R[a] = s.reverse[a]
    BY Zenon DEF Restrict
  <1>3. /\ DOMAIN r = {"forward", "reverse", "order"}
        /\ r.forward = F /\ r.reverse = R /\ r.order = O
    BY <1>1
  <1>4. \A a : a \in left <=> a \in DOMAIN s.reverse /\ s.reverse[a] \notin gone
    BY Zenon DEF Sound
  <1>5. /\ O \in Seq(Names) /\ Distinct(O)
        /\ \A n : Holds(O, n) <=> n \notin gone /\ Holds(s.order, n)
    <2>1. s.order \in Seq(Names) /\ Distinct(s.order)
      BY Zenon DEF Sound
    <2> QED
      BY <2>1, WithoutFacts, Zenon
  <1> HIDE DEF F, left, R, O, r
  <1>6. Sound(f, r)
    <2>1. DOMAIN F \subseteq Names /\ DOMAIN R \subseteq Addresses(f)
      BY <1>2, <1>4, Zenon DEF Sound
    <2>2. ASSUME NEW m \in DOMAIN F
          PROVE  F[m].expires \in Nat /\ F[m].address \in DOMAIN R /\ R[F[m].address] = m
      <3>1. m \in DOMAIN s.forward /\ m \notin gone /\ F[m] = s.forward[m]
        BY <1>2, Zenon
      <3>2. /\ s.forward[m].expires \in Nat /\ s.forward[m].address \in DOMAIN s.reverse
            /\ s.reverse[s.forward[m].address] = m
        BY <3>1, Zenon DEF Sound
      <3> QED
        BY <1>2, <1>4, <3>1, <3>2, Zenon
    <2>3. ASSUME NEW b \in DOMAIN R PROVE R[b] \in DOMAIN F /\ F[R[b]].address = b
      <3>1. b \in DOMAIN s.reverse /\ s.reverse[b] \notin gone /\ R[b] = s.reverse[b]
        BY <1>2, <1>4, Zenon
      <3>2. s.reverse[b] \in DOMAIN s.forward /\ s.forward[s.reverse[b]].address = b
        BY <3>1, Zenon DEF Sound
      <3> QED
        BY <1>2, <3>1, <3>2, Zenon
    <2>4. \A m \in Names : Holds(O, m) <=> m \in DOMAIN F
      BY <1>2, <1>5, Zenon DEF Sound
    <2> QED
      BY <1>3, <1>5, <2>1, <2>2, <2>3, <2>4, Zenon DEF Sound
  <1> QED
    BY <1>2, <1>3, <1>4, <1>6, Zenon DEF r

(* What is left of a family's state after a purge.                          *)
Purged(s, r, t) ==
    /\ DOMAIN r.forward = DOMAIN s.forward \ Expired(s, t)
    /\ \A n \in DOMAIN r.forward : r.forward[n] = s.forward[n]
    /\ \A a : a \in DOMAIN r.reverse <=> a \in DOMAIN s.reverse /\ s.reverse[a] \notin Expired(s, t)
    /\ \A a \in DOMAIN r.reverse : r.reverse[a] = s.reverse[a]

LEMMA PurgeSound ==
  ASSUME NEW f, NEW s, Sound(f, s), NEW t
  PROVE  Sound(f, PurgeExpired(s, t)) /\ Purged(s, PurgeExpired(s, t), t)
  <1>1. Expired(s, t) \in SUBSET DOMAIN s.forward
    BY Zenon DEF Expired
  <1> QED
    BY <1>1, UnmapSound, Zenon DEF PurgeExpired, Purged

LEMMA TouchSound ==
  ASSUME NEW f, NEW s, Sound(f, s), NEW n \in DOMAIN s.forward
  PROVE  LET r == Touch(s, n) IN
         Sound(f, r) /\ r.forward = s.forward /\ r.reverse = s.reverse
  <1> DEFINE W == Without(s.order, {n})
             O == Append(W, n)
             r == Touch(s, n)
  <1>1. /\ DOMAIN r = {"forward", "reverse", "order"}
        /\ r.forward = s.forward /\ r.reverse = s.reverse /\ r.order = O
    <2>1. DOMAIN s = {"forward", "reverse", "order"}
      BY Zenon DEF Sound
    <2> HIDE DEF O
    <2>2. r = [s EXCEPT !.order = O]
      BY Zenon DEF Touch, O
    <2> QED
      BY <2>1, <2>2
  <1>2. n \in Names /\ s.order \in Seq(Names) /\ Distinct(s.order)
    BY Zenon DEF Sound
  <1>3. /\ W \in Seq(Names) /\ Distinct(W)
        /\ \A m : Holds(W, m) <=> m \notin {n} /\ Holds(s.order, m)
    BY <1>2, WithoutFacts, Zenon
  <1> HIDE DEF W
  <1>4. /\ Distinct(O)
        /\ \A m : Holds(O, m) <=> m = n \/ Holds(W, m)
    <2>1. ~Holds(W, n)
      BY <1>3, Zenon
    <2> QED
      BY <1>2, <1>3, <2>1, AppendFacts, Zenon
  <1>5. O \in Seq(Names)
    BY <1>2, <1>3
  <1> HIDE DEF O, r
  <1>6. \A m \in Names : Holds(O, m) <=> m \in DOMAIN s.forward
    BY <1>3, <1>4, Zenon DEF Sound
  <1>7. Sound(f, r)
    BY <1>1, <1>4, <1>5, <1>6, Zenon DEF Sound
  <1> QED
    BY <1>1, <1>7, Zenon DEF r

LEMMA InsertSound ==
  ASSUME NEW f, NEW s, Sound(f, s), NEW n \in Names, n \notin DOMAIN s.forward,
         NEW a \in Addresses(f), a \notin DOMAIN s.reverse, NEW e \in Nat
  PROVE  LET r == Insert(s, n, a, e) IN
         /\ Sound(f, r)
         /\ DOMAIN r.forward = DOMAIN s.forward \cup {n}
         /\ r.forward[n] = [address |-> a, expires |-> e]
         /\ \A m \in DOMAIN s.forward : r.forward[m] = s.forward[m]
         /\ DOMAIN r.reverse = DOMAIN s.reverse \cup {a} /\ r.reverse[a] = n
         /\ \A b \in DOMAIN s.reverse : r.reverse[b] = s.reverse[b]
  <1> DEFINE x == [address |-> a, expires |-> e]
             F == [m \in DOMAIN s.forward \cup {n} |-> IF m = n THEN x ELSE s.forward[m]]
             R == [b \in DOMAIN s.reverse \cup {a} |-> IF b = a THEN n ELSE s.reverse[b]]
             O == Append(s.order, n)
             r == Insert(s, n, a, e)
  <1>1. r = [forward |-> F, reverse |-> R, order |-> O]
    BY DEF Insert
  <1>2. x.address = a /\ x.expires = e
    OBVIOUS
  <1> HIDE DEF x
  <1>3. /\ DOMAIN F = DOMAIN s.forward \cup {n} /\ F[n] = x
        /\ \A m \in DOMAIN s.forward : F[m] = s.forward[m]
        /\ DOMAIN R = DOMAIN s.reverse \cup {a} /\ R[a] = n
        /\ \A b \in DOMAIN s.reverse : R[b] = s.reverse[b]
    BY Zenon
  <1> HIDE DEF F, R
  <1>4. /\ DOMAIN r = {"forward", "reverse", "order"}
        /\ r.forward = F /\ r.reverse = R /\ r.order = O
    BY <1>1
  <1>5. s.order \in Seq(Names) /\ Distinct(s.order)
    BY Zenon DEF Sound
  <1>6. /\ Distinct(O)
        /\ \A m : Holds(O, m) <=> m = n \/ Holds(s.order, m)
    <2>1. ~Holds(s.order, n)
      BY Zenon DEF Sound
    <2> QED
      BY <1>5, <2>1, AppendFacts, Zenon
  <1>7. O \in Seq(Names)
    BY <1>5
  <1> HIDE DEF O, r
  <1>8. Sound(f, r)
    <2>1. DOMAIN F \subseteq Names /\ DOMAIN R \subseteq Addresses(f)
      BY <1>3, Zenon DEF Sound
    <2>2. ASSUME NEW m \in DOMAIN F
          PROVE  F[m].expires \in Nat /\ F[m].address \in DOMAIN R /\ R[F[m].address] = m
      <3>1. CASE m = n
        BY <1>2, <1>3, <3>1, Zenon DEF Sound
      <3>2. CASE m \in DOMAIN s.forward
        <4>1. /\ s.forward[m].expires \in Nat /\ s.forward[m].address \in DOMAIN s.reverse
              /\ s.reverse[s.forward[m].address] = m
          BY <3>2, Zenon DEF Sound
        <4> QED
          BY <1>3, <3>2, <4>1, Zenon
      <3> QED
        BY <1>3, <3>1, <3>2, Zenon
    <2>3. ASSUME NEW b \in DOMAIN R PROVE R[b] \in DOMAIN F /\ F[R[b]].address = b
      <3>1. CASE b = a
        BY <1>2, <1>3, <3>1, Zenon
      <3>2. CASE b \in DOMAIN s.reverse
        <4>1. s.reverse[b] \in DOMAIN s.forward /\ s.forward[s.reverse[b]].address = b
          BY <3>2, Zenon DEF Sound
        <4> QED
          BY <1>3, <3>2, <4>1, Zenon
      <3> QED
        BY <1>3, <3>1, <3>2, Zenon
    <2>4. \A m \in Names : Holds(O, m) <=> m \in DOMAIN F
      BY <1>3, <1>6, Zenon DEF Sound
    <2> QED
      BY <1>4, <1>6, <1>7, <2>1, <2>2, <2>3, <2>4, Zenon DEF Sound
  <1> QED
    BY <1>3, <1>4, <1>8, Zenon DEF r, x

LEMMA OneToOne ==
  ASSUME NEW S, NEW T, NEW g \in [S -> T],
         \A x, y \in S : g[x] = g[y] => x = y, \A z \in T : \E x \in S : g[x] = z
  PROVE  g \in Bijection(S, T)
  <1>1. IsInjective(g)
    BY DEF IsInjective
  <1>2. g \in Injection(S, T)
    BY <1>1, Zenon DEF Injection
  <1>3. g \in Surjection(S, T)
    BY Zenon DEF Surjection
  <1> QED
    BY <1>2, <1>3, Zenon DEF Bijection

LEMMA Sizes ==
  ASSUME NEW f \in Families
  PROVE  /\ RangeSize[f] \in Nat /\ Addresses(f) = 0 .. RangeSize[f] - 1
         /\ IsFiniteSet(Addresses(f)) /\ Cardinality(Addresses(f)) = RangeSize[f]
  <1>1. RangeSize[f] \in Nat
    BY FakeIpAssumption DEF RangeSize, Families
  <1>2. 0 \in Int /\ RangeSize[f] - 1 \in Int
    BY <1>1
  <1>3. /\ IsFiniteSet(0 .. RangeSize[f] - 1)
        /\ Cardinality(0 .. RangeSize[f] - 1)
            = IF 0 > RangeSize[f] - 1 THEN 0 ELSE RangeSize[f] - 1 - 0 + 1
    BY <1>2, FS_Interval, Zenon
  <1> QED
    BY <1>1, <1>3 DEF Addresses

LEMMA Counts ==
  ASSUME NEW f \in Families, NEW s, Sound(f, s)
  PROVE  /\ IsFiniteSet(DOMAIN s.forward) /\ Cardinality(DOMAIN s.forward) \in Nat
         /\ Cardinality(DOMAIN s.reverse) = Cardinality(DOMAIN s.forward)
         /\ Cardinality(DOMAIN s.forward) <= RangeSize[f]
         /\ Len(s.order) = Cardinality(DOMAIN s.forward)
  <1> DEFINE D == DOMAIN s.forward
             E == DOMAIN s.reverse
             to == [n \in D |-> s.forward[n].address]
             at == [i \in 1 .. Len(s.order) |-> s.order[i]]
  <1>1. IsFiniteSet(D) /\ Cardinality(D) \in Nat
    <2>1. IsFiniteSet(Names) /\ D \in SUBSET Names
      BY FakeIpAssumption, Zenon DEF Sound
    <2> HIDE DEF D
    <2> QED
      BY <2>1, FS_Subset, FS_CardinalityType, Zenon
  <1>2. to \in Bijection(D, E)
    <2>1. ASSUME NEW n \in D PROVE to[n] = s.forward[n].address /\ to[n] \in E /\ s.reverse[to[n]] = n
      BY Zenon DEF Sound
    <2>2. ASSUME NEW a \in E PROVE s.reverse[a] \in D /\ to[s.reverse[a]] = a
      BY Zenon DEF Sound
    <2>3. to = [n \in D |-> to[n]]
      BY Zenon
    <2> HIDE DEF D, E, to
    <2>4. to \in [D -> E]
      BY <2>1, <2>3, Zenon
    <2>5. \A m, n \in D : to[m] = to[n] => m = n
      BY <2>1, Zenon
    <2>6. \A a \in E : \E n \in D : to[n] = a
      BY <2>2, Zenon
    <2> QED
      BY <2>4, <2>5, <2>6, OneToOne, Zenon
  <1>3. Cardinality(E) = Cardinality(D)
    <2> HIDE DEF D, E, to
    <2> QED
      BY <1>1, <1>2, FS_Bijection, Zenon DEF ExistsBijection
  <1>4. Cardinality(E) <= RangeSize[f]
    <2>1. E \in SUBSET Addresses(f)
      BY Zenon DEF Sound
    <2> HIDE DEF E
    <2>2. IsFiniteSet(Addresses(f)) /\ Cardinality(Addresses(f)) = RangeSize[f]
      BY Sizes, Zenon
    <2>3. Cardinality(E) <= Cardinality(Addresses(f))
      BY <2>1, <2>2, FS_Subset, Zenon
    <2> QED
      BY <2>2, <2>3
  <1>5. Len(s.order) \in Nat /\ DOMAIN s.order = 1 .. Len(s.order)
    <2>1. s.order \in Seq(Names)
      BY Zenon DEF Sound
    <2> QED
      BY <2>1
  <1>6. at \in Bijection(1 .. Len(s.order), D)
    <2>1. \A n : Holds(s.order, n) => n \in Names
      <3>1. s.order \in Seq(Names)
        BY Zenon DEF Sound
      <3>2. \A i \in DOMAIN s.order : s.order[i] \in Names
        BY <3>1
      <3> QED
        BY <3>2, Zenon DEF Holds
    <2>2. \A n : Holds(s.order, n) <=> n \in D
      BY <2>1, Zenon DEF Sound
    <2>3. Distinct(s.order)
      BY Zenon DEF Sound
    <2>4. at = [i \in 1 .. Len(s.order) |-> at[i]] /\ \A i \in 1 .. Len(s.order) : at[i] = s.order[i]
      BY Zenon
    <2> HIDE DEF D, at
    <2>5. at \in [1 .. Len(s.order) -> D]
      BY <1>5, <2>2, <2>4, Zenon DEF Holds
    <2>6. \A i, j \in 1 .. Len(s.order) : at[i] = at[j] => i = j
      BY <1>5, <2>3, <2>4, Zenon DEF Distinct
    <2>7. \A n \in D : \E i \in 1 .. Len(s.order) : at[i] = n
      BY <1>5, <2>2, <2>4, Zenon DEF Holds
    <2> QED
      BY <2>5, <2>6, <2>7, OneToOne, Zenon
  <1>7. Cardinality(D) = Len(s.order)
    <2> HIDE DEF D, at
    <2> QED
      BY <1>5, <1>6, FS_CountingElements, Zenon DEF ExistsBijection
  <1> QED
    BY <1>1, <1>3, <1>4, <1>7

LEMMA EvictSound ==
  ASSUME NEW f \in Families, NEW s, Sound(f, s), Enabled(f), Full(s, f)
  PROVE  LET r == EvictLru(s)
             n == Head(s.order) IN
         /\ Sound(f, r) /\ n \in DOMAIN s.forward
         /\ DOMAIN r.forward = DOMAIN s.forward \ {n}
         /\ \A m \in DOMAIN r.forward : r.forward[m] = s.forward[m]
         /\ \A a : a \in DOMAIN r.reverse <=> a \in DOMAIN s.reverse /\ s.reverse[a] # n
         /\ \A a \in DOMAIN r.reverse : r.reverse[a] = s.reverse[a]
         /\ ~Full(r, f)
  <1> DEFINE n == Head(s.order)
             D == DOMAIN s.forward
             r == EvictLru(s)
  <1>1. RangeSize[f] \in Nat \ {0} /\ RangeSize[f] <= Cardinality(D)
    BY Sizes DEF Enabled, Full
  <1>2. /\ Len(s.order) = Cardinality(D) /\ Cardinality(D) \in Nat /\ IsFiniteSet(D)
        /\ Cardinality(D) <= RangeSize[f]
    BY Counts, Zenon
  <1>3. s.order \in Seq(Names)
    BY Zenon DEF Sound
  <1>4. 1 \in DOMAIN s.order /\ s.order[1] = n /\ n \in Names
    BY <1>1, <1>2, <1>3
  <1> HIDE DEF n
  <1>5. n \in D
    <2>1. Holds(s.order, n)
      BY <1>4, Zenon DEF Holds
    <2> QED
      BY <1>4, <2>1, Zenon DEF Sound
  <1>6. r = Unmap(s, {n}) /\ {n} \in SUBSET D
    BY <1>5, Zenon DEF EvictLru, n
  <1> HIDE DEF D, r
  <1>7. /\ Sound(f, r) /\ DOMAIN r.forward = D \ {n}
        /\ \A m \in DOMAIN r.forward : r.forward[m] = s.forward[m]
        /\ \A a : a \in DOMAIN r.reverse <=> a \in DOMAIN s.reverse /\ s.reverse[a] \notin {n}
        /\ \A a \in DOMAIN r.reverse : r.reverse[a] = s.reverse[a]
    <2>1. {n} \in SUBSET DOMAIN s.forward
      BY <1>6, Zenon DEF D
    <2> DEFINE u == Unmap(s, {n})
    <2>2. /\ Sound(f, u) /\ DOMAIN u.forward = DOMAIN s.forward \ {n}
          /\ \A m \in DOMAIN u.forward : u.forward[m] = s.forward[m]
          /\ \A a : a \in DOMAIN u.reverse <=> a \in DOMAIN s.reverse /\ s.reverse[a] \notin {n}
          /\ \A a \in DOMAIN u.reverse : u.reverse[a] = s.reverse[a]
      BY <2>1, UnmapSound, Zenon
    <2> QED
      BY <1>6, <2>2 DEF D
  <1>8. ~Full(r, f)
    <2>1. Cardinality(D \ {n}) = Cardinality(D) - 1
      BY <1>2, <1>5, FS_RemoveElement, Zenon
    <2> QED
      BY <1>1, <1>2, <1>7, <2>1 DEF Full
  <1> QED
    BY <1>5, <1>7, <1>8, Zenon DEF D, r, n

(* The circular search finds an address that is free when there is one.     *)
LEMMA ProbeFree ==
  ASSUME NEW f \in Families, NEW s, Sound(f, s), ~Full(s, f), NEW n \in Names
  PROVE  Probe(s, f, n) \in Addresses(f) /\ Probe(s, f, n) \notin DOMAIN s.reverse
  <1> DEFINE N == RangeSize[f]
             c == Hash[f][n] % N
             At(k) == (c + k) % N
             E == DOMAIN s.reverse
             Good(k) == At(k) \notin E /\ \A j \in 0 .. k - 1 : At(j) \in E
             K == {k \in 0 .. N - 1 : At(k) \notin E}
  <1>1. /\ N \in Nat /\ Addresses(f) = 0 .. N - 1
        /\ IsFiniteSet(0 .. N - 1) /\ Cardinality(0 .. N - 1) = N
    BY Sizes
  <1>2. Cardinality(E) \in Nat /\ Cardinality(E) < N
    BY <1>1, Counts DEF Full
  <1>3. N \in Nat \ {0}
    BY <1>1, <1>2
  <1>4. PICK i \in 0 .. N - 1 : i \notin E
    <2>1. E \in SUBSET (0 .. N - 1)
      BY <1>1, Zenon DEF Sound
    <2>2. Cardinality(E) # N
      BY <1>1, <1>2
    <2>3. E # 0 .. N - 1
      BY <1>1, <2>2
    <2> QED
      BY <2>1, <2>3
  <1>5. c \in 0 .. N - 1
    <2>1. Hash[f][n] \in Nat
      BY FakeIpAssumption
    <2> HIDE DEF N
    <2> QED
      BY <1>3, <2>1
  <1> HIDE DEF c, N, E
  <1>6. K # {} /\ K \in SUBSET Nat
    <2>1. \E k \in 0 .. N - 1 : (c + k) % N = i
      BY <1>3, <1>4, <1>5, Cyclic
    <2>2. 0 .. N - 1 \subseteq Nat
      BY <1>3
    <2> QED
      BY <1>4, <2>1, <2>2, Zenon
  <1>7. PICK k \in K : \A j \in K : k <= j
    <2> HIDE DEF K
    <2> QED
      BY <1>6, Least, Zenon
  <1>8. k \in 0 .. N - 1 /\ Good(k)
    <2>1. k \in 0 .. N - 1 /\ At(k) \notin E
      BY <1>7, Zenon
    <2>2. ASSUME NEW j \in 0 .. k - 1 PROVE At(j) \in E
      <3>1. j \in 0 .. N - 1 /\ ~(k <= j)
        BY <1>3, <2>1
      <3> QED
        BY <1>7, <3>1, Zenon
    <2> QED
      BY <2>1, <2>2, Zenon
  <1> DEFINE m == CHOOSE j \in 0 .. N - 1 : Good(j)
  <1>9. m \in 0 .. N - 1 /\ At(m) \notin E
    BY <1>8, Zenon
  <1>10. Probe(s, f, n) = At(m)
    BY <1>1, Zenon DEF Probe, N, c, E
  <1> HIDE DEF m
  <1>11. At(m) \in 0 .. N - 1
    BY <1>3, <1>5, <1>9
  <1> QED
    BY <1>1, <1>9, <1>10, <1>11, Zenon DEF E

(* What allocate leaves of a family's state: the name is mapped, and every  *)
(* other mapping is as it was, expired, or the one that was evicted.        *)
Serves(f, s, r, n, t) ==
    /\ Sound(f, r) /\ n \in DOMAIN r.forward
    /\ r.forward[n].expires \in Nat /\ r.forward[n].expires >= t
    /\ \A m \in DOMAIN s.forward \ Expired(s, t) :
        IF m \in DOMAIN r.forward THEN r.forward[m] = s.forward[m]
        ELSE Full(PurgeExpired(s, t), f) /\ m = Head(PurgeExpired(s, t).order)
    /\ \A b \in DOMAIN r.reverse \ {r.forward[n].address} :
        b \in DOMAIN s.reverse /\ s.reverse[b] \notin Expired(s, t) /\ r.reverse[b] = s.reverse[b]

LEMMA AllocatedServes ==
  ASSUME NEW f \in Families, NEW s, Sound(f, s), Enabled(f), NEW n \in Names, NEW t \in Nat
  PROVE  Serves(f, s, Allocated(s, f, n, t), n, t)
  <1> DEFINE live == PurgeExpired(s, t)
             room == IF Full(live, f) THEN EvictLru(live) ELSE live
             r == Allocated(s, f, n, t)
  <1>1. Sound(f, live) /\ Purged(s, live, t)
    BY PurgeSound
  <1>2. r = IF n \in DOMAIN live.forward THEN Touch(live, n)
            ELSE Insert(room, n, Probe(room, f, n), t + Ttl)
    BY Zenon DEF Allocated
  <1> HIDE DEF live, r
  <1>3. /\ DOMAIN live.forward = DOMAIN s.forward \ Expired(s, t)
        /\ \A m \in DOMAIN live.forward : live.forward[m] = s.forward[m]
        /\ \A b \in DOMAIN live.reverse : b \in DOMAIN s.reverse /\ s.reverse[b] \notin Expired(s, t)
                                                /\ live.reverse[b] = s.reverse[b]
    BY <1>1, Zenon DEF Purged
  <1>4. CASE n \in DOMAIN live.forward
    <2>1. r = Touch(live, n)
      BY <1>2, <1>4, Zenon
    <2>2. Sound(f, r) /\ r.forward = live.forward /\ r.reverse = live.reverse
      BY <1>1, <1>4, <2>1, TouchSound, Zenon
    <2>3. s.forward[n].expires \in Nat /\ ~(s.forward[n].expires <= t)
      BY <1>3, <1>4, Zenon DEF Sound, Expired
    <2>4. r.forward[n].expires \in Nat /\ r.forward[n].expires >= t
      <3>1. r.forward[n].expires = s.forward[n].expires
        BY <1>3, <1>4, <2>2, Zenon
      <3> QED
        BY <2>3, <3>1
    <2>5. \A m \in DOMAIN s.forward \ Expired(s, t) :
            m \in DOMAIN r.forward /\ r.forward[m] = s.forward[m]
      BY <1>3, <2>2, Zenon
    <2>6. \A b \in DOMAIN r.reverse :
            b \in DOMAIN s.reverse /\ s.reverse[b] \notin Expired(s, t) /\ r.reverse[b] = s.reverse[b]
      BY <1>3, <2>2, Zenon
    <2>7. n \in DOMAIN r.forward
      BY <1>4, <2>2, Zenon
    <2>8. Serves(f, s, r, n, t)
      BY <2>2, <2>4, <2>5, <2>6, <2>7, Zenon DEF Serves
    <2> QED
      BY <2>8 DEF r
  <1>5. CASE n \notin DOMAIN live.forward
    <2> DEFINE a == Probe(room, f, n)
               e == t + Ttl
    <2>1. r = Insert(room, n, a, e)
      BY <1>2, <1>5, Zenon
    <2>2. e \in Nat /\ e >= t
      BY FakeIpAssumption
    <2> DEFINE Fits(v) ==
                /\ Sound(f, v) /\ ~Full(v, f)
                /\ DOMAIN v.forward \subseteq DOMAIN live.forward
                /\ \A m \in DOMAIN v.forward : v.forward[m] = live.forward[m]
                /\ \A m \in DOMAIN live.forward : m \in DOMAIN v.forward
                        \/ (Full(live, f) /\ m = Head(live.order))
                /\ \A b \in DOMAIN v.reverse : b \in DOMAIN live.reverse
                                                /\ v.reverse[b] = live.reverse[b]
    <2>f. Fits(room)
      <3>1. ASSUME Full(live, f) PROVE Fits(EvictLru(live))
        <4> DEFINE v == EvictLru(live)
        <4>1. /\ Sound(f, v) /\ ~Full(v, f)
              /\ DOMAIN v.forward = DOMAIN live.forward \ {Head(live.order)}
              /\ \A m \in DOMAIN v.forward : v.forward[m] = live.forward[m]
              /\ \A b : b \in DOMAIN v.reverse
                        <=> b \in DOMAIN live.reverse /\ live.reverse[b] # Head(live.order)
              /\ \A b \in DOMAIN v.reverse : v.reverse[b] = live.reverse[b]
          BY <1>1, <3>1, EvictSound, Zenon
        <4> HIDE DEF v
        <4>2. Fits(v)
          BY <3>1, <4>1, Zenon
        <4> QED
          BY <4>2 DEF v
      <3>2. ASSUME ~Full(live, f) PROVE Fits(live)
        BY <1>1, <3>2, Zenon
      <3> HIDE DEF Fits
      <3> QED
        BY <3>1, <3>2, Zenon
    <2>3. /\ Sound(f, room) /\ ~Full(room, f)
          /\ DOMAIN room.forward \subseteq DOMAIN live.forward
          /\ \A m \in DOMAIN room.forward : room.forward[m] = live.forward[m]
          /\ \A m \in DOMAIN live.forward : m \in DOMAIN room.forward
                \/ (Full(live, f) /\ m = Head(live.order))
          /\ \A b \in DOMAIN room.reverse : b \in DOMAIN live.reverse
                                                /\ room.reverse[b] = live.reverse[b]
      <3> HIDE DEF room
      <3> QED
        BY <2>f
    <2> HIDE DEF Fits
    <2> HIDE DEF room
    <2>4. a \in Addresses(f) /\ a \notin DOMAIN room.reverse /\ n \notin DOMAIN room.forward
      BY <1>5, <2>3, ProbeFree, Zenon
    <2> HIDE DEF a, e
    <2> DEFINE i == Insert(room, n, a, e)
    <2>e. e \in Nat
      BY <2>2
    <2>5. /\ Sound(f, i)
          /\ DOMAIN i.forward = DOMAIN room.forward \cup {n}
          /\ i.forward[n] = [address |-> a, expires |-> e]
          /\ \A m \in DOMAIN room.forward : i.forward[m] = room.forward[m]
          /\ DOMAIN i.reverse = DOMAIN room.reverse \cup {a}
          /\ \A b \in DOMAIN room.reverse : i.reverse[b] = room.reverse[b]
      BY <2>e, <2>3, <2>4, InsertSound
    <2> HIDE DEF i
    <2>6. i.forward[n].address = a /\ i.forward[n].expires = e
      BY <2>5
    <2>7. ASSUME NEW m \in DOMAIN s.forward \ Expired(s, t)
          PROVE  IF m \in DOMAIN i.forward THEN i.forward[m] = s.forward[m]
                 ELSE Full(live, f) /\ m = Head(live.order)
      <3>1. m \in DOMAIN live.forward /\ live.forward[m] = s.forward[m] /\ m # n
        BY <1>3, <1>5, Zenon
      <3> QED
        BY <2>3, <2>5, <3>1, Zenon
    <2>8. ASSUME NEW b \in DOMAIN i.reverse \ {a}
          PROVE  b \in DOMAIN s.reverse /\ s.reverse[b] \notin Expired(s, t)
                    /\ i.reverse[b] = s.reverse[b]
      BY <1>3, <2>3, <2>5, Zenon
    <2>9. n \in DOMAIN i.forward
      BY <2>5, Zenon
    <2>10. Serves(f, s, i, n, t)
      BY <2>2, <2>5, <2>6, <2>7, <2>8, <2>9, Zenon DEF Serves, live
    <2> QED
      BY <2>1, <2>10 DEF i, r
  <1> QED
    BY <1>4, <1>5

LEMMA LookedUpSound ==
  ASSUME NEW f, NEW s, Sound(f, s), NEW a, NEW t
  PROVE  Sound(f, LookedUp(s, a, t)) /\ Purged(s, LookedUp(s, a, t), t)
  <1> DEFINE live == PurgeExpired(s, t)
  <1>1. Sound(f, live) /\ Purged(s, live, t)
    BY PurgeSound
  <1>2. LookedUp(s, a, t) = IF a \in DOMAIN live.reverse THEN Touch(live, live.reverse[a]) ELSE live
    BY Zenon DEF LookedUp
  <1> HIDE DEF live
  <1>3. CASE a \in DOMAIN live.reverse
    <2> DEFINE r == Touch(live, live.reverse[a])
    <2>1. live.reverse[a] \in DOMAIN live.forward
      BY <1>1, <1>3, Zenon DEF Sound
    <2>2. Sound(f, r) /\ r.forward = live.forward /\ r.reverse = live.reverse
      BY <1>1, <2>1, TouchSound, Zenon
    <2> HIDE DEF r
    <2>3. Purged(s, r, t)
      BY <1>1, <2>2, Zenon DEF Purged
    <2> QED
      BY <1>2, <1>3, <2>2, <2>3, Zenon DEF r
  <1> QED
    BY <1>1, <1>2, <1>3, Zenon

LEMMA ListedEntries ==
  ASSUME NEW f, NEW s, Sound(f, s), NEW t \in Nat
  PROVE  Listed(PurgeExpired(s, t), t) \in Seq(EntryOf(f))
  <1> DEFINE r == PurgeExpired(s, t)
             E(i) == [name |-> r.order[i], address |-> r.forward[r.order[i]].address,
                      remaining |-> r.forward[r.order[i]].expires - t]
  <1>1. Sound(f, r) /\ Purged(s, r, t)
    BY PurgeSound
  <1> HIDE DEF r
  <1>2. r.order \in Seq(Names)
    BY <1>1, Zenon DEF Sound
  <1>3. ASSUME NEW i \in DOMAIN r.order PROVE E(i) \in EntryOf(f)
    <2> DEFINE n == r.order[i]
               x == r.forward[n]
    <2>1. n \in Names
      BY <1>2
    <2>2. n \in DOMAIN r.forward
      <3>1. Holds(r.order, n)
        BY Zenon DEF Holds
      <3> QED
        BY <1>1, <2>1, <3>1, Zenon DEF Sound
    <2>3. x.expires \in Nat /\ x.address \in Addresses(f)
      BY <1>1, <2>2, Zenon DEF Sound
    <2>4. ~(x.expires <= t)
      BY <1>1, <2>2, Zenon DEF Purged, Expired
    <2>5. x.expires - t \in Nat
      BY <2>3, <2>4
    <2> HIDE DEF n
    <2>6. [name |-> n, address |-> x.address, remaining |-> x.expires - t] \in EntryOf(f)
      BY <2>1, <2>3, <2>5, Zenon DEF EntryOf
    <2> QED
      BY <2>6 DEF n
  <1>4. Listed(r, t) = [i \in DOMAIN r.order |-> E(i)]
    BY DEF Listed
  <1>5. Len(r.order) \in Nat /\ DOMAIN r.order = 1 .. Len(r.order)
    BY <1>2
  <1> HIDE DEF E
  <1>6. [i \in 1 .. Len(r.order) |-> E(i)] \in Seq(EntryOf(f))
    BY <1>3, <1>5
  <1> QED
    BY <1>4, <1>5, <1>6, Zenon DEF r

(* What restore makes of a list: the mappings that have not expired, with   *)
(* the expiry they had.                                                     *)
Revived(list, r) ==
    LET kept == Kept(list) IN
    /\ r.order = [i \in DOMAIN kept |-> kept[i].name]
    /\ \A i \in DOMAIN kept :
        /\ r.forward[kept[i].name]
            = [address |-> kept[i].address, expires |-> snap.at + kept[i].remaining]
        /\ kept[i].address \in DOMAIN r.reverse /\ r.reverse[kept[i].address] = kept[i].name

LEMMA RestoredSound ==
  ASSUME NEW f, NEW list \in Seq(EntryOf(f)), Acceptable(list),
         now \in Nat, snap.at \in 0 .. now
  PROVE  Sound(f, Restored(list)) /\ Revived(list, Restored(list))
  <1> DEFINE kept == Kept(list)
             D == DOMAIN kept
             r == Restored(list)
             At(n) == CHOOSE i \in D : kept[i].name = n
             Of(a) == CHOOSE i \in D : kept[i].address = a
             x(i) == [address |-> kept[i].address, expires |-> now + kept[i].remaining - Elapsed]
             F == [n \in {kept[i].name : i \in D} |-> x(At(n))]
             R == [a \in {kept[i].address : i \in D} |-> kept[Of(a)].name]
             O == [i \in D |-> kept[i].name]
  <1>1. r = [forward |-> F, reverse |-> R, order |-> O]
    BY DEF Restored
  <1>2. kept \in Seq(EntryOf(f))
    BY WithoutFacts, Zenon DEF Kept
  <1>3. \A i, j \in D : i # j => kept[i].name # kept[j].name /\ kept[i].address # kept[j].address
    BY Zenon DEF Acceptable
  <1> HIDE DEF kept
  <1>4. Len(kept) \in Nat /\ D = 1 .. Len(kept)
    BY <1>2
  <1>5. ASSUME NEW i \in D
        PROVE  kept[i].name \in Names /\ kept[i].address \in Addresses(f) /\ kept[i].remaining \in Nat
    <2>1. kept[i] \in EntryOf(f)
      BY <1>2
    <2> QED
      BY <2>1 DEF EntryOf
  <1>6. ASSUME NEW i \in D
        PROVE  /\ x(i) = [address |-> kept[i].address, expires |-> snap.at + kept[i].remaining]
               /\ x(i).address = kept[i].address /\ x(i).expires \in Nat
    <2>1. kept[i].remaining \in Nat
      BY <1>5
    <2> DEFINE m == kept[i].remaining
    <2> HIDE DEF m
    <2>2. now + m - Elapsed = snap.at + m /\ snap.at + m \in Nat
      BY <2>1 DEF Elapsed, m
    <2> QED
      BY <2>2 DEF m
  <1> HIDE DEF x
  <1>7. ASSUME NEW i \in D
        PROVE  At(kept[i].name) = i /\ Of(kept[i].address) = i
    BY <1>3, Zenon
  <1> HIDE DEF At, Of
  <1>8. ASSUME NEW i \in D
        PROVE  /\ kept[i].name \in DOMAIN F /\ F[kept[i].name] = x(i)
               /\ kept[i].address \in DOMAIN R /\ R[kept[i].address] = kept[i].name
    BY <1>7, Zenon
  <1>9. /\ \A n \in DOMAIN F : \E i \in D : n = kept[i].name
        /\ \A a \in DOMAIN R : \E i \in D : a = kept[i].address
    BY Zenon
  <1>10. /\ DOMAIN r = {"forward", "reverse", "order"}
         /\ r.forward = F /\ r.reverse = R /\ r.order = O
    BY <1>1
  <1> HIDE DEF F, R, r
  <1>11. ASSUME NEW n \in DOMAIN F
         PROVE  /\ n \in Names /\ F[n].expires \in Nat
                /\ F[n].address \in DOMAIN R /\ R[F[n].address] = n
    <2>1. PICK i \in D : n = kept[i].name
      BY <1>9, Zenon
    <2> QED
      BY <1>5, <1>6, <1>8, <2>1, Zenon
  <1>12. ASSUME NEW a \in DOMAIN R
         PROVE  a \in Addresses(f) /\ R[a] \in DOMAIN F /\ F[R[a]].address = a
    <2>1. PICK i \in D : a = kept[i].address
      BY <1>9, Zenon
    <2> QED
      BY <1>5, <1>6, <1>8, <2>1, Zenon
  <1>13. O \in Seq(Names)
    <2>1. [i \in 1 .. Len(kept) |-> kept[i].name] \in Seq(Names)
      <3>1. \A i \in 1 .. Len(kept) : kept[i].name \in Names
        BY <1>4, <1>5, Zenon
      <3> QED
        BY <1>4, <3>1
    <2> QED
      BY <1>4, <2>1, Zenon
  <1>14. Distinct(O)
    BY <1>3, Zenon DEF Distinct
  <1>15. \A n \in Names : Holds(O, n) <=> n \in DOMAIN F
    BY <1>8, <1>9, Zenon DEF Holds
  <1> HIDE DEF O
  <1>16. Sound(f, r)
    BY <1>10, <1>11, <1>12, <1>13, <1>14, <1>15, Zenon DEF Sound
  <1>17. Revived(list, r)
    <2>1. r.order = [i \in D |-> kept[i].name]
      BY <1>10 DEF O
    <2>2. ASSUME NEW i \in D
          PROVE  /\ r.forward[kept[i].name]
                    = [address |-> kept[i].address, expires |-> snap.at + kept[i].remaining]
                 /\ kept[i].address \in DOMAIN r.reverse /\ r.reverse[kept[i].address] = kept[i].name
      BY <1>6, <1>8, <1>10, Zenon
    <2> QED
      BY <2>1, <2>2, Zenon DEF Revived, kept
  <1> QED
    BY <1>16, <1>17 DEF r

LEMMA RoundedDown ==
  ASSUME NEW x \in Nat
  PROVE  Second * RecordTtl(x) \in Nat /\ Second * RecordTtl(x) <= x
  <1>1. Second \in Nat \ {0}
    BY FakeIpAssumption
  <1>2. \A k \in Nat \ {0} : \A y \in Nat : k * (y \div k) \in Nat /\ k * (y \div k) <= y
    OBVIOUS
  <1> QED
    BY <1>1, <1>2 DEF RecordTtl

(* What a step makes of the live mappings of one family, and of what the    *)
(* records of its addresses promise.                                        *)
KeptOrEvicted(f, r) ==
    \A n \in DOMAIN pool[f].forward \ Expired(pool[f], now) :
        IF n \in DOMAIN r.forward
        THEN r.forward[n].expires <= pool[f].forward[n].expires
        ELSE Full(PurgeExpired(pool[f], now), f) /\ n = Head(PurgeExpired(pool[f], now).order)

Honours(f, r, p, t) ==
    \A a \in Addresses(f) : t < p[a].until =>
        a \in DOMAIN r.reverse /\ r.reverse[a] = p[a].name
            /\ r.forward[p[a].name].expires >= p[a].until

LEMMA HonouredPerFamily ==
  /\ RecordsHonoured <=> \A f \in Families : Honours(f, pool[f], promise[f], now)
  /\ RecordsHonoured' <=> \A f \in Families : Honours(f, pool'[f], promise'[f], now')
  /\ Evicts <=> \A f \in Families : KeptOrEvicted(f, pool'[f])
  <1>1. RecordsHonoured <=> \A f \in Families : Honours(f, pool[f], promise[f], now)
    BY Zenon DEF RecordsHonoured, Honours
  <1>2. RecordsHonoured' <=> \A f \in Families : Honours(f, pool'[f], promise'[f], now')
    BY Zenon DEF RecordsHonoured, Honours
  <1>3. Evicts <=> \A f \in Families : KeptOrEvicted(f, pool'[f])
    BY Zenon DEF Evicts, KeptOrEvicted
  <1> QED
    BY <1>1, <1>2, <1>3

LEMMA SameFamily ==
  ASSUME FakeInv, NEW f \in Families
  PROVE  KeptOrEvicted(f, pool[f])
  <1>1. \A n \in DOMAIN pool[f].forward : pool[f].forward[n].expires \in Nat
    BY Zenon DEF FakeInv, PoolInv, Sound
  <1>2. \A e \in Nat : e <= e
    OBVIOUS
  <1> QED
    BY <1>1, <1>2, Zenon DEF KeptOrEvicted

LEMMA PurgedFamily ==
  ASSUME FakeInv, NEW f \in Families, NEW r, NEW t \in 0 .. now, Purged(pool[f], r, t)
  PROVE  Honours(f, r, promise[f], now) /\ KeptOrEvicted(f, r)
  <1> DEFINE s == pool[f]
             p == promise[f]
  <1>1. now \in Nat /\ Sound(f, s) /\ p \in Promises(f) /\ Honours(f, s, p, now)
    BY HonouredPerFamily, Zenon DEF FakeInv, PoolInv, PromiseInv
  <1>2. /\ DOMAIN r.forward = DOMAIN s.forward \ Expired(s, t)
        /\ \A n \in DOMAIN r.forward : r.forward[n] = s.forward[n]
        /\ \A a : a \in DOMAIN r.reverse <=> a \in DOMAIN s.reverse /\ s.reverse[a] \notin Expired(s, t)
        /\ \A a \in DOMAIN r.reverse : r.reverse[a] = s.reverse[a]
    BY Zenon DEF Purged
  <1>3. \A n \in DOMAIN s.forward : s.forward[n].expires \in Nat
    BY <1>1, Zenon DEF Sound
  <1> HIDE DEF s, p
  <1>4. ASSUME NEW a \in Addresses(f), now < p[a].until
        PROVE  a \in DOMAIN r.reverse /\ r.reverse[a] = p[a].name
                    /\ r.forward[p[a].name].expires >= p[a].until
    <2> DEFINE n == p[a].name
               u == p[a].until
    <2>1. u \in Nat
      <3>1. p[a] \in [name : Names \cup {None}, until : Nat]
        BY <1>1, Zenon DEF Promises
      <3> QED
        BY <3>1
    <2>2. a \in DOMAIN s.reverse /\ s.reverse[a] = n /\ s.forward[n].expires >= u
      BY <1>1, <1>4, Zenon DEF Honours
    <2>3. n \in DOMAIN s.forward
      BY <1>1, <2>2, Zenon DEF Sound
    <2>4. ~(s.forward[n].expires <= t)
      <3> HIDE DEF n, u
      <3>1. now < u
        BY <1>4 DEF u
      <3> QED
        BY <1>1, <1>3, <2>1, <2>2, <2>3, <3>1
    <2>5. n \notin Expired(s, t)
      BY <2>4, Zenon DEF Expired
    <2> QED
      BY <1>2, <2>2, <2>3, <2>5, Zenon
  <1>5. ASSUME NEW n \in DOMAIN s.forward \ Expired(s, now)
        PROVE  n \in DOMAIN r.forward /\ r.forward[n].expires <= s.forward[n].expires
    <2>1. ~(s.forward[n].expires <= now)
      BY <1>5, Zenon DEF Expired
    <2>2. ~(s.forward[n].expires <= t) /\ s.forward[n].expires <= s.forward[n].expires
      BY <1>1, <1>3, <2>1
    <2>3. n \notin Expired(s, t)
      BY <2>2, Zenon DEF Expired
    <2> QED
      BY <1>2, <2>2, <2>3, Zenon
  <1>6. Honours(f, r, p, now)
    BY <1>4, Zenon DEF Honours
  <1> QED
    BY <1>5, <1>6, Zenon DEF KeptOrEvicted, s, p

(* The step of one family, the others as they were.                         *)
LEMMA OneFamily ==
  ASSUME FakeInv, NEW f \in Families, NEW r, Sound(f, r), NEW p \in Promises(f),
         Honours(f, r, p, now), KeptOrEvicted(f, r), pool' = [pool EXCEPT ![f] = r],
         DOMAIN promise' = Families, promise'[f] = p,
         \A g \in Families \ {f} : promise'[g] = promise[g], now' = now
  PROVE  PoolInv' /\ PromiseInv' /\ RecordsHonoured' /\ Evicts
  <1>1. DOMAIN pool = Families /\ \A g \in Families : Sound(g, pool[g])
    BY Zenon DEF FakeInv, PoolInv
  <1>2. DOMAIN pool' = Families /\ pool'[f] = r /\ \A g \in Families \ {f} : pool'[g] = pool[g]
    BY <1>1, Zenon
  <1>3. \A g \in Families : /\ Honours(g, pool[g], promise[g], now) /\ KeptOrEvicted(g, pool[g])
                            /\ promise[g] \in Promises(g)
    BY SameFamily, HonouredPerFamily, Zenon DEF FakeInv, PromiseInv
  <1>4. \A g \in Families : /\ Sound(g, pool'[g]) /\ Honours(g, pool'[g], promise'[g], now)
                            /\ KeptOrEvicted(g, pool'[g]) /\ promise'[g] \in Promises(g)
    <2> SUFFICES ASSUME NEW g \in Families
                 PROVE  /\ Sound(g, pool'[g]) /\ Honours(g, pool'[g], promise'[g], now)
                        /\ KeptOrEvicted(g, pool'[g]) /\ promise'[g] \in Promises(g)
      OBVIOUS
    <2>1. CASE g = f
      <3>1. pool'[g] = r /\ promise'[g] = p
        BY <1>2, <2>1, Zenon
      <3> QED
        BY <2>1, <3>1, Zenon
    <2>2. CASE g # f
      <3>1. pool'[g] = pool[g] /\ promise'[g] = promise[g]
        BY <1>2, <2>2, Zenon
      <3> QED
        BY <1>1, <1>3, <3>1, Zenon
    <2> QED
      BY <2>1, <2>2
  <1>5. PoolInv'
    BY <1>2, <1>4, Zenon DEF PoolInv, Sound, Addresses, RangeSize, Families
  <1>6. PromiseInv'
    BY <1>4, Zenon DEF PromiseInv, Promises, Addresses, RangeSize, Families
  <1>7. RecordsHonoured' /\ Evicts
    BY <1>4, HonouredPerFamily, Zenon
  <1> QED
    BY <1>5, <1>6, <1>7

(* A step of one family that only purges it.                                *)
LEMMA OnePurged ==
  ASSUME FakeInv, NEW f \in Families, NEW r, NEW t \in 0 .. now,
         Sound(f, r), Purged(pool[f], r, t),
         pool' = [pool EXCEPT ![f] = r], UNCHANGED <<now, promise>>
  PROVE  PoolInv' /\ PromiseInv' /\ RecordsHonoured' /\ Evicts
  <1>1. Honours(f, r, promise[f], now) /\ KeptOrEvicted(f, r)
    BY PurgedFamily, Zenon
  <1>2. /\ promise[f] \in Promises(f) /\ DOMAIN promise' = Families
        /\ promise'[f] = promise[f] /\ \A g \in Families \ {f} : promise'[g] = promise[g]
    BY Zenon DEF FakeInv, PromiseInv
  <1>3. now' = now
    OBVIOUS
  <1> QED
    BY <1>1, <1>2, <1>3, OneFamily, Zenon

AgesOnly == IF Restores THEN \A f \in Families : Revives(f, snap.got[f]) ELSE Evicts

LEMMA NotRestoring ==
  ASSUME FakeInv, restored' = restored
  PROVE  AgesOnly <=> Evicts
  <1>1. ~Restores
    BY DEF FakeInv, SnapInv, Restores
  <1> QED
    BY <1>1, Zenon DEF AgesOnly

LEMMA SamePool ==
  ASSUME FakeInv, pool' = pool, restored' # "yes"
  PROVE  PoolInv' /\ AgesOnly
  <1>1. PoolInv'
    BY Zenon DEF FakeInv, PoolInv, Sound, Addresses, RangeSize, Families
  <1>2. Evicts
    BY SameFamily, HonouredPerFamily, Zenon
  <1> QED
    BY <1>1, <1>2, Zenon DEF AgesOnly, Restores

LEMMA SameSnapshots ==
  ASSUME FakeInv, UNCHANGED <<now, view, snap, restored>>
  PROVE  now' \in Nat /\ ViewInv' /\ SnapInv' /\ restored' = restored
  BY Zenon DEF FakeInv, ViewInv, SnapInv

LEMMA TickKeeps ==
  ASSUME FakeInv, Tick
  PROVE  FakeInv' /\ AgesOnly
  <1>1. /\ now \in Nat /\ now' = now + 1 /\ UNCHANGED <<pool, view, snap, restored>>
        /\ promise' = [f \in Families |-> [a \in Addresses(f) |->
                            IF promise[f][a].until <= now' THEN NoPromise ELSE promise[f][a]]]
    BY Zenon DEF FakeInv, Tick
  <1>2. ViewInv' /\ SnapInv' /\ now' \in Nat
    <2>1. \A t \in 0 .. now : t \in 0 .. now'
      BY <1>1
    <2>2. now' \in Nat
      BY <1>1
    <2> QED
      BY <1>1, <2>1, <2>2, Zenon DEF FakeInv, ViewInv, SnapInv
  <1>4. PoolInv' /\ AgesOnly
    <2>1. PoolInv'
      BY <1>1, Zenon DEF FakeInv, PoolInv, Sound, Addresses, RangeSize, Families
    <2>2. Evicts
      BY <1>1, SameFamily, HonouredPerFamily, Zenon
    <2> QED
      BY <1>1, <2>1, <2>2, NotRestoring
  <1>5. NoPromise \in [name : Names \cup {None}, until : Nat] /\ NoPromise.until = 0
    BY DEF NoPromise
  <1>6. ASSUME NEW f \in Families, NEW a \in Addresses(f)
        PROVE  /\ promise[f][a] \in [name : Names \cup {None}, until : Nat]
               /\ promise'[f][a] = IF promise[f][a].until <= now' THEN NoPromise ELSE promise[f][a]
    BY <1>1, Zenon DEF FakeInv, PromiseInv, Promises
  <1>7. PromiseInv'
    <2>1. \A f \in Families : promise'[f] \in Promises(f)
      <3> SUFFICES ASSUME NEW f \in Families PROVE promise'[f] \in Promises(f)
        OBVIOUS
      <3>1. promise'[f] = [a \in Addresses(f) |->
                            IF promise[f][a].until <= now' THEN NoPromise ELSE promise[f][a]]
        BY <1>1, Zenon
      <3>2. \A a \in Addresses(f) : (IF promise[f][a].until <= now' THEN NoPromise ELSE promise[f][a])
                                        \in [name : Names \cup {None}, until : Nat]
        BY <1>5, <1>6, Zenon
      <3> QED
        BY <3>1, <3>2, Zenon DEF Promises
    <2>2. DOMAIN promise' = Families
      BY <1>1, Zenon
    <2> QED
      BY <2>1, <2>2, Zenon DEF PromiseInv, Promises, Addresses, RangeSize, Families
  <1>8. ASSUME NEW f \in Families PROVE Honours(f, pool'[f], promise'[f], now')
    <2> SUFFICES ASSUME NEW a \in Addresses(f), now' < promise'[f][a].until
                 PROVE  LET p == promise'[f][a]
                            r == pool[f] IN
                        a \in DOMAIN r.reverse /\ r.reverse[a] = p.name
                            /\ r.forward[p.name].expires >= p.until
      BY <1>1, Zenon DEF Honours
    <2>1. promise'[f][a] = promise[f][a] /\ now < promise[f][a].until
      <3> DEFINE p == promise[f][a]
      <3>1. p.until \in Nat
        BY <1>6
      <3>2. promise'[f][a] = IF p.until <= now' THEN NoPromise ELSE p
        BY <1>6, Zenon
      <3>3. CASE p.until <= now'
        <4>1. promise'[f][a].until = 0
          BY <1>5, <3>2, <3>3, Zenon
        <4> QED
          BY <1>1, <4>1
      <3>4. CASE ~(p.until <= now')
        <4>1. promise'[f][a] = p
          BY <3>2, <3>4, Zenon
        <4>2. now < p.until
          BY <1>1, <3>1, <3>4
        <4> QED
          BY <4>1, <4>2
      <3> QED
        BY <3>3, <3>4
    <2>2. Honours(f, pool[f], promise[f], now)
      BY HonouredPerFamily, Zenon DEF FakeInv
    <2> QED
      BY <2>1, <2>2, Zenon DEF Honours
  <1>9. RecordsHonoured'
    BY <1>8, HonouredPerFamily, Zenon
  <1> QED
    BY <1>2, <1>4, <1>7, <1>9 DEF FakeInv

LEMMA PurgeKeeps ==
  ASSUME FakeInv, NEW f \in Families, PurgeFamily(f)
  PROVE  FakeInv' /\ AgesOnly
  <1>1. PICK at \in 0 .. now : pool' = [pool EXCEPT ![f] = PurgeExpired(pool[f], at)]
    BY Zenon DEF PurgeFamily, FakeInv, PoolInv
  <1>2. UNCHANGED <<now, view, snap, restored, promise>>
    BY Zenon DEF PurgeFamily
  <1> DEFINE r == PurgeExpired(pool[f], at)
  <1>3. Sound(f, r) /\ Purged(pool[f], r, at)
    BY PurgeSound, Zenon DEF FakeInv, PoolInv
  <1> HIDE DEF r
  <1>5. PoolInv' /\ PromiseInv' /\ RecordsHonoured' /\ Evicts
    <2>1. pool' = [pool EXCEPT ![f] = r] /\ UNCHANGED <<now, promise>>
      BY <1>1, <1>2 DEF r
    <2> QED
      BY <1>3, <2>1, OnePurged, Zenon
  <1>6. now' \in Nat /\ ViewInv' /\ SnapInv' /\ restored' = restored
    BY <1>2, SameSnapshots, Zenon
  <1> QED
    BY <1>5, <1>6, NotRestoring, Zenon DEF FakeInv

LEMMA LookupKeeps ==
  ASSUME FakeInv, NEW f \in Families, NEW a, Lookup(f, a)
  PROVE  FakeInv' /\ AgesOnly
  <1>1. pool' = [pool EXCEPT ![f] = LookedUp(pool[f], a, now)]
    BY Zenon DEF Lookup, FakeInv, PoolInv
  <1>2. UNCHANGED <<now, view, snap, restored, promise>>
    BY Zenon DEF Lookup
  <1> DEFINE r == LookedUp(pool[f], a, now)
  <1>3. Sound(f, r) /\ Purged(pool[f], r, now)
    BY LookedUpSound, Zenon DEF FakeInv, PoolInv
  <1> HIDE DEF r
  <1>n. now \in 0 .. now
    BY DEF FakeInv
  <1>5. PoolInv' /\ PromiseInv' /\ RecordsHonoured' /\ Evicts
    <2>1. pool' = [pool EXCEPT ![f] = r] /\ UNCHANGED <<now, promise>>
      BY <1>1, <1>2 DEF r
    <2> QED
      BY <1>3, <1>n, <2>1, OnePurged, Zenon
  <1>6. now' \in Nat /\ ViewInv' /\ SnapInv' /\ restored' = restored
    BY <1>2, SameSnapshots, Zenon
  <1> QED
    BY <1>5, <1>6, NotRestoring, Zenon DEF FakeInv

LEMMA AllocateKeeps ==
  ASSUME FakeInv, NEW f \in Families, NEW n \in Names, Allocate(f, n)
  PROVE  FakeInv' /\ AgesOnly
  <1> DEFINE s == pool[f]
             r == Allocated(s, f, n, now)
             a == r.forward[n].address
             e == r.forward[n].expires
             until == now + Second * RecordTtl(e - now)
             old == promise[f][a]
             longer == old.name = n /\ old.until > until
             p == [b \in Addresses(f) |->
                    IF b = a THEN IF longer THEN old ELSE [name |-> n, until |-> until]
                    ELSE IF b \notin DOMAIN r.reverse THEN NoPromise ELSE promise[f][b]]
  <1>1. /\ now \in Nat /\ DOMAIN pool = Families /\ Sound(f, s) /\ DOMAIN promise = Families
        /\ promise[f] \in Promises(f) /\ Honours(f, s, promise[f], now)
    BY HonouredPerFamily, Zenon DEF FakeInv, PoolInv, PromiseInv
  <1>2. /\ Enabled(f) /\ pool' = [pool EXCEPT ![f] = r] /\ promise' = Promised(f, a, n)
        /\ UNCHANGED <<now, view, snap, restored>>
    <2>1. /\ Enabled(f) /\ pool' = [pool EXCEPT ![f] = r]
          /\ promise' = Promised(f, pool'[f].forward[n].address, n)
          /\ UNCHANGED <<now, view, snap, restored>>
      BY <1>1, Zenon DEF Allocate
    <2>2. pool'[f] = r
      BY <1>1, <2>1, Zenon
    <2> QED
      BY <2>1, <2>2, Zenon
  <1>3. pool'[f] = r
    BY <1>1, <1>2, Zenon
  <1>4. Serves(f, s, r, n, now)
    BY <1>1, <1>2, AllocatedServes, Zenon
  <1>5. promise'[f] = p /\ DOMAIN promise' = Families
            /\ \A g \in Families \ {f} : promise'[g] = promise[g]
    <2> HIDE DEF r
    <2>1. DOMAIN promise[f] = Addresses(f)
      BY <1>1, Zenon DEF Promises
    <2>2. promise' = [promise EXCEPT ![f] = p]
      BY <1>1, <1>2, <1>3, <2>1, Zenon DEF Promised
    <2> HIDE DEF p
    <2> QED
      BY <1>1, <2>2, Zenon
  <1>6. /\ n \in DOMAIN r.forward /\ e \in Nat /\ e >= now /\ Sound(f, r)
        /\ \A m \in DOMAIN s.forward \ Expired(s, now) :
            IF m \in DOMAIN r.forward THEN r.forward[m] = s.forward[m]
            ELSE Full(PurgeExpired(s, now), f) /\ m = Head(PurgeExpired(s, now).order)
        /\ \A b \in DOMAIN r.reverse \ {a} :
            b \in DOMAIN s.reverse /\ s.reverse[b] \notin Expired(s, now) /\ r.reverse[b] = s.reverse[b]
    BY <1>4, Zenon DEF Serves
  <1>7. a \in DOMAIN r.reverse /\ r.reverse[a] = n /\ a \in Addresses(f)
    BY <1>6, Zenon DEF Sound
  <1> HIDE DEF r, e, a, s
  <1>8. until \in Nat /\ until <= e
    <2>1. e - now \in Nat
      BY <1>1, <1>6
    <2>2. Second * RecordTtl(e - now) \in Nat /\ Second * RecordTtl(e - now) <= e - now
      BY <2>1, RoundedDown, Zenon
    <2> DEFINE k == Second * RecordTtl(e - now)
    <2> HIDE DEF k
    <2>3. now + k \in Nat /\ now + k <= e
      BY <1>1, <1>6, <2>2 DEF k
    <2> QED
      BY <2>3 DEF k
  <1> HIDE DEF until
  <1>9. \A b \in Addresses(f) : /\ promise[f][b] \in [name : Names \cup {None}, until : Nat]
                                /\ promise[f][b].until \in Nat
    <2>1. \A b \in Addresses(f) : promise[f][b] \in [name : Names \cup {None}, until : Nat]
      BY <1>1, Zenon DEF Promises
    <2> QED
      BY <2>1
  (* A promise that holds is about a live mapping.                          *)
  <1>10. ASSUME NEW b \in Addresses(f), now < promise[f][b].until
         PROVE  LET m == promise[f][b].name IN
                /\ b \in DOMAIN s.reverse /\ s.reverse[b] = m
                /\ m \in DOMAIN s.forward \ Expired(s, now)
                /\ s.forward[m].expires >= promise[f][b].until
    <2> DEFINE m == promise[f][b].name
               u == promise[f][b].until
    <2>1. b \in DOMAIN s.reverse /\ s.reverse[b] = m /\ s.forward[m].expires >= u
      BY <1>1, <1>10, Zenon DEF Honours
    <2>2. m \in DOMAIN s.forward /\ s.forward[m].expires \in Nat
      BY <1>1, <2>1, Zenon DEF Sound
    <2>3. u \in Nat /\ now < u
      BY <1>9, <1>10, Zenon
    <2> HIDE DEF m, u
    <2>4. ~(s.forward[m].expires <= now)
      BY <1>1, <2>1, <2>2, <2>3
    <2>5. m \notin Expired(s, now)
      BY <2>4, Zenon DEF Expired
    <2> QED
      BY <2>1, <2>2, <2>5, Zenon DEF m, u
  <1>11. p \in Promises(f)
    <2>1. [name |-> n, until |-> until] \in [name : Names \cup {None}, until : Nat]
      BY <1>8, Zenon
    <2>2. NoPromise \in [name : Names \cup {None}, until : Nat]
      BY DEF NoPromise
    <2>3. old \in [name : Names \cup {None}, until : Nat]
      BY <1>7, <1>9, Zenon
    <2> HIDE DEF old, longer
    <2> QED
      BY <1>9, <2>1, <2>2, <2>3, Zenon DEF Promises
  <1>12. ASSUME NEW b \in Addresses(f), now < p[b].until
         PROVE  b \in DOMAIN r.reverse /\ r.reverse[b] = p[b].name
                    /\ r.forward[p[b].name].expires >= p[b].until
    <2>1. CASE b = a /\ longer
      <3>1. p[b] = old
        BY <2>1, Zenon
      <3>2. old.name = n /\ now < old.until
        BY <1>12, <2>1, <3>1, Zenon
      <3>3. n \in DOMAIN s.forward \ Expired(s, now) /\ s.forward[n].expires >= old.until
        BY <1>7, <1>10, <3>2, Zenon
      <3>4. r.forward[n] = s.forward[n]
        BY <1>6, <3>3, Zenon
      <3> QED
        BY <1>7, <2>1, <3>1, <3>2, <3>3, <3>4, Zenon
    <2>2. CASE b = a /\ ~longer
      <3>1. p[b] = [name |-> n, until |-> until]
        BY <2>2, Zenon
      <3>2. p[b].name = n /\ p[b].until = until
        BY <3>1
      <3>3. e >= until
        BY <1>6, <1>8
      <3> QED
        BY <1>7, <2>2, <3>2, <3>3, Zenon DEF e
    <2>3. CASE b # a
      <3>1. b \in DOMAIN r.reverse /\ p[b] = promise[f][b]
        <4>1. p[b] = IF b \notin DOMAIN r.reverse THEN NoPromise ELSE promise[f][b]
          BY <2>3, Zenon
        <4>2. ~(now < NoPromise.until)
          BY <1>1 DEF NoPromise
        <4> QED
          BY <1>12, <4>1, <4>2, Zenon
      <3> DEFINE m == promise[f][b].name
      <3>2. now < promise[f][b].until
        BY <1>12, <3>1, Zenon
      <3>3. /\ b \in DOMAIN s.reverse /\ s.reverse[b] = m
            /\ m \in DOMAIN s.forward \ Expired(s, now)
            /\ s.forward[m].expires >= promise[f][b].until
        BY <1>10, <3>2, Zenon
      <3>4. r.reverse[b] = m
        BY <1>6, <2>3, <3>1, <3>3, Zenon
      <3>5. m \in DOMAIN r.forward
        BY <1>6, <3>1, <3>4, Zenon DEF Sound
      <3>6. r.forward[m] = s.forward[m]
        BY <1>6, <3>3, <3>5, Zenon
      <3> QED
        BY <3>1, <3>3, <3>4, <3>6, Zenon
    <2> QED
      BY <2>1, <2>2, <2>3
  <1> HIDE DEF p
  <1>13. Honours(f, r, p, now)
    BY <1>12, Zenon DEF Honours
  <1>14. KeptOrEvicted(f, r)
    <2>1. \A m \in DOMAIN s.forward : s.forward[m].expires <= s.forward[m].expires
      <3>1. \A m \in DOMAIN s.forward : s.forward[m].expires \in Nat
        BY <1>1, Zenon DEF Sound
      <3>2. \A x \in Nat : x <= x
        OBVIOUS
      <3> QED
        BY <3>1, <3>2, Zenon
    <2> QED
      BY <1>6, <2>1, Zenon DEF KeptOrEvicted, s
  <1>15. PoolInv' /\ PromiseInv' /\ RecordsHonoured' /\ Evicts
    <2>1. now' = now
      BY <1>2
    <2> QED
      BY <1>2, <1>5, <1>6, <1>11, <1>13, <1>14, <2>1, OneFamily, Zenon
  <1>16. now' \in Nat /\ ViewInv' /\ SnapInv' /\ restored' = restored
    BY <1>2, SameSnapshots, Zenon
  <1> QED
    BY <1>15, <1>16, NotRestoring, Zenon DEF FakeInv

LEMMA LongTail ==
  ASSUME NEW X, NEW q \in Seq(X), q # <<>>, Len(q) # 1
  PROVE  Tail(q) \in Seq(X) /\ Tail(q) # <<>>
  <1>1. Len(q) \in Nat \ {0}
    OBVIOUS
  <1>2. Tail(q) \in Seq(X) /\ Len(Tail(q)) = Len(q) - 1
    BY <1>1
  <1>3. Len(Tail(q)) # 0
    BY <1>1, <1>2
  <1>4. Len(<<>>) = 0
    OBVIOUS
  <1> QED
    BY <1>2, <1>3, <1>4, Zenon

LEMMA SnapshotKeeps ==
  ASSUME FakeInv, NEW at \in 0 .. now, NEW todo \in Seq(Families), todo # <<>>, NEW got,
         ListsOf(got), snap = None, restored = "no", SnapshotFamily(at, todo, got)
  PROVE  FakeInv' /\ AgesOnly
  <1> DEFINE f == Head(todo)
             r == PurgeExpired(pool[f], at)
             lists == [got EXCEPT ![f] = Listed(r, at)]
  <1>1. f \in Families
    OBVIOUS
  <1>2. /\ pool' = [pool EXCEPT ![f] = r]
        /\ IF Len(todo) = 1
           THEN view' = None /\ snap' = [at |-> at, got |-> lists]
           ELSE view' = [at |-> at, todo |-> Tail(todo), got |-> lists] /\ UNCHANGED snap
        /\ UNCHANGED <<now, restored, promise>>
    BY Zenon DEF SnapshotFamily
  <1>n. now \in Nat /\ at \in Nat
    BY DEF FakeInv
  <1> HIDE DEF f
  <1>3. Sound(f, r) /\ Purged(pool[f], r, at)
    BY <1>1, PurgeSound, Zenon DEF FakeInv, PoolInv
  <1>4. Listed(r, at) \in Seq(EntryOf(f))
    BY <1>1, <1>n, ListedEntries, Zenon DEF FakeInv, PoolInv
  <1> HIDE DEF r
  <1>5. ListsOf(lists)
    <2>1. DOMAIN got = Families /\ \A g \in Families : got[g] \in Seq(EntryOf(g))
      BY Zenon DEF ListsOf
    <2>2. DOMAIN lists = Families /\ lists[f] = Listed(r, at)
                /\ \A g \in Families \ {f} : lists[g] = got[g]
      BY <1>1, <2>1, Zenon
    <2> HIDE DEF lists
    <2>3. ASSUME NEW g \in Families PROVE lists[g] \in Seq(EntryOf(g))
      <3>1. CASE g = f
        BY <1>4, <2>2, <3>1, Zenon
      <3>2. CASE g # f
        BY <2>1, <2>2, <3>2, Zenon
      <3> QED
        BY <3>1, <3>2
    <2> QED
      BY <2>2, <2>3, Zenon DEF ListsOf
  <1> HIDE DEF lists
  <1>6. PoolInv' /\ PromiseInv' /\ RecordsHonoured' /\ Evicts
    <2>1. UNCHANGED <<now, promise>>
      BY <1>2
    <2> QED
      BY <1>1, <1>2, <1>3, <2>1, OnePurged, Zenon
  <1>7. restored' = "no" /\ now' = now
    BY <1>2
  <1>8. ViewInv' /\ SnapInv'
    <2>1. CASE Len(todo) = 1
      <3>1. view' = None /\ snap' = [at |-> at, got |-> lists]
        BY <1>2, <2>1, Zenon
      <3>2. snap'.at = at /\ snap'.got = lists
        BY <3>1
      <3> QED
        BY <1>5, <1>7, <3>1, <3>2, Zenon DEF ViewInv, SnapInv, ListsOf, EntryOf, Addresses, RangeSize, Families
    <2>2. CASE Len(todo) # 1
      <3>1. view' = [at |-> at, todo |-> Tail(todo), got |-> lists] /\ snap' = None
        BY <1>2, <2>2, Zenon
      <3>2. view'.at = at /\ view'.todo = Tail(todo) /\ view'.got = lists
        BY <3>1
      <3>3. Tail(todo) \in Seq(Families) /\ Tail(todo) # <<>>
        BY <2>2, LongTail, Zenon
      <3> QED
        BY <1>5, <1>7, <3>1, <3>2, <3>3, Zenon
            DEF ViewInv, SnapInv, ListsOf, EntryOf, Addresses, RangeSize, Families
    <2> QED
      BY <2>1, <2>2
  <1>9. AgesOnly
    <2>1. restored' = restored
      BY <1>2
    <2> QED
      BY <1>6, <2>1, NotRestoring, Zenon
  <1> QED
    BY <1>6, <1>7, <1>8, <1>9, <1>n, Zenon DEF FakeInv

LEMMA SnapshotFirstKeeps ==
  ASSUME FakeInv, SnapshotFirst
  PROVE  FakeInv' /\ AgesOnly
  <1> DEFINE todo == Without(<<"v4", "v6">>, {f \in Families : ~Enabled(f)})
             got == [f \in Families |-> <<>>]
  <1>1. PICK at \in 0 .. now : SnapshotFamily(at, todo, got)
    BY Zenon DEF SnapshotFirst
  <1>2. snap = None /\ restored = "no"
    BY Zenon DEF SnapshotFirst
  <1>3. <<"v4", "v6">> \in Seq(Families)
    BY DEF Families
  <1>4. /\ todo \in Seq(Families)
        /\ \A x : Holds(todo, x) <=> x \notin {f \in Families : ~Enabled(f)} /\ Holds(<<"v4", "v6">>, x)
    BY <1>3, WithoutFacts, Zenon
  <1> HIDE DEF todo
  <1>5. todo # <<>>
    <2>1. PICK f \in Families : Enabled(f)
      <3>1. Range4 > 0 \/ Range6 > 0
        BY FakeIpAssumption
      <3> QED
        BY <3>1 DEF Families, Enabled, RangeSize
    <2>2. Holds(<<"v4", "v6">>, f)
      <3>1. CASE f = "v4"
        <4>1. 1 \in DOMAIN <<"v4", "v6">> /\ <<"v4", "v6">>[1] = f
          BY <3>1
        <4> QED
          BY <4>1, Zenon DEF Holds
      <3>2. CASE f = "v6"
        <4>1. 2 \in DOMAIN <<"v4", "v6">> /\ <<"v4", "v6">>[2] = f
          BY <3>2
        <4> QED
          BY <4>1, Zenon DEF Holds
      <3> QED
        BY <3>1, <3>2 DEF Families
    <2>3. Holds(todo, f)
      BY <1>4, <2>1, <2>2, Zenon
    <2>4. PICK i \in DOMAIN todo : todo[i] = f
      BY <2>3, Zenon DEF Holds
    <2> QED
      BY <1>4, <2>4
  <1>6. ListsOf(got)
    <2>1. ASSUME NEW X PROVE <<>> \in Seq(X)
      OBVIOUS
    <2> QED
      BY <2>1, Zenon DEF ListsOf
  <1> HIDE DEF got
  <1> QED
    BY <1>1, <1>2, <1>4, <1>5, <1>6, SnapshotKeeps, Zenon

LEMMA SnapshotNextKeeps ==
  ASSUME FakeInv, SnapshotNext
  PROVE  FakeInv' /\ AgesOnly
  <1>1. view # None /\ SnapshotFamily(view.at, view.todo, view.got)
    BY Zenon DEF SnapshotNext
  <1>2. /\ view.at \in 0 .. now /\ view.todo \in Seq(Families) /\ view.todo # <<>>
        /\ ListsOf(view.got) /\ snap = None /\ restored = "no"
    BY <1>1, Zenon DEF FakeInv, ViewInv
  <1> QED
    BY <1>1, <1>2, SnapshotKeeps, Zenon

LEMMA RestoreKeeps ==
  ASSUME FakeInv, Restore
  PROVE  FakeInv' /\ AgesOnly
  <1>1. /\ snap # None /\ snap' = None /\ now' = now /\ view' = view
        /\ now \in Nat /\ snap.at \in 0 .. now /\ ListsOf(snap.got)
    BY Zenon DEF FakeInv, SnapInv, Restore
  <1>2. view = None
    BY <1>1, Zenon DEF FakeInv, ViewInv
  <1>3. now' \in Nat /\ ViewInv' /\ SnapInv'
    BY <1>1, <1>2, Zenon DEF ViewInv, SnapInv
  <1>4. CASE ~(\A f \in Families : Acceptable(snap.got[f]))
    <2>1. restored' = "rejected" /\ UNCHANGED <<pool, promise>>
      BY <1>4, Zenon DEF Restore
    <2>2. PoolInv' /\ AgesOnly
      BY <2>1, SamePool
    <2>3. PromiseInv'
      BY <2>1, Zenon DEF FakeInv, PromiseInv, Promises, Addresses, RangeSize, Families
    <2>4. RecordsHonoured'
      <3>1. pool' = pool /\ promise' = promise
        BY <2>1
      <3> QED
        BY <1>1, <3>1, HonouredPerFamily, Zenon DEF FakeInv
    <2> QED
      BY <1>3, <2>2, <2>3, <2>4 DEF FakeInv
  <1>5. CASE \A f \in Families : Acceptable(snap.got[f])
    <2>1. /\ pool' = [f \in Families |-> Restored(snap.got[f])]
          /\ promise' = [f \in Families |-> Remembered(f, snap.got[f])]
          /\ restored' = "yes"
      BY <1>5, Zenon DEF Restore
    <2>2. ASSUME NEW f \in Families
          PROVE  /\ Sound(f, pool'[f]) /\ promise'[f] \in Promises(f)
                 /\ Honours(f, pool'[f], promise'[f], now) /\ Revives(f, snap.got[f])
      <3> DEFINE list == snap.got[f]
                 r == Restored(list)
                 kept == Kept(list)
                 p == Remembered(f, list)
                 gone == {e \in Range(list) : e.remaining <= Elapsed}
                 old == {e \in Range(list) : snap.at + e.remaining <= now}
                 Has(a) == \E i \in DOMAIN list : list[i].address = a
                 At(a) == CHOOSE i \in DOMAIN list : list[i].address = a
                 till(a) == snap.at + Second * RecordTtl(list[At(a)].remaining)
      <3>1. list \in Seq(EntryOf(f)) /\ Acceptable(list)
        BY <1>1, <1>5, Zenon DEF ListsOf
      <3>2. pool'[f] = r /\ promise'[f] = p
        BY <2>1, Zenon
      <3>3. Sound(f, r) /\ Revived(list, r)
        BY <1>1, <3>1, RestoredSound, Zenon
      <3>4. kept = Without(list, gone)
        BY Zenon DEF Kept
      <3>5. p = [a \in Addresses(f) |-> IF Has(a) THEN [name |-> list[At(a)].name, until |-> till(a)]
                                        ELSE NoPromise]
        BY DEF Remembered
      <3>6. \A x : Holds(kept, x) <=> x \notin gone /\ Holds(list, x)
        <4> HIDE DEF gone, kept
        <4>1. \A x : Holds(Without(list, gone), x) <=> x \notin gone /\ Holds(list, x)
          BY <3>1, WithoutFacts, Zenon
        <4> QED
          BY <3>4, <4>1
      <3> HIDE DEF r, kept, p
      <3>7. \A i \in DOMAIN list : list[i].name \in Names /\ list[i].remaining \in Nat
        <4>1. ASSUME NEW X, NEW q \in Seq(X), NEW i \in DOMAIN q PROVE q[i] \in X
          OBVIOUS
        <4>2. \A i \in DOMAIN list : list[i] \in EntryOf(f)
          BY <3>1, <4>1, Zenon
        <4> QED
          BY <4>2 DEF EntryOf
      <3>8. ASSUME NEW a, Has(a)
            PROVE  At(a) \in DOMAIN list /\ list[At(a)].address = a /\ till(a) \in Nat
                        /\ till(a) <= snap.at + list[At(a)].remaining
        <4>1. At(a) \in DOMAIN list /\ list[At(a)].address = a
          BY <3>8, Zenon
        <4> DEFINE m == list[At(a)].remaining
        <4>2. m \in Nat
          BY <3>7, <4>1, Zenon
        <4> HIDE DEF m
        <4>3. Second * RecordTtl(m) \in Nat /\ Second * RecordTtl(m) <= m
          BY <4>2, RoundedDown, Zenon
        <4> DEFINE k == Second * RecordTtl(m)
        <4> HIDE DEF k
        <4>4. snap.at + k \in Nat /\ snap.at + k <= snap.at + m
          BY <1>1, <4>2, <4>3 DEF k
        <4> QED
          BY <4>1, <4>4 DEF k, m
      <3> HIDE DEF At, till
      <3>9. p \in Promises(f)
        <4>1. NoPromise \in [name : Names \cup {None}, until : Nat]
          BY DEF NoPromise
        <4>2. ASSUME NEW a \in Addresses(f), Has(a)
              PROVE  [name |-> list[At(a)].name, until |-> till(a)]
                            \in [name : Names \cup {None}, until : Nat]
          <5>1. list[At(a)].name \in Names /\ till(a) \in Nat
            BY <3>7, <3>8, <4>2, Zenon
          <5> QED
            BY <5>1, Zenon
        <4> HIDE DEF Has
        <4> QED
          BY <3>5, <4>1, <4>2, Zenon DEF Promises
      <3>10. ASSUME NEW a \in Addresses(f), now < p[a].until
             PROVE  a \in DOMAIN r.reverse /\ r.reverse[a] = p[a].name
                        /\ r.forward[p[a].name].expires >= p[a].until
        <4>1. p[a] = IF Has(a) THEN [name |-> list[At(a)].name, until |-> till(a)] ELSE NoPromise
          BY <3>5, Zenon
        <4>2. Has(a)
          <5>1. ~(now < NoPromise.until)
            BY <1>1 DEF NoPromise
          <5> QED
            BY <3>10, <4>1, <5>1, Zenon
        <4> DEFINE x == list[At(a)]
        <4>3. p[a].name = x.name /\ p[a].until = till(a)
          BY <4>1, <4>2
        <4>4. /\ At(a) \in DOMAIN list /\ x.address = a /\ till(a) \in Nat
              /\ till(a) <= snap.at + x.remaining /\ x.remaining \in Nat
          BY <3>7, <3>8, <4>2, Zenon
        <4>5. ~(x.remaining <= Elapsed)
          <5>1. now < till(a)
            BY <3>10, <4>3, Zenon
          <5> QED
            BY <1>1, <4>4, <5>1 DEF Elapsed
        <4>6. Holds(list, x)
          BY <4>4, Zenon DEF Holds
        <4>7. Holds(kept, x)
          BY <3>6, <4>5, <4>6, Zenon
        <4> HIDE DEF x
        <4>8. PICK i \in DOMAIN kept : kept[i] = x
          BY <4>7, Zenon DEF Holds
        <4>9. /\ r.forward[x.name] = [address |-> x.address, expires |-> snap.at + x.remaining]
              /\ a \in DOMAIN r.reverse /\ r.reverse[a] = x.name
          BY <3>3, <4>4, <4>8, Zenon DEF Revived, kept
        <4>10. r.forward[x.name].expires = snap.at + x.remaining
          BY <4>9
        <4>11. snap.at + x.remaining >= till(a)
          BY <1>1, <4>4
        <4> QED
          BY <4>3, <4>9, <4>10, <4>11, Zenon
      <3>11. Revives(f, list)
        <4>1. gone = old
          <5>1. \A e \in Range(list) : e.remaining \in Nat
            BY <3>7, Zenon DEF Range
          <5>2. \A e \in Range(list) : e.remaining <= Elapsed <=> snap.at + e.remaining <= now
            BY <1>1, <5>1 DEF Elapsed
          <5> QED
            BY <5>2, Zenon
        <4>2. Without(list, old) = kept
          BY <3>4, <4>1, Zenon
        <4>3. /\ r.order = [i \in DOMAIN kept |-> kept[i].name]
              /\ \A i \in DOMAIN kept : r.forward[kept[i].name]
                    = [address |-> kept[i].address, expires |-> snap.at + kept[i].remaining]
          BY <3>3, Zenon DEF Revived, kept
        <4> QED
          BY <3>2, <4>2, <4>3, Zenon DEF Revives
      <3>12. Honours(f, r, p, now)
        BY <3>10, Zenon DEF Honours
      <3> QED
        BY <3>2, <3>3, <3>9, <3>11, <3>12, Zenon
    <2>3. DOMAIN pool' = Families /\ DOMAIN promise' = Families
      BY <2>1, Zenon
    <2>4. PoolInv' /\ PromiseInv'
      BY <2>2, <2>3, Zenon DEF PoolInv, PromiseInv, Promises, Sound, Addresses, RangeSize, Families
    <2>5. RecordsHonoured'
      BY <1>1, <2>2, HonouredPerFamily, Zenon
    <2>6. AgesOnly
      BY <1>1, <2>1, <2>2, Zenon DEF AgesOnly, Restores
    <2> QED
      BY <1>3, <2>4, <2>5, <2>6 DEF FakeInv
  <1> QED
    BY <1>4, <1>5

LEMMA FakeInitInv ==
  ASSUME FakeInit
  PROVE  FakeInv
  <1>1. /\ now = 0 /\ pool = [f \in Families |-> Empty]
        /\ view = None /\ snap = None /\ restored = "no"
        /\ promise = [f \in Families |-> Unpromised(f)]
    BY Zenon DEF FakeInit
  <1>2. now \in Nat /\ ViewInv /\ SnapInv
    BY <1>1 DEF ViewInv, SnapInv
  <1>3. ASSUME NEW f \in Families PROVE Sound(f, Empty)
    <2> DEFINE e == <<>>
    <2>1. /\ DOMAIN Empty = {"forward", "reverse", "order"}
          /\ Empty.forward = e /\ Empty.reverse = e /\ Empty.order = e
      BY DEF Empty
    <2>2. DOMAIN e = {} /\ e \in Seq(Names)
      OBVIOUS
    <2> HIDE DEF e
    <2> QED
      BY <2>1, <2>2, Zenon DEF Sound, Distinct, Holds
  <1>4. PoolInv
    BY <1>1, <1>3, Zenon DEF PoolInv
  <1>5. NoPromise \in [name : Names \cup {None}, until : Nat] /\ ~(now < NoPromise.until)
    BY <1>1 DEF NoPromise
  <1>6. PromiseInv
    BY <1>1, <1>5, Zenon DEF PromiseInv, Promises, Unpromised
  <1>7. RecordsHonoured
    BY <1>1, <1>5, Zenon DEF RecordsHonoured, Unpromised
  <1> QED
    BY <1>2, <1>4, <1>6, <1>7 DEF FakeInv

LEMMA FakeStep ==
  ASSUME FakeInv, FakeNext
  PROVE  FakeInv' /\ AgesOnly
  BY TickKeeps, PurgeKeeps, LookupKeeps, AllocateKeeps, SnapshotFirstKeeps, SnapshotNextKeeps,
     RestoreKeeps, Zenon DEF FakeNext

LEMMA FakeStutter ==
  ASSUME FakeInv, UNCHANGED fakeVars
  PROVE  FakeInv'
  <1>1. pool' = pool /\ promise' = promise /\ UNCHANGED <<now, view, snap, restored>>
    BY DEF fakeVars
  <1>2. PoolInv' /\ PromiseInv' /\ RecordsHonoured'
    <2>1. PoolInv'
      BY <1>1, Zenon DEF FakeInv, PoolInv, Sound, Addresses, RangeSize, Families
    <2>2. PromiseInv'
      BY <1>1, Zenon DEF FakeInv, PromiseInv, Promises, Addresses, RangeSize, Families
    <2>3. now' = now
      BY <1>1
    <2>4. RecordsHonoured'
      BY <1>1, <2>3, HonouredPerFamily, Zenon DEF FakeInv
    <2> QED
      BY <2>1, <2>2, <2>4
  <1> QED
    BY <1>1, <1>2, SameSnapshots, Zenon DEF FakeInv

LEMMA FakeInvMeans ==
  ASSUME FakeInv
  PROVE  MapsInverse /\ RecordsHonoured
  <1>1. ASSUME NEW f \in Families
        PROVE  LET s == pool[f] IN
               /\ \A n \in DOMAIN s.forward :
                    s.forward[n].address \in DOMAIN s.reverse /\ s.reverse[s.forward[n].address] = n
               /\ \A a \in DOMAIN s.reverse :
                    a \in Addresses(f) /\ s.reverse[a] \in DOMAIN s.forward
                        /\ s.forward[s.reverse[a]].address = a
               /\ {s.order[i] : i \in DOMAIN s.order} = DOMAIN s.forward
               /\ Len(s.order) = Cardinality(DOMAIN s.forward)
    <2> DEFINE s == pool[f]
    <2>1. Sound(f, s)
      BY Zenon DEF FakeInv, PoolInv
    <2> HIDE DEF s
    <2>2. Len(s.order) = Cardinality(DOMAIN s.forward)
      BY <2>1, Counts, Zenon
    <2>3. {s.order[i] : i \in DOMAIN s.order} = DOMAIN s.forward
      <3>1. s.order \in Seq(Names)
        BY <2>1, Zenon DEF Sound
      <3>2. \A i \in DOMAIN s.order : s.order[i] \in Names
        BY <3>1
      <3>3. \A n \in Names : Holds(s.order, n) <=> n \in DOMAIN s.forward
        BY <2>1, Zenon DEF Sound
      <3>4. DOMAIN s.forward \subseteq Names
        BY <2>1, Zenon DEF Sound
      <3> QED
        BY <3>2, <3>3, <3>4, Zenon DEF Holds
    <2>4. /\ \A n \in DOMAIN s.forward :
                s.forward[n].address \in DOMAIN s.reverse /\ s.reverse[s.forward[n].address] = n
          /\ \A a \in DOMAIN s.reverse :
                a \in Addresses(f) /\ s.reverse[a] \in DOMAIN s.forward
                    /\ s.forward[s.reverse[a]].address = a
      BY <2>1, Zenon DEF Sound
    <2> QED
      BY <2>2, <2>3, <2>4, Zenon DEF s
  <1> QED
    BY <1>1, Zenon DEF MapsInverse, FakeInv

-----------------------------------------------------------------------------
(* The path of a query.                                                     *)
Origins == [group : Groups, qs : Seq(Questions), rd : BOOLEAN, do : BOOLEAN]

Rcodes == {"NoError", "FormErr", "ServFail", "NxDomain"}

Message ==
    [id : Nat, qs : Seq(Questions), rd : BOOLEAN, rcode : Rcodes, tc : BOOLEAN, body : Nat,
     opts : Seq(OptRecords), from : SUBSET Origins]

(* The three properties of a response m to the query q, one by one.         *)
FitsQuery(q, m) ==
    /\ m.id = q.id /\ m.qs = q.qs
    /\ Len(m.opts) = IF q.opts = <<>> THEN 0 ELSE 1
    /\ HasEdns(m) => Edns(m).size = EdnsMax /\ Edns(m).ver = 0
    /\ q.tr = "udp" /\ Len(q.qs) <= 1 => Length(m) <= UdpLimit(q)

KeepsExt(ext, m) == ext # 0 => HasEdns(m) /\ Edns(m).ext = ext

FakesFor(fake, q) == fake /\ q.qs # <<>> /\ (Selected(q.qs[1]) \/ InRange(q.qs[1]))

RightContent(fake, q, group, m) ==
    IF m.from = {} THEN m.rcode = "NoError" => FakesFor(fake, q) \/ Edns(m).ext # 0
    ELSE m.from = {Origin(q, group)} /\ ~FakesFor(fake, q)

GoodOut(fake, r) ==
    "rcode" \in DOMAIN r.out =>
        /\ FitsQuery(r.q, r.out) /\ (r.told = <<>> => KeepsExt(r.ext, r.out))
        /\ RightContent(fake, r.q, r.group, r.out)

Upstream == {"lookup", "try", "sent", "resent", "tcp"}

Waits == {"follow", "told"}

Asked(q) == q \in Queries /\ (q.qs # <<>> /\ Selected(q.qs[1]) => q.qs[1].name \in Names)

(* A query that has been routed.                                            *)
Routed(fake, r) == /\ r.q.qs # <<>> /\ ~FakesFor(fake, r.q)
                   /\ ~EdnsFails(r.q) /\ r.group \in Groups

(* What a query that waits is told: nothing it may use, or what was fetched *)
(* for its own key.                                                         *)
Fetched(r, outcome) ==
    outcome.ok => outcome.m \in Message /\ outcome.m.from = {Origin(r.q, r.group)}

Informed(r) == r.told # <<>> /\ Fetched(r, r.told[1])

Fields == {"at", "conn", "q", "group", "i", "told", "out", "ext"}

TaskOk(fake, r) ==
    /\ DOMAIN r = Fields
    /\ r.at \in {"idle", "handle", "done"} \cup Upstream \cup Waits
    /\ r.at # "idle" => Asked(r.q)
    /\ r.at # "done" => r.out = None /\ r.ext = 0
    /\ r.at \in Upstream \cup Waits => Routed(fake, r)
    /\ r.at \in Waits => QueryUsesCache(r.q)
    /\ r.at = "told" => Informed(r)
    /\ r.at = "done" => GoodOut(fake, r)

(* What the cache holds under a key was fetched for that key.               *)
CacheOk(k, m) ==
    m \in Message /\ m.from = {[group |-> k.group, qs |-> <<k.question>>, rd |-> k.rd, do |-> k.do]}

ServeInv ==
    /\ faking \in BOOLEAN /\ DOMAIN task = Tasks
    /\ \A t \in Tasks : TaskOk(faking, task[t])
    /\ \A k \in DOMAIN cache : CacheOk(k, cache[k])

LEMMA SeqFacts ==
  /\ \A X : <<>> \in Seq(X) /\ \A x \in X : <<x>> \in Seq(X)
  /\ Len(<<>>) = 0 /\ \A x : Len(<<x>>) = 1 /\ <<x>>[1] = x
  /\ \A X : \A s \in Seq(X) : /\ Len(s) \in Nat /\ (Len(s) = 0 <=> s = <<>>)
                              /\ Len(s) # 0 => s[1] \in X
                              /\ Len(s) = 1 => s = <<s[1]>>
  <1>1. ASSUME NEW X PROVE <<>> \in Seq(X) /\ \A x \in X : <<x>> \in Seq(X)
    OBVIOUS
  <1>2. Len(<<>>) = 0 /\ \A x : Len(<<x>>) = 1 /\ <<x>>[1] = x
    OBVIOUS
  <1>3. ASSUME NEW X, NEW s \in Seq(X)
        PROVE  /\ Len(s) \in Nat /\ (Len(s) = 0 <=> s = <<>>)
               /\ Len(s) # 0 => s[1] \in X
               /\ Len(s) = 1 => s = <<s[1]>>
    <2>1. Len(s) \in Nat /\ (Len(s) = 0 <=> s = <<>>) /\ (Len(s) # 0 => s[1] \in X)
      OBVIOUS
    <2>2. ASSUME Len(s) = 1 PROVE s = <<s[1]>>
      BY <2>2
    <2> QED
      BY <2>1, <2>2
  <1> QED
    BY <1>1, <1>2, <1>3, Zenon

LEMMA SetEdnsIs ==
  ASSUME NEW m \in Message, NEW opts \in Seq(OptRecords)
  PROVE  LET r == SetEdns(m, opts) IN
         /\ r \in Message /\ r.opts = opts /\ r.id = m.id /\ r.qs = m.qs /\ r.from = m.from
         /\ r.rcode = m.rcode /\ r.body = m.body /\ r.tc = m.tc /\ r.rd = m.rd
  BY DEF SetEdns, Message

LEMMA NewEdnsIs ==
  ASSUME NEW size \in Nat
  PROVE  /\ NewEdns(size) \in OptRecords
         /\ \A do \in BOOLEAN :
            LET e == [NewEdns(size) EXCEPT !.do = do] IN
            e \in OptRecords /\ e.size = size /\ e.ver = 0 /\ e.ext = 0
         /\ NewEdns(size).size = size /\ NewEdns(size).ver = 0
  BY DEF NewEdns, OptRecords

LEMMA VersionsIs ==
  ASSUME NEW size \in Nat, NEW do \in BOOLEAN
  PROVE  LET e == [NewEdns(size) EXCEPT !.ext = 1, !.do = do] IN
         e \in OptRecords /\ e.size = size /\ e.ver = 0 /\ e.ext # 0
  <1> DEFINE e == [NewEdns(size) EXCEPT !.ext = 1, !.do = do]
  <1>1. e.size = size /\ e.ver = 0 /\ e.ext = 1
    BY DEF NewEdns
  <1>2. {} \in SUBSET (CacheableOptions \cup {"ecs"})
    BY Zenon
  <1>3. e \in OptRecords
    BY <1>2 DEF NewEdns, OptRecords
  <1> HIDE DEF e
  <1>4. e.ext # 0
    BY <1>1
  <1> QED
    BY <1>1, <1>3, <1>4, Zenon DEF e

LEMMA SizesOfUdp ==
  UdpMax \in Nat /\ EdnsMax \in Nat /\ UdpMax >= 1 /\ EdnsMax >= 1 /\ EdnsMax \in Int
  BY FrontendAssumption

LEMMA OneOpt ==
  ASSUME NEW q, q.opts \in Seq(OptRecords), HasEdns(q)
  PROVE  /\ Edns(q) \in OptRecords /\ q.opts = <<Edns(q)>> /\ q.opts # <<>> /\ ~EdnsFails(q)
         /\ Edns(q).do \in BOOLEAN /\ Edns(q).size \in Nat /\ Edns(q).ext \in Nat
  <1>1. Len(q.opts) = 1
    BY DEF HasEdns
  <1>2. q.opts[1] \in OptRecords /\ q.opts = <<q.opts[1]>> /\ q.opts # <<>>
    BY <1>1, SeqFacts
  <1>3. ~(Len(q.opts) > 1)
    BY <1>1
  <1>4. \A e \in OptRecords : e.do \in BOOLEAN /\ e.size \in Nat /\ e.ext \in Nat
    BY DEF OptRecords
  <1> QED
    BY <1>2, <1>3, <1>4, Zenon DEF Edns, EdnsFails

LEMMA NoOpt ==
  ASSUME NEW q, q.opts \in Seq(OptRecords), ~EdnsFails(q)
  PROVE  ~HasEdns(q) <=> q.opts = <<>>
  <1>1. Len(q.opts) \in Nat /\ (Len(q.opts) = 0 <=> q.opts = <<>>)
    BY SeqFacts, Zenon
  <1>2. ~(Len(q.opts) > 1)
    BY Zenon DEF EdnsFails
  <1>3. \A n \in Nat : ~(n > 1) => (n = 0 <=> ~(n = 1))
    OBVIOUS
  <1> QED
    BY <1>1, <1>2, <1>3, Zenon DEF HasEdns

LEMMA LimitIs ==
  ASSUME NEW q, q.opts \in Seq(OptRecords)
  PROVE  UdpLimit(q) \in Nat /\ UdpLimit(q) >= 1
  <1>1. CASE HasEdns(q)
    <2> DEFINE x == Max({Edns(q).size, UdpMax})
               S == {x, EdnsMax}
    <2>1. Edns(q).size \in Nat
      BY <1>1, OneOpt, Zenon
    <2>2. x \in Nat /\ x >= 1
      <3>1. Edns(q).size \in Int /\ UdpMax \in Int
        BY <2>1, SizesOfUdp
      <3>2. x = IF Edns(q).size >= UdpMax THEN Edns(q).size ELSE UdpMax
        BY <3>1, MaxOfTwo, Zenon
      <3> HIDE DEF x
      <3> QED
        BY <2>1, <3>2, SizesOfUdp
    <2> HIDE DEF x
    <2>3. S \in SUBSET Nat /\ S # {} /\ \A y \in S : y >= 1
      BY <2>2, SizesOfUdp
    <2> HIDE DEF S
    <2>4. Min(S) \in S
      BY <2>3, MinIs, Zenon
    <2>5. UdpLimit(q) = Min(S)
      BY <1>1, Zenon DEF UdpLimit, S, x
    <2> QED
      BY <2>3, <2>4, <2>5
  <1>2. CASE ~HasEdns(q)
    <2>1. UdpLimit(q) = UdpMax
      BY <1>2, Zenon DEF UdpLimit
    <2> QED
      BY <2>1, SizesOfUdp
  <1> QED
    BY <1>1, <1>2

(* What of a message survives its way through the server.                   *)
Same(m, r) ==
    /\ r \in Message /\ r.id = m.id /\ r.qs = m.qs /\ r.from = m.from /\ r.rcode = m.rcode
    /\ Len(r.opts) = Len(m.opts)
    /\ HasEdns(m) => /\ Edns(r).size = Edns(m).size /\ Edns(r).ver = Edns(m).ver
                     /\ Edns(r).ext = Edns(m).ext

LEMMA OnWireIs ==
  ASSUME NEW q, q.opts \in Seq(OptRecords), NEW m \in Message
  PROVE  /\ Same(m, OnWire(q, m))
         /\ q.tr = "udp" /\ Len(m.qs) <= 1 => Length(OnWire(q, m)) <= UdpLimit(q)
  <1> DEFINE cut == [m EXCEPT !.body = 0, !.tc = TRUE]
             opt == [Edns(m) EXCEPT !.options = {}]
             bare == IF HasEdns(m) THEN SetEdns(cut, <<opt>>) ELSE cut
  <1>1. /\ cut \in Message /\ cut.opts = m.opts /\ cut.id = m.id /\ cut.qs = m.qs
        /\ cut.from = m.from /\ cut.rcode = m.rcode /\ cut.body = 0
    BY DEF Message
  <1>m. m.opts \in Seq(OptRecords) /\ m.qs \in Seq(Questions)
    BY DEF Message
  <1> HIDE DEF cut
  <1>2. Same(m, m) /\ Same(m, cut)
    BY <1>1, Zenon DEF Same, Edns
  <1>3. ASSUME HasEdns(m)
        PROVE  /\ opt \in OptRecords /\ opt.size = Edns(m).size /\ opt.ver = Edns(m).ver
               /\ opt.ext = Edns(m).ext /\ opt.options = {}
    <2>1. Edns(m) \in OptRecords
      BY <1>3, <1>m, OneOpt, Zenon
    <2>2. \A e \in OptRecords :
            LET o == [e EXCEPT !.options = {}] IN
            o \in OptRecords /\ o.size = e.size /\ o.ver = e.ver /\ o.ext = e.ext /\ o.options = {}
      BY DEF OptRecords
    <2> QED
      BY <2>1, <2>2, Zenon
  <1> HIDE DEF opt
  <1>4. ASSUME HasEdns(m)
        PROVE  /\ bare \in Message /\ bare.opts = <<opt>> /\ bare.id = m.id /\ bare.qs = m.qs
               /\ bare.from = m.from /\ bare.rcode = m.rcode /\ bare.body = 0
    <2>1. bare = SetEdns(cut, <<opt>>)
      BY <1>4
    <2>2. <<opt>> \in Seq(OptRecords)
      BY <1>3, <1>4
    <2> HIDE DEF bare
    <2> QED
      BY <1>1, <2>1, <2>2, SetEdnsIs
  <1>5. Same(m, bare)
    <2>1. CASE HasEdns(m)
      <3> HIDE DEF bare
      <3>1. Len(bare.opts) = 1 /\ bare.opts[1] = opt /\ Len(m.opts) = 1
        <4>1. Len(<<opt>>) = 1 /\ <<opt>>[1] = opt
          OBVIOUS
        <4> QED
          BY <1>4, <2>1, <4>1, Zenon DEF HasEdns
      <3>2. Edns(bare) = opt
        BY <3>1, Zenon DEF Edns
      <3> QED
        BY <1>3, <1>4, <2>1, <3>1, <3>2, Zenon DEF Same
    <2>2. CASE ~HasEdns(m)
      BY <1>2, <2>2, Zenon
    <2> QED
      BY <2>1, <2>2
  <1>6. ASSUME Len(m.qs) <= 1 PROVE Length(bare) <= UdpLimit(q)
    <2>1. UdpLimit(q) \in Nat /\ UdpLimit(q) >= 1
      BY LimitIs
    <2>2. Len(m.qs) \in Nat
      BY <1>m
    <2>3. ~(HasEdns(bare) /\ Edns(bare).options # {}) /\ bare.qs = m.qs /\ bare.body = 0
      <3>1. CASE HasEdns(m)
        <4> HIDE DEF bare
        <4>1. <<opt>>[1] = opt
          OBVIOUS
        <4>2. Edns(bare) = opt
          BY <1>4, <3>1, <4>1, Zenon DEF Edns
        <4> QED
          BY <1>3, <1>4, <3>1, <4>2, Zenon
      <3>2. CASE ~HasEdns(m)
        <4>1. bare = cut
          BY <3>2
        <4> HIDE DEF bare
        <4> QED
          BY <1>1, <3>2, <4>1, Zenon DEF HasEdns
      <3> QED
        BY <3>1, <3>2
    <2> HIDE DEF bare
    <2>4. Length(bare) = Len(m.qs) + 0 + 0
      BY <2>3, Zenon DEF Length
    <2> QED
      BY <1>6, <2>1, <2>2, <2>4
  <1>7. Truncated(q, m) = IF Length(m) <= UdpLimit(q) THEN m
                          ELSE IF Length(cut) <= UdpLimit(q) THEN cut ELSE bare
    BY DEF Truncated, cut, opt
  <1> HIDE DEF bare
  <1>8. Same(m, Truncated(q, m)) /\ (Len(m.qs) <= 1 => Length(Truncated(q, m)) <= UdpLimit(q))
    BY <1>2, <1>5, <1>6, <1>7, Zenon
  <1> QED
    BY <1>2, <1>8, Zenon DEF OnWire

LEMMA QueryFields ==
  ASSUME NEW q \in Queries
  PROVE  /\ q.opts \in Seq(OptRecords) /\ q.qs \in Seq(Questions) /\ q.id \in Nat
         /\ q.rd \in BOOLEAN /\ q.tc \in BOOLEAN
  BY DEF Queries

LEMMA MessageFields ==
  ASSUME NEW m \in Message
  PROVE  m.opts \in Seq(OptRecords) /\ m.qs \in Seq(Questions)
  BY DEF Message

LEMMA AlignEdnsIs ==
  ASSUME NEW q \in Queries, NEW m \in Message
  PROVE  LET r == AlignEdns(q, m, EdnsMax) IN
         /\ r \in Message /\ r.id = m.id /\ r.qs = m.qs /\ r.from = m.from /\ r.rcode = m.rcode
         /\ HasEdns(q) /\ HasEdns(m) => r.opts = m.opts
  <1> DEFINE r == AlignEdns(q, m, EdnsMax)
             e == [NewEdns(EdnsMax) EXCEPT !.do = Edns(q).do]
  <1>1. r = IF EdnsFails(q) THEN m
            ELSE IF ~HasEdns(q) THEN SetEdns(m, <<>>)
            ELSE IF HasEdns(m) THEN m ELSE SetEdns(m, <<e>>)
    BY Zenon DEF AlignEdns
  <1>2. HasEdns(q) => <<e>> \in Seq(OptRecords)
    <2>1. ASSUME HasEdns(q) PROVE Edns(q).do \in BOOLEAN
      BY <2>1, QueryFields, OneOpt, Zenon
    <2>2. ASSUME HasEdns(q) PROVE e \in OptRecords
      BY <2>1, <2>2, SizesOfUdp, NewEdnsIs, Zenon
    <2> QED
      BY <2>2, SeqFacts, Zenon
  <1>3. <<>> \in Seq(OptRecords)
    BY SeqFacts, Zenon
  <1> HIDE DEF r, e
  <1>4. CASE r = m
    BY <1>4, Zenon DEF r
  <1>5. ASSUME NEW opts \in Seq(OptRecords), r = SetEdns(m, opts), ~HasEdns(q) \/ ~HasEdns(m)
        PROVE  /\ r \in Message /\ r.id = m.id /\ r.qs = m.qs /\ r.from = m.from
               /\ r.rcode = m.rcode /\ (HasEdns(q) /\ HasEdns(m) => r.opts = m.opts)
    BY <1>5, SetEdnsIs
  <1> QED
    BY <1>1, <1>2, <1>3, <1>4, <1>5, Zenon DEF r

LEMMA OwnEdnsIs ==
  ASSUME NEW q \in Queries, ~EdnsFails(q), NEW m \in Message
  PROVE  LET r == OwnEdns(q, m) IN
         /\ r \in Message /\ r.id = m.id /\ r.qs = m.qs /\ r.from = m.from /\ r.rcode = m.rcode
         /\ Len(r.opts) = IF q.opts = <<>> THEN 0 ELSE 1
         /\ HasEdns(r) => Edns(r).size = EdnsMax /\ Edns(r).ver = 0
         /\ HasEdns(q) /\ HasEdns(m) => Edns(r).ext = Edns(m).ext
  <1> DEFINE r == OwnEdns(q, m)
             n == [NewEdns(EdnsMax) EXCEPT !.do = Edns(q).do]
             edns == IF HasEdns(m) THEN Edns(m) ELSE n
             e == [edns EXCEPT !.size = EdnsMax, !.ver = 0]
  <1>1. q.opts \in Seq(OptRecords) /\ m.opts \in Seq(OptRecords)
    BY QueryFields, MessageFields, Zenon
  <1>2. HasEdns(q) <=> q.opts # <<>>
    BY <1>1, NoOpt, Zenon
  <1>3. CASE HasEdns(q)
    <2>1. edns \in OptRecords
      <3>1. Edns(q).do \in BOOLEAN
        BY <1>1, <1>3, OneOpt, Zenon
      <3>2. n \in OptRecords
        BY <3>1, SizesOfUdp, NewEdnsIs, Zenon
      <3>3. HasEdns(m) => Edns(m) \in OptRecords
        BY <1>1, OneOpt, Zenon
      <3> HIDE DEF n
      <3> QED
        BY <3>2, <3>3, Zenon
    <2>2. \A x \in OptRecords :
            LET y == [x EXCEPT !.size = EdnsMax, !.ver = 0] IN
            y \in OptRecords /\ y.size = EdnsMax /\ y.ver = 0 /\ y.ext = x.ext
      BY SizesOfUdp DEF OptRecords
    <2>3. HasEdns(m) => edns = Edns(m)
      BY Zenon
    <2> HIDE DEF edns
    <2>4. e \in OptRecords /\ e.size = EdnsMax /\ e.ver = 0 /\ e.ext = edns.ext
      BY <2>1, <2>2, Zenon
    <2>5. r = SetEdns(m, <<e>>)
      BY <1>3, Zenon DEF OwnEdns, edns
    <2> HIDE DEF e, r
    <2>6. <<e>> \in Seq(OptRecords) /\ Len(<<e>>) = 1 /\ <<e>>[1] = e
      BY <2>4, SeqFacts, Zenon
    <2>7. /\ r \in Message /\ r.opts = <<e>> /\ r.id = m.id /\ r.qs = m.qs /\ r.from = m.from
          /\ r.rcode = m.rcode
      BY <2>5, <2>6, SetEdnsIs
    <2>8. Edns(r) = e /\ Len(r.opts) = 1
      BY <2>6, <2>7, Zenon DEF Edns
    <2> QED
      BY <1>2, <1>3, <2>3, <2>4, <2>7, <2>8, Zenon DEF r
  <1>4. CASE ~HasEdns(q)
    <2>1. r = SetEdns(m, <<>>)
      BY <1>4, Zenon DEF OwnEdns
    <2> HIDE DEF r
    <2>2. <<>> \in Seq(OptRecords) /\ Len(<<>>) = 0
      BY SeqFacts, Zenon
    <2>3. /\ r \in Message /\ r.opts = <<>> /\ r.id = m.id /\ r.qs = m.qs /\ r.from = m.from
          /\ r.rcode = m.rcode
      BY <2>1, <2>2, SetEdnsIs
    <2>4. Len(r.opts) = 0
      BY <2>2, <2>3, Zenon
    <2>5. ~HasEdns(r)
      BY <2>4 DEF HasEdns
    <2>6. Len(r.opts) = IF q.opts = <<>> THEN 0 ELSE 1
      BY <1>2, <1>4, <2>4, Zenon
    <2> QED
      BY <1>4, <2>3, <2>5, <2>6, Zenon DEF r
  <1> QED
    BY <1>3, <1>4

(* Over the wire.                                                           *)
LEMMA WireFits ==
  ASSUME NEW q \in Queries, NEW m \in Message, m.id = q.id, m.qs = q.qs,
         Len(m.opts) = IF q.opts = <<>> THEN 0 ELSE 1,
         HasEdns(m) => Edns(m).size = EdnsMax /\ Edns(m).ver = 0
  PROVE  LET out == OnWire(q, m) IN
         /\ FitsQuery(q, out) /\ "rcode" \in DOMAIN out
         /\ out.from = m.from /\ out.rcode = m.rcode
         /\ HasEdns(m) => HasEdns(out) /\ Edns(out).ext = Edns(m).ext
  <1> DEFINE out == OnWire(q, m)
  <1>1. /\ Same(m, out)
        /\ q.tr = "udp" /\ Len(m.qs) <= 1 => Length(out) <= UdpLimit(q)
    BY QueryFields, OnWireIs, Zenon
  <1> HIDE DEF out
  <1>2. HasEdns(out) <=> HasEdns(m)
    BY <1>1, Zenon DEF Same, HasEdns
  <1>3. "rcode" \in DOMAIN out
    <2>1. out \in Message
      BY <1>1, Zenon DEF Same
    <2> QED
      BY <2>1 DEF Message
  <1>4. FitsQuery(q, out)
    BY <1>1, <1>2, Zenon DEF Same, FitsQuery
  <1> QED
    BY <1>1, <1>2, <1>3, <1>4, Zenon DEF Same, out

LEMMA ReplyFits ==
  ASSUME NEW q \in Queries, ~EdnsFails(q), NEW m \in Message, m.id = q.id, m.qs = q.qs
  PROVE  LET out == OnWire(q, OwnEdns(q, m)) IN
         /\ FitsQuery(q, out) /\ "rcode" \in DOMAIN out
         /\ out.from = m.from /\ out.rcode = m.rcode
         /\ HasEdns(q) /\ HasEdns(m) => HasEdns(out) /\ Edns(out).ext = Edns(m).ext
  <1> DEFINE r == OwnEdns(q, m)
  <1>1. /\ r \in Message /\ r.id = m.id /\ r.qs = m.qs /\ r.from = m.from /\ r.rcode = m.rcode
        /\ Len(r.opts) = IF q.opts = <<>> THEN 0 ELSE 1
        /\ HasEdns(r) => Edns(r).size = EdnsMax /\ Edns(r).ver = 0
        /\ HasEdns(q) /\ HasEdns(m) => Edns(r).ext = Edns(m).ext
    BY OwnEdnsIs, Zenon
  <1> HIDE DEF r
  <1>2. HasEdns(q) => HasEdns(r)
    <2>1. HasEdns(q) => q.opts # <<>>
      BY QueryFields, OneOpt, Zenon
    <2> QED
      BY <1>1, <2>1, Zenon DEF HasEdns
  <1>3. LET out == OnWire(q, r) IN
        /\ FitsQuery(q, out) /\ "rcode" \in DOMAIN out
        /\ out.from = r.from /\ out.rcode = r.rcode
        /\ HasEdns(r) => HasEdns(out) /\ Edns(out).ext = Edns(r).ext
    BY <1>1, WireFits, Zenon
  <1> QED
    BY <1>1, <1>2, <1>3, Zenon DEF r

LEMMA LocalIs ==
  ASSUME NEW q \in Queries, NEW rcode \in Rcodes
  PROVE  LET m == LocalResponse(q, rcode) IN
         m \in Message /\ m.id = q.id /\ m.qs = q.qs /\ m.from = {} /\ m.rcode = rcode
  <1>1. <<>> \in Seq(OptRecords)
    BY SeqFacts, Zenon
  <1> QED
    BY <1>1, QueryFields DEF LocalResponse, Message

LEMMA FilledIs ==
  ASSUME NEW m \in Message, NEW body \in Nat
  PROVE  LET n == [m EXCEPT !.body = body] IN
         n \in Message /\ n.id = m.id /\ n.qs = m.qs /\ n.from = m.from /\ n.rcode = m.rcode
  BY DEF Message

(* The step of one task, the others as they were.                           *)
Changed(t, r) == /\ DOMAIN task' = Tasks /\ task'[t] = r
                 /\ \A u \in Tasks \ {t} : task'[u] = task[u]

CachesOk == \A k \in DOMAIN cache : CacheOk(k, cache[k])

LEMMA AllTasks ==
  ASSUME ServeInv, DOMAIN task' = Tasks, \A u \in Tasks : TaskOk(faking, task'[u]),
         faking' = faking, CachesOk'
  PROVE  ServeInv'
  <1>1. faking' \in BOOLEAN
    BY Zenon DEF ServeInv
  <1>2. \A u \in Tasks : TaskOk(faking', task'[u])
    BY Zenon
  <1>3. (\A u \in Tasks : TaskOk(faking, task[u]))' <=> \A u \in Tasks : TaskOk(faking', task'[u])
    BY DEF TaskOk, GoodOut, FitsQuery, KeepsExt, RightContent, FakesFor, Routed, Asked, Selected, InRange, Origin, UdpLimit, Length, HasEdns, Edns, EdnsFails, Informed, Fetched, QueryUsesCache
  <1> QED
    BY <1>1, <1>2, <1>3, Zenon DEF ServeInv, CachesOk

LEMMA OneTask ==
  ASSUME ServeInv, NEW t \in Tasks, NEW r, Changed(t, r), TaskOk(faking, r),
         faking' = faking, CachesOk'
  PROVE  ServeInv'
  <1>1. DOMAIN task' = Tasks /\ \A u \in Tasks : TaskOk(faking, task'[u])
    BY Zenon DEF ServeInv, Changed
  <1> QED
    BY <1>1, AllTasks, Zenon

LEMMA SameCache ==
  ASSUME ServeInv, cache' = cache
  PROVE  CachesOk'
  BY Zenon DEF ServeInv, CachesOk, CacheOk

(* The task sends a message or an HTTP status.                              *)
LEMMA FinishedOk ==
  ASSUME ServeInv, NEW t \in Tasks, task[t].at # "idle", NEW r, DOMAIN r = Fields,
         r.at = "done", r.q = task[t].q, GoodOut(faking, r)
  PROVE  TaskOk(faking, r)
  <1>1. Asked(r.q)
    BY Zenon DEF ServeInv, TaskOk
  <1>2. r.at \in {"idle", "handle", "done"} \cup Upstream \cup Waits
    BY Zenon
  <1>3. ~(r.at # "done") /\ ~(r.at \in Upstream \cup Waits) /\ ~(r.at \in Waits) /\ ~(r.at = "told")
    BY DEF Upstream, Waits
  <1> QED
    BY <1>1, <1>2, <1>3, Zenon DEF TaskOk

LEMMA Finishes ==
  ASSUME ServeInv, NEW t \in Tasks, task[t].at # "idle", NEW r, Changed(t, r), DOMAIN r = Fields,
         r.at = "done", r.q = task[t].q, GoodOut(faking, r), faking' = faking, CachesOk'
  PROVE  ServeInv'
  <1>1. TaskOk(faking, r)
    BY FinishedOk, Zenon
  <1> QED
    BY <1>1, OneTask, Zenon

(* The task goes on with a routed query.                                    *)
LEMMA GoesOn ==
  ASSUME ServeInv, NEW t \in Tasks, task[t].at # "idle", task[t].at # "done",
         NEW r, Changed(t, r), DOMAIN r = Fields, r.at \in Upstream \cup {"follow"},
         r.at = "follow" => QueryUsesCache(r.q), r.q = task[t].q,
         r.out = task[t].out, r.ext = task[t].ext, Routed(faking, r), faking' = faking, CachesOk'
  PROVE  ServeInv'
  <1>1. Asked(r.q) /\ r.out = None /\ r.ext = 0
    BY Zenon DEF ServeInv, TaskOk
  <1>2. /\ r.at \in {"idle", "handle", "done"} \cup Upstream \cup Waits /\ ~(r.at = "done")
        /\ ~(r.at = "told") /\ (r.at \in Waits => r.at = "follow")
    BY DEF Upstream, Waits
  <1>3. TaskOk(faking, r)
    BY <1>1, <1>2, Zenon DEF TaskOk
  <1> QED
    BY <1>3, OneTask, Zenon

(* The task t once it has sent m.                                           *)
Ready(t, m, ext, r) ==
    /\ DOMAIN r = Fields /\ r.at = "done" /\ r.out = OnWire(task[t].q, m)
    /\ r.q = task[t].q /\ r.group = task[t].group /\ r.told = task[t].told /\ r.ext = ext

WithExt(r, ext) == [r EXCEPT !.ext = ext]

LEMMA AnsweredIs ==
  ASSUME ServeInv, NEW t \in Tasks, task[t].at \notin {"idle", "done"}, NEW m, NEW r, NEW ext,
         r = WithExt(Answered(t, m), ext)
  PROVE  Ready(t, m, ext, r)
  <1>1. DOMAIN task[t] = Fields
    BY Zenon DEF ServeInv, TaskOk
  <1> DEFINE out == OnWire(task[t].q, m)
  <1>2. r = [[task[t] EXCEPT !.at = "done", !.out = out] EXCEPT !.ext = ext]
    BY Zenon DEF Answered, WithExt
  <1> HIDE DEF out
  <1>3. /\ DOMAIN r = Fields /\ r.at = "done" /\ r.out = out
        /\ r.q = task[t].q /\ r.group = task[t].group /\ r.told = task[t].told /\ r.ext = ext
    BY <1>1, <1>2 DEF Fields
  <1> QED
    BY <1>3, Zenon DEF out, Ready

LEMMA AnsweredPlain ==
  ASSUME ServeInv, NEW t \in Tasks, task[t].at \notin {"idle", "done"}, NEW m, NEW r,
         r = Answered(t, m)
  PROVE  Ready(t, m, 0, r)
  <1>1. DOMAIN task[t] = Fields /\ task[t].ext = 0
    <2>1. TaskOk(faking, task[t]) /\ task[t].at # "done"
      BY Zenon DEF ServeInv
    <2> QED
      BY <2>1, Zenon DEF TaskOk
  <1> DEFINE out == OnWire(task[t].q, m)
  <1>2. r = [task[t] EXCEPT !.at = "done", !.out = out]
    BY Zenon DEF Answered
  <1> HIDE DEF out
  <1>3. /\ DOMAIN r = Fields /\ r.at = "done" /\ r.out = out
        /\ r.q = task[t].q /\ r.group = task[t].group /\ r.told = task[t].told /\ r.ext = 0
    BY <1>1, <1>2 DEF Fields
  <1> QED
    BY <1>3, Zenon DEF out, Ready

LEMMA ReplyOk ==
  ASSUME ServeInv, NEW t \in Tasks, task[t].at \notin {"idle", "done"}, ~EdnsFails(task[t].q),
         NEW m \in Message, m.id = task[t].q.id, m.qs = task[t].q.qs,
         IF m.from = {} THEN m.rcode = "NoError" => FakesFor(faking, task[t].q)
         ELSE m.from = {Origin(task[t].q, task[t].group)} /\ ~FakesFor(faking, task[t].q)
  PROVE  TaskOk(faking, Answered(t, OwnEdns(task[t].q, m)))
  <1> DEFINE q == task[t].q
             own == OwnEdns(q, m)
             out == OnWire(q, own)
             r == Answered(t, own)
  <1>1. /\ q \in Queries /\ task[t].at # "idle"
    BY Zenon DEF ServeInv, TaskOk, Asked
  <1>2. /\ FitsQuery(q, out) /\ "rcode" \in DOMAIN out
        /\ out.from = m.from /\ out.rcode = m.rcode
    BY <1>1, ReplyFits, Zenon
  <1>3. /\ DOMAIN r = Fields /\ r.at = "done" /\ r.out = out /\ r.q = q /\ r.group = task[t].group
        /\ r.ext = 0
    <2> HIDE DEF own, q
    <2>1. r = Answered(t, own)
      OBVIOUS
    <2> HIDE DEF r
    <2>2. Ready(t, own, 0, r)
      BY <2>1, AnsweredPlain, Zenon
    <2> QED
      BY <2>2, Zenon DEF Ready, q
  <1> HIDE DEF out, r, q
  <1>4. GoodOut(faking, r)
    BY <1>2, <1>3, Zenon DEF GoodOut, KeepsExt, RightContent, q
  <1>5. TaskOk(faking, r)
    BY <1>1, <1>3, <1>4, FinishedOk, Zenon DEF q
  <1> QED
    BY <1>5, Zenon DEF r, q

LEMMA Replies ==
  ASSUME ServeInv, NEW t \in Tasks, task[t].at \notin {"idle", "done"}, ~EdnsFails(task[t].q),
         NEW m \in Message, m.id = task[t].q.id, m.qs = task[t].q.qs,
         IF m.from = {} THEN m.rcode = "NoError" => FakesFor(faking, task[t].q)
         ELSE m.from = {Origin(task[t].q, task[t].group)} /\ ~FakesFor(faking, task[t].q),
         Reply(t, m), faking' = faking, cache' = cache
  PROVE  ServeInv'
  <1> DEFINE r == Answered(t, OwnEdns(task[t].q, m))
  <1>1. TaskOk(faking, r)
    BY ReplyOk, Zenon
  <1>2. task' = [task EXCEPT ![t] = r]
    BY Zenon DEF Reply, Done
  <1> HIDE DEF r
  <1>3. DOMAIN task = Tasks
    BY Zenon DEF ServeInv
  <1>4. Changed(t, r)
    BY <1>2, <1>3, Zenon DEF Changed
  <1> QED
    BY <1>1, <1>4, SameCache, OneTask, Zenon

LEMMA ErrorIs ==
  ASSUME NEW q \in Queries
  PROVE  LET m == LocalResponse(q, "ServFail") IN
         /\ m \in Message /\ m.id = q.id /\ m.qs = q.qs /\ m.from = {} /\ m.rcode # "NoError"
  <1>1. "ServFail" \in Rcodes /\ "ServFail" # "NoError"
    BY DEF Rcodes
  <1> QED
    BY <1>1, LocalIs, Zenon

LEMMA Errors ==
  ASSUME ServeInv, NEW t \in Tasks, task[t].at \notin {"idle", "done"}, ~EdnsFails(task[t].q),
         ReplyError(t), faking' = faking, cache' = cache
  PROVE  ServeInv'
  <1> DEFINE q == task[t].q
             m == LocalResponse(q, "ServFail")
  <1>1. q \in Queries
    BY Zenon DEF ServeInv, TaskOk, Asked
  <1>2. m \in Message /\ m.id = q.id /\ m.qs = q.qs /\ m.from = {} /\ m.rcode # "NoError"
    <2> HIDE DEF q
    <2> QED
      BY <1>1, ErrorIs, Zenon
  <1>3. Reply(t, m)
    BY Zenon DEF ReplyError
  <1> HIDE DEF m
  <1> QED
    BY <1>2, <1>3, Replies, Zenon

LEMMA Locals ==
  ASSUME ServeInv, NEW t \in Tasks, task[t].at \notin {"idle", "done"}, ~EdnsFails(task[t].q),
         NEW rcode \in Rcodes, NEW body \in Nat, FakesFor(faking, task[t].q),
         LocalReply(t, rcode, body), faking' = faking, cache' = cache
  PROVE  ServeInv'
  <1> DEFINE q == task[t].q
             n == [LocalResponse(q, rcode) EXCEPT !.body = body]
             m == AlignEdns(q, n, EdnsMax)
  <1>1. q \in Queries
    BY Zenon DEF ServeInv, TaskOk, Asked
  <1>2. n \in Message /\ n.id = q.id /\ n.qs = q.qs /\ n.from = {}
    <2> DEFINE l == LocalResponse(q, rcode)
    <2> HIDE DEF q
    <2>1. l \in Message /\ l.id = q.id /\ l.qs = q.qs /\ l.from = {}
      BY <1>1, LocalIs, Zenon
    <2> HIDE DEF l
    <2>2. LET k == [l EXCEPT !.body = body] IN
          k \in Message /\ k.id = l.id /\ k.qs = l.qs /\ k.from = l.from
      BY <2>1, FilledIs, Zenon
    <2> QED
      BY <2>1, <2>2, Zenon DEF l
  <1>3. Reply(t, m)
    BY Zenon DEF LocalReply
  <1> HIDE DEF n
  <1>4. m \in Message /\ m.id = n.id /\ m.qs = n.qs /\ m.from = n.from
    BY <1>1, <1>2, AlignEdnsIs, Zenon
  <1> HIDE DEF m
  <1>5. m.id = q.id /\ m.qs = q.qs /\ m.from = {}
    BY <1>2, <1>4, Zenon
  <1> QED
    BY <1>3, <1>4, <1>5, Replies, Zenon

LEMMA IdleOk ==
  ASSUME NEW fake, NEW conn
  PROVE  TaskOk(fake, [Idle EXCEPT !.conn = conn])
  <1> DEFINE r == [Idle EXCEPT !.conn = conn]
  <1>1. DOMAIN r = Fields /\ r.at = "idle" /\ r.out = None /\ r.ext = 0
    BY DEF Idle, Fields
  <1> HIDE DEF r
  <1>2. /\ r.at \in {"idle", "handle", "done"} \cup Upstream \cup Waits /\ r.at # "done"
        /\ r.at \notin Upstream \cup Waits /\ r.at \notin Waits /\ r.at # "told"
    BY <1>1 DEF Upstream, Waits
  <1>3. TaskOk(fake, r)
    BY <1>1, <1>2, Zenon DEF TaskOk
  <1> QED
    BY <1>3 DEF r

LEMMA ListenerKeeps ==
  ASSUME ServeInv, NEW t \in Tasks, ListenerStep(t)
  PROVE  ServeInv'
  <1>1. DOMAIN task = Tasks /\ TaskOk(faking, task[t]) /\ faking \in BOOLEAN
    BY Zenon DEF ServeInv
  <1>2. DOMAIN task[t] = Fields
    BY <1>1, Zenon DEF TaskOk
  <1>3. faking' = faking /\ cache' = cache
    BY DEF ListenerStep, Accept, Receive, Finish
  <1>4. CachesOk'
    BY <1>3, SameCache, Zenon
  <1>5. ASSUME Accept(t) PROVE ServeInv'
    <2>1. PICK tr : task' = [task EXCEPT ![t].conn = tr]
      BY <1>5, Zenon DEF Accept
    <2>2. task[t].at = "idle"
      BY <1>5, Zenon DEF Accept
    <2> DEFINE r == [task[t] EXCEPT !.conn = tr]
    <2>3. DOMAIN r = Fields /\ r.at = "idle" /\ r.out = task[t].out /\ r.ext = task[t].ext
      BY <1>2, <2>2 DEF Fields
    <2>4. Changed(t, r)
      BY <1>1, <2>1, Zenon DEF Changed
    <2> HIDE DEF r
    <2>5. task[t].out = None /\ task[t].ext = 0
      <3>1. task[t].at # "done"
        BY <2>2
      <3> QED
        BY <1>1, <3>1, Zenon DEF TaskOk
    <2>6. /\ r.at \in {"idle", "handle", "done"} \cup Upstream \cup Waits /\ r.at # "done"
          /\ r.at \notin Upstream \cup Waits /\ r.at \notin Waits /\ r.at # "told"
      BY <2>3 DEF Upstream, Waits
    <2>7. TaskOk(faking, r)
      BY <2>3, <2>5, <2>6, Zenon DEF TaskOk
    <2> QED
      BY <1>3, <1>4, <2>4, <2>7, OneTask, Zenon
  <1>6. ASSUME Receive(t) PROVE ServeInv'
    <2>1. PICK q \in Arrivals[faking][t] : task' = [task EXCEPT ![t].at = "handle", ![t].q = q]
      BY <1>6, Zenon DEF Receive
    <2>2. task[t].at = "idle"
      BY <1>6, Zenon DEF Receive
    <2> DEFINE r == [task[t] EXCEPT !.at = "handle", !.q = q]
    <2>3. DOMAIN r = Fields /\ r.at = "handle" /\ r.q = q /\ r.out = task[t].out /\ r.ext = task[t].ext
      BY <1>2 DEF Fields
    <2>4. Changed(t, r)
      BY <1>1, <2>1, Zenon DEF Changed
    <2> HIDE DEF r
    <2>5. task[t].out = None /\ task[t].ext = 0
      <3>1. task[t].at # "done"
        BY <2>2
      <3> QED
        BY <1>1, <3>1, Zenon DEF TaskOk
    <2>6. /\ r.at \in {"idle", "handle", "done"} \cup Upstream \cup Waits /\ r.at # "done"
          /\ r.at \notin Upstream \cup Waits /\ r.at \notin Waits /\ r.at # "told"
      BY <2>3 DEF Upstream, Waits
    <2>7. Asked(q)
      <3>1. Arrivals[faking][t] \in SUBSET Queries
        BY <1>1, ArrivalsAssumption
      <3>2. q.qs # <<>> /\ Selected(q.qs[1]) => q.qs[1].name \in Names
        BY <1>1, ArrivalsAssumption, Zenon
      <3> QED
        BY <3>1, <3>2, Zenon DEF Asked
    <2>8. TaskOk(faking, r)
      BY <2>3, <2>5, <2>6, <2>7, Zenon DEF TaskOk
    <2> QED
      BY <1>3, <1>4, <2>4, <2>8, OneTask, Zenon
  <1>7. ASSUME Finish(t) PROVE ServeInv'
    <2>1. PICK conn : task' = [task EXCEPT ![t] = [Idle EXCEPT !.conn = conn]]
      BY <1>7, Zenon DEF Finish
    <2> DEFINE r == [Idle EXCEPT !.conn = conn]
    <2>2. TaskOk(faking, r)
      BY IdleOk, Zenon
    <2> HIDE DEF r
    <2>3. Changed(t, r)
      BY <1>1, <2>1, Zenon DEF Changed, r
    <2> QED
      BY <1>3, <1>4, <2>2, <2>3, OneTask, Zenon
  <1> QED
    BY <1>5, <1>6, <1>7, Zenon DEF ListenerStep

LEMMA ForgetKeeps ==
  ASSUME ServeInv, Forget
  PROVE  ServeInv'
  <1>1. PICK k \in DOMAIN cache : cache' = Restrict(cache, DOMAIN cache \ {k})
    BY Zenon DEF Forget
  <1>2. faking' = faking /\ task' = task
    BY DEF Forget
  <1>3. /\ DOMAIN cache' = DOMAIN cache \ {k}
        /\ \A l \in DOMAIN cache' : cache'[l] = cache[l]
    BY <1>1, Zenon DEF Restrict
  <1>4. \A l \in DOMAIN cache' : CacheOk(l, cache'[l])
    BY <1>3, Zenon DEF ServeInv
  <1> QED
    BY <1>2, <1>4, Zenon DEF ServeInv

LEMMA RejectKeeps ==
  ASSUME ServeInv, NEW t \in Tasks, Reject(t)
  PROVE  ServeInv'
  <1> DEFINE q == task[t].q
             o == [status |-> HttpStatus(q)]
             r == [task[t] EXCEPT !.at = "done", !.out = o]
             conn == IF q.tr = "doq" THEN task[t].conn ELSE None
             i == [Idle EXCEPT !.conn = conn]
  <1>1. DOMAIN task = Tasks /\ TaskOk(faking, task[t])
    BY Zenon DEF ServeInv
  <1>2. DOMAIN task[t] = Fields
    BY <1>1, Zenon DEF TaskOk
  <1>3. faking' = faking /\ cache' = cache /\ task[t].at = "handle"
    BY DEF Reject
  <1>4. CachesOk'
    BY <1>3, SameCache, Zenon
  <1>5. task' = [task EXCEPT ![t] = IF q.tr \in {"doh", "doh3"} THEN r ELSE i]
    BY <1>1 DEF Reject
  <1>6. /\ DOMAIN r = Fields /\ r.at = "done" /\ r.out = o /\ r.q = q
    BY <1>2 DEF Fields
  <1>7. "rcode" \notin DOMAIN o
    OBVIOUS
  <1>8. TaskOk(faking, i)
    BY IdleOk, Zenon
  <1> HIDE DEF r, o, i, q
  <1>9. CASE q.tr \in {"doh", "doh3"}
    <2>1. Changed(t, r)
      BY <1>1, <1>5, <1>9, Zenon DEF Changed
    <2>2. GoodOut(faking, r)
      BY <1>6, <1>7, Zenon DEF GoodOut
    <2>3. task[t].at # "idle"
      BY <1>3
    <2> QED
      BY <1>3, <1>4, <1>6, <2>1, <2>2, <2>3, Finishes, Zenon DEF q
  <1>10. CASE q.tr \notin {"doh", "doh3"}
    <2>1. Changed(t, i)
      BY <1>1, <1>5, <1>10, Zenon DEF Changed
    <2> QED
      BY <1>3, <1>4, <1>8, <2>1, OneTask, Zenon
  <1> QED
    BY <1>9, <1>10

LEMMA RejectEdnsKeeps ==
  ASSUME ServeInv, NEW t \in Tasks, RejectEdns(t)
  PROVE  ServeInv'
  <1> DEFINE q == task[t].q
             e1 == NewEdns(EdnsMax)
             e2 == [NewEdns(EdnsMax) EXCEPT !.ext = 1, !.do = Edns(q).do]
  <1>1. /\ DOMAIN task = Tasks /\ DOMAIN task[t] = Fields /\ q \in Queries /\ task[t].ext = 0
        /\ faking' = faking /\ cache' = cache /\ task[t].at = "handle"
    <2>1. task[t].at = "handle" /\ faking' = faking /\ cache' = cache
      BY DEF RejectEdns
    <2>2. TaskOk(faking, task[t]) /\ DOMAIN task = Tasks
      BY Zenon DEF ServeInv
    <2>3. task[t].at # "idle" /\ task[t].at # "done"
      BY <2>1
    <2> QED
      BY <2>1, <2>2, <2>3, Zenon DEF TaskOk, Asked
  <1>2. PICK rcode \in Rcodes, e \in OptRecords :
            /\ Done(t, SetEdns(LocalResponse(q, rcode), <<e>>)) /\ q.opts # <<>>
            /\ e.size = EdnsMax /\ e.ver = 0 /\ (rcode = "NoError" => e.ext # 0)
    <2>1. e1 \in OptRecords /\ e1.size = EdnsMax /\ e1.ver = 0
      BY SizesOfUdp, NewEdnsIs, Zenon
    <2>2. "FormErr" \in Rcodes /\ "NoError" \in Rcodes /\ "FormErr" # "NoError"
      BY DEF Rcodes
    <2>3. CASE EdnsFails(q) /\ Done(t, SetEdns(LocalResponse(q, "FormErr"), <<e1>>))
      <3>1. q.opts # <<>>
        <4>1. Len(q.opts) > 1
          BY <2>3, Zenon DEF EdnsFails
        <4>2. q.opts = <<>> => Len(q.opts) = 0
          BY SeqFacts, Zenon
        <4> QED
          BY <4>1, <4>2
      <3> HIDE DEF e1
      <3> QED
        BY <2>1, <2>2, <2>3, <3>1, Zenon
    <2>4. CASE HasEdns(q) /\ Done(t, SetEdns(LocalResponse(q, "NoError"), <<e2>>))
      <3>1. q.opts # <<>> /\ Edns(q).do \in BOOLEAN
        BY <1>1, <2>4, QueryFields, OneOpt, Zenon
      <3>2. \A do \in BOOLEAN : LET e == [NewEdns(EdnsMax) EXCEPT !.ext = 1, !.do = do] IN
                e \in OptRecords /\ e.size = EdnsMax /\ e.ver = 0 /\ e.ext # 0
        BY SizesOfUdp, VersionsIs, Zenon
      <3>3. e2 \in OptRecords /\ e2.size = EdnsMax /\ e2.ver = 0 /\ e2.ext # 0
        BY <3>1, <3>2, Zenon
      <3> HIDE DEF e2
      <3> QED
        BY <2>2, <2>4, <3>1, <3>3, Zenon
    <2> QED
      BY <2>3, <2>4, Zenon DEF RejectEdns
  <1> DEFINE l == LocalResponse(q, rcode)
             m == SetEdns(l, <<e>>)
             out == OnWire(q, m)
             r == Answered(t, m)
  <1>3. l \in Message /\ l.id = q.id /\ l.qs = q.qs /\ l.from = {} /\ l.rcode = rcode
    <2> HIDE DEF q
    <2> QED
      BY <1>1, LocalIs, Zenon
  <1> HIDE DEF l
  <1>4. <<e>> \in Seq(OptRecords) /\ Len(<<e>>) = 1 /\ <<e>>[1] = e
    BY SeqFacts, Zenon
  <1>5. /\ m \in Message /\ m.opts = <<e>> /\ m.id = l.id /\ m.qs = l.qs /\ m.from = l.from
        /\ m.rcode = l.rcode
    BY <1>3, <1>4, SetEdnsIs, Zenon
  <1> HIDE DEF m
  <1>6. HasEdns(m) /\ Edns(m) = e /\ Len(m.opts) = 1
    BY <1>4, <1>5, Zenon DEF HasEdns, Edns
  <1>7. Len(m.opts) = IF q.opts = <<>> THEN 0 ELSE 1
    BY <1>2, <1>6, Zenon
  <1>8. /\ FitsQuery(q, out) /\ "rcode" \in DOMAIN out /\ out.from = {} /\ out.rcode = rcode
        /\ Edns(out).ext = e.ext
    <2>1. m.id = q.id /\ m.qs = q.qs /\ Edns(m).size = EdnsMax /\ Edns(m).ver = 0
      BY <1>2, <1>3, <1>5, <1>6, Zenon
    <2> HIDE DEF q
    <2>2. LET x == OnWire(q, m) IN
          /\ FitsQuery(q, x) /\ "rcode" \in DOMAIN x
          /\ x.from = m.from /\ x.rcode = m.rcode
          /\ HasEdns(m) => HasEdns(x) /\ Edns(x).ext = Edns(m).ext
      BY <1>1, <1>5, <1>7, <2>1, WireFits, Zenon
    <2> QED
      BY <1>3, <1>5, <1>6, <2>2, Zenon
  <1> HIDE DEF out
  <1>9. task' = [task EXCEPT ![t] = r]
    BY <1>2, Zenon DEF Done, l, m
  <1>10. /\ DOMAIN r = Fields /\ r.at = "done" /\ r.out = out /\ r.q = q /\ r.group = task[t].group
         /\ r.ext = 0
    <2>1. task[t].at \notin {"idle", "done"}
      BY <1>1
    <2>2. r = Answered(t, m)
      OBVIOUS
    <2> HIDE DEF r, q
    <2>3. Ready(t, m, 0, r)
      BY <2>1, <2>2, AnsweredPlain, Zenon
    <2> QED
      BY <2>3, Zenon DEF Ready, out, q
  <1> HIDE DEF r, q
  <1>11. Changed(t, r)
    BY <1>1, <1>9, Zenon DEF Changed
  <1>12. GoodOut(faking, r)
    BY <1>2, <1>8, <1>10, Zenon DEF GoodOut, KeepsExt, RightContent
  <1>13. CachesOk' /\ task[t].at # "idle"
    BY <1>1, SameCache
  <1> QED
    BY <1>1, <1>10, <1>11, <1>12, <1>13, Finishes, Zenon DEF q

(* What the invariant says of a query in the resolver.                      *)
LEMMA AtHandle ==
  ASSUME ServeInv, NEW t \in Tasks, Resolving(t)
  PROVE  /\ task[t].at \notin {"idle", "done"} /\ ~EdnsFails(task[t].q) /\ Asked(task[t].q)
         /\ DOMAIN task = Tasks /\ DOMAIN task[t] = Fields /\ task[t].at # "idle" /\ task[t].at # "done"
  <1>1. task[t].at = "handle" /\ ~EdnsFails(task[t].q)
    BY Zenon DEF Resolving
  <1>2. task[t].at \notin {"idle", "done"} /\ task[t].at # "idle" /\ task[t].at # "done"
    BY <1>1
  <1> QED
    BY <1>1, <1>2, Zenon DEF ServeInv, TaskOk

LEMMA AtUpstream ==
  ASSUME ServeInv, NEW t \in Tasks, task[t].at \in Upstream \cup Waits
  PROVE  /\ task[t].at \notin {"idle", "done"} /\ Routed(faking, task[t]) /\ task[t].q \in Queries
         /\ DOMAIN task = Tasks /\ DOMAIN task[t] = Fields /\ task[t].at # "idle" /\ task[t].at # "done"
         /\ task[t].ext = 0
  <1>1. task[t].at \notin {"idle", "done"} /\ task[t].at # "idle" /\ task[t].at # "done"
    BY DEF Upstream, Waits
  <1> QED
    BY <1>1, Zenon DEF ServeInv, TaskOk, Asked

LEMMA FakesIs ==
  ASSUME NEW t
  PROVE  Fakes(t) <=> FakesFor(faking, task[t].q)
  BY Zenon DEF Fakes, FakesFor

LEMMA NoQuestionKeeps ==
  ASSUME ServeInv, NEW t \in Tasks, NoQuestion(t)
  PROVE  ServeInv'
  <1>1. Resolving(t) /\ ReplyError(t) /\ faking' = faking /\ cache' = cache
    BY DEF NoQuestion
  <1> QED
    BY <1>1, AtHandle, Errors, Zenon

LEMMA FakeAnswerKeeps ==
  ASSUME ServeInv, NEW t \in Tasks, FakeAnswer(t)
  PROVE  ServeInv'
  <1>1. /\ Resolving(t) /\ Fakes(t) /\ faking' = faking /\ cache' = cache
        /\ LocalReply(t, "NoError", 1) \/ LocalReply(t, "NoError", 0)
    BY DEF FakeAnswer
  <1>2. "NoError" \in Rcodes /\ 0 \in Nat /\ 1 \in Nat
    BY DEF Rcodes
  <1> QED
    BY <1>1, <1>2, AtHandle, FakesIs, Locals, Zenon

LEMMA FakePtrAnswerKeeps ==
  ASSUME ServeInv, NEW t \in Tasks, FakePtrAnswer(t)
  PROVE  ServeInv'
  <1>1. /\ Resolving(t) /\ Fakes(t) /\ faking' = faking /\ cache' = cache
        /\ LocalReply(t, "NoError", 1) \/ LocalReply(t, "NxDomain", 0)
    BY Zenon DEF FakePtrAnswer
  <1>2. "NoError" \in Rcodes /\ "NxDomain" \in Rcodes /\ 0 \in Nat /\ 1 \in Nat
    BY DEF Rcodes
  <1> QED
    BY <1>1, <1>2, AtHandle, FakesIs, Locals, Zenon

LEMMA RouteKeeps ==
  ASSUME ServeInv, NEW t \in Tasks, Route(t)
  PROVE  ServeInv'
  <1>1. /\ Resolving(t) /\ task[t].q.qs # <<>> /\ ~Fakes(t) /\ faking' = faking /\ cache' = cache
    BY DEF Route
  <1>2. CASE ReplyError(t)
    BY <1>1, <1>2, AtHandle, Errors, Zenon
  <1>3. ASSUME NEW g \in Groups, task' = [task EXCEPT ![t].at = "lookup", ![t].group = g]
        PROVE  ServeInv'
    <2> DEFINE r == [task[t] EXCEPT !.at = "lookup", !.group = g]
    <2>1. DOMAIN task[t] = Fields /\ DOMAIN task = Tasks
      BY <1>1, AtHandle, Zenon
    <2>2. /\ DOMAIN r = Fields /\ r.at = "lookup" /\ r.group = g /\ r.q = task[t].q
          /\ r.out = task[t].out /\ r.ext = task[t].ext
      BY <2>1 DEF Fields
    <2>3. Changed(t, r)
      BY <1>3, <2>1, Zenon DEF Changed
    <2> HIDE DEF r
    <2>4. Routed(faking, r)
      BY <1>1, <2>2, AtHandle, FakesIs, Zenon DEF Routed
    <2>5. r.at \in Upstream \cup {"follow"} /\ r.at # "follow"
      BY <2>2 DEF Upstream
    <2> QED
      BY <1>1, <2>2, <2>3, <2>4, <2>5, AtHandle, SameCache, GoesOn, Zenon
  <1> QED
    BY <1>2, <1>3, Zenon DEF Route

LEMMA HitIs ==
  ASSUME NEW q \in Queries, NEW m \in Message
  PROVE  LET n == CacheHitResponse(q, m) IN
         n \in Message /\ n.id = q.id /\ n.qs = q.qs /\ n.from = m.from
  <1> DEFINE s == SetEdns(m, <<>>)
  <1>1. <<>> \in Seq(OptRecords)
    BY SeqFacts, Zenon
  <1>2. s \in Message /\ s.from = m.from
    BY <1>1, SetEdnsIs, Zenon
  <1> HIDE DEF s
  <1>3. q.id \in Nat /\ q.qs \in Seq(Questions) /\ q.rd \in BOOLEAN
    BY QueryFields, Zenon
  <1>5. CacheHitResponse(q, m) = [s EXCEPT !.id = q.id, !.rd = q.rd, !.qs = q.qs]
    BY Zenon DEF CacheHitResponse, s
  <1> DEFINE n == [s EXCEPT !.id = q.id, !.rd = q.rd, !.qs = q.qs]
  <1>6. n \in Message /\ n.id = q.id /\ n.qs = q.qs /\ n.from = s.from
    BY <1>2, <1>3 DEF Message
  <1> HIDE DEF n
  <1> QED
    BY <1>2, <1>5, <1>6, Zenon DEF n

(* A key stands for one origin.                                             *)
LEMMA KeyIs ==
  ASSUME NEW q \in Queries, NEW g, Len(q.qs) = 1
  PROVE  LET k == KeyOf(q, g) IN
         [group |-> k.group, qs |-> <<k.question>>, rd |-> k.rd, do |-> k.do] = Origin(q, g)
  <1>1. q.qs = <<q.qs[1]>>
    BY QueryFields, SeqFacts, Zenon
  <1> DEFINE k == KeyOf(q, g)
  <1>2. k.group = g /\ k.question = q.qs[1] /\ k.rd = q.rd /\ k.do = QueryDnssecOk(q)
    BY DEF KeyOf
  <1> HIDE DEF k
  <1>3. <<k.question>> = q.qs
    BY <1>1, <1>2, Zenon
  <1> QED
    BY <1>2, <1>3, Zenon DEF Origin, QueryDnssecOk, k

LEMMA CacheLookupKeeps ==
  ASSUME ServeInv, NEW t \in Tasks, CacheLookup(t)
  PROVE  ServeInv'
  <1> DEFINE q == task[t].q
             k == TaskKey(t)
             h == CacheHitResponse(q, cache[k])
             m == AlignEdns(q, h, EdnsMax)
  <1>1. faking' = faking /\ cache' = cache /\ task[t].at = "lookup"
    BY DEF CacheLookup
  <1>2. task[t].at \in Upstream
    BY <1>1 DEF Upstream
  <1>3. /\ q \in Queries /\ Routed(faking, task[t]) /\ DOMAIN task[t] = Fields /\ DOMAIN task = Tasks
        /\ task[t].at \notin {"idle", "done"} /\ ~EdnsFails(q) /\ ~FakesFor(faking, q)
        /\ task[t].at # "idle" /\ task[t].at # "done"
    BY <1>2, AtUpstream, Zenon DEF Routed
  <1>4. CASE QueryUsesCache(q) /\ k \in DOMAIN cache /\ Reply(t, m)
    <2>1. CacheOk(k, cache[k])
      BY <1>4, Zenon DEF ServeInv
    <2>2. Len(q.qs) = 1
      BY <1>4, Zenon DEF QueryUsesCache
    <2>3. cache[k] \in Message /\ cache[k].from = {Origin(q, task[t].group)}
      BY <1>3, <2>1, <2>2, KeyIs, Zenon DEF CacheOk, TaskKey
    <2>4. h \in Message /\ h.id = q.id /\ h.qs = q.qs /\ h.from = cache[k].from
      BY <1>3, <2>3, HitIs, Zenon
    <2> HIDE DEF h, k
    <2>5. m \in Message /\ m.id = h.id /\ m.qs = h.qs /\ m.from = h.from
      BY <1>3, <2>4, AlignEdnsIs, Zenon
    <2> HIDE DEF m
    <2>6. m.from = {Origin(q, task[t].group)} /\ m.from # {}
      BY <2>3, <2>4, <2>5, Zenon
    <2>7. m.id = q.id /\ m.qs = q.qs /\ Reply(t, m)
      BY <1>4, <2>4, <2>5, Zenon
    <2> QED
      BY <1>1, <1>3, <2>5, <2>6, <2>7, Replies, Zenon
  <1>5. CASE task' = [task EXCEPT ![t].at = "try", ![t].i = 1]
    <2> DEFINE r == [task[t] EXCEPT !.at = "try", !.i = 1]
    <2>1. /\ DOMAIN r = Fields /\ r.at = "try" /\ r.group = task[t].group /\ r.q = task[t].q
          /\ r.out = task[t].out /\ r.ext = task[t].ext
      BY <1>3 DEF Fields
    <2>2. Changed(t, r)
      BY <1>3, <1>5, Zenon DEF Changed
    <2> HIDE DEF r
    <2>3. Routed(faking, r)
      BY <1>3, <2>1, Zenon DEF Routed
    <2>4. r.at \in Upstream \cup {"follow"} /\ r.at # "follow"
      BY <2>1 DEF Upstream
    <2> QED
      BY <1>1, <1>3, <2>1, <2>2, <2>3, <2>4, SameCache, GoesOn, Zenon
  <1>6. CASE QueryUsesCache(q) /\ task' = [task EXCEPT ![t].at = "follow"]
    <2> DEFINE r == [task[t] EXCEPT !.at = "follow"]
    <2>1. /\ DOMAIN r = Fields /\ r.at = "follow" /\ r.group = task[t].group /\ r.q = task[t].q
          /\ r.out = task[t].out /\ r.ext = task[t].ext
      BY <1>3 DEF Fields
    <2>2. Changed(t, r)
      BY <1>3, <1>6, Zenon DEF Changed
    <2> HIDE DEF r
    <2>3. Routed(faking, r) /\ QueryUsesCache(r.q)
      BY <1>3, <1>6, <2>1, Zenon DEF Routed
    <2>4. r.at \in Upstream \cup {"follow"}
      BY <2>1, Zenon
    <2> QED
      BY <1>1, <1>3, <2>1, <2>2, <2>3, <2>4, SameCache, GoesOn, Zenon
  <1> QED
    BY <1>4, <1>5, <1>6, Zenon DEF CacheLookup

(* A query that waits has the origin of the one it waits for.               *)
LEMMA FollowerOk ==
  ASSUME ServeInv, NEW t \in Tasks, task[t].q \in Queries, NEW u \in Tasks, Follows(u, t),
         NEW outcome, Fetched(task[t], outcome)
  PROVE  TaskOk(faking, [task[u] EXCEPT !.at = "told", !.told = <<outcome>>])
  <1> DEFINE r == [task[u] EXCEPT !.at = "told", !.told = <<outcome>>]
  <1>1. /\ TaskKey(u) = TaskKey(t) /\ QueryUsesCache(task[t].q) /\ task[u].at = "follow"
    BY Zenon DEF Follows, Leads
  <1>2. task[u].at \in Waits /\ task[u].at \in Upstream \cup Waits /\ task[u].at # "idle" /\ task[u].at # "done"
    BY <1>1 DEF Waits
  <1>3. /\ DOMAIN task[u] = Fields /\ Asked(task[u].q) /\ task[u].out = None /\ task[u].ext = 0
        /\ Routed(faking, task[u]) /\ QueryUsesCache(task[u].q)
    BY <1>2, Zenon DEF ServeInv, TaskOk
  <1>4. Origin(task[u].q, task[u].group) = Origin(task[t].q, task[t].group)
    <2>1. Len(task[u].q.qs) = 1 /\ Len(task[t].q.qs) = 1
      BY <1>1, <1>3, Zenon DEF QueryUsesCache
    <2>2. task[u].q \in Queries
      BY <1>3, Zenon DEF Asked
    <2>3. KeyOf(task[u].q, task[u].group) = KeyOf(task[t].q, task[t].group)
      BY <1>1, Zenon DEF TaskKey
    <2> DEFINE k == KeyOf(task[u].q, task[u].group)
               l == KeyOf(task[t].q, task[t].group)
    <2>4. [group |-> k.group, qs |-> <<k.question>>, rd |-> k.rd, do |-> k.do]
              = Origin(task[u].q, task[u].group)
      BY <2>1, <2>2, KeyIs, Zenon
    <2>5. [group |-> l.group, qs |-> <<l.question>>, rd |-> l.rd, do |-> l.do]
              = Origin(task[t].q, task[t].group)
      BY <2>1, KeyIs, Zenon
    <2>6. k = l
      BY <2>3, Zenon
    <2> HIDE DEF k, l
    <2> QED
      BY <2>4, <2>5, <2>6, Zenon
  <1>5. /\ DOMAIN r = Fields /\ r.at = "told" /\ r.told = <<outcome>> /\ r.q = task[u].q
        /\ r.group = task[u].group /\ r.out = task[u].out /\ r.ext = task[u].ext
    BY <1>3 DEF Fields
  <1> HIDE DEF r
  <1>6. <<outcome>>[1] = outcome /\ <<outcome>> # <<>>
    OBVIOUS
  <1>7. r.told[1] = outcome /\ r.told # <<>>
    BY <1>5, <1>6, Zenon
  <1>8. Origin(r.q, r.group) = Origin(task[t].q, task[t].group)
    BY <1>4, <1>5, Zenon
  <1>9. Informed(r)
    BY <1>7, <1>8, Zenon DEF Informed, Fetched
  <1>10. Routed(faking, r) /\ Asked(r.q) /\ QueryUsesCache(r.q) /\ r.out = None /\ r.ext = 0
    BY <1>3, <1>5, Zenon DEF Routed
  <1>11. r.at \in {"idle", "handle", "done"} \cup Upstream \cup Waits /\ r.at # "done"
    BY <1>5 DEF Waits
  <1> QED
    BY <1>5, <1>9, <1>10, <1>11, Zenon DEF TaskOk, r

(* A call ends for its own task and for those that wait for it.             *)
LEMMA EndsKeeps ==
  ASSUME ServeInv, NEW t \in Tasks, task[t].q \in Queries, NEW r, TaskOk(faking, r),
         NEW outcome, Fetched(task[t], outcome), Ends(t, r, outcome),
         faking' = faking, CachesOk'
  PROVE  ServeInv'
  <1> DEFINE told(u) == [task[u] EXCEPT !.at = "told", !.told = <<outcome>>]
  <1>1. /\ DOMAIN task' = Tasks
        /\ \A u \in Tasks : task'[u] = IF u = t THEN r ELSE IF Follows(u, t) THEN told(u) ELSE task[u]
    BY Zenon DEF Ends
  <1>2. \A u \in Tasks : Follows(u, t) => TaskOk(faking, told(u))
    BY FollowerOk, Zenon
  <1> HIDE DEF told
  <1>3. \A u \in Tasks : TaskOk(faking, task'[u])
    BY <1>1, <1>2, Zenon DEF ServeInv
  <1> QED
    BY <1>1, <1>3, AllTasks, Zenon

LEMMA BackendFailsKeeps ==
  ASSUME ServeInv, NEW t \in Tasks, task[t].at \in Upstream, NEW retryable,
         BackendFails(t, retryable), faking' = faking, cache' = cache
  PROVE  ServeInv'
  <1> DEFINE q == task[t].q
             m == LocalResponse(q, "ServFail")
             error == [ok |-> FALSE]
  <1>1. /\ Routed(faking, task[t]) /\ DOMAIN task[t] = Fields /\ DOMAIN task = Tasks
        /\ task[t].at \notin {"idle", "done"} /\ ~EdnsFails(q) /\ q \in Queries
        /\ task[t].at # "idle" /\ task[t].at # "done"
    BY AtUpstream, Zenon DEF Routed
  <1>2. CASE Ends(t, Answered(t, OwnEdns(q, m)), error)
    <2>1. m \in Message /\ m.id = q.id /\ m.qs = q.qs /\ m.from = {} /\ m.rcode # "NoError"
      <3> HIDE DEF q
      <3> QED
        BY <1>1, ErrorIs, Zenon
    <2>2. ~error.ok
      OBVIOUS
    <2>3. Fetched(task[t], error)
      <3> HIDE DEF error
      <3> QED
        BY <2>2, Zenon DEF Fetched
    <2> HIDE DEF m, error
    <2>4. TaskOk(faking, Answered(t, OwnEdns(q, m)))
      BY <1>1, <2>1, ReplyOk, Zenon
    <2> QED
      BY <1>1, <1>2, <2>3, <2>4, SameCache, EndsKeeps, Zenon
  <1>3. CASE task' = [task EXCEPT ![t].at = "try", ![t].i = @ + 1]
    <2> DEFINE r == [task[t] EXCEPT !.at = "try", !.i = @ + 1]
    <2>1. /\ DOMAIN r = Fields /\ r.at = "try" /\ r.group = task[t].group /\ r.q = task[t].q
          /\ r.out = task[t].out /\ r.ext = task[t].ext
      BY <1>1 DEF Fields
    <2>2. Changed(t, r)
      BY <1>1, <1>3 DEF Changed
    <2> HIDE DEF r
    <2>3. Routed(faking, r)
      BY <1>1, <2>1, Zenon DEF Routed
    <2>4. r.at \in Upstream \cup {"follow"} /\ r.at # "follow"
      BY <2>1 DEF Upstream
    <2> QED
      BY <1>1, <2>1, <2>2, <2>3, <2>4, SameCache, GoesOn, Zenon
  <1> QED
    BY <1>2, <1>3, Zenon DEF BackendFails

(* A step of the exchange with a backend.                                   *)
LEMMA MovesOn ==
  ASSUME ServeInv, NEW t \in Tasks, task[t].at \in Upstream, NEW at \in Upstream,
         task' = [task EXCEPT ![t].at = at], faking' = faking, cache' = cache
  PROVE  ServeInv'
  <1>1. /\ Routed(faking, task[t]) /\ DOMAIN task[t] = Fields /\ DOMAIN task = Tasks
        /\ task[t].at # "idle" /\ task[t].at # "done"
    BY AtUpstream, Zenon
  <1> DEFINE r == [task[t] EXCEPT !.at = at]
  <1>2. /\ DOMAIN r = Fields /\ r.at = at /\ r.group = task[t].group /\ r.q = task[t].q
        /\ r.out = task[t].out /\ r.ext = task[t].ext
    BY <1>1 DEF Fields
  <1>3. Changed(t, r)
    BY <1>1, Zenon DEF Changed
  <1> HIDE DEF r
  <1>4. Routed(faking, r)
    BY <1>1, <1>2, Zenon DEF Routed
  <1>5. r.at \in Upstream \cup {"follow"} /\ r.at # "follow"
    BY <1>2 DEF Upstream
  <1> QED
    BY <1>1, <1>2, <1>3, <1>4, <1>5, SameCache, GoesOn, Zenon

(* What is stored was fetched for its key.                                  *)
LEMMA StoredIs ==
  ASSUME ServeInv, NEW t \in Tasks, task[t].q \in Queries, NEW m \in Message,
         m.from = {Origin(task[t].q, task[t].group)}, NEW ext, BackendAnswers(t, m, ext)
  PROVE  CachesOk'
  <1> DEFINE q == task[t].q
             k == TaskKey(t)
             s == SetEdns(m, <<>>)
  <1>1. CASE cache' = cache
    BY <1>1, SameCache, Zenon
  <1>2. ASSUME QueryUsesCache(q), NEW kept \in SUBSET (DOMAIN cache \ {k}),
               cache' = [l \in kept \cup {k} |-> IF l = k THEN s ELSE cache[l]]
        PROVE  CachesOk'
    <2>1. s \in Message /\ s.from = m.from
      <3>1. <<>> \in Seq(OptRecords)
        BY SeqFacts, Zenon
      <3> QED
        BY <3>1, SetEdnsIs, Zenon
    <2>2. Len(q.qs) = 1
      BY <1>2, Zenon DEF QueryUsesCache
    <2>3. CacheOk(k, s)
      BY <2>1, <2>2, KeyIs, Zenon DEF CacheOk, TaskKey
    <2> HIDE DEF k, s
    <2>4. /\ DOMAIN cache' = kept \cup {k}
          /\ \A l \in kept \cup {k} : cache'[l] = IF l = k THEN s ELSE cache[l]
      BY <1>2, Zenon
    <2>5. \A l \in kept \cup {k} : CacheOk(l, cache'[l])
      BY <2>3, <2>4, Zenon DEF ServeInv
    <2>6. CachesOk' <=> \A l \in DOMAIN cache' : CacheOk(l, cache'[l])
      BY Zenon DEF CachesOk, CacheOk
    <2> QED
      BY <2>4, <2>5, <2>6, Zenon
  <1> QED
    BY <1>1, <1>2, Zenon DEF BackendAnswers

LEMMA BackendAnswersKeeps ==
  ASSUME ServeInv, NEW t \in Tasks, task[t].at \in Upstream, NEW m \in Message, NEW ext,
         m.id = task[t].q.id, m.qs = task[t].q.qs, m.from = {Origin(task[t].q, task[t].group)},
         ext # 0 => HasEdns(task[t].q) /\ HasEdns(m) /\ Edns(m).ext = ext,
         BackendAnswers(t, m, ext), faking' = faking
  PROVE  ServeInv'
  <1> DEFINE q == task[t].q
             a == AlignEdns(q, m, EdnsMax)
             own == OwnEdns(q, a)
             out == OnWire(q, own)
             r == [Answered(t, own) EXCEPT !.ext = ext]
             outcome == [ok |-> TRUE, m |-> m, ext |-> ext]
  <1>1. /\ q \in Queries /\ Routed(faking, task[t]) /\ DOMAIN task[t] = Fields /\ DOMAIN task = Tasks
        /\ ~EdnsFails(q) /\ ~FakesFor(faking, q) /\ task[t].at # "idle"
        /\ task[t].at \notin {"idle", "done"}
    BY AtUpstream, Zenon DEF Routed
  <1>2. /\ a \in Message /\ a.id = m.id /\ a.qs = m.qs /\ a.from = m.from /\ a.rcode = m.rcode
        /\ HasEdns(q) /\ HasEdns(m) => a.opts = m.opts
    BY <1>1, AlignEdnsIs, Zenon
  <1> HIDE DEF a
  <1>3. HasEdns(q) /\ HasEdns(m) => HasEdns(a) /\ Edns(a) = Edns(m)
    BY <1>2, Zenon DEF HasEdns, Edns
  <1>4. /\ FitsQuery(q, out) /\ "rcode" \in DOMAIN out
        /\ out.from = a.from /\ out.rcode = a.rcode
        /\ HasEdns(q) /\ HasEdns(a) => HasEdns(out) /\ Edns(out).ext = Edns(a).ext
    <2>1. a.id = q.id /\ a.qs = q.qs
      BY <1>2, Zenon
    <2> QED
      BY <1>1, <1>2, <2>1, ReplyFits, Zenon
  <1>5. Ends(t, r, outcome)
    BY Zenon DEF BackendAnswers, a
  <1> HIDE DEF out
  <1>6. KeepsExt(ext, out) /\ out.from = {Origin(q, task[t].group)} /\ out.from # {}
    BY <1>2, <1>3, <1>4, Zenon DEF KeepsExt
  <1>7. /\ DOMAIN r = Fields /\ r.at = "done" /\ r.out = out /\ r.q = q /\ r.group = task[t].group
        /\ r.ext = ext
    <2> HIDE DEF own, q
    <2>1. r = WithExt(Answered(t, own), ext)
      BY DEF WithExt
    <2> HIDE DEF r
    <2>2. Ready(t, own, ext, r)
      BY <1>1, <2>1, AnsweredIs, Zenon
    <2> QED
      BY <2>2, Zenon DEF Ready, out, q
  <1> HIDE DEF r
  <1>8. GoodOut(faking, r)
    BY <1>1, <1>4, <1>6, <1>7, Zenon DEF GoodOut, RightContent
  <1>9. TaskOk(faking, r)
    BY <1>1, <1>7, <1>8, FinishedOk, Zenon
  <1>10. Fetched(task[t], outcome)
    <2>1. outcome.m = m
      OBVIOUS
    <2> HIDE DEF outcome
    <2> QED
      BY <2>1, Zenon DEF Fetched
  <1> HIDE DEF outcome
  <1>11. CachesOk'
    BY <1>1, StoredIs, Zenon
  <1> QED
    BY <1>1, <1>5, <1>9, <1>10, <1>11, EndsKeeps, Zenon

(* A query that waited replies with what it was told.                       *)
LEMMA FinishFollowerKeeps ==
  ASSUME ServeInv, NEW t \in Tasks, FinishFollower(t)
  PROVE  ServeInv'
  <1> DEFINE q == task[t].q
             outcome == task[t].told[1]
             h == CacheHitResponse(q, outcome.m)
             a == AlignEdns(q, h, EdnsMax)
             own == OwnEdns(q, a)
             out == OnWire(q, own)
             r == [Answered(t, own) EXCEPT !.ext = outcome.ext]
  <1>1. task[t].at = "told" /\ faking' = faking /\ cache' = cache
    BY DEF FinishFollower
  <1>2. task[t].at \in Upstream \cup Waits
    BY <1>1 DEF Waits
  <1>3. /\ q \in Queries /\ Routed(faking, task[t]) /\ DOMAIN task[t] = Fields /\ DOMAIN task = Tasks
        /\ task[t].at \notin {"idle", "done"} /\ ~EdnsFails(q) /\ ~FakesFor(faking, q)
        /\ task[t].at # "idle"
    BY <1>2, AtUpstream, Zenon DEF Routed
  <1>4. Informed(task[t])
    BY <1>1, Zenon DEF ServeInv, TaskOk
  <1>5. CASE ReplyError(t)
    BY <1>1, <1>3, <1>5, Errors, Zenon
  <1>6. CASE outcome.ok /\ task' = [task EXCEPT ![t] = r]
    <2>1. outcome.m \in Message /\ outcome.m.from = {Origin(q, task[t].group)} /\ task[t].told # <<>>
      BY <1>4, <1>6, Zenon DEF Informed, Fetched
    <2> HIDE DEF outcome
    <2>2. h \in Message /\ h.id = q.id /\ h.qs = q.qs /\ h.from = outcome.m.from
      BY <1>3, <2>1, HitIs, Zenon
    <2> HIDE DEF h
    <2>3. a \in Message /\ a.id = h.id /\ a.qs = h.qs /\ a.from = h.from
      BY <1>3, <2>2, AlignEdnsIs, Zenon
    <2> HIDE DEF a
    <2>4. FitsQuery(q, out) /\ "rcode" \in DOMAIN out /\ out.from = a.from
      <3>1. a.id = q.id /\ a.qs = q.qs
        BY <2>2, <2>3, Zenon
      <3> QED
        BY <1>3, <2>3, <3>1, ReplyFits, Zenon
    <2> HIDE DEF own
    <2>5. out.from = {Origin(q, task[t].group)} /\ out.from # {}
      BY <2>1, <2>2, <2>3, <2>4, Zenon
    <2>6. /\ DOMAIN r = Fields /\ r.at = "done" /\ r.out = out /\ r.q = q /\ r.group = task[t].group
          /\ r.told = task[t].told
      <3> DEFINE ext == outcome.ext
      <3>1. r = WithExt(Answered(t, own), ext)
        BY DEF WithExt
      <3> HIDE DEF r, q, ext
      <3>2. Ready(t, own, ext, r)
        BY <1>3, <3>1, AnsweredIs, Zenon
      <3> QED
        BY <3>2, Zenon DEF Ready, q
    <2>7. Changed(t, r)
      BY <1>3, <1>6, Zenon DEF Changed
    <2> HIDE DEF r, out
    <2>8. GoodOut(faking, r)
      BY <1>3, <2>1, <2>4, <2>5, <2>6, Zenon DEF GoodOut, RightContent
    <2> QED
      BY <1>1, <1>3, <2>6, <2>7, <2>8, SameCache, Finishes, Zenon
  <1> QED
    BY <1>5, <1>6, Zenon DEF FinishFollower

(* What a server answers, and what a stray is.                              *)
LEMMA OriginIs ==
  ASSUME NEW q \in Queries, NEW g \in Groups
  PROVE  Origin(q, g) \in Origins
  <1>1. q.qs \in Seq(Questions) /\ q.rd \in BOOLEAN
    BY QueryFields, Zenon
  <1>2. (HasEdns(q) /\ Edns(q).do) \in BOOLEAN
    BY QueryFields, OneOpt, Zenon
  <1> DEFINE do == HasEdns(q) /\ Edns(q).do
  <1> HIDE DEF do
  <1>3. [group |-> g, qs |-> q.qs, rd |-> q.rd, do |-> do] \in Origins
    BY <1>1, <1>2 DEF Origins, do
  <1> QED
    BY <1>3, Zenon DEF Origin, do

LEMMA AnswersAre ==
  ASSUME NEW t, task[t].q \in Queries, task[t].group \in Groups, NEW sent \in Queries,
         NEW m \in Answers(t, sent)
  PROVE  /\ m \in Message /\ m.id = sent.id /\ m.qs = sent.qs
         /\ m.from = {Origin(task[t].q, task[t].group)}
         /\ HasEdns(m) => HasEdns(sent) /\ Edns(m).ext \in Nat
  <1> DEFINE o == Origin(task[t].q, task[t].group)
             b == [id |-> sent.id, qs |-> sent.qs, rd |-> sent.rd, rcode |-> "NoError", tc |-> FALSE,
                   body |-> 1, opts |-> <<>>, from |-> {o}]
             e(ext, options) == [NewEdns(EdnsMax) EXCEPT !.do = Edns(sent).do,
                                                         !.ext = ext, !.options = options]
             With(ext, options) == SetEdns(b, <<e(ext, options)>>)
             Good(x) == /\ x \in Message /\ x.id = sent.id /\ x.qs = sent.qs /\ x.from = {o}
  <1>1. m \in IF ~HasEdns(sent)
        THEN {b, [b EXCEPT !.body = 3], [b EXCEPT !.tc = TRUE], [b EXCEPT !.rcode = "FormErr"]}
        ELSE {With(0, {}), With(1, {}), With(0, {"cookie"}), [With(0, {}) EXCEPT !.body = 5],
              [With(0, {}) EXCEPT !.tc = TRUE], b, [b EXCEPT !.rcode = "FormErr"]}
    BY Zenon DEF Answers
  <1>2. o \in Origins
    BY OriginIs, Zenon
  <1> HIDE DEF o
  <1>3. Good(b) /\ b.opts = <<>>
    <2>1. sent.id \in Nat /\ sent.qs \in Seq(Questions) /\ sent.rd \in BOOLEAN
      BY QueryFields, Zenon
    <2>2. <<>> \in Seq(OptRecords)
      BY SeqFacts, Zenon
    <2>3. {o} \in SUBSET Origins
      BY <1>2, Zenon
    <2> QED
      BY <2>1, <2>2, <2>3 DEF Message, Rcodes
  <1> HIDE DEF b
  <1>4. \A x : Good(x) =>
            /\ Good([x EXCEPT !.body = 3]) /\ Good([x EXCEPT !.body = 5])
            /\ Good([x EXCEPT !.tc = TRUE]) /\ Good([x EXCEPT !.rcode = "FormErr"])
            /\ [x EXCEPT !.body = 3].opts = x.opts /\ [x EXCEPT !.tc = TRUE].opts = x.opts
            /\ [x EXCEPT !.rcode = "FormErr"].opts = x.opts
    BY Zenon DEF Message, Rcodes
  <1>5. ASSUME HasEdns(sent), NEW ext \in {0, 1}, NEW options \in {{}, {"cookie"}}
        PROVE  Good(With(ext, options))
    <2>1. Edns(sent).do \in BOOLEAN
      BY <1>5, QueryFields, OneOpt, Zenon
    <2>2. options \in SUBSET (CacheableOptions \cup {"ecs"}) /\ ext \in Nat
      BY DEF CacheableOptions
    <2>3. \A do \in BOOLEAN : [NewEdns(EdnsMax) EXCEPT !.do = do, !.ext = ext, !.options = options]
                                \in OptRecords
      BY <2>2, SizesOfUdp, Zenon DEF NewEdns, OptRecords
    <2>4. e(ext, options) \in OptRecords
      BY <2>1, <2>3, Zenon
    <2> HIDE DEF e
    <2>5. <<e(ext, options)>> \in Seq(OptRecords)
      BY <2>4, SeqFacts, Zenon
    <2> QED
      BY <1>3, <2>5, SetEdnsIs, Zenon
  <1>6. Good(m)
    <2> HIDE DEF Good, With
    <2> QED
      BY <1>1, <1>3, <1>4, <1>5, Zenon
  <1>7. ~HasEdns(sent) => m.opts = <<>>
    <2> HIDE DEF With
    <2> QED
      BY <1>1, <1>3, <1>4, Zenon
  <1>8. HasEdns(m) => HasEdns(sent)
    <2>1. m.opts = <<>> => ~HasEdns(m)
      BY SeqFacts DEF HasEdns
    <2> QED
      BY <1>7, <2>1, Zenon
  <1>9. HasEdns(m) => Edns(m).ext \in Nat
    BY <1>6, MessageFields, OneOpt, Zenon
  <1> QED
    BY <1>6, <1>8, <1>9, Zenon DEF o

LEMMA StraysAreNot ==
  ASSUME NEW sent \in Queries, sent.qs # <<>>, NEW m \in Strays(sent)
  PROVE  ~ValidateResponse(sent, m, TRUE)
  <1> DEFINE l == LocalResponse(sent, "NoError")
             b == [l EXCEPT !.body = 1]
  <1>1. /\ b \in Message /\ b.id = sent.id /\ b.qs = sent.qs
    <2>1. "NoError" \in Rcodes /\ 1 \in Nat
      BY DEF Rcodes
    <2>2. l \in Message /\ l.id = sent.id /\ l.qs = sent.qs
      BY <2>1, LocalIs, Zenon
    <2> HIDE DEF l
    <2> QED
      BY <2>1, <2>2, FilledIs, Zenon
  <1>2. m \in {[b EXCEPT !.id = @ + 1], [b EXCEPT !.qs = @ \o @]}
    BY Zenon DEF Strays
  <1> HIDE DEF b
  <1>3. [b EXCEPT !.id = @ + 1].id = sent.id + 1 /\ [b EXCEPT !.qs = @ \o @].qs = sent.qs \o sent.qs
    BY <1>1 DEF Message
  <1>4. m.id = sent.id + 1 \/ m.qs = sent.qs \o sent.qs
    BY <1>2, <1>3, Zenon
  <1>5. \A n \in Nat : n + 1 # n
    OBVIOUS
  <1>6. \A s \in Seq(Questions) : s # <<>> => s \o s # s
    <2>1. ASSUME NEW s \in Seq(Questions), s # <<>> PROVE s \o s # s
      <3>1. Len(s \o s) = Len(s) + Len(s)
        OBVIOUS
      <3>2. Len(s) \in Nat /\ Len(s) # 0
        BY <2>1, SeqFacts, Zenon
      <3> QED
        BY <3>1, <3>2
    <2> QED
      BY <2>1, Zenon
  <1>7. sent.id \in Nat /\ sent.qs \in Seq(Questions)
    BY QueryFields, Zenon
  <1> QED
    BY <1>4, <1>5, <1>6, <1>7, Zenon DEF ValidateResponse

LEMMA SentIs ==
  ASSUME NEW t, task[t].q \in Queries
  PROVE  /\ Sent(t) \in Queries /\ Sent(t).id = task[t].q.id /\ Sent(t).qs = task[t].q.qs
         /\ ~(AddsOpt(t) /\ task[t].at # "resent") => Sent(t) = task[t].q
  <1>1. NewEdns(EdnsMax) \in OptRecords
    BY SizesOfUdp, NewEdnsIs, Zenon
  <1> DEFINE opts == <<NewEdns(EdnsMax)>>
  <1>2. opts \in Seq(OptRecords)
    BY <1>1, SeqFacts, Zenon
  <1> HIDE DEF opts
  <1>3. LET x == SetEdns(task[t].q, opts) IN
        x \in Queries /\ x.id = task[t].q.id /\ x.qs = task[t].q.qs
    BY <1>2 DEF SetEdns, Queries
  <1>4. Sent(t) = IF AddsOpt(t) /\ task[t].at # "resent" THEN SetEdns(task[t].q, opts) ELSE task[t].q
    BY Zenon DEF Sent, opts
  <1> QED
    BY <1>3, <1>4, Zenon

LEMMA SendKeeps ==
  ASSUME ServeInv, NEW t \in Tasks, Send(t)
  PROVE  ServeInv'
  <1>1. faking' = faking /\ cache' = cache /\ task[t].at = "try"
    BY DEF Send
  <1>2. task[t].at \in Upstream /\ "sent" \in Upstream /\ "tcp" \in Upstream
    BY <1>1 DEF Upstream
  <1>3. CASE BackendFails(t, TRUE)
    BY <1>1, <1>2, <1>3, BackendFailsKeeps, Zenon
  <1>4. CASE task' = [task EXCEPT ![t].at = IF Backend(t).kind = "udp" THEN "sent" ELSE "tcp"]
    <2> DEFINE at == IF Backend(t).kind = "udp" THEN "sent" ELSE "tcp"
    <2>1. at \in Upstream
      BY <1>2, Zenon
    <2> HIDE DEF at
    <2>2. task' = [task EXCEPT ![t].at = at]
      BY <1>4, Zenon DEF at
    <2> QED
      BY <1>1, <1>2, <2>1, <2>2, MovesOn, Zenon
  <1> QED
    BY <1>3, <1>4, Zenon DEF Send

LEMMA UdpTimeoutKeeps ==
  ASSUME ServeInv, NEW t \in Tasks, UdpTimeout(t)
  PROVE  ServeInv'
  <1>1. faking' = faking /\ cache' = cache /\ BackendFails(t, TRUE)
    BY DEF UdpTimeout
  <1>2. task[t].at \in Upstream
    BY DEF UdpTimeout, Upstream
  <1> QED
    BY <1>1, <1>2, BackendFailsKeeps, Zenon

(* The extended code that the answer m has.                                 *)
ExtOf(m) == IF HasEdns(m) THEN Edns(m).ext ELSE 0

LEMMA UdpAnswerKeeps ==
  ASSUME ServeInv, NEW t \in Tasks, UdpAnswer(t)
  PROVE  ServeInv'
  <1> DEFINE q == task[t].q
             first == AddsOpt(t) /\ task[t].at = "sent"
             sent == Sent(t)
  <1>1. faking' = faking /\ task[t].at \in {"sent", "resent"}
    BY DEF UdpAnswer
  <1>2. task[t].at \in Upstream /\ "resent" \in Upstream /\ "tcp" \in Upstream
    BY <1>1 DEF Upstream
  <1>3. /\ Routed(faking, task[t]) /\ q \in Queries /\ DOMAIN task = Tasks
        /\ q.qs # <<>> /\ task[t].group \in Groups
    BY <1>2, AtUpstream, Zenon DEF Routed
  <1>4. sent \in Queries /\ sent.id = q.id /\ sent.qs = q.qs /\ (~first => sent = q)
    <2>1. task[t].at # "resent" => task[t].at = "sent"
      BY <1>1, Zenon
    <2> QED
      BY <1>3, <2>1, SentIs, Zenon
  <1>5. PICK m \in Answers(t, sent) \cup Strays(sent) :
            IF ~ValidateResponse(sent, m, TRUE) THEN UNCHANGED <<task, cache>>
            ELSE IF first /\ RejectsEdns(m)
            THEN task' = [task EXCEPT ![t].at = "resent"] /\ UNCHANGED cache
            ELSE IF first /\ HidesExtended(t, m) THEN BackendFails(t, TRUE) /\ UNCHANGED cache
            ELSE IF m.tc THEN task' = [task EXCEPT ![t].at = "tcp"] /\ UNCHANGED cache
            ELSE BackendAnswers(t, IF first THEN SetEdns(m, <<>>) ELSE m, ExtOf(m))
    BY Zenon DEF UdpAnswer, ExtOf
  <1> HIDE DEF sent, first
  <1>6. CASE UNCHANGED <<task, cache>>
    <2>1. task' = task /\ cache' = cache
      BY <1>6
    <2> QED
      BY <1>1, <2>1, Zenon DEF ServeInv
  <1>7. CASE task' = [task EXCEPT ![t].at = "resent"] /\ UNCHANGED cache
    BY <1>1, <1>2, <1>7, MovesOn, Zenon
  <1>8. CASE BackendFails(t, TRUE) /\ UNCHANGED cache
    BY <1>1, <1>2, <1>8, BackendFailsKeeps, Zenon
  <1>9. CASE task' = [task EXCEPT ![t].at = "tcp"] /\ UNCHANGED cache
    BY <1>1, <1>2, <1>9, MovesOn, Zenon
  <1>10. ASSUME ValidateResponse(sent, m, TRUE), ~(first /\ HidesExtended(t, m)), ~m.tc,
                BackendAnswers(t, IF first THEN SetEdns(m, <<>>) ELSE m, ExtOf(m))
         PROVE  ServeInv'
    <2>1. m \in Answers(t, sent)
      <3>1. sent.qs # <<>>
        BY <1>3, <1>4, Zenon
      <3> QED
        BY <1>4, <1>10, <3>1, StraysAreNot, Zenon
    <2>2. /\ m \in Message /\ m.id = q.id /\ m.qs = q.qs /\ m.from = {Origin(q, task[t].group)}
          /\ HasEdns(m) => HasEdns(sent) /\ Edns(m).ext \in Nat
      <3>1. /\ m \in Message /\ m.id = sent.id /\ m.qs = sent.qs
            /\ m.from = {Origin(q, task[t].group)}
            /\ HasEdns(m) => HasEdns(sent) /\ Edns(m).ext \in Nat
        BY <1>3, <1>4, <2>1, AnswersAre, Zenon
      <3> QED
        BY <1>4, <3>1, Zenon
    <2>3. CASE first
      <3> DEFINE s == SetEdns(m, <<>>)
      <3>1. <<>> \in Seq(OptRecords)
        BY SeqFacts, Zenon
      <3>2. s \in Message /\ s.id = m.id /\ s.qs = m.qs /\ s.from = m.from
        BY <2>2, <3>1, SetEdnsIs, Zenon
      <3> HIDE DEF s
      <3>3. ~(ExtOf(m) # 0)
        BY <1>10, <2>3, Zenon DEF HidesExtended, first, ExtOf
      <3>4. BackendAnswers(t, s, ExtOf(m))
        BY <1>10, <2>3, Zenon DEF s
      <3>5. s.id = q.id /\ s.qs = q.qs /\ s.from = {Origin(q, task[t].group)}
        BY <2>2, <3>2, Zenon
      <3> QED
        BY <1>1, <1>2, <3>2, <3>3, <3>4, <3>5, BackendAnswersKeeps, Zenon
    <2>4. CASE ~first
      <3>1. ExtOf(m) # 0 => HasEdns(q) /\ HasEdns(m) /\ Edns(m).ext = ExtOf(m)
        BY <1>4, <2>2, <2>4, Zenon DEF ExtOf
      <3>2. BackendAnswers(t, m, ExtOf(m))
        BY <1>10, <2>4, Zenon
      <3> QED
        BY <1>1, <1>2, <2>2, <3>1, <3>2, BackendAnswersKeeps, Zenon
    <2> QED
      BY <2>3, <2>4
  <1> QED
    BY <1>5, <1>6, <1>7, <1>8, <1>9, <1>10, Zenon

LEMMA TcpQueryKeeps ==
  ASSUME ServeInv, NEW t \in Tasks, TcpQuery(t)
  PROVE  ServeInv'
  <1> DEFINE q == task[t].q
  <1>1. faking' = faking /\ task[t].at = "tcp"
    BY DEF TcpQuery
  <1>2. task[t].at \in Upstream
    BY <1>1 DEF Upstream
  <1>3. /\ Routed(faking, task[t]) /\ q \in Queries /\ q.qs # <<>> /\ task[t].group \in Groups
    BY <1>2, AtUpstream, Zenon DEF Routed
  <1>4. ASSUME NEW retryable, BackendFails(t, retryable), UNCHANGED cache PROVE ServeInv'
    BY <1>1, <1>2, <1>4, BackendFailsKeeps, Zenon
  <1>5. ASSUME NEW m \in Answers(t, q) \cup Strays(q), ValidateResponse(q, m, TRUE),
               BackendAnswers(t, m, ExtOf(m))
        PROVE  ServeInv'
    <2>1. m \in Answers(t, q)
      BY <1>3, <1>5, StraysAreNot, Zenon
    <2>2. /\ m \in Message /\ m.id = q.id /\ m.qs = q.qs /\ m.from = {Origin(q, task[t].group)}
          /\ HasEdns(m) => HasEdns(q) /\ Edns(m).ext \in Nat
      <3> DEFINE sent == q
      <3>1. sent \in Queries /\ m \in Answers(t, sent)
        BY <1>3, <2>1, Zenon
      <3> HIDE DEF sent
      <3>2. /\ m \in Message /\ m.id = sent.id /\ m.qs = sent.qs
            /\ m.from = {Origin(q, task[t].group)}
            /\ HasEdns(m) => HasEdns(sent) /\ Edns(m).ext \in Nat
        BY <1>3, <3>1, AnswersAre, Zenon
      <3> QED
        BY <3>2, Zenon DEF sent
    <2>3. ExtOf(m) # 0 => HasEdns(q) /\ HasEdns(m) /\ Edns(m).ext = ExtOf(m)
      BY <2>2, Zenon DEF ExtOf
    <2> QED
      BY <1>1, <1>2, <1>5, <2>2, <2>3, BackendAnswersKeeps, Zenon
  <1> QED
    BY <1>4, <1>5, Zenon DEF TcpQuery, ExtOf

-----------------------------------------------------------------------------
(* The steps together.                                                      *)
LEMMA ServeInitInv ==
  ASSUME Init
  PROVE  ServeInv
  <1>1. faking \in BOOLEAN /\ task = [t \in Tasks |-> Idle] /\ cache = <<>>
    BY DEF Init
  <1>2. TaskOk(faking, Idle)
    <2>1. Idle = [Idle EXCEPT !.conn = None]
      BY DEF Idle
    <2> QED
      BY <2>1, IdleOk, Zenon
  <1>3. DOMAIN task = Tasks /\ \A t \in Tasks : task[t] = Idle
    BY <1>1, Zenon
  <1>4. \A k : k \notin DOMAIN cache
    BY <1>1
  <1> QED
    BY <1>1, <1>2, <1>3, <1>4, Zenon DEF ServeInv

LEMMA ServeStutter ==
  ASSUME ServeInv, faking' = faking, task' = task, cache' = cache
  PROVE  ServeInv'
  BY Zenon DEF ServeInv

LEMMA ServeStep ==
  ASSUME ServeInv, Next
  PROVE  ServeInv'
  <1>1. ASSUME PoolStep PROVE ServeInv'
    <2>1. faking' = faking /\ task' = task /\ cache' = cache
      BY <1>1 DEF PoolStep, serveVars
    <2> QED
      BY <2>1, ServeStutter, Zenon
  <1>2. ASSUME Shutdown PROVE ServeInv'
    <2>1. faking' = faking /\ task' = task /\ cache' = cache
      BY <1>2 DEF Shutdown
    <2> QED
      BY <2>1, ServeStutter, Zenon
  <1>3. ASSUME Forget PROVE ServeInv'
    BY <1>3, ForgetKeeps, Zenon
  <1>4. ASSUME NEW t \in Tasks, TaskStep(t) PROVE ServeInv'
    BY <1>4, RejectKeeps, RejectEdnsKeeps, NoQuestionKeeps, FakeAnswerKeeps, FakePtrAnswerKeeps,
       RouteKeeps, CacheLookupKeeps, SendKeeps, UdpAnswerKeeps, UdpTimeoutKeeps, TcpQueryKeeps,
       FinishFollowerKeeps, Zenon DEF TaskStep
  <1> QED
    BY <1>1, <1>2, <1>3, <1>4, ListenerKeeps, Zenon DEF Next

(* A step of the program is a step of the pool or leaves it alone: the name *)
(* a fake answer allocates for is one of Names, and an address is looked up *)
(* in its own family.                                                       *)
LEMMA PoolUse ==
  ASSUME ServeInv, Next
  PROVE  FakeNext \/ UNCHANGED fakeVars
  <1>1. ASSUME PoolStep PROVE FakeNext
    BY <1>1, Zenon DEF PoolStep, FakeNext
  <1>2. ASSUME Shutdown \/ Forget PROVE UNCHANGED fakeVars
    BY <1>2 DEF Shutdown, Forget
  <1>3. ASSUME NEW t \in Tasks, ListenerStep(t) PROVE UNCHANGED fakeVars
    BY <1>3 DEF ListenerStep, Accept, Receive, Finish
  <1>4. ASSUME NEW t \in Tasks, FakeAnswer(t) PROVE FakeNext \/ UNCHANGED fakeVars
    <2> DEFINE question == task[t].q.qs[1]
               f == FamilyOf(question)
    <2>1. /\ Resolving(t) /\ Fakes(t) /\ Selected(question)
          /\ Allocate(f, question.name) \/ UNCHANGED fakeVars
      BY <1>4, Zenon DEF FakeAnswer
    <2>2. Asked(task[t].q)
      BY <2>1, AtHandle, Zenon
    <2>3. question.name \in Names
      BY <2>1, <2>2, Zenon DEF Asked, Fakes
    <2>4. f \in Families
      BY DEF FamilyOf, Families
    <2> HIDE DEF f, question
    <2> QED
      BY <2>1, <2>3, <2>4, Zenon DEF FakeNext
  <1>5. ASSUME NEW t \in Tasks, FakePtrAnswer(t) PROVE FakeNext
    <2> DEFINE question == task[t].q.qs[1]
    <2>1. /\ Resolving(t) /\ Fakes(t) /\ InRange(question)
          /\ Lookup(question.address[1], question.address[2])
      BY <1>5, Zenon DEF FakePtrAnswer
    <2>2. task[t].q \in Queries /\ task[t].q.qs # <<>>
      BY <2>1, AtHandle, Zenon DEF Asked, Fakes
    <2>3. question \in Questions
      <3>1. task[t].q.qs \in Seq(Questions)
        BY <2>2, QueryFields, Zenon
      <3> QED
        BY <2>2, <3>1, SeqFacts, Zenon
    <2> HIDE DEF question
    <2>4. question.address \in {None} \cup (Families \X Nat)
      BY <2>3 DEF Questions
    <2>5. question.address \in Families \X Nat
      BY <2>1, <2>4, Zenon DEF InRange
    <2>6. question.address[1] \in Families
      BY <2>5
    <2>7. question.address[2] \in Addresses(question.address[1])
      BY <2>1, Zenon DEF InRange
    <2> QED
      BY <2>1, <2>6, <2>7, Zenon DEF FakeNext
  <1>6. ASSUME NEW t \in Tasks,
               \/ Reject(t) \/ RejectEdns(t) \/ NoQuestion(t) \/ Route(t) \/ CacheLookup(t)
               \/ Send(t) \/ UdpAnswer(t) \/ UdpTimeout(t) \/ TcpQuery(t)
               \/ FinishFollower(t)
        PROVE  UNCHANGED fakeVars
    <2>1. ASSUME Reject(t) \/ RejectEdns(t) \/ NoQuestion(t) PROVE UNCHANGED fakeVars
      BY <2>1 DEF Reject, RejectEdns, NoQuestion
    <2>2. ASSUME Route(t) \/ CacheLookup(t) \/ Send(t) PROVE UNCHANGED fakeVars
      BY <2>2 DEF Route, CacheLookup, Send
    <2>3. ASSUME UdpAnswer(t) \/ UdpTimeout(t) \/ TcpQuery(t) \/ FinishFollower(t)
          PROVE  UNCHANGED fakeVars
      BY <2>3 DEF UdpAnswer, UdpTimeout, TcpQuery, FinishFollower
    <2> QED
      BY <1>6, <2>1, <2>2, <2>3, Zenon
  <1> QED
    BY <1>1, <1>2, <1>3, <1>4, <1>5, <1>6, Zenon DEF Next, TaskStep

-----------------------------------------------------------------------------
(* The results.                                                             *)

(* The inductive invariant of the program's path: every task is in a state  *)
(* that its step allows, its response is right, and the cache holds under a *)
(* key only what was fetched for that key.                                  *)
THEOREM ServeInvariant == Spec => []ServeInv
  <1>1. Init => ServeInv
    BY ServeInitInv, Zenon
  <1>2. ServeInv /\ [Next]_vars => ServeInv'
    <2>1. ASSUME ServeInv, UNCHANGED vars PROVE ServeInv'
      <3>1. faking' = faking /\ task' = task /\ cache' = cache
        BY <2>1 DEF vars, serveVars
      <3> QED
        BY <2>1, <3>1, ServeStutter, Zenon
    <2> QED
      BY <2>1, ServeStep, Zenon
  <1> QED
    BY <1>1, <1>2, PTL DEF Spec

(* What the invariant says of a response.                                   *)
LEMMA ServeInvMeans ==
  ASSUME ServeInv
  PROVE  ResponseFitsQuery /\ ExtendedRcodeKept /\ ContentMatches
  <1>1. \A t \in Tasks : IsResponse(task[t].out) => GoodOut(faking, task[t]) /\ "rcode" \in DOMAIN task[t].out
    BY Zenon DEF ServeInv, TaskOk, IsResponse
  <1>2. \A t \in Tasks : IsResponse(task[t].out) =>
            /\ FitsQuery(task[t].q, task[t].out)
            /\ task[t].told = <<>> => KeepsExt(task[t].ext, task[t].out)
            /\ RightContent(faking, task[t].q, task[t].group, task[t].out)
    BY <1>1, Zenon DEF GoodOut
  <1>3. ResponseFitsQuery
    BY <1>2, Zenon DEF ResponseFitsQuery, FitsQuery
  <1>4. ExtendedRcodeKept
    BY <1>2, Zenon DEF ExtendedRcodeKept, KeepsExt
  <1>5. ContentMatches
    BY <1>2, FakesIs, Zenon DEF ContentMatches, RightContent
  <1> QED
    BY <1>3, <1>4, <1>5

(* For every policy, cache size, set of backends and number of tasks, any   *)
(* response that leaves the server (answer and handle_udp_datagram) has the *)
(* id and the questions of its query, one OPT record exactly when the query *)
(* has any, and over UDP no more bytes than the client accepts.             *)
THEOREM ResponsesFit == Spec => []ResponseFitsQuery
  BY ServeInvariant, ServeInvMeans, PTL

(* An extended RCODE that an upstream answered with (UdpBackend::resolve    *)
(* and tcp_query) is in the OPT record of the response to the query that    *)
(* asked, or that query is not given the answer.  Those that waited for its *)
(* call (finish_follower) are no part of the statement: they lose the code. *)
THEOREM ExtendedCodeReaches == Spec => []ExtendedRcodeKept
  BY ServeInvariant, ServeInvMeans, PTL

(* The records of a response were fetched from the group the query was      *)
(* routed to, for the same questions and DO bit, whether they came from the *)
(* cache or not (ResolverInner::resolve); a query that Fake IP answers is   *)
(* never answered by an upstream, and no response without records claims    *)
(* success otherwise.                                                       *)
THEOREM ContentIsRight == Spec => []ContentMatches
  BY ServeInvariant, ServeInvMeans, PTL

(* The pool alone, whatever calls it gets in whatever order: its inductive  *)
(* invariant holds.                                                         *)
THEOREM PoolInvariant == FakeSpec => []FakeInv
  <1>1. FakeInit => FakeInv
    BY FakeInitInv, Zenon
  <1>2. FakeInv /\ [FakeNext]_fakeVars => FakeInv'
    BY FakeStep, FakeStutter, Zenon
  <1> QED
    BY <1>1, <1>2, PTL DEF FakeSpec

(* The program uses the pool only as FakeNext allows: a name that           *)
(* fake_ip_answer allocates for, an address that is looked up in its own    *)
(* family.                                                                  *)
THEOREM ProgramUsesPool == Spec => FakeSpec
  <1>1. Init => FakeInit
    BY Zenon DEF Init
  <1>2. ServeInv /\ [Next]_vars => [FakeNext]_fakeVars
    <2>1. UNCHANGED vars => UNCHANGED fakeVars
      BY DEF vars
    <2> QED
      BY <2>1, PoolUse, Zenon
  <1> QED
    BY <1>1, <1>2, ServeInvariant, PTL DEF Spec, FakeSpec

(* The forward and the reverse map of a family are each other's inverse and *)
(* the LRU list names each mapped name once, for every range, lifetime and  *)
(* hash (FakeIpPool::allocate, lookup, purge_expired, snapshot, restore).   *)
THEOREM MapsStayInverse == Spec => []MapsInverse
  BY ProgramUsesPool, PoolInvariant, FakeInvMeans, PTL

(* While a record that was handed out may be used, its address stands for   *)
(* its name, unless it was evicted (FakeIpPool::allocate, fake_ip_ttl).     *)
THEOREM RecordsStayHonoured == Spec => []RecordsHonoured
  BY ProgramUsesPool, PoolInvariant, FakeInvMeans, PTL

(* A step of the pool never lengthens a mapping, loses a live one only by   *)
(* evicting the least recently used, and restores exactly what a snapshot   *)
(* still holds (FakeIpPool::evict_lru, restore).                            *)
THEOREM MappingsAge == Spec => MappingsOnlyAge
  <1>1. FakeInv /\ [FakeNext]_fakeVars => [AgesOnly]_fakeVars
    BY FakeStep, Zenon
  <1>2. FakeSpec => [][AgesOnly]_fakeVars
    BY <1>1, PoolInvariant, PTL DEF FakeSpec
  <1> QED
    BY <1>2, ProgramUsesPool, PTL DEF MappingsOnlyAge, AgesOnly

=============================================================================
