------------------------------ MODULE Matcher ------------------------------
(* Domain matching and split-DNS policies (matcher.rs, policy.rs): which of *)
(* an ordered list of rules decides about a name.  A name is the sequence   *)
(* of its labels, a rule a record [kind, name, value].                      *)
EXTENDS Integers, Sequences, FiniteSets

EndsWith(name, end) ==
    Len(end) <= Len(name) /\ end = SubSeq(name, Len(name) - Len(end) + 1, Len(name))

Matches(rule, name) ==
    CASE rule.kind = "exact"    -> name = rule.name
      [] rule.kind = "suffix"   -> EndsWith(name, rule.name)
      [] rule.kind = "wildcard" -> Len(name) > Len(rule.name) /\ EndsWith(name, rule.name)

KindRank(rule) ==
    CASE rule.kind = "exact" -> 2 [] rule.kind = "suffix" -> 1 [] rule.kind = "wildcard" -> 0

(* DomainPattern::specificity, compared lexicographically.                  *)
MoreSpecific(r, s) ==
    \/ KindRank(r) > KindRank(s)
    \/ KindRank(r) = KindRank(s) /\ Len(r.name) > Len(s.name)

(* DomainMatcher::resolve: the scan keeps the best rule so far; none is the *)
(* empty sequence.                                                          *)
Resolve(rules, name) ==
    LET Step(best, rule) ==
            IF ~Matches(rule, name) \/ (best # <<>> /\ ~MoreSpecific(rule, best[1]))
            THEN best ELSE <<rule>>
        Scan[i \in 0 .. Len(rules)] == IF i = 0 THEN <<>> ELSE Step(Scan[i - 1], rules[i])
    IN  Scan[Len(rules)]

(* DomainMatcher::resolve_all: a stable sort of the rules that match.       *)
ResolveAll(rules, name) ==
    LET hits == {i \in DOMAIN rules : Matches(rules[i], name)}
        First(i, j) == \/ MoreSpecific(rules[i], rules[j])
                       \/ ~MoreSpecific(rules[j], rules[i]) /\ i < j
    IN  [k \in 1 .. Cardinality(hits) |->
            rules[CHOOSE i \in hits : Cardinality({j \in hits : First(j, i)}) = k - 1]]

(* SplitDnsPolicy::resolve_group; a policy is a record [rules, default],    *)
(* its default a sequence of at most one group.                             *)
ResolveGroup(policy, name) ==
    LET best == Resolve(policy.rules, name)
    IN  IF best = <<>> THEN policy.default ELSE <<best[1].value>>

(* What the documentation of DomainMatcher promises: the rule that decides  *)
(* matches, no matching rule has precedence over it, and of equals it is    *)
(* the first inserted; resolve_all lists every match, that one first.       *)
FirstOfTheMostSpecific(rules, name) ==
    LET hits == {i \in DOMAIN rules : Matches(rules[i], name)}
        best == {i \in hits : \A j \in hits : ~MoreSpecific(rules[j], rules[i])}
    IN  /\ Resolve(rules, name) =
                IF hits = {} THEN <<>> ELSE <<rules[CHOOSE i \in best : \A j \in best : i <= j]>>
        /\ ResolveAll(rules, name) # <<>> =>
                Resolve(rules, name) = <<Head(ResolveAll(rules, name))>>

=============================================================================
