------------------------------ MODULE Messages ------------------------------
(* DNS messages as the resolver and the server treat them: the EDNS(0) OPT  *)
(* record (message.rs, edns.rs), validation of a response (upstream/mod.rs),*)
(* what of an answer may be cached and how it is given out again            *)
(* (engine.rs, cache/mod.rs).                                               *)
(*                                                                          *)
(* A message is a record of its id, questions, RD and TC bits, rcode, the   *)
(* size of its records, its OPT records and, for the properties only, of where its  *)
(* records are from.  Two OPT records stand for every malformed OPT.        *)
EXTENDS Integers, Sequences, FiniteSets, FiniteSetsExt

(* Edns::new.                                                               *)
NewEdns(size) == [size |-> size, ver |-> 0, do |-> FALSE, ext |-> 0, options |-> {}]

(* Message::edns and Message::set_edns.                                     *)
EdnsFails(m) == Len(m.opts) > 1
HasEdns(m) == Len(m.opts) = 1
Edns(m) == m.opts[1]
SetEdns(m, opts) == [m EXCEPT !.opts = opts]

(* local_response, of the server and of the engine.                         *)
LocalResponse(query, rcode) ==
    [id |-> query.id, qs |-> query.qs, rd |-> query.rd, rcode |-> rcode, tc |-> query.tc,
     body |-> 0, opts |-> <<>>, from |-> {}]

(* validate_response: the answer repeats the question and, for a transport  *)
(* that matches ids, the id.  Responses are not queries here: QR is not     *)
(* modelled.                                                                *)
ValidateResponse(query, m, idCheck) ==
    (idCheck => m.id = query.id) /\ m.qs = query.qs

(* Message::encode, as far as its length goes: an OPT without options is as *)
(* good as empty.                                                           *)
OptionSize == 2
Length(m) == Len(m.qs) + m.body + (IF HasEdns(m) /\ Edns(m).options # {} THEN OptionSize ELSE 0)

-----------------------------------------------------------------------------
(* query_uses_cache and query_dnssec_ok.                                    *)
CacheableOptions == {"cookie"}

QueryUsesCache(query) ==
    Len(query.qs) = 1 /\ (HasEdns(query) => Edns(query).options \subseteq CacheableOptions)

QueryDnssecOk(query) == HasEdns(query) /\ Edns(query).do

(* align_edns.                                                              *)
AlignEdns(query, m, size) ==
    IF EdnsFails(query) THEN m
    ELSE IF ~HasEdns(query) THEN SetEdns(m, <<>>)
    ELSE IF HasEdns(m) THEN m
    ELSE SetEdns(m, <<[NewEdns(size) EXCEPT !.do = Edns(query).do]>>)

(* cacheable_answer: what may be stored, and what is stored of it.          *)
IsCacheable(m) ==
    /\ ~m.tc /\ ~EdnsFails(m) /\ (HasEdns(m) => Edns(m).ext = 0)
    /\ m.rcode \in {"NoError", "NxDomain"}

(* cache_hit_response: the transaction is the query's.                      *)
CacheHitResponse(query, stored) == [SetEdns(stored, <<>>) EXCEPT !.id = query.id, !.rd = query.rd,
                                                                 !.qs = query.qs]

-----------------------------------------------------------------------------
(* The lifetimes.  A policy has bounds [min, max] for positive and negative *)
(* answers, and a TTL for negative ones without a SOA, or none.  An answer  *)
(* is [negative, ttls, soa]: the TTLs of its records, and its first SOA as  *)
(* <<>> or <<[ttl, minimum]>>.                                              *)
Clamp(bounds, ttl) == IF ttl < bounds.min THEN bounds.min
                      ELSE IF ttl > bounds.max THEN bounds.max ELSE ttl

(* cacheable_answer: the TTLs as they are stored, and the entry's lifetime; *)
(* 0 when the answer is not stored.                                         *)
SoaTtl(bounds, soa) == Clamp(bounds, Min({Clamp(bounds, soa.ttl), soa.minimum}))

EntryTtl(policy, answer) ==
    LET bounds == IF answer.negative THEN policy.negative ELSE policy.positive
        records == {Clamp(bounds, t) : t \in answer.ttls}
        soa == IF answer.negative
               THEN IF answer.soa # <<>> THEN {SoaTtl(bounds, answer.soa[1])}
                    ELSE {Clamp(bounds, t) : t \in policy.withoutSoa}
               ELSE {Clamp(bounds, answer.soa[i].ttl) : i \in DOMAIN answer.soa}
        all == records \cup soa
    IN  IF all = {} \/ (answer.negative /\ soa = {}) THEN 0 ELSE Min(all)

(* cache_hit_response: the TTL of a record that is served after a while.    *)
ServedTtl(stored, elapsed) == Max({stored - elapsed, 1})

(* An entry never outlives what the policy allows, or one of the records it *)
(* stores: until it expires every record of a hit still counts down.        *)
LifetimeWithinRecords(policy, answer) ==
    LET bounds == IF answer.negative THEN policy.negative ELSE policy.positive
        ttl == EntryTtl(policy, answer)
    IN  ttl > 0 =>
            /\ ttl <= bounds.max
            /\ \A t \in answer.ttls : \A e \in 0 .. ttl - 1 :
                ServedTtl(Clamp(bounds, t), e) + e = Clamp(bounds, t)
            /\ answer.negative /\ answer.soa # <<>> =>
                ttl <= Max({bounds.min, answer.soa[1].minimum})

=============================================================================
