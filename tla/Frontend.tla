------------------------------ MODULE Frontend ------------------------------
(* The path of a query through the program: a listener of the server        *)
(* (server/mod.rs), the resolver's own answers and its choice of a group    *)
(* (engine.rs, with Matcher and FakeIp), the failover between the group's   *)
(* backends, and the UDP backend and one-shot TCP exchange                  *)
(* (upstream/mod.rs).  The answer cache is a map that may forget an answer  *)
(* at any moment, which is what Resolver and AnswerStore say of it.  A      *)
(* query that misses while another one asks upstream for the same key waits *)
(* for that one's outcome; nobody gives up meanwhile, and stale answers,    *)
(* remembered failures and prefetches are left to Resolver.                 *)
(*                                                                          *)
(* A task serves one query at a time, a datagram's or a connection's.       *)
EXTENDS FakeIp, Matcher, Messages

CONSTANTS
    Tasks,
    Arrivals,       \* the queries a task may be given, each with its transport,
                    \* for a resolver with Fake IP and for one without
    Groups,         \* the groups that have backends
    Backends,       \* per group its backends, in order of registration
    Policy,         \* the split-DNS policy
    Hooked,         \* whether a route hook is installed
    FakeRules,      \* the rules of the Fake IP policy
    Coalesce,       \* CacheConfig::coalesce
    UdpMax, EdnsMax,\* the sizes 512 and edns_udp_payload_size
    Room            \* bound on the answers the cache holds at a time

ASSUME FrontendAssumption ==
    /\ {UdpMax, EdnsMax} \subseteq Nat \ {0} /\ UdpMax <= EdnsMax
    /\ \A g \in Groups : Len(Backends[g]) > 0
    /\ {Hooked, Coalesce} \subseteq BOOLEAN /\ Room \in Nat \ {0}

VARIABLES
    faking,     \* whether the resolver was built with Fake IP
    serving,    \* whether serve_until still runs the listener loops
    task,       \* per task a record, see Idle
    cache       \* the answers stored, by key

serveVars == <<faking, serving, task, cache>>
vars == <<fakeVars, serveVars>>

Idle == [at |-> "idle", conn |-> None, q |-> None, group |-> None, i |-> 0,
         told |-> <<>>, out |-> None, ext |-> 0]

Init ==
    /\ FakeInit
    /\ faking \in BOOLEAN /\ serving = TRUE
    /\ task = [t \in Tasks |-> Idle]
    /\ cache = <<>>

-----------------------------------------------------------------------------
(* answer, after the resolver: one OPT record of the server's own if the    *)
(* query has one, none otherwise.                                           *)
OwnEdns(q, m) ==
    LET edns == IF HasEdns(m) THEN Edns(m) ELSE [NewEdns(EdnsMax) EXCEPT !.do = Edns(q).do]
    IN  SetEdns(m, IF HasEdns(q) THEN <<[edns EXCEPT !.size = EdnsMax, !.ver = 0]>> ELSE <<>>)

(* udp_response_limit.                                                      *)
UdpLimit(q) ==
    IF HasEdns(q) THEN Min({Max({Edns(q).size, UdpMax}), EdnsMax}) ELSE UdpMax

(* Faulty variant: the options are kept whatever their size.                *)
TruncatedKeepingOptions(q, m) ==
    IF Length(m) <= UdpLimit(q) THEN m ELSE [m EXCEPT !.body = 0, !.tc = TRUE]

(* handle_udp_datagram: truncation, which first keeps the options.          *)
Truncated(q, m) ==
    LET cut == [m EXCEPT !.body = 0, !.tc = TRUE]
        bare == IF HasEdns(m) THEN SetEdns(cut, <<[Edns(m) EXCEPT !.options = {}]>>) ELSE cut
    IN  IF Length(m) <= UdpLimit(q) THEN m ELSE IF Length(cut) <= UdpLimit(q) THEN cut ELSE bare

OnWire(q, m) == IF q.tr = "udp" THEN Truncated(q, m) ELSE m

(* The task has its response m, or the resolver's error, and sends it.      *)
Answered(t, m) == [task[t] EXCEPT !.at = "done", !.out = OnWire(task[t].q, m)]

Done(t, m) == task' = [task EXCEPT ![t] = Answered(t, m)]

Reply(t, m) == Done(t, OwnEdns(task[t].q, m))

ReplyError(t) == Reply(t, LocalResponse(task[t].q, "ServFail"))

-----------------------------------------------------------------------------
(* The listener loops.  A connection outlives them, a datagram needs them.  *)
Accept(t) ==
    /\ task[t].at = "idle" /\ serving /\ task[t].conn = None
    /\ \E tr \in {q.tr : q \in Arrivals[faking][t]} \ {"udp"} : task' = [task EXCEPT ![t].conn = tr]
    /\ UNCHANGED <<faking, serving, cache, fakeVars>>

Receive(t) ==
    /\ task[t].at = "idle"
    /\ \E q \in Arrivals[faking][t] :
        /\ IF q.tr = "udp" THEN serving /\ task[t].conn = None ELSE q.tr = task[t].conn
        /\ task' = [task EXCEPT ![t].at = "handle", ![t].q = q]
    /\ UNCHANGED <<faking, serving, cache, fakeVars>>

(* The response is gone; a connection waits for the next query, ends, or    *)
(* was ended by a failed write.                                             *)
Finish(t) ==
    /\ task[t].at = "done"
    /\ \E conn \in {task[t].conn, None} : task' = [task EXCEPT ![t] = [Idle EXCEPT !.conn = conn]]
    /\ UNCHANGED <<faking, serving, cache, fakeVars>>

(* serve_until: shutdown, or the first loop that fails ends them all.       *)
Shutdown ==
    /\ serving
    /\ serving' = FALSE
    /\ UNCHANGED <<faking, task, cache, fakeVars>>

(* Bytes that do not decode: dropped, or the connection ends; HTTP always   *)
(* answers.  handle_doh_request looks at the path first, serve_doh3 last.   *)
HttpStatus(q) ==
    IF q.tr = "doh3" THEN IF ~q.decodes THEN 400 ELSE 404
    ELSE IF ~q.path THEN 404 ELSE 400

Accepted(q) == q.decodes /\ (q.tr \in {"doh", "doh3"} => q.path)

Reject(t) ==
    LET q == task[t].q IN
    /\ task[t].at = "handle" /\ ~Accepted(q)
    /\ task' = [task EXCEPT ![t] =
            IF q.tr \in {"doh", "doh3"}
            THEN [@ EXCEPT !.at = "done", !.out = [status |-> HttpStatus(q)]]
            ELSE [Idle EXCEPT !.conn = IF q.tr = "doq" THEN task[t].conn ELSE None]]
    /\ UNCHANGED <<faking, serving, cache, fakeVars>>

(* answer, before the resolver: FORMERR and BADVERS.                        *)
RejectEdns(t) ==
    LET q == task[t].q
        versions == [NewEdns(EdnsMax) EXCEPT !.ext = 1, !.do = Edns(q).do]
    IN
    /\ task[t].at = "handle" /\ Accepted(q)
    /\ \/ /\ EdnsFails(q)
          /\ Done(t, SetEdns(LocalResponse(q, "FormErr"), <<NewEdns(EdnsMax)>>))
       \/ /\ HasEdns(q) /\ Edns(q).ver > 0
          /\ Done(t, SetEdns(LocalResponse(q, "NoError"), <<versions>>))
    /\ UNCHANGED <<faking, serving, cache, fakeVars>>

-----------------------------------------------------------------------------
(* ResolverInner::resolve.                                                  *)
Resolving(t) ==
    LET q == task[t].q IN
    /\ task[t].at = "handle" /\ Accepted(q)
    /\ ~EdnsFails(q) /\ (HasEdns(q) => Edns(q).ver = 0)

NoQuestion(t) ==
    /\ Resolving(t) /\ task[t].q.qs = <<>>
    /\ ReplyError(t)
    /\ UNCHANGED <<faking, serving, cache, fakeVars>>

(* fake_ip_answer: A and AAAA of a name the policy selects, and PTR of an   *)
(* address in a range.                                                      *)
FamilyOf(question) == IF question.type = "A" THEN "v4" ELSE "v6"

Selected(question) ==
    question.type \in {"A", "AAAA"} /\ Resolve(FakeRules, question.name) # <<>>

(* parse_reverse_name is the question's address, <<family, address>>.       *)
InRange(question) ==
    question.type = "PTR" /\ question.address # None
        /\ question.address[2] \in Addresses(question.address[1])

(* The queries that arrive, and the names that the policy selects.          *)
Questions == [type : STRING, name : Seq(STRING), address : {None} \cup (Families \X Nat)]

OptRecords ==
    [size : Nat, ver : Nat, do : BOOLEAN, ext : Nat, options : SUBSET (CacheableOptions \cup {"ecs"})]

Queries == [tr : {"udp", "tcp", "dot", "doq", "doh", "doh3"}, decodes : BOOLEAN, path : BOOLEAN,
          id : Nat, qs : Seq(Questions), rd : BOOLEAN, tc : BOOLEAN, opts : Seq(OptRecords)]

ASSUME ArrivalsAssumption ==
    /\ Arrivals \in [BOOLEAN -> [Tasks -> SUBSET Queries]]
    /\ \A fake \in BOOLEAN : \A t \in Tasks : \A q \in Arrivals[fake][t] :
        q.qs # <<>> /\ Selected(q.qs[1]) => q.qs[1].name \in Names

Fakes(t) == faking /\ task[t].q.qs # <<>> /\ (Selected(task[t].q.qs[1]) \/ InRange(task[t].q.qs[1]))

LocalReply(t, rcode, body) ==
    LET m == [LocalResponse(task[t].q, rcode) EXCEPT !.body = body]
    IN  Reply(t, AlignEdns(task[t].q, m, EdnsMax))

FakeAnswer(t) ==
    LET question == task[t].q.qs[1]
        f == FamilyOf(question)
    IN
    /\ Resolving(t) /\ Fakes(t) /\ Selected(question)
    /\ IF Enabled(f)
       THEN Allocate(f, question.name) /\ LocalReply(t, "NoError", 1)
       ELSE LocalReply(t, "NoError", 0) /\ UNCHANGED fakeVars
    /\ UNCHANGED <<faking, serving, cache>>

FakePtrAnswer(t) ==
    LET question == task[t].q.qs[1]
        f == question.address[1]
        a == question.address[2]
        known == a \in DOMAIN PurgeExpired(pool[f], now).reverse
    IN
    /\ Resolving(t) /\ Fakes(t) /\ InRange(question)
    /\ Lookup(f, a)
    /\ LocalReply(t, IF known THEN "NoError" ELSE "NxDomain", IF known THEN 1 ELSE 0)
    /\ UNCHANGED <<faking, serving, cache>>

(* select_backends: the hook may overrule the policy, abstain or fail.      *)
Decisions(name) ==
    LET static == ResolveGroup(Policy, name)
    IN  IF Hooked THEN {static} \cup {<<g>> : g \in Groups} \cup {<<>>} ELSE {static}

Route(t) ==
    LET q == task[t].q IN
    /\ Resolving(t) /\ q.qs # <<>> /\ ~Fakes(t)
    /\ \E choice \in Decisions(q.qs[1].name) :
        IF choice # <<>> /\ choice[1] \in Groups
        THEN task' = [task EXCEPT ![t].at = "lookup", ![t].group = choice[1]]
        ELSE ReplyError(t)
    /\ UNCHANGED <<faking, serving, cache, fakeVars>>

-----------------------------------------------------------------------------
(* The cache.                                                               *)

(* Faulty variant: the key leaves out the DO bit.                           *)
KeyOfAnyDo(q, g) == [group |-> g, question |-> q.qs[1], rd |-> q.rd, do |-> FALSE]

KeyOf(q, g) == [group |-> g, question |-> q.qs[1], rd |-> q.rd, do |-> QueryDnssecOk(q)]

(* The flights: who asks upstream for others too, and who waits for it.     *)
TaskKey(t) == KeyOf(task[t].q, task[t].group)

Leads(t) ==
    Coalesce /\ task[t].at \in {"try", "sent", "resent", "tcp"} /\ QueryUsesCache(task[t].q)

Follows(u, t) == Leads(t) /\ task[u].at = "follow" /\ TaskKey(u) = TaskKey(t)

CacheLookup(t) ==
    LET q == task[t].q
        k == TaskKey(t)
    IN
    /\ task[t].at = "lookup"
    /\ IF QueryUsesCache(q) /\ k \in DOMAIN cache
       THEN Reply(t, AlignEdns(q, CacheHitResponse(q, cache[k]), EdnsMax))
       ELSE IF QueryUsesCache(q) /\ \E u \in Tasks : Leads(u) /\ TaskKey(u) = k
       THEN task' = [task EXCEPT ![t].at = "follow"]
       ELSE task' = [task EXCEPT ![t].at = "try", ![t].i = 1]
    /\ UNCHANGED <<faking, serving, cache, fakeVars>>

(* An answer expires, is evicted or purged.                                 *)
Forget ==
    /\ \E k \in DOMAIN cache : cache' = Restrict(cache, DOMAIN cache \ {k})
    /\ UNCHANGED <<faking, serving, task, fakeVars>>

-----------------------------------------------------------------------------
(* query_upstream, one backend after the other.                             *)
Backend(t) == Backends[task[t].group][task[t].i]

(* The call ends: its task becomes r, and its outcome reaches the channel   *)
(* of every query that waits for it.                                        *)
Ends(t, r, outcome) ==
    task' = [u \in Tasks |->
                IF u = t THEN r
                ELSE IF Follows(u, t)
                THEN [task[u] EXCEPT !.at = "told", !.told = <<outcome>>] ELSE task[u]]

(* A backend fails: the next one is tried after a retryable error.          *)
BackendFails(t, retryable) ==
    IF retryable /\ task[t].i < Len(Backends[task[t].group])
    THEN task' = [task EXCEPT ![t].at = "try", ![t].i = @ + 1]
    ELSE Ends(t, Answered(t, OwnEdns(task[t].q, LocalResponse(task[t].q, "ServFail"))),
              [ok |-> FALSE])

(* A backend answers: the answer is stored if it may be, and returned.      *)
BackendAnswers(t, m, ext) ==
    LET q == task[t].q
        k == TaskKey(t)
        own == OwnEdns(q, AlignEdns(q, m, EdnsMax))
    IN
    /\ Ends(t, [Answered(t, own) EXCEPT !.ext = ext], [ok |-> TRUE, m |-> m, ext |-> ext])
    /\ IF QueryUsesCache(q) /\ IsCacheable(m)
       THEN \E kept \in SUBSET (DOMAIN cache \ {k}) :
                /\ Cardinality(kept) < Room
                /\ cache' = [l \in kept \cup {k} |->
                                IF l = k THEN SetEdns(m, <<>>) ELSE cache[l]]
       ELSE UNCHANGED cache

(* finish_follower: a stored answer and one that may not be stored lose     *)
(* their OPT record alike, and with it an extended RCODE.                   *)
FinishFollower(t) ==
    LET q == task[t].q
        outcome == task[t].told[1]
        own == OwnEdns(q, AlignEdns(q, CacheHitResponse(q, outcome.m), EdnsMax))
    IN
    /\ task[t].at = "told"
    /\ IF outcome.ok
       THEN task' = [task EXCEPT ![t] = [Answered(t, own) EXCEPT !.ext = outcome.ext]]
       ELSE ReplyError(t)
    /\ UNCHANGED <<faking, serving, cache, fakeVars>>

(* What a record was fetched for.                                           *)
Origin(q, g) == [group |-> g, qs |-> q.qs, rd |-> q.rd, do |-> HasEdns(q) /\ Edns(q).do]

(* External: how a server answers.  One that knows EDNS uses it when the    *)
(* query does; one that does not refuses an OPT record or ignores it.       *)
Answers(t, sent) ==
    LET q == task[t].q
        m == [id |-> sent.id, qs |-> sent.qs, rd |-> sent.rd, rcode |-> "NoError", tc |-> FALSE,
              body |-> 1, opts |-> <<>>, from |-> {Origin(q, task[t].group)}]
        With(ext, options) == SetEdns(m, <<[NewEdns(EdnsMax) EXCEPT !.do = Edns(sent).do,
                                            !.ext = ext, !.options = options]>>)
    IN  IF ~HasEdns(sent)
        THEN {m, [m EXCEPT !.body = 3], [m EXCEPT !.tc = TRUE], [m EXCEPT !.rcode = "FormErr"]}
        ELSE {With(0, {}), With(1, {}), With(0, {"cookie"}), [With(0, {}) EXCEPT !.body = 5],
              [With(0, {}) EXCEPT !.tc = TRUE], m, [m EXCEPT !.rcode = "FormErr"]}

(* External: datagrams and frames that answer something else.               *)
Strays(sent) ==
    LET m == [LocalResponse(sent, "NoError") EXCEPT !.body = 1]
    IN  {[m EXCEPT !.id = @ + 1], [m EXCEPT !.qs = @ \o @]}

(* UdpBackend::resolve.  What is sent first: with an OPT record of the      *)
(* backend's own if that is configured and the query has none.              *)
AddsOpt(t) == Backend(t).opt /\ task[t].q.opts = <<>>

Sent(t) == IF AddsOpt(t) /\ task[t].at # "resent"
           THEN SetEdns(task[t].q, <<NewEdns(EdnsMax)>>) ELSE task[t].q

Send(t) ==
    /\ task[t].at = "try"
    /\ \/ task' = [task EXCEPT ![t].at = IF Backend(t).kind = "udp" THEN "sent" ELSE "tcp"]
       \/ BackendFails(t, TRUE)
    /\ UNCHANGED <<faking, serving, cache, fakeVars>>

RejectsEdns(m) == m.rcode \in {"FormErr", "NotImp"} /\ m.opts = <<>>

(* Faulty variant: the extended code is dropped with the OPT record.        *)
ExtendedDropped(t, m) == FALSE

(* An extended RCODE that a client without EDNS cannot be shown.            *)
HidesExtended(t, m) == AddsOpt(t) /\ HasEdns(m) /\ Edns(m).ext # 0 /\ ~m.tc

UdpAnswer(t) ==
    /\ task[t].at \in {"sent", "resent"}
    /\ \E m \in Answers(t, Sent(t)) \cup Strays(Sent(t)) :
        LET first == AddsOpt(t) /\ task[t].at = "sent" IN
        IF ~ValidateResponse(Sent(t), m, TRUE) THEN UNCHANGED <<task, cache>>
        ELSE IF first /\ RejectsEdns(m)
        THEN task' = [task EXCEPT ![t].at = "resent"] /\ UNCHANGED cache
        ELSE IF first /\ HidesExtended(t, m) THEN BackendFails(t, TRUE) /\ UNCHANGED cache
        ELSE IF m.tc THEN task' = [task EXCEPT ![t].at = "tcp"] /\ UNCHANGED cache
        ELSE BackendAnswers(t, IF first THEN SetEdns(m, <<>>) ELSE m,
                            IF HasEdns(m) THEN Edns(m).ext ELSE 0)
    /\ UNCHANGED <<faking, serving, fakeVars>>

(* The deadline passes; datagrams that are not the answer do not extend it. *)
UdpTimeout(t) ==
    /\ task[t].at \in {"sent", "resent"}
    /\ BackendFails(t, TRUE)
    /\ UNCHANGED <<faking, serving, cache, fakeVars>>

(* tcp_query, with the original query: an answer to it or to another one, a *)
(* failure to connect, write or read, or bytes that do not decode.          *)
TcpQuery(t) ==
    /\ task[t].at = "tcp"
    /\ \/ \E m \in Answers(t, task[t].q) \cup Strays(task[t].q) :
            IF ValidateResponse(task[t].q, m, TRUE)
            THEN BackendAnswers(t, m, IF HasEdns(m) THEN Edns(m).ext ELSE 0)
            ELSE BackendFails(t, TRUE) /\ UNCHANGED cache
       \/ \E retryable \in BOOLEAN : BackendFails(t, retryable) /\ UNCHANGED cache
    /\ UNCHANGED <<faking, serving, fakeVars>>

-----------------------------------------------------------------------------
(* The pool's own life, and what applications do with it.                   *)
PoolStep ==
    /\ faking
    /\ \/ Tick \/ SnapshotFirst \/ SnapshotNext \/ Restore
       \/ \E f \in Families : PurgeFamily(f)
    /\ UNCHANGED serveVars

ListenerStep(t) == Accept(t) \/ Receive(t) \/ Finish(t)

TaskStep(t) ==
    \/ Reject(t) \/ RejectEdns(t) \/ NoQuestion(t) \/ FakeAnswer(t) \/ FakePtrAnswer(t)
    \/ Route(t) \/ CacheLookup(t) \/ Send(t) \/ UdpAnswer(t) \/ UdpTimeout(t) \/ TcpQuery(t)
    \/ FinishFollower(t)

Next ==
    \/ PoolStep \/ Shutdown \/ Forget
    \/ \E t \in Tasks : ListenerStep(t) \/ TaskStep(t)

Spec == Init /\ [][Next]_vars

-----------------------------------------------------------------------------
IsResponse(out) == out # None /\ "rcode" \in DOMAIN out

(* Whatever path a response took - synthesized, fake, cached, fresh, got    *)
(* from another query's call or truncated - it belongs to the query: its id *)
(* and questions, exactly one OPT record if the query had any and none      *)
(* otherwise, advertising the server's own size, and over UDP no more bytes *)
(* than the client accepts (for a query with at most one question).         *)
ResponseFitsQuery ==
    \A t \in Tasks : IsResponse(task[t].out) =>
        LET q == task[t].q
            m == task[t].out
        IN  /\ m.id = q.id /\ m.qs = q.qs
            /\ Len(m.opts) = IF q.opts = <<>> THEN 0 ELSE 1
            /\ HasEdns(m) => Edns(m).size = EdnsMax /\ Edns(m).ver = 0
            /\ q.tr = "udp" /\ Len(q.qs) <= 1 => Length(m) <= UdpLimit(q)

(* The extended RCODE of an upstream answer is not lost on the way to the   *)
(* query that asked for it: it reaches the client in the response's OPT     *)
(* record or the answer does not reach the client at all.  A query that     *)
(* waited for another one's call is given no extended code, whatever the    *)
(* upstream said: see FinishFollower.                                       *)
ExtendedRcodeKept ==
    \A t \in Tasks : IsResponse(task[t].out) /\ task[t].ext # 0 /\ task[t].told = <<>> =>
        HasEdns(task[t].out) /\ Edns(task[t].out).ext = task[t].ext

(* Records come from where the query was routed, and were fetched for a     *)
(* query with the same questions and DO bit, whether it made the call, hit  *)
(* the cache or waited for another query's call; what Fake IP answers is    *)
(* never asked of an upstream.                                              *)
ContentMatches ==
    \A t \in Tasks : IsResponse(task[t].out) =>
        LET q == task[t].q
            m == task[t].out
        IN  IF m.from = {} THEN m.rcode = "NoError" => Fakes(t) \/ Edns(m).ext # 0
            ELSE m.from = {Origin(q, task[t].group)} /\ ~Fakes(t)

=============================================================================
