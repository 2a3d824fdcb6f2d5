----------------------------- MODULE MCFrontend -----------------------------
(* A small instance of Frontend, and the operators of Matcher and Messages  *)
(* checked against their references over all small inputs.                  *)
EXTENDS Frontend, TLC

CONSTANTS t1, t2

-----------------------------------------------------------------------------
(* Names: one for each group, one without a group, three that are faked.    *)
x == <<"x">>
y == <<"y", "x">>
z == <<"z">>
a == <<"a", "f">>
b == <<"b", "f">>
c == <<"f">>

Rule(kind, name, value) == [kind |-> kind, name |-> name, value |-> value]

MCPolicy == [rules |-> <<Rule("suffix", x, "g"), Rule("exact", y, "h")>>, default |-> <<>>]
MCFakeRules == <<Rule("suffix", c, "fake")>>
MCNames == {a, b, c}
MCHash == [f \in {"v4", "v6"} |-> (a :> 0) @@ (b :> 0) @@ (c :> 1)]

Udp(opt) == [kind |-> "udp", opt |-> opt]
MCBackends == [g |-> <<Udp(TRUE), [kind |-> "tcp", opt |-> FALSE]>>, h |-> <<Udp(FALSE)>>]

-----------------------------------------------------------------------------
(* Queries.                                                                 *)
Question(type, name) == [type |-> type, name |-> name, address |-> None]
ReverseOf0 == [type |-> "PTR", name |-> <<"1">>, address |-> <<"v4", 0>>]

Plain(tr, question) ==
    [tr |-> tr, decodes |-> TRUE, path |-> TRUE, id |-> 1, qs |-> <<question>>, rd |-> TRUE,
     tc |-> FALSE, opts |-> <<>>]

WithOpt(q, opt) == [q EXCEPT !.opts = <<opt>>, !.id = 2]

Opt(size) == NewEdns(size)

MCArrivals ==
    LET p == Plain("udp", Question("A", x))
        http == {Plain(tr, Question("A", x)) : tr \in {"doh", "doh3"}}
        bad == {[q EXCEPT !.decodes = d, !.path = ~d] : q \in http, d \in BOOLEAN}
    IN
    [fake \in BOOLEAN |->
        IF fake
        THEN (t1 :> {Plain("udp", Question("A", n)) : n \in MCNames}
                    \cup {Plain("udp", Question("AAAA", a)),
                          WithOpt(Plain("udp", ReverseOf0), Opt(UdpMax))})
             @@ (t2 :> {})
        ELSE (t1 :> bad \cup
                    {p, [p EXCEPT !.qs = <<>>], [p EXCEPT !.decodes = FALSE],
                     [p EXCEPT !.rd = FALSE],
                     [p EXCEPT !.opts = <<Opt(UdpMax), Opt(UdpMax)>>],
                     WithOpt(p, [Opt(UdpMax) EXCEPT !.ver = 1]),
                     WithOpt(p, Opt(UdpMax)),
                     WithOpt(p, [Opt(EdnsMax) EXCEPT !.do = TRUE]),
                     WithOpt(p, [Opt(EdnsMax + 1) EXCEPT !.options = {"ecs"}]),
                     [p EXCEPT !.qs = @ \o <<Question("A", y)>>],
                     Plain("tcp", Question("A", z)),
                     [Plain("tcp", Question("A", y)) EXCEPT !.decodes = FALSE],
                     [Plain("doq", Question("A", y)) EXCEPT !.decodes = FALSE],
                     Plain("udp", ReverseOf0)})
             @@ (t2 :> {WithOpt(p, [Opt(UdpMax) EXCEPT !.do = TRUE])})]

(* The pool is not followed past the end of the listeners.                  *)
FakeWhileServing == faking => serving

-----------------------------------------------------------------------------
(* All lists of at most three rules over names of at most two labels.       *)
SmallNames == UNION {[1 .. n -> {"x", "y"}] : n \in 0 .. 2}

Patterns ==
    [kind : {"exact", "suffix", "wildcard"}, name : SmallNames, value : {0}]

ASSUME MatcherChecked ==
    \A n \in 0 .. 3 : \A rules \in [1 .. n -> Patterns] : \A name \in SmallNames :
        FirstOfTheMostSpecific([i \in 1 .. n |-> [rules[i] EXCEPT !.value = i]], name)

(* All answers with at most two records and a SOA, under all small bounds.  *)
SmallBounds == {bounds \in [min : 0 .. 3, max : 0 .. 3] : bounds.min <= bounds.max}

ASSUME LifetimesChecked ==
    \A bounds \in SmallBounds : \A withoutSoa \in {{}, {0}, {2}} :
    \A negative \in BOOLEAN : \A ttls \in SUBSET (0 .. 3) :
    \A soa \in {<<>>} \cup {<<s>> : s \in [ttl : 0 .. 3, minimum : 0 .. 3]} :
        LifetimeWithinRecords(
            [positive |-> bounds, negative |-> bounds, withoutSoa |-> withoutSoa],
            [negative |-> negative, ttls |-> ttls, soa |-> soa])

=============================================================================
