--------------------------- MODULE BackendsProofs ---------------------------
(***************************************************************************)
(* What the backends that reuse connections promise, for any number of      *)
(* calls, connections, client generations and runtimes.  The invariants of  *)
(* the two engines over HTTP and QUIC come first, then the account of late  *)
(* answers in the pipelined engine.  With its invariant, each preserved by  *)
(* its own steps, they hold together: a step of one leaves the state of the *)
(* others alone.                                                            *)
(***************************************************************************)
EXTENDS Backends, StreamProofs

Protocols == {"stream", "https", "doq", "h3"}

(***************************************************************************)
(* QUIC.                                                                    *)
(***************************************************************************)
Link == [at : {"new", "open", "closed"}, runtime : Runtimes \cup {Nobody},
         pooled : BOOLEAN, answered : BOOLEAN]

Query == [at : {"idle", "acquire", "leased", "sent"}, runtime : Runtimes \cup {Nobody},
          link : QuicConns \cup {Nobody}, fresh : BOOLEAN, sends : Nat,
          prev : QuicConns \cup {Nobody}]

QuicTypeOK ==
    /\ protocol \in Protocols
    /\ running \subseteq Runtimes
    /\ bound \in Runtimes \cup {Nobody}
    /\ link \in [QuicConns -> Link]
    /\ query \in [Queries -> Query]
    /\ asked \in Nat

(* A call belongs to a runtime that runs, and so does the connection that   *)
(* is_alive let it lease: what ends the runtime ends the call as well.      *)
OnItsRuntime(q) ==
    query[q].at # "idle" =>
        /\ query[q].runtime \in running
        /\ query[q].at \in {"leased", "sent"} =>
            /\ query[q].link \in QuicConns /\ link[query[q].link].at # "new"
            /\ link[query[q].link].runtime = query[q].runtime

CallsOnTheirRuntime == \A q \in Queries : OnItsRuntime(q)

(* A connection that was not opened yet is not pooled and has not answered. *)
NewLinksUnused ==
    \A c \in QuicConns : link[c].at = "new" => ~link[c].answered /\ ~link[c].pooled

(* How often a query was sent before the attempt it is in.                  *)
SentBefore(q) == IF query[q].at = "sent" THEN query[q].sends - 1 ELSE query[q].sends

(* The first attempt follows none; the second may follow one that was sent, *)
(* on a connection that had answered and has left the pool since.           *)
Counted(q) ==
    /\ query[q].fresh \/ SentBefore(q) = 0
    /\ query[q].fresh => q \notin Changes
    /\ SentBefore(q) \in {0, 1}
    /\ SentBefore(q) = 1 =>
        /\ query[q].prev \in QuicConns
        /\ link[query[q].prev].answered /\ ~link[query[q].prev].pooled

AttemptsCounted == \A q \in Queries : Counted(q)

QuicInv == QuicTypeOK /\ CallsOnTheirRuntime /\ NewLinksUnused /\ AttemptsCounted

(***************************************************************************)
(* HTTP.                                                                    *)
(***************************************************************************)
CallStages == {"idle", "admit", "generation", "check", "gate", "send", "await", "body", "failed"}

HttpConn == [at : {"new", "open", "flagged", "ready", "closed"}, gen : Gens \cup {0},
             by : Calls \cup {Nil}, h2 : BOOLEAN, answered : BOOLEAN]

HttpCall == [at : CallStages, gen : Gens \cup {0},
             wait : {"none", "start", "registered", "looked", "parked"}, notified : BOOLEAN,
             conn : HttpConns \cup {Nil}, reused : BOOLEAN, retry : BOOLEAN, retried : BOOLEAN,
             sends : Nat, prev : HttpConns \cup {Nil}]

DohTypeOK ==
    /\ gen \in Gens
    /\ http1 \in [Gens -> BOOLEAN]
    /\ conn \in [HttpConns -> HttpConn]
    /\ call \in [Calls -> HttpCall]

(* Only a call that is past the gate and before its headers waits for the   *)
(* flag; from the gate on a call has a generation, and a connection while   *)
(* it uses one.                                                             *)
Placed(q) ==
    /\ call[q].wait # "none" => call[q].at \in {"send", "await"}
    /\ call[q].at \in {"check", "gate", "send", "await", "body"} => call[q].gen \in Gens
    /\ call[q].at \in {"await", "body", "failed"} => call[q].conn \in HttpConns

(* GateLetsGo from the moment the flag was looked at, not only while        *)
(* parked: enable() came first, so notify_waiters does not miss the waiter. *)
HeardOf(q) ==
    call[q].wait \in {"looked", "parked"} /\ http1[call[q].gen] =>
        \/ call[q].notified
        \/ \E c \in HttpConns : conn[c].gen = call[q].gen /\ conn[c].at = "flagged"

(* How often a request was sent before the attempt it is in.                *)
HttpSentBefore(q) ==
    IF call[q].at \in {"await", "body", "failed"} THEN call[q].sends - 1 ELSE call[q].sends

Stale(c) == c \in HttpConns /\ conn[c].answered /\ (conn[c].at = "closed" \/ conn[c].h2)

(* The first attempt follows none; the second follows one that failed on a  *)
(* connection that had answered and is closed or multiplexes its streams,   *)
(* and prev remembers it.                                                   *)
HttpCounted(q) ==
    /\ HttpSentBefore(q) = IF call[q].retried THEN 1 ELSE 0
    /\ call[q].retried => q \notin HttpUpdates /\ Stale(call[q].prev)
    /\ ~call[q].retried /\ call[q].at # "failed" => call[q].prev = Nil
    /\ call[q].at = "failed" /\ call[q].retry => Stale(call[q].prev)
    /\ call[q].at = "body" /\ call[q].reused => conn[call[q].conn].answered

(* A connection that is opened has a generation, and one that is not opened *)
(* yet has not answered.                                                    *)
ConnsDated ==
    \A c \in HttpConns :
        IF conn[c].at = "new" THEN ~conn[c].answered ELSE conn[c].gen \in Gens

DohInv ==
    /\ DohTypeOK
    /\ ConnsDated
    /\ \A q \in Calls : Placed(q) /\ HeardOf(q) /\ HttpCounted(q)

-----------------------------------------------------------------------------
(* No call has been made and no connection opened.                          *)
LEMMA QuicInitInv == QuicInit /\ protocol \in Protocols => QuicInv
  BY DEF QuicInit, IdleQuery, QuicInv, QuicTypeOK, Link, Query, CallsOnTheirRuntime,
         OnItsRuntime, NewLinksUnused, AttemptsCounted, Counted, SentBefore

(* A call that is given a connection is still a record of a call.           *)
LEMMA QueryLeased ==
  ASSUME query \in [Queries -> Query], NEW q \in Queries, NEW c \in QuicConns,
         query' = [query EXCEPT ![q].at = "leased", ![q].link = c]
  PROVE  query' \in [Queries -> Query]
  <1>1. ASSUME NEW r \in Query PROVE [r EXCEPT !.at = "leased", !.link = c] \in Query
    BY <1>1, Zenon DEF Query
  <1>2. [query[q] EXCEPT !.at = "leased", !.link = c] \in Query
    BY <1>1, Zenon
  <1>3. query' = [query EXCEPT ![q] = [query[q] EXCEPT !.at = "leased", !.link = c]]
    BY Zenon
  <1> QED
    BY <1>2, <1>3, Zenon

(* Every step of the QUIC backends has types.                               *)
LEMMA QuicTypeStep == QuicInv /\ QuicNext => QuicTypeOK'
  <1> SUFFICES ASSUME QuicInv, QuicNext PROVE QuicTypeOK'
    OBVIOUS
  <1> USE DEF QuicInv, QuicTypeOK
  <1>i. IdleQuery \in Query
    BY DEF IdleQuery, Query
  <1>s. \A r : Swept(r) \in [QuicConns -> Link]
    <2> SUFFICES ASSUME NEW r, NEW c \in QuicConns
                 PROVE  [link[c] EXCEPT !.pooled = @ /\ IsAlive(c, r)] \in Link
      BY DEF Swept
    <2> QED
      BY Zenon DEF IsAlive, Link
  <1>q. ASSUME NEW q \in Queries,
               \/ Ask(q) \/ Lease(q) \/ Connect(q) \/ SendQuery(q) \/ Answered(q)
               \/ StreamFails(q) \/ Withdraw(q)
        PROVE  QuicTypeOK'
    <2>1. CASE Ask(q)
      <3>1. PICK r \in running :
                query' = [query EXCEPT ![q] = [IdleQuery EXCEPT !.at = "acquire", !.runtime = r]]
        BY <2>1, Zenon DEF Ask
      <3>2. [IdleQuery EXCEPT !.at = "acquire", !.runtime = r] \in Query
        BY Zenon DEF IdleQuery, Query
      <3> QED
        BY <2>1, <3>1, <3>2 DEF Ask
    <2>2. CASE Lease(q)
      <3>1. PICK c \in QuicConns : query' = [query EXCEPT ![q].at = "leased", ![q].link = c]
        BY <2>2, Zenon DEF Lease, Leasable, Pooled
      <3>2. query' \in [Queries -> Query]
        BY <3>1, QueryLeased, Zenon
      <3> QED
        BY <2>2, <1>s, <3>2 DEF Lease
    <2>3. CASE Connect(q)
      <3> DEFINE r == query[q].runtime
                 new == {c \in QuicConns : link[c].at = "new"}
                 d == CHOOSE c \in new : TRUE
      <3>1. d \in QuicConns
        BY <2>3 DEF Connect
      <3>2. r \in Runtimes
        BY <2>3 DEF Connect, CallsOnTheirRuntime, OnItsRuntime
      <3>3. Rebound(Swept(r), r) \in [QuicConns -> Link]
        BY <1>s DEF Rebound, Link
      <3>4. [at |-> "open", runtime |-> r, pooled |-> TRUE, answered |-> FALSE] \in Link
        BY <3>2 DEF Link
      <3>5. link' \in [QuicConns -> Link]
        BY <2>3, <3>3, <3>4 DEF Connect
      <3>6. query' = [query EXCEPT ![q].at = "leased", ![q].link = d]
        BY <2>3 DEF Connect
      <3> HIDE DEF d
      <3>7. query' \in [Queries -> Query]
        BY <3>1, <3>6, QueryLeased, Zenon
      <3> QED
        BY <2>3, <3>2, <3>5, <3>7 DEF Connect
    <2>4. CASE SendQuery(q)
      BY <2>4 DEF SendQuery, Query
    <2>5. CASE Answered(q)
      BY <2>5, <1>i, Zenon DEF Answered, Link
    <2>6. CASE StreamFails(q)
      <3> DEFINE c == query[q].link
                 again == [query[q] EXCEPT !.at = "acquire", !.link = Nobody, !.fresh = TRUE,
                                           !.prev = IF query[q].at = "sent" THEN c ELSE Nobody]
      <3>1. again \in Query
        BY Zenon DEF Query
      <3>2. query' \in [Queries -> Query]
        BY <2>6, <1>i, <3>1 DEF StreamFails
      <3>3. PICK closing \in Closings(q) : link' = [link EXCEPT ![c].pooled = @ /\ ~closing]
        BY <2>6, Zenon DEF StreamFails
      <3>a. c \in QuicConns => [link[c] EXCEPT !.pooled = @ /\ ~closing] \in Link
        BY Zenon DEF Link
      <3>4. link' \in [QuicConns -> Link]
        BY <3>3, <3>a, Zenon
      <3> QED
        BY <2>6, <3>2, <3>4 DEF StreamFails
    <2>7. CASE Withdraw(q)
      <3> DEFINE c == query[q].link
      <3>1. query' \in [Queries -> Query]
        BY <2>7, <1>i, Zenon DEF Withdraw
      <3>2. UNCHANGED link \/ link' = [link EXCEPT ![c].pooled = FALSE]
        BY <2>7, Zenon DEF Withdraw
      <3>3. UNCHANGED <<protocol, running, bound, asked>>
        BY <2>7, Zenon DEF Withdraw
      <3> HIDE DEF c
      <3>4. c \in QuicConns => [link[c] EXCEPT !.pooled = FALSE] \in Link
        BY Zenon DEF Link
      <3>5. link' \in [QuicConns -> Link]
        BY <3>2, <3>4, Zenon
      <3> QED
        BY <3>1, <3>3, <3>5, Zenon
    <2> QED
      BY <1>q, <2>1, <2>2, <2>3, <2>4, <2>5, <2>6, <2>7
  <1>c. ASSUME NEW c \in QuicConns, CloseLink(c) PROVE QuicTypeOK'
    BY <1>c DEF CloseLink, Link
  <1>r. ASSUME NEW r \in Runtimes, RuntimeEnds(r) PROVE QuicTypeOK'
    BY <1>r, <1>i DEF RuntimeEnds
  <1> QED
    BY <1>q, <1>c, <1>r DEF QuicNext

(* What no step does to a connection once it is opened: give it to another  *)
(* runtime, put it back into the pool or forget that it answered.           *)
OnlyAges(c) ==
    /\ link[c].at # "new" => link'[c].at # "new" /\ link'[c].runtime = link[c].runtime
    /\ link[c].answered => link'[c].answered
    /\ link[c].at # "new" /\ ~link[c].pooled => ~link'[c].pooled
    /\ link'[c].at = "new" => ~link'[c].answered /\ ~link'[c].pooled

LEMMA LinksOnlyAge == QuicInv /\ QuicNext => \A c \in QuicConns : OnlyAges(c)
  <1> SUFFICES ASSUME QuicInv, QuicNext, NEW d \in QuicConns PROVE OnlyAges(d)
    OBVIOUS
  <1> USE DEF QuicInv, QuicTypeOK, Link, NewLinksUnused, OnlyAges
  <1>s. \A r : /\ Swept(r)[d].at = link[d].at
               /\ Swept(r)[d].runtime = link[d].runtime
               /\ Swept(r)[d].answered = link[d].answered
               /\ Swept(r)[d].pooled => link[d].pooled
    BY DEF Swept
  <1>q. ASSUME NEW q \in Queries,
               \/ Ask(q) \/ Lease(q) \/ Connect(q) \/ SendQuery(q) \/ Answered(q)
               \/ StreamFails(q) \/ Withdraw(q)
        PROVE  OnlyAges(d)
    <2>1. CASE Ask(q) \/ SendQuery(q)
      BY <2>1, Zenon DEF Ask, SendQuery
    <2>2. CASE Lease(q)
      BY <2>2, <1>s DEF Lease
    <2>3. CASE Connect(q)
      <3> DEFINE r == query[q].runtime
                 new == {c \in QuicConns : link[c].at = "new"}
                 e == CHOOSE c \in new : TRUE
      <3>1. e \in QuicConns /\ link[e].at = "new"
        BY <2>3 DEF Connect
      <3>2. link' = [Rebound(Swept(r), r) EXCEPT ![e] =
                        [at |-> "open", runtime |-> r, pooled |-> TRUE, answered |-> FALSE]]
        BY <2>3 DEF Connect
      <3> HIDE DEF e
      <3>3. Rebound(Swept(r), r)[d] \in {Swept(r)[d], [Swept(r)[d] EXCEPT !.at = "closed"]}
        BY DEF Rebound
      <3>4. CASE d = e
        BY <3>1, <3>2, <3>4 DEF Rebound
      <3>5. CASE d # e
        <4>1. link'[d] = Rebound(Swept(r), r)[d]
          BY <3>2, <3>5 DEF Rebound
        <4>2. CASE link'[d] = Swept(r)[d]
          BY <4>2, <1>s
        <4>3. CASE link'[d] = [Swept(r)[d] EXCEPT !.at = "closed"]
          BY <4>3, <1>s DEF Swept
        <4> QED
          BY <3>3, <4>1, <4>2, <4>3
      <3> QED
        BY <3>4, <3>5
    <2>4. CASE Answered(q)
      BY <2>4 DEF Answered, CallsOnTheirRuntime, OnItsRuntime
    <2>5. CASE StreamFails(q)
      <3>1. PICK closing : link' = [link EXCEPT ![query[q].link].pooled = @ /\ ~closing]
        BY <2>5, Zenon DEF StreamFails
      <3> QED
        BY <3>1
    <2>6. CASE Withdraw(q)
      BY <2>6 DEF Withdraw
    <2> QED
      BY <1>q, <2>1, <2>2, <2>3, <2>4, <2>5, <2>6
  <1>c. ASSUME NEW c \in QuicConns, CloseLink(c) PROVE OnlyAges(d)
    BY <1>c DEF CloseLink
  <1>r. ASSUME NEW r \in Runtimes, RuntimeEnds(r) PROVE OnlyAges(d)
    BY <1>r DEF RuntimeEnds
  <1> QED
    BY <1>q, <1>c, <1>r DEF QuicNext

(* is_alive admits a call to the connections of its own runtime, endpoint   *)
(* opens one there, and a runtime takes its calls along when it ends.       *)
LEMMA RuntimeStep == QuicInv /\ QuicNext => CallsOnTheirRuntime'
  <1> SUFFICES ASSUME QuicInv, QuicNext, NEW p \in Queries PROVE OnItsRuntime(p)'
    BY DEF CallsOnTheirRuntime
  <1> USE DEF QuicInv, QuicTypeOK, CallsOnTheirRuntime, OnItsRuntime, Query
  <1>l. \A c \in QuicConns : link[c].at # "new" =>
            link'[c].at # "new" /\ link'[c].runtime = link[c].runtime
    BY LinksOnlyAge DEF OnlyAges
  <1>q. ASSUME NEW q \in Queries,
               \/ Ask(q) \/ Lease(q) \/ Connect(q) \/ SendQuery(q) \/ Answered(q)
               \/ StreamFails(q) \/ Withdraw(q)
        PROVE  OnItsRuntime(p)'
    <2>1. CASE Ask(q)
      BY <2>1 DEF Ask, IdleQuery
    <2>2. CASE Lease(q)
      <3>1. PICK c \in Pooled(Swept(query[q].runtime)) :
                query' = [query EXCEPT ![q].at = "leased", ![q].link = c]
        BY <2>2, Zenon DEF Lease, Leasable
      <3>2. c \in QuicConns /\ link[c].at = "open" /\ link[c].runtime = query[q].runtime
        BY Zenon DEF Pooled, Swept, IsAlive, Link
      <3> QED
        BY <2>2, <1>l, <3>1, <3>2 DEF Lease
    <2>3. CASE Connect(q)
      <3> DEFINE r == query[q].runtime
                 new == {c \in QuicConns : link[c].at = "new"}
                 d == CHOOSE c \in new : TRUE
      <3>1. d \in QuicConns
        BY <2>3 DEF Connect
      <3>2. /\ query' = [query EXCEPT ![q].at = "leased", ![q].link = d]
            /\ link' = [Rebound(Swept(r), r) EXCEPT ![d] =
                            [at |-> "open", runtime |-> r, pooled |-> TRUE, answered |-> FALSE]]
            /\ running' = running
        BY <2>3 DEF Connect
      <3>3. query[q].at = "acquire"
        BY <2>3 DEF Connect
      <3> HIDE DEF d
      <3>4. link'[d].runtime = r /\ link'[d].at = "open"
        BY <3>1, <3>2 DEF Rebound
      <3>5. CASE p = q
        BY <3>1, <3>2, <3>3, <3>4, <3>5
      <3>6. CASE p # q
        BY <1>l, <3>2, <3>6
      <3> QED
        BY <3>5, <3>6
    <2>4. CASE SendQuery(q)
      BY <2>4 DEF SendQuery
    <2>5. CASE Answered(q)
      BY <2>5, <1>l DEF Answered, IdleQuery
    <2>6. CASE StreamFails(q)
      BY <2>6, <1>l DEF StreamFails, IdleQuery
    <2>7. CASE Withdraw(q)
      BY <2>7, <1>l DEF Withdraw, IdleQuery
    <2> QED
      BY <1>q, <2>1, <2>2, <2>3, <2>4, <2>5, <2>6, <2>7
  <1>c. ASSUME NEW c \in QuicConns, CloseLink(c) PROVE OnItsRuntime(p)'
    BY <1>c, <1>l DEF CloseLink
  <1>r. ASSUME NEW r \in Runtimes, RuntimeEnds(r) PROVE OnItsRuntime(p)'
    BY <1>r DEF RuntimeEnds, IdleQuery
  <1> QED
    BY <1>q, <1>c, <1>r DEF QuicNext

(* A query is sent again only by retry_allowed and its likes: once, not for *)
(* an update, and after a connection that had answered has left the pool.   *)
LEMMA AttemptStep == QuicInv /\ QuicNext => AttemptsCounted'
  <1> SUFFICES ASSUME QuicInv, QuicNext, NEW p \in Queries PROVE Counted(p)'
    BY DEF AttemptsCounted
  <1> USE DEF QuicInv, QuicTypeOK, AttemptsCounted, Counted, SentBefore, Query
  <1>l. \A c \in QuicConns : link[c].answered /\ ~link[c].pooled =>
            link'[c].answered /\ ~link'[c].pooled
    BY LinksOnlyAge DEF OnlyAges, NewLinksUnused
  <1>u. ASSUME query'[p] = query[p] PROVE Counted(p)'
    BY <1>u, <1>l
  <1>q. ASSUME NEW q \in Queries,
               \/ Ask(q) \/ Lease(q) \/ Connect(q) \/ SendQuery(q) \/ Answered(q)
               \/ StreamFails(q) \/ Withdraw(q)
        PROVE  Counted(p)'
    <2>0. CASE p # q
      <3>1. query'[p] = query[p]
        BY <1>q, <2>0, Zenon DEF Ask, Lease, Connect, SendQuery, Answered, StreamFails, Withdraw
      <3> QED
        BY <1>u, <3>1
    <2>i. ASSUME query'[p] = IdleQuery PROVE Counted(p)'
      BY <2>i DEF IdleQuery
    <2>1. CASE p = q /\ Ask(q)
      BY <2>1 DEF Ask, IdleQuery
    <2>2. CASE p = q /\ Lease(q)
      BY <2>2, <1>l DEF Lease
    <2>3. CASE p = q /\ Connect(q)
      <3>1. PICK d : query' = [query EXCEPT ![q].at = "leased", ![q].link = d]
        BY <2>3, Zenon DEF Connect
      <3>2. query[q].at = "acquire"
        BY <2>3 DEF Connect
      <3> QED
        BY <2>3, <1>l, <3>1, <3>2
    <2>4. CASE p = q /\ SendQuery(q)
      BY <2>4 DEF SendQuery
    <2>5. CASE p = q /\ (Answered(q) \/ Withdraw(q))
      BY <2>5, <2>i DEF Answered, Withdraw
    <2>6. CASE p = q /\ StreamFails(q)
      <3> DEFINE c == query[q].link
      <3>1. PICK closing \in Closings(q) :
                /\ link' = [link EXCEPT ![c].pooled = @ /\ ~closing]
                /\ query' = [query EXCEPT ![q] =
                        IF RetryAllowed(q, closing)
                        THEN [@ EXCEPT !.at = "acquire", !.link = Nobody, !.fresh = TRUE,
                                       !.prev = IF query[q].at = "sent" THEN c ELSE Nobody]
                        ELSE IdleQuery]
        BY <2>6, Zenon DEF StreamFails
      <3>2. CASE ~RetryAllowed(q, closing)
        BY <2>6, <2>i, <3>1, <3>2
      <3>3. CASE RetryAllowed(q, closing)
        <4>1. c \in QuicConns /\ closing /\ link[c].answered /\ ~query[q].fresh /\ q \notin Changes
          BY <2>6, <3>3 DEF StreamFails, RetryAllowed, CallsOnTheirRuntime, OnItsRuntime
        <4>2. link'[c].answered /\ ~link'[c].pooled
          BY <3>1, <4>1 DEF Link
        <4>3. query'[q] = [query[q] EXCEPT !.at = "acquire", !.link = Nobody, !.fresh = TRUE,
                                    !.prev = IF query[q].at = "sent" THEN c ELSE Nobody]
          BY <3>1, <3>3
        <4>4. /\ query'[q].at = "acquire" /\ query'[q].fresh
              /\ query'[q].sends = query[q].sends
              /\ query'[q].prev = IF query[q].at = "sent" THEN c ELSE Nobody
          BY <4>3
        <4>5. query[q].sends = IF query[q].at = "sent" THEN 1 ELSE 0
          BY <4>1
        <4>6. SentBefore(q)' = query[q].sends
          BY <4>4
        <4> QED
          BY <2>6, <4>1, <4>2, <4>4, <4>5, <4>6
      <3> QED
        BY <3>2, <3>3
    <2> QED
      BY <1>q, <2>0, <2>1, <2>2, <2>3, <2>4, <2>5, <2>6
  <1>c. ASSUME NEW c \in QuicConns, CloseLink(c) PROVE Counted(p)'
    BY <1>c, <1>u DEF CloseLink
  <1>r. ASSUME NEW r \in Runtimes, RuntimeEnds(r) PROVE Counted(p)'
    BY <1>r, <1>u DEF RuntimeEnds, IdleQuery
  <1> QED
    BY <1>q, <1>c, <1>r DEF QuicNext

(* The invariant of the QUIC backends is inductive.                         *)
LEMMA QuicStep == QuicInv /\ QuicNext => QuicInv'
  <1> SUFFICES ASSUME QuicInv, QuicNext PROVE QuicInv'
    OBVIOUS
  <1>1. NewLinksUnused'
    BY LinksOnlyAge DEF OnlyAges, NewLinksUnused
  <1> QED
    BY <1>1, QuicTypeStep, RuntimeStep, AttemptStep DEF QuicInv

-----------------------------------------------------------------------------
(* No call has been made and no connection opened.                          *)
LEMMA DohInitInv == DohInit => DohInv
  <1> SUFFICES ASSUME DohInit PROVE DohInv
    OBVIOUS
  <1> USE DohAssumption DEF DohInit, Gens
  <1>1. DohTypeOK
    BY DEF DohTypeOK, HttpConn, HttpCall, IdleCall, CallStages
  <1>2. ConnsDated
    BY DEF ConnsDated
  <1>3. ASSUME NEW q \in Calls PROVE Placed(q) /\ HeardOf(q) /\ HttpCounted(q)
    BY DEF Placed, HeardOf, HttpCounted, HttpSentBefore, IdleCall
  <1> QED
    BY <1>1, <1>2, <1>3 DEF DohInv

(* What the steps of a call make of its record is a record of a call.       *)
LEMMA CallEdits ==
  ASSUME NEW r \in HttpCall
  PROVE  /\ \A g \in Gens : [r EXCEPT !.at = "check", !.gen = g] \in HttpCall
         /\ [r EXCEPT !.at = "send"] \in HttpCall
         /\ [r EXCEPT !.at = "gate"] \in HttpCall
         /\ [r EXCEPT !.at = "send", !.wait = "start"] \in HttpCall
         /\ \A c \in HttpConns :
                [r EXCEPT !.at = "await", !.conn = c, !.sends = r.sends + 1] \in HttpCall
         /\ \A b \in BOOLEAN :
                [r EXCEPT !.at = "body", !.wait = "none", !.reused = b] \in HttpCall
         /\ \A b \in BOOLEAN :
                [r EXCEPT !.at = "failed", !.wait = "none", !.retry = b,
                          !.prev = IF r.prev = Nil THEN r.conn ELSE r.prev] \in HttpCall
         /\ [r EXCEPT !.at = "generation", !.retried = TRUE, !.retry = FALSE] \in HttpCall
  <1>1. \A g \in Gens : [r EXCEPT !.at = "check", !.gen = g] \in HttpCall
    BY Zenon DEF HttpCall, CallStages
  <1>2. [r EXCEPT !.at = "send"] \in HttpCall /\ [r EXCEPT !.at = "gate"] \in HttpCall
    BY DEF HttpCall, CallStages
  <1>3. [r EXCEPT !.at = "send", !.wait = "start"] \in HttpCall
    BY Zenon DEF HttpCall, CallStages
  <1>4. ASSUME NEW c \in HttpConns
        PROVE  [r EXCEPT !.at = "await", !.conn = c, !.sends = r.sends + 1] \in HttpCall
    <2>1. ASSUME NEW n \in Nat PROVE [r EXCEPT !.at = "await", !.conn = c, !.sends = n] \in HttpCall
      BY Zenon DEF HttpCall, CallStages
    <2>2. r.sends \in Nat
      BY Zenon DEF HttpCall
    <2>3. r.sends + 1 \in Nat
      BY <2>2
    <2> QED
      BY <2>1, <2>3, Zenon
  <1>5. ASSUME NEW b \in BOOLEAN
        PROVE  [r EXCEPT !.at = "body", !.wait = "none", !.reused = b] \in HttpCall
    BY <1>5, Zenon DEF HttpCall, CallStages
  <1>6. ASSUME NEW b \in BOOLEAN
        PROVE  [r EXCEPT !.at = "failed", !.wait = "none", !.retry = b,
                         !.prev = IF r.prev = Nil THEN r.conn ELSE r.prev] \in HttpCall
    BY <1>6, Zenon DEF HttpCall, CallStages
  <1>7. [r EXCEPT !.at = "generation", !.retried = TRUE, !.retry = FALSE] \in HttpCall
    BY Zenon DEF HttpCall, CallStages
  <1> QED
    BY <1>1, <1>2, <1>3, <1>4, <1>5, <1>6, <1>7, Zenon

(* Every step of the HTTP backend has types.                                *)
LEMMA DohTypeStep == DohInv /\ DohNext => DohTypeOK'
  <1> SUFFICES ASSUME DohInv, DohNext PROVE DohTypeOK'
    OBVIOUS
  <1> USE DohAssumption DEF DohInv, DohTypeOK
  <1>i. IdleCall \in HttpCall
    BY DEF IdleCall, HttpCall, CallStages
  <1>b. ASSUME NEW q \in Calls, NEW next \in HttpCall, Become(q, next)
        PROVE  call' \in [Calls -> HttpCall]
    BY <1>b DEF Become
  <1>q. ASSUME NEW q \in Calls,
               \/ Begin(q) \/ Admit(q) \/ TakeGeneration(q) \/ Check(q) \/ LockGate(q)
               \/ Enable(q) \/ LookAtFlag(q) \/ Park(q) \/ Wake(q)
               \/ Open(q) \/ Send(q) \/ Headers(q) \/ RequestFails(q) \/ BodyFails(q)
               \/ Again(q) \/ Leave(q)
        PROVE  DohTypeOK'
    <2>r. call[q] \in HttpCall
      BY Zenon
    <2>1. CASE Begin(q) \/ Admit(q)
      <3>1. [IdleCall EXCEPT !.at = "admit"] \in HttpCall
        BY Zenon DEF IdleCall, HttpCall, CallStages
      <3>2. [call[q] EXCEPT !.at = "generation"] \in HttpCall
        BY DEF HttpCall, CallStages
      <3> QED
        BY <2>1, <1>b, <3>1, <3>2 DEF Begin, Admit
    <2>2. CASE TakeGeneration(q)
      <3>1. gen' \in Gens
        BY <2>2 DEF TakeGeneration
      <3>2. [call[q] EXCEPT !.at = "check", !.gen = gen'] \in HttpCall
        BY <2>r, <3>1, CallEdits, Zenon
      <3> QED
        BY <2>2, <1>b, <3>1, <3>2 DEF TakeGeneration
    <2>3. CASE Check(q) \/ LockGate(q)
      <3>1. /\ [call[q] EXCEPT !.at = "send"] \in HttpCall
            /\ [call[q] EXCEPT !.at = "gate"] \in HttpCall
            /\ [call[q] EXCEPT !.at = "send", !.wait = "start"] \in HttpCall
        BY <2>r, CallEdits, Zenon
      <3> QED
        BY <2>3, <1>b, <3>1 DEF Check, LockGate
    <2>4. CASE Enable(q) \/ LookAtFlag(q) \/ Park(q) \/ Wake(q)
      <3>1. /\ [call[q] EXCEPT !.wait = "registered", !.notified = FALSE] \in HttpCall
            /\ \A w \in {"none", "looked", "parked", "start"} :
                    [call[q] EXCEPT !.wait = w] \in HttpCall
        BY Zenon DEF HttpCall
      <3> QED
        BY <2>4, <1>b, <3>1 DEF Enable, LookAtFlag, Park, Wake
    <2>5. CASE Open(q)
      <3>1. call[q].gen \in Gens \cup {0}
        BY DEF HttpCall
      <3>2. \A h2 \in BOOLEAN : [at |-> "open", gen |-> call[q].gen, by |-> q, h2 |-> h2,
                                 answered |-> FALSE] \in HttpConn
        BY <3>1 DEF HttpConn
      <3> QED
        BY <2>5, <3>2 DEF Open
    <2>6. CASE Send(q)
      <3>1. ASSUME NEW c \in HttpConns
            PROVE  [call[q] EXCEPT !.at = "await", !.conn = c, !.sends = @ + 1] \in HttpCall
        BY <2>r, CallEdits, Zenon
      <3> QED
        BY <2>6, <1>b, <3>1, Zenon DEF Send
    <2>7. CASE Headers(q)
      <3> DEFINE c == call[q].conn
      <3>1. c \in HttpConns
        BY <2>7 DEF Headers, Placed
      <3>a. conn[c].answered \in BOOLEAN
        BY <3>1 DEF HttpConn
      <3>2. [call[q] EXCEPT !.at = "body", !.wait = "none", !.reused = conn[c].answered] \in HttpCall
        BY <2>r, <3>a, CallEdits, Zenon
      <3>b. conn' = [conn EXCEPT ![c].answered = TRUE]
        BY <2>7, Zenon DEF Headers
      <3>c. ASSUME NEW r \in HttpConn PROVE [r EXCEPT !.answered = TRUE] \in HttpConn
        BY <3>c, Zenon DEF HttpConn
      <3>3. conn' \in [HttpConns -> HttpConn]
        <4> HIDE DEF c
        <4>1. [conn[c] EXCEPT !.answered = TRUE] \in HttpConn
          BY <3>1, <3>c, Zenon
        <4> QED
          BY <3>1, <3>b, <4>1
      <3> QED
        BY <2>7, <1>b, <3>2, <3>3 DEF Headers
    <2>8. CASE RequestFails(q) \/ BodyFails(q)
      <3>1. \A retry \in BOOLEAN : Failed(q, retry) \in HttpCall
        BY <2>r, CallEdits, Zenon DEF Failed
      <3>2. call[q].conn \in HttpConns
        BY <2>8 DEF RequestFails, BodyFails, Placed
      <3>3. \A level \in Levels(q) :
                /\ (level /\ FailedOnAnsweringConnection(q)) \in BOOLEAN
                /\ (level /\ call[q].reused) \in BOOLEAN
        OBVIOUS
      <3>4. PICK retry \in BOOLEAN : Become(q, Failed(q, retry))
        BY <2>8, <3>3, Zenon DEF RequestFails, BodyFails
      <3> QED
        BY <2>8, <1>b, <3>1, <3>4 DEF RequestFails, BodyFails
    <2>9. CASE Again(q)
      <3>1. [call[q] EXCEPT !.at = "generation", !.retried = TRUE, !.retry = FALSE] \in HttpCall
        BY <2>r, CallEdits, Zenon
      <3> QED
        BY <2>9, <1>b, <3>1 DEF Again
    <2>10. CASE Leave(q)
      <3>1. conn' \in [HttpConns -> HttpConn]
        BY <2>10 DEF Leave, HttpConn
      <3> QED
        BY <2>10, <1>b, <1>i, <3>1 DEF Leave
    <2> QED
      BY <1>q, <2>1, <2>2, <2>3, <2>4, <2>5, <2>6, <2>7, <2>8, <2>9, <2>10
  <1>c. ASSUME NEW c \in HttpConns, Flag(c) \/ NotifyWaiters(c) \/ Close(c)
        PROVE  DohTypeOK'
    <2>1. CASE Flag(c)
      <3>1. \A at \in {"ready", "flagged"} : [conn[c] EXCEPT !.at = at, !.by = Nil] \in HttpConn
        BY Zenon DEF HttpConn
      <3>a. conn' \in [HttpConns -> HttpConn]
        BY <2>1, <3>1, Zenon DEF Flag
      <3>2. http1' \in [Gens -> BOOLEAN]
        BY <2>1, Zenon DEF Flag
      <3> QED
        BY <2>1, <3>a, <3>2 DEF Flag
    <2>2. CASE NotifyWaiters(c)
      <3>1. conn' \in [HttpConns -> HttpConn]
        BY <2>2 DEF NotifyWaiters, HttpConn
      <3>2. \A q \in Calls : [call[q] EXCEPT !.notified = TRUE] \in HttpCall
        BY Zenon DEF HttpCall
      <3> QED
        BY <2>2, <3>1, <3>2 DEF NotifyWaiters
    <2>3. CASE Close(c)
      BY <2>3 DEF Close, HttpConn
    <2> QED
      BY <1>c, <2>1, <2>2, <2>3
  <1> QED
    BY <1>q, <1>c DEF DohNext

(* What no step does to a connection once it is opened: change its          *)
(* generation or its protocol, forget that it answered or open it again.    *)
ConnOnlyAges(c) ==
    /\ conn[c].at # "new" =>
        conn'[c].at # "new" /\ conn'[c].gen = conn[c].gen /\ conn'[c].h2 = conn[c].h2
    /\ conn[c].answered => conn'[c].answered
    /\ conn[c].at = "closed" => conn'[c].at = "closed"
    /\ IF conn'[c].at = "new" THEN ~conn'[c].answered ELSE conn'[c].gen \in Gens

LEMMA ConnsOnlyAge == DohInv /\ DohNext => \A c \in HttpConns : ConnOnlyAges(c)
  <1> SUFFICES ASSUME DohInv, DohNext, NEW d \in HttpConns PROVE ConnOnlyAges(d)
    OBVIOUS
  <1> USE DEF DohInv, DohTypeOK, ConnsDated, HttpConn, ConnOnlyAges
  <1>u. ASSUME UNCHANGED conn PROVE ConnOnlyAges(d)
    BY <1>u
  <1>q. ASSUME NEW q \in Calls,
               \/ Begin(q) \/ Admit(q) \/ TakeGeneration(q) \/ Check(q) \/ LockGate(q)
               \/ Enable(q) \/ LookAtFlag(q) \/ Park(q) \/ Wake(q)
               \/ Open(q) \/ Send(q) \/ Headers(q) \/ RequestFails(q) \/ BodyFails(q)
               \/ Again(q) \/ Leave(q)
        PROVE  ConnOnlyAges(d)
    <2>1. CASE \/ Begin(q) \/ Admit(q) \/ TakeGeneration(q) \/ Check(q) \/ LockGate(q)
               \/ Enable(q) \/ LookAtFlag(q) \/ Park(q) \/ Wake(q)
               \/ Send(q) \/ RequestFails(q) \/ BodyFails(q) \/ Again(q)
      <3>1. UNCHANGED conn
        BY <2>1, Zenon DEF Begin, Admit, TakeGeneration, Check, LockGate, Enable, LookAtFlag, Park, Wake,
                    Send, RequestFails, BodyFails, Again
      <3> QED
        BY <1>u, <3>1
    <2>2. CASE Open(q)
      <3> DEFINE new == {c \in HttpConns : conn[c].at = "new"}
                 e == CHOOSE c \in new : TRUE
      <3>1. e \in HttpConns /\ conn[e].at = "new"
        BY <2>2 DEF Open
      <3>2. PICK h2 \in BOOLEAN :
                conn' = [conn EXCEPT ![e] = [at |-> "open", gen |-> call[q].gen, by |-> q,
                                             h2 |-> h2, answered |-> FALSE]]
        BY <2>2, Zenon DEF Open
      <3>3. call[q].gen \in Gens
        BY <2>2 DEF Open, Placed
      <3> HIDE DEF e
      <3> QED
        BY <3>1, <3>2, <3>3
    <2>3. CASE Headers(q)
      BY <2>3 DEF Headers, Placed
    <2>4. CASE Leave(q)
      BY <2>4 DEF Leave
    <2> QED
      BY <1>q, <2>1, <2>2, <2>3, <2>4, Zenon
  <1>c. ASSUME NEW c \in HttpConns, Flag(c) \/ NotifyWaiters(c) \/ Close(c)
        PROVE  ConnOnlyAges(d)
    BY <1>c DEF Flag, NotifyWaiters, Close
  <1> QED
    BY <1>q, <1>c, Zenon DEF DohNext

(* The stages of a call follow each other: the gate is passed with a        *)
(* generation, a request is sent on a connection, and its headers or its    *)
(* failure end the wait for the flag.                                       *)
LEMMA PlacedStep == DohInv /\ DohNext => \A q \in Calls : Placed(q)'
  <1> SUFFICES ASSUME DohInv, DohNext, NEW p \in Calls PROVE Placed(p)'
    OBVIOUS
  <1> USE DEF DohInv, DohTypeOK, HttpCall, Placed
  <1>q. ASSUME NEW q \in Calls,
               \/ Begin(q) \/ Admit(q) \/ TakeGeneration(q) \/ Check(q) \/ LockGate(q)
               \/ Enable(q) \/ LookAtFlag(q) \/ Park(q) \/ Wake(q)
               \/ Open(q) \/ Send(q) \/ Headers(q) \/ RequestFails(q) \/ BodyFails(q)
               \/ Again(q) \/ Leave(q)
        PROVE  Placed(p)'
    <2> USE DEF Become
    <2>1. CASE Begin(q) \/ Leave(q)
      BY <2>1 DEF Begin, Leave, IdleCall
    <2>2. CASE Admit(q)
      BY <2>2 DEF Admit
    <2>a. CASE Check(q)
      BY <2>a DEF Check
    <2>b. CASE LockGate(q)
      <3>1. call[q].at = "gate"
        BY <2>b DEF LockGate
      <3>2. CASE call' = [call EXCEPT ![q] = [call[q] EXCEPT !.at = "send"]]
        BY <3>1, <3>2
      <3>3. CASE call' = [call EXCEPT ![q] = [call[q] EXCEPT !.at = "send", !.wait = "start"]]
        BY <3>1, <3>3
      <3> QED
        BY <2>b, <3>2, <3>3 DEF LockGate
    <2>3. CASE TakeGeneration(q)
      BY <2>3 DEF TakeGeneration
    <2>4. CASE Enable(q)
      BY <2>4 DEF Enable
    <2>c. CASE LookAtFlag(q)
      BY <2>c DEF LookAtFlag
    <2>d. CASE Park(q)
      BY <2>d DEF Park
    <2>e. CASE Wake(q)
      BY <2>e DEF Wake
    <2>5. CASE Open(q)
      BY <2>5 DEF Open
    <2>6. CASE Send(q)
      BY <2>6 DEF Send
    <2>7. CASE Headers(q)
      BY <2>7 DEF Headers
    <2>8. CASE RequestFails(q) \/ BodyFails(q)
      <3>1. PICK retry : Become(q, Failed(q, retry))
        BY <2>8 DEF RequestFails, BodyFails
      <3>2. call[q].conn \in HttpConns
        BY <2>8 DEF RequestFails, BodyFails
      <3> QED
        BY <3>1, <3>2 DEF Failed
    <2>9. CASE Again(q)
      BY <2>9 DEF Again
    <2> QED
      BY <1>q, <2>1, <2>2, <2>a, <2>b, <2>3, <2>4, <2>c, <2>d, <2>e, <2>5, <2>6, <2>7, <2>8, <2>9, Zenon
  <1>c. ASSUME NEW c \in HttpConns, Flag(c) \/ NotifyWaiters(c) \/ Close(c) PROVE Placed(p)'
    BY <1>c DEF Flag, NotifyWaiters, Close
  <1> QED
    BY <1>q, <1>c, Zenon DEF DohNext

(* A call that has looked at the flag is registered already, so that the    *)
(* connection that sets the flag notifies it.                               *)
LEMMA HeardStep == DohInv /\ DohNext => \A q \in Calls : HeardOf(q)'
  <1> SUFFICES ASSUME DohInv, DohNext, NEW p \in Calls,
                      call'[p].wait \in {"looked", "parked"}, http1'[call'[p].gen]
               PROVE  \/ call'[p].notified
                      \/ \E c \in HttpConns : conn'[c].gen = call'[p].gen /\ conn'[c].at = "flagged"
    BY DEF HeardOf
  <1> DEFINE Heard == \/ call'[p].notified
                      \/ \E c \in HttpConns : conn'[c].gen = call'[p].gen /\ conn'[c].at = "flagged"
  <1> USE DEF DohInv, DohTypeOK
  <1>k. ASSUME http1' = http1, call'[p].gen = call[p].gen, call'[p].notified = call[p].notified,
               call[p].wait \in {"looked", "parked"},
               \A c \in HttpConns : conn[c].at = "flagged" => conn'[c].at = "flagged"
        PROVE  Heard
    <2>1. call[p].notified \/ \E c \in HttpConns : conn[c].gen = call[p].gen /\ conn[c].at = "flagged"
      BY <1>k DEF HeardOf
    <2>2. \A c \in HttpConns : conn[c].at = "flagged" => conn'[c].gen = conn[c].gen
      BY ConnsOnlyAge DEF ConnOnlyAges
    <2> QED
      BY <1>k, <2>1, <2>2
  <1>q. ASSUME NEW q \in Calls,
               \/ Begin(q) \/ Admit(q) \/ TakeGeneration(q) \/ Check(q) \/ LockGate(q)
               \/ Enable(q) \/ LookAtFlag(q) \/ Park(q) \/ Wake(q)
               \/ Open(q) \/ Send(q) \/ Headers(q) \/ RequestFails(q) \/ BodyFails(q)
               \/ Again(q) \/ Leave(q)
        PROVE  Heard
    <2>f. http1' = http1 /\ \A c \in HttpConns : conn[c].at = "flagged" => conn'[c].at = "flagged"
      <3>1. CASE Open(q)
        <4> DEFINE new == {c \in HttpConns : conn[c].at = "new"}
                   e == CHOOSE c \in new : TRUE
        <4>1. e \in HttpConns /\ conn[e].at = "new"
          BY <3>1 DEF Open
        <4>2. \E r : conn' = [conn EXCEPT ![e] = r]
          BY <3>1, Zenon DEF Open
        <4> HIDE DEF e
        <4> QED
          BY <3>1, <4>1, <4>2 DEF Open
      <3>2. CASE Headers(q) \/ Leave(q)
        BY <3>2 DEF Headers, Leave, HttpConn
      <3>3. CASE ~Open(q) /\ ~Headers(q) /\ ~Leave(q)
        BY <1>q, <3>3, Zenon
           DEF Begin, Admit, TakeGeneration, Check, LockGate, Enable, LookAtFlag, Park, Wake, Send,
               RequestFails, BodyFails, Again
      <3> QED
        BY <3>1, <3>2, <3>3
    <2>o. CASE p # q \/ Open(q)
      <3>1. call'[p] = call[p]
        BY <1>q, <2>o, Zenon
           DEF Become, Begin, Admit, TakeGeneration, Check, LockGate, Enable, LookAtFlag, Park,
               Wake, Open, Send, Headers, RequestFails, BodyFails, Again, Leave
      <3> QED
        BY <1>k, <2>f, <3>1
    <2>1. CASE p = q /\ (Begin(q) \/ Leave(q))
      BY <2>1 DEF Begin, Leave, Become, IdleCall
    <2>2. CASE p = q /\ (Admit(q) \/ TakeGeneration(q) \/ Check(q) \/ LockGate(q))
      <3>1. call[q].wait = "none"
        BY <2>2 DEF Placed, Admit, TakeGeneration, Check, LockGate
      <3> QED
        BY <2>2, <3>1, Zenon DEF Admit, TakeGeneration, Check, LockGate, Become, HttpCall
    <2>3. CASE p = q /\ (Enable(q) \/ Wake(q))
      <3>1. \/ call'[p] = [call[p] EXCEPT !.wait = "registered", !.notified = FALSE]
            \/ call'[p] = [call[p] EXCEPT !.wait = "start"]
        BY <2>3 DEF Enable, Wake, Become
      <3>2. call'[p].wait \in {"registered", "start"}
        BY <3>1, Zenon DEF HttpCall
      <3> QED
        BY <3>2
    <2>4. CASE p = q /\ LookAtFlag(q)
      BY <2>4, <2>f DEF LookAtFlag, Become, HttpCall
    <2>5. CASE p = q /\ Park(q)
      <3>1. call'[p] = [call[p] EXCEPT !.wait = "parked"] /\ call[p].wait = "looked"
        BY <2>5 DEF Park, Become
      <3>2. call'[p].gen = call[p].gen /\ call'[p].notified = call[p].notified
        BY <3>1 DEF HttpCall
      <3> QED
        BY <1>k, <2>f, <3>1, <3>2
    <2>6. CASE p = q /\ Send(q)
      <3>1. PICK c : call'[p] = [call[p] EXCEPT !.at = "await", !.conn = c, !.sends = @ + 1]
        BY <2>6, Zenon DEF Send, Become
      <3>2. /\ call'[p].gen = call[p].gen /\ call'[p].notified = call[p].notified
            /\ call'[p].wait = call[p].wait
        BY <3>1 DEF HttpCall
      <3> QED
        BY <1>k, <2>f, <3>2
    <2>7. CASE p = q /\ (Headers(q) \/ RequestFails(q) \/ BodyFails(q))
      <3>1. \/ \E r : call'[p] = [call[p] EXCEPT !.at = "body", !.wait = "none", !.reused = r]
            \/ \E r : call'[p] = Failed(p, r)
        BY <2>7, Zenon DEF Headers, RequestFails, BodyFails, Become
      <3>2. call'[p].wait = "none"
        BY <3>1, Zenon DEF Failed, HttpCall
      <3> QED
        BY <3>2
    <2>8. CASE p = q /\ Again(q)
      <3>1. call[q].wait = "none"
        BY <2>8 DEF Placed, Again
      <3> QED
        BY <2>8, <3>1 DEF Again, Become, HttpCall
    <2> QED
      BY <1>q, <2>o, <2>1, <2>2, <2>3, <2>4, <2>5, <2>6, <2>7, <2>8, Zenon
  <1>c. ASSUME NEW c \in HttpConns, Flag(c) \/ NotifyWaiters(c) \/ Close(c) PROVE Heard
    <2>1. CASE Flag(c)
      <3>1. call' = call
        BY <2>1 DEF Flag
      <3>2. CASE conn[c].h2 \/ call[p].gen # conn[c].gen
        <4>1. http1'[call[p].gen] = http1[call[p].gen]
          BY <2>1, <3>2 DEF Flag, Placed
        <4> QED
          BY <2>1, <3>1, <4>1 DEF Flag, HeardOf, HttpConn
      <3>3. CASE ~conn[c].h2 /\ call[p].gen = conn[c].gen
        BY <2>1, <3>1, <3>3 DEF Flag, HttpConn
      <3> QED
        BY <3>2, <3>3
    <2>2. CASE NotifyWaiters(c)
      <3>1. CASE call[p].gen = conn[c].gen
        BY <2>2, <3>1 DEF NotifyWaiters, Registered, HttpCall
      <3>2. CASE call[p].gen # conn[c].gen
        BY <2>2, <3>2 DEF NotifyWaiters, HeardOf, HttpConn
      <3> QED
        BY <3>1, <3>2
    <2>3. CASE Close(c)
      BY <2>3, <1>k DEF Close
    <2> QED
      BY <1>c, <2>1, <2>2, <2>3
  <1> QED
    BY <1>q, <1>c DEF DohNext

(* A request is sent again only by resolve: once, not for an update, and    *)
(* after a connection that had answered failed under it.                    *)
LEMMA CountedStep == DohInv /\ DohNext => \A q \in Calls : HttpCounted(q)'
  <1> SUFFICES ASSUME DohInv, DohNext, NEW p \in Calls PROVE HttpCounted(p)'
    OBVIOUS
  <1> USE DohAssumption DEF DohInv, DohTypeOK, HttpCall, HttpCounted, HttpSentBefore
  <1>s. \A c : Stale(c) => Stale(c)'
    BY ConnsOnlyAge DEF ConnOnlyAges, Stale, ConnsDated
  <1>a. \A c \in HttpConns : conn[c].answered => conn'[c].answered
    BY ConnsOnlyAge DEF ConnOnlyAges
  <1>k. ASSUME call'[p].at = call[p].at, call'[p].retried = call[p].retried,
               call'[p].sends = call[p].sends, call'[p].prev = call[p].prev,
               call'[p].retry = call[p].retry, call'[p].reused = call[p].reused,
               call'[p].conn = call[p].conn
        PROVE  HttpCounted(p)'
    BY <1>k, <1>s, <1>a DEF Placed
  <1>m. ASSUME call[p].at \notin {"await", "body", "failed"},
               call'[p].at \notin {"await", "body", "failed"},
               call'[p].retried = call[p].retried, call'[p].sends = call[p].sends,
               call'[p].prev = call[p].prev
        PROVE  HttpCounted(p)'
    BY <1>m, <1>s
  <1>q. ASSUME NEW q \in Calls,
               \/ Begin(q) \/ Admit(q) \/ TakeGeneration(q) \/ Check(q) \/ LockGate(q)
               \/ Enable(q) \/ LookAtFlag(q) \/ Park(q) \/ Wake(q)
               \/ Open(q) \/ Send(q) \/ Headers(q) \/ RequestFails(q) \/ BodyFails(q)
               \/ Again(q) \/ Leave(q)
        PROVE  HttpCounted(p)'
    <2>o. CASE p # q \/ Open(q)
      <3>1. call'[p] = call[p]
        BY <1>q, <2>o, Zenon
           DEF Become, Begin, Admit, TakeGeneration, Check, LockGate, Enable, LookAtFlag, Park,
               Wake, Open, Send, Headers, RequestFails, BodyFails, Again, Leave
      <3> QED
        BY <1>k, <3>1
    <2>1. CASE p = q /\ (Begin(q) \/ Leave(q))
      BY <2>1 DEF Begin, Leave, Become, IdleCall
    <2>2. CASE p = q /\ (Admit(q) \/ TakeGeneration(q) \/ Check(q) \/ LockGate(q))
      <3> HIDE DEF HttpCounted, HttpSentBefore
      <3>1. /\ call[p].at \notin {"await", "body", "failed"}
            /\ call'[p].at \notin {"await", "body", "failed"}
            /\ call'[p].retried = call[p].retried /\ call'[p].sends = call[p].sends
            /\ call'[p].prev = call[p].prev
        <4>1. CASE Admit(q)
          BY <2>2, <4>1 DEF Admit, Become
        <4>2. CASE TakeGeneration(q)
          BY <2>2, <4>2 DEF TakeGeneration, Become
        <4>3. CASE Check(q)
          BY <2>2, <4>3 DEF Check, Become
        <4>4. CASE LockGate(q)
          <5>1. /\ call[p].at = "gate"
                /\ \/ call'[p] = [call[p] EXCEPT !.at = "send"]
                   \/ call'[p] = [call[p] EXCEPT !.at = "send", !.wait = "start"]
            BY <2>2, <4>4 DEF LockGate, Become
          <5>2. call[p] \in HttpCall
            BY Zenon
          <5> HIDE DEF DohInv, DohTypeOK
          <5>3. CASE call'[p] = [call[p] EXCEPT !.at = "send"]
            BY <5>1, <5>2, <5>3
          <5>4. CASE call'[p] = [call[p] EXCEPT !.at = "send", !.wait = "start"]
            BY <5>1, <5>2, <5>4
          <5> QED
            BY <5>1, <5>3, <5>4
        <4> QED
          BY <2>2, <4>1, <4>2, <4>3, <4>4
      <3> QED
        BY <1>m, <3>1
    <2>3. CASE p = q /\ (Enable(q) \/ LookAtFlag(q) \/ Park(q) \/ Wake(q))
      <3> HIDE DEF HttpCounted, HttpSentBefore
      <3>1. \/ call'[p] = [call[p] EXCEPT !.wait = "registered", !.notified = FALSE]
            \/ \E w : call'[p] = [call[p] EXCEPT !.wait = w]
        <4>1. CASE Enable(q)
          BY <2>3, <4>1 DEF Enable, Become
        <4>2. CASE LookAtFlag(q)
          BY <2>3, <4>2, Zenon DEF LookAtFlag, Become
        <4>3. CASE Park(q) \/ Wake(q)
          BY <2>3, <4>3, Zenon DEF Park, Wake, Become
        <4> QED
          BY <2>3, <4>1, <4>2, <4>3, Zenon
      <3>2. /\ call'[p].at = call[p].at /\ call'[p].retried = call[p].retried
            /\ call'[p].sends = call[p].sends /\ call'[p].prev = call[p].prev
            /\ call'[p].retry = call[p].retry /\ call'[p].reused = call[p].reused
            /\ call'[p].conn = call[p].conn
        BY <3>1, Zenon
      <3> QED
        BY <1>k, <3>2
    <2>4. CASE p = q /\ Send(q)
      BY <2>4, <1>s DEF Send, Become
    <2>5. CASE p = q /\ Headers(q)
      <3>1. /\ call'[p] = [call[p] EXCEPT !.at = "body", !.wait = "none",
                                          !.reused = conn[call[p].conn].answered]
            /\ call[p].at = "await"
        BY <2>5 DEF Headers, Become
      <3>2. conn[call[p].conn].answered => conn'[call[p].conn].answered
        BY <1>a, <3>1 DEF Placed
      <3> QED
        BY <1>s, <3>1, <3>2
    <2>6. CASE p = q /\ (RequestFails(q) \/ BodyFails(q))
      <3> DEFINE c == call[p].conn
      <3>1. PICK retry \in BOOLEAN :
                /\ call'[p] = Failed(p, retry)
                /\ retry => conn[c].answered /\ (conn[c].at = "closed" \/ conn[c].h2)
        <4>1. CASE RequestFails(q)
          BY <2>6, <4>1, Zenon DEF RequestFails, Become, Levels, FailedOnAnsweringConnection
        <4>2. CASE BodyFails(q)
          BY <2>6, <4>2, Zenon DEF BodyFails, Become, Levels
        <4> QED
          BY <2>6, <4>1, <4>2
      <3>2. call[p].at \in {"await", "body"} /\ c \in HttpConns
        BY <2>6 DEF RequestFails, BodyFails, Placed
      <3>3. /\ call'[p].at = "failed" /\ call'[p].sends = call[p].sends
            /\ call'[p].retried = call[p].retried /\ call'[p].retry = retry
            /\ call'[p].prev = IF call[p].prev = Nil THEN c ELSE call[p].prev
        BY <3>1 DEF Failed
      <3>4. call[p].retried => call'[p].prev = call[p].prev
        BY <3>3 DEF Stale
      <3>5. ~call[p].retried => call'[p].prev = c
        BY <3>2, <3>3
      <3>6. retry => Stale(c)
        BY <3>1, <3>2 DEF Stale
      <3> QED
        BY <1>s, <3>2, <3>3, <3>4, <3>5, <3>6
    <2>7. CASE p = q /\ Again(q)
      BY <2>7, <1>s DEF Again, Become
    <2> QED
      BY <1>q, <2>o, <2>1, <2>2, <2>3, <2>4, <2>5, <2>6, <2>7, Zenon
  <1>c. ASSUME NEW c \in HttpConns, Flag(c) \/ NotifyWaiters(c) \/ Close(c)
        PROVE  HttpCounted(p)'
    <2>1. call'[p] = call[p] \/ call'[p] = [call[p] EXCEPT !.notified = TRUE]
      BY <1>c, Zenon DEF Flag, NotifyWaiters, Close
    <2> QED
      BY <1>k, <2>1
  <1> QED
    BY <1>q, <1>c, Zenon DEF DohNext

(* The invariant of the HTTP backend is inductive.                          *)
LEMMA DohStep == DohInv /\ DohNext => DohInv'
  <1> SUFFICES ASSUME DohInv, DohNext PROVE DohInv'
    OBVIOUS
  <1>1. ConnsDated'
    BY ConnsOnlyAge DEF ConnOnlyAges, ConnsDated
  <1> QED
    BY <1>1, DohTypeStep, PlacedStep, HeardStep, CountedStep DEF DohInv

-----------------------------------------------------------------------------
(* What the invariants say to the callers of the backends.                  *)
LEMMA QuicInvImplies == QuicInv => OnLiveRuntime /\ QuicSentAgainIfStale
  <1> SUFFICES ASSUME QuicInv PROVE OnLiveRuntime /\ QuicSentAgainIfStale
    OBVIOUS
  <1>1. OnLiveRuntime
    BY DEF QuicInv, CallsOnTheirRuntime, OnItsRuntime, OnLiveRuntime
  <1>2. QuicSentAgainIfStale
    BY DEF QuicInv, QuicTypeOK, Query, AttemptsCounted, Counted, SentBefore, QuicSentAgainIfStale
  <1> QED
    BY <1>1, <1>2

LEMMA DohInvImplies == DohInv => GateLetsGo /\ DohSentAgainIfStale
  <1> SUFFICES ASSUME DohInv PROVE GateLetsGo /\ DohSentAgainIfStale
    OBVIOUS
  <1>1. GateLetsGo
    BY DEF DohInv, HeardOf, GateLetsGo
  <1>2. DohSentAgainIfStale
    BY DEF DohInv, DohTypeOK, HttpCall, HttpCounted, HttpSentBefore, Stale, DohSentAgainIfStale
  <1> QED
    BY <1>1, <1>2

(* Steps of another backend.                                                *)
LEMMA QuicInvKept ==
  ASSUME QuicInv, UNCHANGED quicVars
  PROVE  QuicInv'
  BY DEF QuicInv, QuicTypeOK, CallsOnTheirRuntime, OnItsRuntime, NewLinksUnused, AttemptsCounted,
     Counted, SentBefore, quicVars

LEMMA DohInvKept ==
  ASSUME DohInv, UNCHANGED dohVars
  PROVE  DohInv'
  <1>1. gen' = gen /\ http1' = http1 /\ conn' = conn /\ call' = call
    BY DEF dohVars
  <1>2. DohTypeOK' /\ ConnsDated'
    BY <1>1, Zenon DEF DohInv, DohTypeOK, ConnsDated
  <1>3. ASSUME NEW q \in Calls PROVE Placed(q)' /\ HeardOf(q)' /\ HttpCounted(q)'
    <2>1. Placed(q)'
      BY <1>1, Zenon DEF DohInv, Placed
    <2>2. HeardOf(q)'
      BY <1>1, Zenon DEF DohInv, HeardOf
    <2>3. HttpCounted(q)'
      BY <1>1, Zenon DEF DohInv, HttpCounted, HttpSentBefore, Stale
    <2> QED
      BY <2>1, <2>2, <2>3
  <1> QED
    BY <1>2, <1>3, Zenon DEF DohInv

-----------------------------------------------------------------------------
(* The account of late answers: pending slots, what is owed, the allowance. *)
PendingOf(s) == {i \in Ids : s[i].caller # None}

LEMMA PendingFinite ==
  ASSUME NEW s
  PROVE  IsFiniteSet(PendingOf(s)) /\ Cardinality(PendingOf(s)) \in Nat
  BY IdsFinite, FS_Subset, FS_CardinalityType DEF PendingOf

LEMMA PendingSame ==
  ASSUME NEW s \in [Ids -> Slot], NEW w \in [Ids -> Slot], Kept(s, w)
  PROVE  PendingOf(w) = PendingOf(s) /\ \A i \in PendingOf(w) : w[i] = s[i]
  <1>1. ASSUME NEW i \in Ids
        PROVE  (w[i].caller # None <=> s[i].caller # None) /\ (w[i].caller # None => w[i] = s[i])
    BY SlotKinds, Zenon DEF Kept
  <1> QED
    BY <1>1, Zenon DEF PendingOf

Cleared(s, w, id) == w[id].caller = None /\ \A i \in Ids \ {id} : w[i] = s[i]

LEMMA ClearedIs ==
  ASSUME NEW s \in [Ids -> Slot], NEW id \in Ids, NEW x, x.caller = None
  PROVE  Cleared(s, [s EXCEPT ![id] = x], id)
  BY DEF Cleared

LEMMA PendingCleared ==
  ASSUME NEW s, NEW id \in Ids, NEW w, Cleared(s, w, id)
  PROVE  /\ Cardinality(PendingOf(w)) = IF id \in PendingOf(s) THEN Cardinality(PendingOf(s)) - 1
                                                               ELSE Cardinality(PendingOf(s))
         /\ \A i \in PendingOf(w) : i # id /\ i \in PendingOf(s) /\ w[i] = s[i]
  <1>1. w[id].caller = None /\ \A i \in Ids \ {id} : w[i] = s[i]
    BY Zenon DEF Cleared
  <1>2. PendingOf(w) = PendingOf(s) \ {id}
    BY <1>1 DEF PendingOf
  <1>3. Cardinality(PendingOf(w)) = IF id \in PendingOf(s) THEN Cardinality(PendingOf(s)) - 1
                                                          ELSE Cardinality(PendingOf(s))
    BY <1>2, PendingFinite, FS_RemoveElement, Zenon
  <1>4. \A i \in PendingOf(w) : i # id /\ i \in PendingOf(s) /\ w[i] = s[i]
    BY <1>1, Zenon DEF PendingOf
  <1> QED
    BY <1>3, <1>4, Zenon

(* The account of a connection: the answers owed, the pending queries and   *)
(* the allowance.                                                           *)
Natural(c) ==
    Cardinality(Owed(c)) \in Nat /\ Cardinality(PendingIds(c)) \in Nat /\ slack[c] \in Nat

LEMMA Sizes ==
  ASSUME StreamTypeOK, NEW c \in Conns
  PROVE  /\ Cardinality(Owed(c)) \in Nat /\ Cardinality(PendingIds(c)) \in Nat /\ slack[c] \in Nat
         /\ IsFiniteSet(Owed(c)) /\ IsFiniteSet(PendingIds(c)) /\ PendingIds(c) = PendingOf(slots[c])
         /\ slots[c] \in [Ids -> Slot]
  <1>1. IsFiniteSet(Owed(c)) /\ Cardinality(Owed(c)) \in Nat
    BY AskedIs, CopiesFinite, Zenon
  <1>2. PendingIds(c) = PendingOf(slots[c])
    BY Zenon DEF PendingIds, PendingOf
  <1>3. slack[c] \in Nat /\ slots[c] \in [Ids -> Slot]
    BY DEF StreamTypeOK
  <1> QED
    BY <1>1, <1>2, <1>3, PendingFinite, Zenon

LEMMA AlwaysNatural == StreamTypeOK => \A c \in Conns : Natural(c)
  BY Sizes, Zenon DEF Natural

LEMMA NextNatural == StreamTypeOK' => (\A c \in Conns : Natural(c))'
  BY AlwaysNatural, PTL

LEMMA LeftAsIs ==
  ASSUME StreamTypeOK, StreamTypeOK', NEW c \in Conns, Undisturbed(c), PendingAsked(c)
  PROVE  /\ PendingAsked(c)' /\ Cardinality(Owed(c))' = Cardinality(Owed(c))
         /\ Cardinality(PendingIds(c))' = Cardinality(PendingIds(c)) /\ slack'[c] = slack[c]
  <1>1. /\ slots[c] \in [Ids -> Slot] /\ slots'[c] \in [Ids -> Slot]
        /\ PendingIds(c) = PendingOf(slots[c]) /\ PendingIds(c)' = PendingOf(slots'[c])
    BY Sizes, Zenon DEF PendingIds, PendingOf, StreamTypeOK
  <1>2. Asked(c)' = Asked(c) /\ Kept(slots[c], slots'[c]) /\ slack'[c] = slack[c]
    BY Zenon DEF Undisturbed
  <1>3. PendingIds(c)' = PendingIds(c) /\ \A i \in PendingIds(c)' : slots'[c][i] = slots[c][i]
    BY <1>1, <1>2, PendingSame, Zenon
  <1>4. Owed(c)' = Owed(c)
    BY <1>2, Zenon DEF Owed
  <1>5. PendingAsked(c)'
    BY <1>2, <1>3, Zenon DEF PendingAsked
  <1> QED
    BY <1>2, <1>3, <1>4, <1>5, Zenon

LEMMA OwedGrows ==
  ASSUME StreamTypeOK, StreamTypeOK', NEW c \in Conns, NEW f \in Frame,
         Asked(c)' = [Asked(c) EXCEPT ![f] = @ + 1]
  PROVE  Cardinality(Owed(c))' = Cardinality(Owed(c)) + 1
  <1>1. Asked(c) \in [Frame -> Nat] /\ Owed(c) = Copies(Asked(c))
    BY AskedIs, Zenon
  <1>2. Owed(c)' = Copies(Asked(c)')
    BY Zenon DEF Owed, Copies
  <1>3. PICK b : b = Asked(c)'
    OBVIOUS
  <1>4. b \in [Frame -> Nat]
    BY <1>1, <1>3
  <1> QED
    BY <1>1, <1>2, <1>3, <1>4, OneMoreCopy, Zenon

LEMMA OwedShrinks ==
  ASSUME StreamTypeOK, StreamTypeOK', NEW c \in Conns, NEW f \in Frame, Asked(c)[f] > 0,
         Asked(c)' = [Asked(c) EXCEPT ![f] = @ - 1]
  PROVE  Cardinality(Owed(c))' = Cardinality(Owed(c)) - 1
  <1>1. Asked(c) \in [Frame -> Nat] /\ Owed(c) = Copies(Asked(c))
    BY AskedIs, Zenon
  <1>2. Owed(c)' = Copies(Asked(c)')
    BY Zenon DEF Owed, Copies
  <1>3. PICK b : b = Asked(c)'
    OBVIOUS
  <1>4. b \in [Frame -> Nat]
    BY <1>1, <1>3
  <1> QED
    BY <1>1, <1>2, <1>3, <1>4, OneCopyLess, Zenon

LEMMA FrameQueued ==
  ASSUME StreamTypeOK, StreamTypeOK', NEW c \in Conns, NEW q \in Callers, TakesFrame(c, q),
         PendingAsked(c)
  PROVE  /\ PendingAsked(c)' /\ Cardinality(Owed(c))' = Cardinality(Owed(c)) + 1
         /\ Cardinality(PendingIds(c))' = Cardinality(PendingIds(c)) + 1
  <1>1. PICK id \in Ids, room \in [Ids -> Slot] :
            /\ Kept(slots[c], room) /\ room[id] = Free
            /\ slots'[c] = [room EXCEPT ![id] = Pending(q)]
            /\ Asked(c)' = [Asked(c) EXCEPT ![[id |-> id, q |-> q]] = @ + 1]
    BY Zenon DEF TakesFrame
  <1>2. /\ slots[c] \in [Ids -> Slot]
        /\ PendingIds(c) = PendingOf(slots[c]) /\ PendingIds(c)' = PendingOf(slots'[c])
    BY Sizes, Zenon DEF PendingIds, PendingOf
  <1>3. PICK f \in Frame : f = [id |-> id, q |-> q]
    BY Zenon DEF Frame
  <1>4. Cardinality(Owed(c))' = Cardinality(Owed(c)) + 1
    BY <1>1, <1>3, OwedGrows, Zenon
  <1>5. PendingOf(room) = PendingOf(slots[c]) /\ \A i \in PendingOf(room) : room[i] = slots[c][i]
    BY <1>1, <1>2, PendingSame, Zenon
  <1>6. /\ Cardinality(PendingOf(slots'[c])) = Cardinality(PendingOf(room)) + 1
        /\ \A i \in PendingOf(slots'[c]) : i # id => i \in PendingOf(room) /\ slots'[c][i] = room[i]
        /\ slots'[c][id].caller = q
    <2>1. slots'[c][id] = Pending(q) /\ \A i \in Ids : i # id => slots'[c][i] = room[i]
      BY <1>1
    <2>2. slots'[c][id].caller = q /\ slots'[c][id].caller # None /\ room[id].caller = None
      BY <1>1, <2>1, SlotKinds, Zenon
    <2>3. PendingOf(slots'[c]) = PendingOf(room) \cup {id} /\ id \notin PendingOf(room)
      BY <2>1, <2>2 DEF PendingOf
    <2>4. Cardinality(PendingOf(slots'[c])) = Cardinality(PendingOf(room)) + 1
      BY <2>3, PendingFinite, FS_AddElement, Zenon
    <2>5. ASSUME NEW i \in PendingOf(slots'[c]), i # id
          PROVE  i \in PendingOf(room) /\ slots'[c][i] = room[i]
      BY <2>1, <2>3, <2>5, Zenon DEF PendingOf
    <2> QED
      BY <2>2, <2>4, <2>5
  <1>7. PendingAsked(c)'
    <2> SUFFICES ASSUME NEW i \in PendingOf(slots'[c])
                 PROVE  Asked(c)'[[id |-> i, q |-> slots'[c][i].caller]] > 0
      BY <1>2, Zenon DEF PendingAsked
    <2>1. Asked(c) \in [Frame -> Nat]
      BY AskedIs, Zenon
    <2>2. \A g \in Frame : Asked(c)[g] > 0 => Asked(c)'[g] > 0
      BY <1>1, <1>3, <2>1, SMTT(30)
    <2>3. Asked(c)'[f] > 0
      BY <1>1, <1>3, <2>1, SMTT(30)
    <2>4. CASE i = id
      BY <1>3, <1>6, <2>3, <2>4, Zenon
    <2>5. CASE i # id
      <3>1. i \in PendingIds(c) /\ slots'[c][i] = slots[c][i]
        BY <1>2, <1>5, <1>6, <2>5, Zenon
      <3>2. Asked(c)[[id |-> i, q |-> slots[c][i].caller]] > 0
        BY <3>1, Zenon DEF PendingAsked
      <3>3. i \in Ids /\ slots[c][i] \in Slot /\ slots[c][i].caller # None
        BY <1>2, <3>1 DEF PendingOf
      <3>4. slots[c][i].caller \in Callers
        BY <3>3, SlotCases
      <3>5. [id |-> i, q |-> slots[c][i].caller] \in Frame
        BY <3>3, <3>4 DEF Frame
      <3> QED
        BY <2>2, <3>1, <3>2, <3>5, Zenon
    <2> QED
      BY <2>4, <2>5
  <1> QED
    BY <1>2, <1>4, <1>5, <1>6, <1>7, Zenon

(* An answer, or a cancelled query, clears a slot and leaves the others.    *)
LEMMA StillAsked ==
  ASSUME StreamTypeOK, NEW c \in Conns, PendingAsked(c), NEW id \in Ids,
         \A i \in PendingIds(c)' : i # id /\ i \in PendingIds(c) /\ slots'[c][i] = slots[c][i],
         \A g \in Frame : g.id # id => Asked(c)'[g] = Asked(c)[g]
  PROVE  PendingAsked(c)'
  <1> SUFFICES ASSUME NEW i \in PendingIds(c)'
               PROVE  Asked(c)'[[id |-> i, q |-> slots'[c][i].caller]] > 0
    BY Zenon DEF PendingAsked
  <1>1. i # id /\ i \in PendingIds(c) /\ slots'[c][i] = slots[c][i]
    OBVIOUS
  <1>2. i \in Ids /\ slots[c][i] \in Slot /\ slots[c][i].caller # None
    BY <1>1, Zenon DEF PendingIds, StreamTypeOK
  <1>3. slots[c][i].caller \in Callers
    BY <1>2, SlotCases
  <1>4. PICK g \in Frame : g = [id |-> i, q |-> slots[c][i].caller]
    BY <1>2, <1>3, Zenon DEF Frame
  <1>5. g.id = i
    BY <1>4
  <1>6. Asked(c)[g] > 0
    BY <1>1, <1>4, Zenon DEF PendingAsked
  <1> QED
    BY <1>1, <1>4, <1>5, <1>6, Zenon

LEMMA AnswerRead ==
  ASSUME StreamTypeOK, StreamTypeOK', NEW c \in Conns, NEW f \in Frame, TakesAnswer(c, f),
         PendingAsked(c)
  PROVE  /\ PendingAsked(c)' /\ Cardinality(Owed(c))' = Cardinality(Owed(c)) - 1
         /\ \/ Cardinality(PendingIds(c))' = Cardinality(PendingIds(c)) /\ slack'[c] >= slack[c] - 1
            \/ Cardinality(PendingIds(c))' = Cardinality(PendingIds(c)) - 1 /\ slack'[c] >= slack[c]
  <1>1. /\ Asked(c)[f] > 0 /\ Asked(c)' = [Asked(c) EXCEPT ![f] = @ - 1]
        /\ slots'[c] = [slots[c] EXCEPT ![f.id] = Free]
        /\ slack'[c] >= slack[c] - (IF slots[c][f.id] = Free THEN 1 ELSE 0)
    BY Zenon DEF TakesAnswer
  <1>2. /\ slots[c] \in [Ids -> Slot] /\ slack[c] \in Nat /\ slack'[c] \in Nat
        /\ PendingIds(c) = PendingOf(slots[c]) /\ PendingIds(c)' = PendingOf(slots'[c])
    BY Sizes, Zenon DEF PendingIds, PendingOf, StreamTypeOK
  <1>3. f.id \in Ids
    BY DEF Frame
  <1>4. Cardinality(Owed(c))' = Cardinality(Owed(c)) - 1
    BY <1>1, OwedShrinks, Zenon
  <1>5. /\ Cardinality(PendingOf(slots'[c])) =
                IF f.id \in PendingOf(slots[c]) THEN Cardinality(PendingOf(slots[c])) - 1
                                                ELSE Cardinality(PendingOf(slots[c]))
        /\ \A i \in PendingOf(slots'[c]) :
                i # f.id /\ i \in PendingOf(slots[c]) /\ slots'[c][i] = slots[c][i]
    <2>1. slots'[c] = [slots[c] EXCEPT ![f.id] = Free] /\ Free.caller = None
      BY <1>1, SlotKinds, Zenon
    <2>2. Cleared(slots[c], [slots[c] EXCEPT ![f.id] = Free], f.id)
      BY <1>2, <1>3, <2>1, ClearedIs, Zenon
    <2>3. Cleared(slots[c], slots'[c], f.id)
      BY <2>1, <2>2, Zenon
    <2> QED
      BY <1>3, <2>3, PendingCleared, Zenon
  <1>6. PendingAsked(c)'
    <2>1. Asked(c) \in [Frame -> Nat]
      BY AskedIs, Zenon
    <2>2. \A g \in Frame : g.id # f.id => Asked(c)'[g] = Asked(c)[g]
      BY <1>1, <2>1
    <2> QED
      BY <1>2, <1>3, <1>5, <2>2, StillAsked, Zenon
  <1>7. f.id \in PendingOf(slots[c]) => slots[c][f.id] # Free
    BY SlotKinds, Zenon DEF PendingOf
  <1>8. slack'[c] >= slack[c] - 1 /\ (f.id \in PendingOf(slots[c]) => slack'[c] >= slack[c])
    BY <1>1, <1>2, <1>7
  <1> QED
    BY <1>2, <1>4, <1>5, <1>6, <1>8, Zenon

LEMMA QueryCancelled ==
  ASSUME StreamTypeOK, StreamTypeOK', NEW c \in Conns, NEW q \in Callers, Cancels(c, q),
         PendingAsked(c)
  PROVE  /\ PendingAsked(c)' /\ Cardinality(Owed(c))' = Cardinality(Owed(c))
         /\ Cardinality(PendingIds(c))' = Cardinality(PendingIds(c)) - 1
         /\ slack'[c] = IF slack[c] < SlackCap THEN slack[c] + 1 ELSE slack[c]
  <1>1. /\ wid[q] \in Ids /\ slots[c][wid[q]] = Pending(q)
        /\ slots'[c] = [slots[c] EXCEPT ![wid[q]] = Orphan]
        /\ slack'[c] = IF slack[c] < SlackCap THEN slack[c] + 1 ELSE slack[c]
        /\ Asked(c)' = Asked(c)
    BY Zenon DEF Cancels
  <1>2. /\ slots[c] \in [Ids -> Slot]
        /\ PendingIds(c) = PendingOf(slots[c]) /\ PendingIds(c)' = PendingOf(slots'[c])
    BY Sizes, Zenon DEF PendingIds, PendingOf
  <1>3. wid[q] \in PendingOf(slots[c])
    BY <1>1, SlotKinds, Zenon DEF PendingOf
  <1>4. /\ Cardinality(PendingOf(slots'[c])) = Cardinality(PendingOf(slots[c])) - 1
        /\ \A i \in PendingOf(slots'[c]) :
                i # wid[q] /\ i \in PendingOf(slots[c]) /\ slots'[c][i] = slots[c][i]
    <2>1. slots'[c] = [slots[c] EXCEPT ![wid[q]] = Orphan] /\ Orphan.caller = None
      BY <1>1, SlotKinds, Zenon
    <2>2. Cleared(slots[c], [slots[c] EXCEPT ![wid[q]] = Orphan], wid[q])
      BY <1>1, <1>2, <2>1, ClearedIs, Zenon
    <2>3. Cleared(slots[c], slots'[c], wid[q])
      BY <2>1, <2>2, Zenon
    <2>4. wid[q] \in Ids
      BY <1>1, Zenon
    <2>5. Cardinality(PendingOf(slots'[c])) = IF wid[q] \in PendingOf(slots[c])
                                               THEN Cardinality(PendingOf(slots[c])) - 1
                                               ELSE Cardinality(PendingOf(slots[c]))
      BY <2>3, <2>4, PendingCleared, Zenon
    <2>6. \A i \in PendingOf(slots'[c]) :
              i # wid[q] /\ i \in PendingOf(slots[c]) /\ slots'[c][i] = slots[c][i]
      BY <2>3, <2>4, PendingCleared, Zenon
    <2> QED
      BY <1>3, <2>5, <2>6, Zenon
  <1>5. PendingAsked(c)'
    <2>1. \A g \in Frame : g.id # wid[q] => Asked(c)'[g] = Asked(c)[g]
      BY <1>1, Zenon
    <2>2. \A i \in PendingIds(c)' : i # wid[q] /\ i \in PendingIds(c) /\ slots'[c][i] = slots[c][i]
      BY <1>2, <1>4, Zenon
    <2> QED
      BY <1>1, <2>1, <2>2, StillAsked, Zenon
  <1>6. Owed(c)' = Owed(c)
    BY <1>1, Zenon DEF Owed
  <1> QED
    BY <1>1, <1>2, <1>4, <1>5, <1>6, Zenon

-----------------------------------------------------------------------------
(* What the steps of a connection that stays open do to its account.        *)
AccountMove(a, p, s, a1, p1, s1) ==
    \/ a1 = a /\ p1 = p /\ s1 = s
    \/ a1 = a + 1 /\ p1 = p + 1 /\ s1 = s
    \/ a1 = a - 1 /\ ((p1 = p /\ s1 >= s - 1) \/ (p1 = p - 1 /\ s1 >= s))
    \/ a1 = a /\ p1 = p - 1 /\ s1 = IF s < SlackCap THEN s + 1 ELSE s

LEMMA OpenStep ==
  ASSUME StreamInv, StreamNext, NEW c \in Honest, ~closed'[c]
  PROVE  /\ ~closed[c]
         /\ \/ Undisturbed(c) \/ (\E q \in Callers : TakesFrame(c, q))
            \/ (\E f \in Frame : TakesAnswer(c, f)) \/ (\E q \in Callers : Cancels(c, q))
  <1>1. c \in Conns
    BY StreamAssumption
  <1> QED
    BY <1>1, CallerSends, ConnReads, Zenon DEF StreamNext

LEMMA AccountStep ==
  ASSUME StreamInv, StreamInv', StreamNext, NEW c \in Honest, ~closed'[c], PendingAsked(c)
  PROVE  /\ PendingAsked(c)'
         /\ AccountMove(Cardinality(Owed(c)), Cardinality(PendingIds(c)), slack[c],
                        Cardinality(Owed(c))', Cardinality(PendingIds(c))', slack'[c])
  <1>t. StreamTypeOK /\ StreamTypeOK' /\ c \in Conns
    BY StreamAssumption, Zenon DEF StreamInv
  <1>1. CASE Undisturbed(c)
    BY <1>1, <1>t, LeftAsIs, Zenon DEF AccountMove
  <1>2. ASSUME NEW q \in Callers, TakesFrame(c, q)
        PROVE  /\ PendingAsked(c)' /\ Cardinality(Owed(c))' = Cardinality(Owed(c)) + 1
               /\ Cardinality(PendingIds(c))' = Cardinality(PendingIds(c)) + 1 /\ slack'[c] = slack[c]
    <2>1. slack'[c] = slack[c]
      BY <1>2, Zenon DEF TakesFrame
    <2> QED
      BY <1>2, <1>t, <2>1, FrameQueued, Zenon
  <1>3. CASE \E q \in Callers : TakesFrame(c, q)
    BY <1>2, <1>3, Zenon DEF AccountMove
  <1>4. CASE \E f \in Frame : TakesAnswer(c, f)
    BY <1>4, <1>t, AnswerRead, Zenon DEF AccountMove
  <1>5. CASE \E q \in Callers : Cancels(c, q)
    BY <1>5, <1>t, QueryCancelled, Zenon DEF AccountMove
  <1> QED
    BY <1>1, <1>3, <1>4, <1>5, OpenStep, Zenon

LEMMA StormStep ==
  ASSUME StreamInv, StreamInv', StreamNext, StormInv
  PROVE  StormInv'
  <1> SUFFICES ASSUME NEW c \in Honest, ~closed'[c] PROVE PendingAsked(c)'
    BY Zenon DEF StormInv
  <1>1. ~closed[c]
    BY OpenStep, Zenon
  <1> QED
    BY <1>1, AccountStep, Zenon DEF StormInv

(* A connection that is new, or has just been closed, owes nothing.         *)
Blank(c) == served[c] = [f \in Frame |-> 0] /\ frames[c] = <<>>

LEMMA NothingOwed == StreamTypeOK => \A c \in Conns : Blank(c) => Owed(c) = {}
  <1> SUFFICES ASSUME StreamTypeOK, NEW c \in Conns, Blank(c) PROVE Owed(c) = {}
    OBVIOUS
  <1>1. served[c] = [f \in Frame |-> 0] /\ frames[c] = <<>>
    BY DEF Blank
  <1>2. ASSUME NEW f \in Frame PROVE Asked(c)[f] = 0
    <2>1. {i \in DOMAIN frames[c] : frames[c][i] = f} = {}
      BY <1>1
    <2>2. Cardinality({i \in DOMAIN frames[c] : frames[c][i] = f}) = 0
      BY <2>1, FS_EmptySet, Zenon
    <2>3. served[c][f] = 0
      BY <1>1, Zenon
    <2>4. Asked(c)[f] = served[c][f] + Cardinality({i \in DOMAIN frames[c] : frames[c][i] = f})
      BY Zenon DEF Asked
    <2> QED
      BY <2>2, <2>3, <2>4
  <1>3. ASSUME NEW x \in Copies(Asked(c)) PROVE FALSE
    <2>1. PICK f \in Frame : \E n \in 1 .. Asked(c)[f] : x = <<f, n>>
      BY <1>3, AskedIs, CopyIs
    <2> QED
      BY <2>1, <1>2
  <1> QED
    BY <1>3, AskedIs, Zenon

LEMMA NextNothingOwed == StreamTypeOK' => (\A c \in Conns : Blank(c) => Owed(c) = {})'
  BY NothingOwed, PTL

LEMMA ClosesBlank ==
  ASSUME StreamInv, StreamNext, NEW c \in Conns, ~closed[c], closed'[c]
  PROVE  Blank(c)'
  <1>t. /\ StreamTypeOK /\ closed \in [Conns -> BOOLEAN] /\ frames \in [Conns -> Seq(Frame)]
        /\ served \in [Conns -> [Frame -> Nat]] /\ \A q \in Callers : CallerState(q)
    BY DEF StreamInv, StreamTypeOK
  <1>1. ASSUME NEW d \in Conns, NEW level, Fail(d, level) PROVE Blank(c)'
    <2>1. ~closed[d] /\ c = d
      <3>1. ~closed[d]
        BY <1>1, Zenon DEF Fail
      <3>2. closed' = [closed EXCEPT ![d] = TRUE]
        BY <1>1, <3>1, Zenon DEF Fail
      <3> QED
        BY <1>t, <3>1, <3>2
    <2>2. frames' = [frames EXCEPT ![c] = <<>>] /\ served' = [served EXCEPT ![c] = [f \in Frame |-> 0]]
      BY <1>1, <2>1, Zenon DEF Fail
    <2> QED
      BY <1>t, <2>2, Zenon DEF Blank
  <1>2. ASSUME NEW q \in Callers, CallerStep(q) PROVE Blank(c)'
    <2>1. closed' = closed \/ (pc[q] = "full" /\ Fail(lease[q], TRUE))
      BY <1>2, Zenon DEF CallerStep, Call, Acquire, AcquireFails, SubmitClosed, Submit, SubmitFull,
         Receive, GiveUp, DropGuard, Release, connVars
    <2>2. pc[q] = "full" => lease[q] \in Conns
      BY <1>t DEF CallerState, StreamTypeOK
    <2> QED
      BY <1>1, <2>1, <2>2, Zenon
  <1>3. ASSUME NEW d \in Conns, ConnStep(d) PROVE Blank(c)'
    <2>1. closed' = closed \/ \E level : Fail(d, level)
      BY <1>3, Zenon DEF ConnStep, Notify, Written, WriteFails, ReadFails, Dispatch, Deliver, Retire
    <2> QED
      BY <1>1, <2>1, Zenon
  <1> QED
    BY <1>2, <1>3, Zenon DEF StreamNext

LEMMA StormInit ==
  ASSUME StreamInit, StreamInv
  PROVE  StormInv
  <1> SUFFICES ASSUME NEW c \in Honest, NEW i \in PendingIds(c) PROVE FALSE
    BY Zenon DEF StormInv, PendingAsked
  <1>1. c \in Conns /\ i \in Ids /\ slots[c][i].caller # None
    BY StreamAssumption DEF PendingIds
  <1>2. slots[c][i] = Free
    BY <1>1, Zenon DEF StreamInit
  <1> QED
    BY <1>1, <1>2, SlotKinds, Zenon

LEMMA StormKept ==
  ASSUME StormInv, UNCHANGED streamVars
  PROVE  StormInv'
  <1>1. closed' = closed /\ slots' = slots /\ served' = served /\ frames' = frames
    BY Zenon DEF streamVars, connVars, tableVars, taskVars
  <1>2. ASSUME NEW c \in Honest PROVE PendingAsked(c)' = PendingAsked(c)
    <2>1. PendingIds(c)' = PendingIds(c) /\ Asked(c)' = Asked(c)
      BY <1>1, AskedSame, Zenon DEF PendingIds
    <2> QED
      BY <1>1, <2>1, Zenon DEF PendingAsked
  <1> QED
    BY <1>1, <1>2, Zenon DEF StormInv

-----------------------------------------------------------------------------
(* Every pending query claims one of the answers owed; the others are late. *)
LEMMA LateAndPending ==
  ASSUME StreamTypeOK, NEW c \in Conns, PendingAsked(c)
  PROVE  /\ Cardinality(Late(c)) \in Nat
         /\ Cardinality(Late(c)) + Cardinality(PendingIds(c)) = Cardinality(Owed(c))
  <1>t. /\ IsFiniteSet(Owed(c)) /\ Cardinality(Owed(c)) \in Nat /\ slots[c] \in [Ids -> Slot]
        /\ Cardinality(PendingIds(c)) \in Nat /\ IsFiniteSet(PendingIds(c))
    BY Sizes, Zenon
  <1>a. Asked(c) \in [Frame -> Nat] /\ Owed(c) = Copies(Asked(c))
    BY AskedIs, Zenon
  <1> DEFINE frame == [i \in PendingIds(c) |-> [id |-> i, q |-> slots[c][i].caller]]
             claim == [i \in PendingIds(c) |-> <<frame[i], 1>>]
             Claimed == Owed(c) \ Late(c)
  <1>1. ASSUME NEW i \in PendingIds(c)
        PROVE  /\ frame[i] \in Frame /\ frame[i].id = i /\ Asked(c)[frame[i]] > 0
               /\ slots[c][i] = Pending(frame[i].q)
    <2>1. i \in Ids /\ slots[c][i] \in Slot /\ slots[c][i].caller # None
      BY <1>t DEF PendingIds
    <2>2. slots[c][i].caller \in Callers /\ slots[c][i] = Pending(slots[c][i].caller)
      BY <2>1, SlotCases
    <2>3. frame[i] = [id |-> i, q |-> slots[c][i].caller]
      BY Zenon
    <2>4. Asked(c)[frame[i]] > 0
      BY <2>3, Zenon DEF PendingAsked
    <2> HIDE DEF frame
    <2>5. frame[i] \in Frame /\ frame[i].id = i /\ frame[i].q = slots[c][i].caller
      BY <2>1, <2>2, <2>3 DEF Frame
    <2> QED
      BY <2>2, <2>4, <2>5, Zenon
  <1>2. ASSUME NEW i \in PendingIds(c) PROVE claim[i] \in Claimed
    <2>1. claim[i] = <<frame[i], 1>>
      BY Zenon
    <2> HIDE DEF frame, claim
    <2>3. 1 \in 1 .. Asked(c)[frame[i]]
      BY <1>1, <1>a
    <2>4. claim[i] \in Owed(c)
      BY <1>1, <1>a, <2>1, <2>3, CopyIs, ZenonT(30)
    <2>5. claim[i][1] = frame[i] /\ claim[i][2] = 1
      BY <2>1
    <2>6. claim[i] \notin Late(c)
      <3> DEFINE x == claim[i]
      <3>1. x[1].id = i /\ x[1].q = frame[i].q /\ x[2] = 1
        BY <1>1, <2>5, Zenon
      <3>2. slots[c][x[1].id] = Pending(x[1].q)
        BY <1>1, <3>1, Zenon
      <3> HIDE DEF x
      <3>3. x \in Late(c) => ~(slots[c][x[1].id] = Pending(x[1].q) /\ x[2] = 1)
        BY Zenon DEF Late
      <3>4. x \notin Late(c)
        BY <3>1, <3>2, <3>3, Zenon
      <3> QED
        BY <3>4, Zenon DEF x
    <2> QED
      BY <2>4, <2>6, Zenon
  <1>3. ASSUME NEW i \in PendingIds(c), NEW j \in PendingIds(c), claim[i] = claim[j] PROVE i = j
    <2>1. claim[i] = <<frame[i], 1>> /\ claim[j] = <<frame[j], 1>>
      BY Zenon
    <2> HIDE DEF frame, claim
    <2>2. claim[i][1] = frame[i] /\ claim[j][1] = frame[j]
      BY <2>1
    <2> QED
      BY <1>1, <1>3, <2>2, Zenon
  <1>4. ASSUME NEW x \in Claimed PROVE \E i \in PendingIds(c) : claim[i] = x
    <2>1. x \in Owed(c) /\ x \notin Late(c)
      BY <1>4, Zenon
    <2>2. slots[c][x[1].id] = Pending(x[1].q) /\ x[2] = 1
      BY <2>1, Zenon DEF Late
    <2>3. PICK f \in Frame : \E n \in 1 .. Asked(c)[f] : x = <<f, n>>
      BY <1>a, <2>1, CopyIs
    <2>4. x = <<f, 1>> /\ slots[c][f.id] = Pending(f.q) /\ f.id \in Ids /\ f.q \in Callers
      BY <2>2, <2>3 DEF Frame
    <2>5. f.id \in PendingIds(c) /\ slots[c][f.id].caller = f.q
      BY <2>4, SlotKinds, Zenon DEF PendingIds
    <2>6. f = [id |-> f.id, q |-> f.q]
      BY DEF Frame
    <2> QED
      BY <2>4, <2>5, <2>6, Zenon
  <1>5. DOMAIN claim = PendingIds(c) /\ claim \in [PendingIds(c) -> Claimed]
    <2>1. claim \in [PendingIds(c) -> Claimed] <=> \A i \in PendingIds(c) : claim[i] \in Claimed
      <3> HIDE DEF frame, Claimed
      <3> QED
        OBVIOUS
    <2> QED
      BY <1>2, <2>1, Zenon
  <1>6. Late(c) \subseteq Owed(c)
    BY Zenon DEF Late
  <1> HIDE DEF frame, claim
  <1>7. claim \in Bijection(PendingIds(c), Claimed)
    BY <1>3, <1>4, <1>5, Zenon DEF Bijection, Injection, Surjection, IsInjective
  <1>8. IsFiniteSet(Claimed) /\ Cardinality(Claimed) = Cardinality(Owed(c)) - Cardinality(Owed(c) \cap Late(c))
    BY <1>t, FS_Difference, Zenon
  <1>9. Owed(c) \cap Late(c) = Late(c)
    BY <1>6, Zenon
  <1>10. IsFiniteSet(Late(c))
    BY <1>t, <1>6, FS_Subset, Zenon
  <1>11. Cardinality(Late(c)) \in Nat
    BY <1>10, FS_CardinalityType, Zenon
  <1>12. Cardinality(Claimed) = Cardinality(PendingIds(c))
    BY <1>7, <1>t, FS_Bijection, Zenon DEF ExistsBijection
  <1> HIDE DEF Claimed
  <1>13. Cardinality(PendingIds(c)) = Cardinality(Owed(c)) - Cardinality(Late(c))
    BY <1>8, <1>9, <1>12, Zenon
  <1> QED
    <2>1. \A l, p, o \in Nat : p = o - l => l + p = o
      OBVIOUS
    <2> QED
      BY <1>t, <1>11, <1>13, <2>1, Zenon

LateSize(c) ==
    /\ Cardinality(Late(c)) \in Nat
    /\ Cardinality(Late(c)) + Cardinality(PendingIds(c)) = Cardinality(Owed(c))

LEMMA LateCount == StreamTypeOK => \A c \in Conns : PendingAsked(c) => LateSize(c)
  BY LateAndPending, Zenon DEF LateSize

LEMMA NextLateCount == StreamTypeOK' => (\A c \in Conns : PendingAsked(c) => LateSize(c))'
  BY LateCount, PTL

(* The arithmetic: whatever an open connection does, the allowance goes on  *)
(* covering what is late, unless a cancellation finds it at its cap.        *)
LEMMA StaysCovered ==
  ASSUME NEW a \in Nat, NEW p \in Nat, NEW s \in Nat, NEW a1 \in Nat, NEW p1 \in Nat, NEW s1 \in Nat,
         NEW l \in Nat, NEW l1 \in Nat, l + p = a, l1 + p1 = a1,
         AccountMove(a, p, s, a1, p1, s1), l <= s
  PROVE  l1 <= s1 \/ l1 > SlackCap
  <1>t. SlackCap \in Nat
    <2>1. Limit \in Nat /\ MaxInFlight \in Nat
      BY StreamAssumption
    <2> QED
      BY <2>1 DEF SlackCap
  <1> QED
    BY <1>t DEF AccountMove

LEMMA CoverStep ==
  ASSUME StreamInv, StreamInv', StreamNext, NEW c \in Honest, ~closed[c], PendingAsked(c), Covered(c)
  PROVE  Covered(c)' \/ Cardinality(Late(c)') > SlackCap
  <1>t. /\ StreamTypeOK /\ StreamTypeOK' /\ c \in Conns
        /\ slack'[c] \in Nat
    BY StreamAssumption DEF StreamInv, StreamTypeOK
  <1>1. CASE closed'[c]
    <2>1. Owed(c)' = {}
      BY <1>t, <1>1, ClosesBlank, NextNothingOwed, Zenon
    <2>2. Late(c)' = {}
      BY <2>1, Zenon DEF Late
    <2>3. Cardinality(Late(c)') = 0
      BY <2>2, FS_EmptySet, Zenon
    <2>4. \A n \in Nat : 0 <= n
      OBVIOUS
    <2> QED
      BY <1>t, <2>3, <2>4, Zenon DEF Covered
  <1>2. CASE ~closed'[c]
    <2>1. PICK a \in Nat, p \in Nat, s \in Nat :
                a = Cardinality(Owed(c)) /\ p = Cardinality(PendingIds(c)) /\ s = slack[c]
      BY <1>t, Sizes, Zenon
    <2>2. Cardinality(Owed(c))' \in Nat /\ Cardinality(PendingIds(c))' \in Nat
      BY <1>t, NextNatural, Zenon DEF Natural
    <2>3. PICK a1 \in Nat, p1 \in Nat, s1 \in Nat :
                a1 = Cardinality(Owed(c))' /\ p1 = Cardinality(PendingIds(c))' /\ s1 = slack'[c]
      BY <1>t, <2>2, Zenon
    <2>4. PendingAsked(c)' /\ AccountMove(a, p, s, a1, p1, s1)
      BY <1>2, <2>1, <2>3, AccountStep, Zenon
    <2>5. PICK l \in Nat : l = Cardinality(Late(c)) /\ l + p = a
      BY <1>t, <2>1, LateCount, Zenon DEF LateSize
    <2>6. PICK l1 \in Nat : l1 = Cardinality(Late(c)') /\ l1 + p1 = a1
      BY <1>t, <2>3, <2>4, NextLateCount, Zenon DEF LateSize
    <2>7. l <= s
      BY <2>1, <2>5, Zenon DEF Covered
    <2>8. l1 <= s1 \/ l1 > SlackCap
      BY <2>4, <2>5, <2>6, <2>7, StaysCovered, Zenon
    <2> QED
      BY <2>3, <2>6, <2>8, Zenon DEF Covered
  <1> QED
    BY <1>1, <1>2

(* What the reader of an honest connection takes in hand.                   *)
Hands(c, f) ==
    /\ Asked(c)[f] > 0
    /\ \/ /\ slots[c][f.id].caller # None
          /\ hand'[c] = [to |-> slots[c][f.id].caller, asks |-> f.q]
       \/ slots[c][f.id] = Free /\ slack[c] = 0 /\ hand'[c] = [to |-> None, asks |-> None]

LEMMA HandTaken ==
  ASSUME StreamInv, StreamNext, NEW c \in Honest, hand'[c] # None, hand'[c] # hand[c]
  PROVE  hand[c] = None /\ ~closed[c] /\ \E f \in Frame : Hands(c, f)
  <1>t. /\ StreamTypeOK /\ c \in Conns /\ hand \in [Conns -> Taken \cup {None}]
        /\ served \in [Conns -> [Frame -> Nat]]
    BY StreamAssumption DEF StreamInv, StreamTypeOK
  <1>1. \E d \in Conns : Dispatch(d) \/ Deliver(d)
    BY Zenon DEF StreamNext, CallerStep, Call, Acquire, AcquireFails, SubmitClosed, Submit, SubmitFull,
       Receive, GiveUp, DropGuard, Release, ConnStep, Notify, Written, WriteFails, ReadFails, Retire,
       connVars, taskVars
  <1>2. PICK d \in Conns : Dispatch(d) \/ Deliver(d)
    BY <1>1
  <1>3. CASE Deliver(d)
    <2>1. hand' = [hand EXCEPT ![d] = None]
      BY <1>3, Zenon DEF Deliver
    <2> QED
      BY <1>t, <2>1
  <1>4. CASE Dispatch(d)
    <2>1. hand[d] = None /\ ~closed[d] /\ frames' = frames
      BY <1>4, Zenon DEF Dispatch
    <2>2. c = d
      <3>1. hand' = hand \/ \E x : hand' = [hand EXCEPT ![d] = x]
        BY <1>4, Zenon DEF Dispatch, Take
      <3> QED
        BY <1>t, <3>1, Zenon
    <2>3. PICK f \in Frame : /\ served[c][f] > 0 /\ Take(c, f.id, f.q)
                             /\ served' = [served EXCEPT ![c][f] = @ - 1]
      BY <1>4, <2>2, Zenon DEF Dispatch
    <2>4. Asked(c)[f] > 0
      <3>1. served'[c] = [served[c] EXCEPT ![f] = @ - 1] /\ frames'[c] = frames[c]
        BY <1>t, <2>1, <2>3, Zenon
      <3> QED
        BY <1>t, <2>3, <3>1, AskedAnswered, Zenon
    <2>5. \/ /\ slots[c][f.id].caller # None
             /\ hand' = [hand EXCEPT ![c] = [to |-> slots[c][f.id].caller, asks |-> f.q]]
          \/ /\ slots[c][f.id] = Free /\ slack[c] = 0
             /\ hand' = [hand EXCEPT ![c] = [to |-> None, asks |-> None]]
      BY <2>3, Zenon DEF Take
    <2>6. Hands(c, f)
      BY <1>t, <2>4, <2>5, Zenon DEF Hands
    <2> QED
      BY <2>1, <2>2, <2>6, Zenon
  <1> QED
    BY <1>2, <1>3, <1>4

(* While the allowance covers the late answers none of them is refused.     *)
LEMMA NotRefused ==
  ASSUME StreamInv, NEW c \in Honest, PendingAsked(c), Covered(c), NEW f \in Frame, Hands(c, f)
  PROVE  hand'[c].to # None
  <1>t. StreamTypeOK /\ c \in Conns
    BY StreamAssumption DEF StreamInv
  <1>1. CASE slots[c][f.id] = Free /\ slack[c] = 0
    <2>a. Asked(c) \in [Frame -> Nat] /\ Owed(c) = Copies(Asked(c)) /\ Asked(c)[f] > 0
      BY <1>t, AskedIs, Zenon DEF Hands
    <2>1. PICK x : x = <<f, 1>>
      OBVIOUS
    <2>2. 1 \in 1 .. Asked(c)[f]
      BY <2>a
    <2>3. x \in Owed(c)
      BY <2>a, <2>1, <2>2, CopyIs, Zenon
    <2>4. x[1] = f
      BY <2>1
    <2>5. f.q \in Callers
      BY DEF Frame
    <2>6. slots[c][f.id] # Pending(f.q)
      BY <1>1, <2>5, SlotKinds, Zenon
    <2>7. x \in Late(c)
      BY <2>3, <2>4, <2>6, Zenon DEF Late
    <2>8. IsFiniteSet(Late(c))
      <3>1. IsFiniteSet(Owed(c)) /\ Late(c) \subseteq Owed(c)
        BY <1>t, Sizes, Zenon DEF Late
      <3> QED
        BY <3>1, FS_Subset, Zenon
    <2>9. Cardinality(Late(c)) # 0 /\ Cardinality(Late(c)) \in Nat
      BY <2>7, <2>8, FS_EmptySet, FS_CardinalityType, Zenon
    <2>10. Cardinality(Late(c)) <= 0
      BY <1>1, Zenon DEF Covered
    <2> QED
      BY <2>9, <2>10
  <1>2. CASE slots[c][f.id].caller # None /\ hand'[c] = [to |-> slots[c][f.id].caller, asks |-> f.q]
    BY <1>2
  <1> QED
    BY <1>1, <1>2, Zenon DEF Hands

-----------------------------------------------------------------------------
(* The ids that stand for one answer, in terms of what is asked.            *)
Alone(a, s, i) ==
    \A f, g \in Frame : f.id = i /\ g.id = i /\ a[f] > 0 /\ a[g] > 0 =>
        f = g /\ a[f] = 1 /\ s[i] \in {Pending(f.q), Orphan}

LEMMA ReservedAlone ==
  ASSUME StreamTypeOK, NEW c \in Conns, NEW i \in Ids
  PROVE  i \in Reserved(c) <=> Alone(Asked(c), slots[c], i)
  <1>a. Asked(c) \in [Frame -> Nat] /\ Owed(c) = Copies(Asked(c))
    BY AskedIs, Zenon
  <1> DEFINE Sole == \A x, y \in Owed(c) : x[1].id = i /\ y[1].id = i =>
                        x = y /\ slots[c][i] \in {Pending(x[1].q), Orphan}
  <1>r. i \in Reserved(c) <=> Sole
    BY Zenon DEF Reserved
  <1>o. ASSUME NEW f \in Frame, NEW n \in 1 .. Asked(c)[f]
        PROVE  <<f, n>> \in Owed(c) /\ <<f, n>>[1] = f /\ <<f, n>>[2] = n
    BY <1>a, <1>o, CopyIs
  <1>1. ASSUME Sole, NEW f \in Frame, NEW g \in Frame, f.id = i, g.id = i, Asked(c)[f] > 0, Asked(c)[g] > 0
        PROVE  f = g /\ Asked(c)[f] = 1 /\ slots[c][i] \in {Pending(f.q), Orphan}
    <2>1. 1 \in 1 .. Asked(c)[f] /\ 1 \in 1 .. Asked(c)[g]
      BY <1>1, <1>a
    <2>2. PICK x \in Owed(c), y \in Owed(c) : x = <<f, 1>> /\ y = <<g, 1>> /\ x[1] = f /\ y[1] = g
      <3>1. <<f, 1>> \in Owed(c) /\ <<f, 1>>[1] = f /\ <<g, 1>> \in Owed(c) /\ <<g, 1>>[1] = g
        BY <1>o, <2>1, Zenon
      <3> QED
        BY <3>1, Zenon
    <2>3. x = y /\ slots[c][i] \in {Pending(x[1].q), Orphan}
      BY <1>1, <2>2, Zenon
    <2>4. f = g /\ slots[c][i] \in {Pending(f.q), Orphan}
      BY <2>2, <2>3, Zenon
    <2>5. ASSUME Asked(c)[f] # 1 PROVE FALSE
      <3>1. 2 \in 1 .. Asked(c)[f]
        BY <1>1, <1>a, <2>5
      <3>2. PICK z \in Owed(c) : z = <<f, 2>> /\ z[1] = f /\ z[2] = 2
        BY <1>o, <3>1
      <3>3. x = z /\ x[2] = 1
        BY <1>1, <2>2, <3>2, Zenon
      <3> QED
        BY <3>2, <3>3
    <2> QED
      BY <2>4, <2>5, Zenon
  <1>2. ASSUME Alone(Asked(c), slots[c], i), NEW x \in Owed(c), NEW y \in Owed(c), x[1].id = i, y[1].id = i
        PROVE  x = y /\ slots[c][i] \in {Pending(x[1].q), Orphan}
    <2>1. PICK f \in Frame : \E n \in 1 .. Asked(c)[f] : x = <<f, n>>
      BY <1>a, CopyIs
    <2>2. PICK n \in 1 .. Asked(c)[f] : x = <<f, n>>
      BY <2>1
    <2>3. PICK g \in Frame : \E m \in 1 .. Asked(c)[g] : y = <<g, m>>
      BY <1>a, CopyIs
    <2>4. PICK m \in 1 .. Asked(c)[g] : y = <<g, m>>
      BY <2>3
    <2>5. x[1] = f /\ y[1] = g /\ Asked(c)[f] > 0 /\ Asked(c)[g] > 0
      BY <1>a, <2>2, <2>4
    <2>6. f = g /\ Asked(c)[f] = 1 /\ slots[c][i] \in {Pending(f.q), Orphan}
      BY <1>2, <2>5, Zenon DEF Alone
    <2>7. n = m
      BY <2>2, <2>4, <2>6
    <2> QED
      BY <2>2, <2>4, <2>5, <2>6, <2>7, Zenon
  <1>3. Sole => Alone(Asked(c), slots[c], i)
    <2> HIDE DEF Sole
    <2> QED
      BY <1>1, Zenon DEF Alone
  <1>4. Alone(Asked(c), slots[c], i) => Sole
    BY <1>2, Zenon
  <1> QED
    BY <1>r, <1>3, <1>4, Zenon

LEMMA ReservedAre ==
  StreamTypeOK => \A c \in Conns : \A i \in Ids : i \in Reserved(c) <=> Alone(Asked(c), slots[c], i)
  BY ReservedAlone, Zenon

LEMMA NextReservedAre ==
  StreamTypeOK' => (\A c \in Conns : \A i \in Ids : i \in Reserved(c) <=> Alone(Asked(c), slots[c], i))'
  BY ReservedAre, PTL

(* A new query takes an id nothing is owed under, or one whose tombstone    *)
(* was dropped to make room for it.                                         *)
LEMMA AloneQueued ==
  ASSUME NEW a \in [Frame -> Nat], NEW s \in [Ids -> Slot], NEW i \in Ids, Alone(a, s, i),
         NEW id \in Ids, NEW room \in [Ids -> Slot], NEW q \in Callers, NEW b, NEW w,
         Kept(s, room), room[id] = Free, w = [room EXCEPT ![id] = Pending(q)],
         b = [a EXCEPT ![[id |-> id, q |-> q]] = @ + 1], s[i] # Orphan
  PROVE  Alone(b, w, i)
  <1>1. PICK h \in Frame : h = [id |-> id, q |-> q] /\ h.id = id /\ h.q = q
    BY DEF Frame
  <1>2. /\ \A f \in Frame : b[f] = IF f = h THEN a[f] + 1 ELSE a[f]
        /\ \A j \in Ids : w[j] = IF j = id THEN Pending(q) ELSE room[j]
    BY <1>1
  <1>3. room[i] = s[i]
    BY Zenon DEF Kept
  <1> SUFFICES ASSUME NEW f \in Frame, NEW g \in Frame, f.id = i, g.id = i, b[f] > 0, b[g] > 0
               PROVE  f = g /\ b[f] = 1 /\ w[i] \in {Pending(f.q), Orphan}
    BY Zenon DEF Alone
  <1>4. CASE i # id
    <2>1. f # h /\ g # h
      BY <1>1, <1>4, Zenon
    <2>2. b[f] = a[f] /\ b[g] = a[g] /\ w[i] = s[i]
      BY <1>2, <1>3, <1>4, <2>1, Zenon
    <2> QED
      BY <2>2, Zenon DEF Alone
  <1>5. CASE i = id
    <2>1. s[i] = Free
      BY <1>3, <1>5, Zenon
    <2>2. ASSUME NEW k \in Frame, k.id = i PROVE a[k] = 0
      <3>1. k.q \in Callers
        BY DEF Frame
      <3>2. s[i] \notin {Pending(k.q), Orphan}
        BY <2>1, <3>1, SlotKinds, Zenon
      <3>3. ~(a[k] > 0)
        BY <2>2, <3>2, Zenon DEF Alone
      <3> QED
        BY <3>3
    <2>3. f = h /\ g = h
      BY <1>2, <2>2
    <2>4. b[f] = 1
      <3>1. a[h] = 0 /\ b[h] = a[h] + 1
        BY <1>1, <1>2, <1>5, <2>2, Zenon
      <3> QED
        BY <2>3, <3>1
    <2>5. w[i] = Pending(f.q)
      BY <1>1, <1>2, <1>5, <2>3, Zenon
    <2> QED
      BY <2>3, <2>4, <2>5, Zenon
  <1> QED
    BY <1>4, <1>5

(* The only answer under an id leaves nothing owed under it.                *)
LEMMA AloneAnswered ==
  ASSUME NEW a \in [Frame -> Nat], NEW s \in [Ids -> Slot], NEW i \in Ids, Alone(a, s, i),
         NEW h \in Frame, a[h] > 0, NEW b, NEW w,
         b = [a EXCEPT ![h] = @ - 1], w = [s EXCEPT ![h.id] = Free]
  PROVE  Alone(b, w, i)
  <1>1. /\ \A f \in Frame : b[f] = IF f = h THEN a[f] - 1 ELSE a[f]
        /\ i # h.id => w[i] = s[i]
    OBVIOUS
  <1> SUFFICES ASSUME NEW f \in Frame, NEW g \in Frame, f.id = i, g.id = i, b[f] > 0, b[g] > 0
               PROVE  f = g /\ b[f] = 1 /\ w[i] \in {Pending(f.q), Orphan}
    BY Zenon DEF Alone
  <1>2. a[f] > 0 /\ a[g] > 0
    BY <1>1
  <1>3. f = g /\ a[f] = 1 /\ s[i] \in {Pending(f.q), Orphan}
    BY <1>2, Zenon DEF Alone
  <1>4. f # h
    BY <1>1, <1>3
  <1>5. i # h.id
    BY <1>2, <1>4, Zenon DEF Alone
  <1> QED
    BY <1>1, <1>3, <1>4, <1>5, Zenon

(* A cancelled query leaves a tombstone in its place.                       *)
LEMMA AloneCancelled ==
  ASSUME NEW a \in [Frame -> Nat], NEW s \in [Ids -> Slot], NEW i \in Ids, Alone(a, s, i),
         NEW j \in Ids, NEW w, w = [s EXCEPT ![j] = Orphan]
  PROVE  Alone(a, w, i)
  <1>1. w[i] = s[i] \/ w[i] = Orphan
    OBVIOUS
  <1> QED
    BY <1>1, Zenon DEF Alone

LEMMA ReservedStep ==
  ASSUME StreamInv, StreamInv', StreamNext, NEW c \in Honest, ~closed[c], NEW i \in Reserved(c)
  PROVE  i \in Reserved(c)' \/ (slots[c][i] = Orphan /\ Submits(c))
  <1>t. StreamTypeOK /\ StreamTypeOK' /\ c \in Conns /\ i \in Ids /\ slots[c] \in [Ids -> Slot]
    BY StreamAssumption DEF StreamInv, StreamTypeOK, Reserved
  <1>a. Asked(c) \in [Frame -> Nat] /\ Alone(Asked(c), slots[c], i)
    BY <1>t, AskedIs, ReservedAre, Zenon
  <1>b. (Alone(Asked(c), slots[c], i))' => i \in Reserved(c)'
    BY <1>t, NextReservedAre, Zenon
  <1>c. Alone(Asked(c)', slots'[c], i) => i \in Reserved(c)'
    BY <1>b, Zenon DEF Alone
  <1>1. CASE closed'[c]
    <2>1. Owed(c)' = {}
      BY <1>t, <1>1, ClosesBlank, NextNothingOwed, Zenon
    <2> QED
      BY <1>t, <2>1, Zenon DEF Reserved
  <1>2. CASE ~closed'[c] /\ Undisturbed(c)
    <2>1. Asked(c)' = Asked(c) /\ Kept(slots[c], slots'[c]) /\ (slots'[c] = slots[c] \/ Submits(c))
      BY <1>2, Zenon DEF Undisturbed
    <2>2. slots'[c][i] = slots[c][i] \/ slots[c][i] = Orphan
      BY <1>t, <2>1, Zenon DEF Kept
    <2>3. CASE slots'[c][i] = slots[c][i]
      BY <1>a, <1>c, <2>1, <2>3, Zenon DEF Alone
    <2>4. CASE slots[c][i] = Orphan /\ slots'[c] # slots[c]
      BY <2>1, <2>4, Zenon
    <2> QED
      BY <2>2, <2>3, <2>4, Zenon
  <1>3. ASSUME NEW q \in Callers, TakesFrame(c, q)
        PROVE  i \in Reserved(c)' \/ (slots[c][i] = Orphan /\ Submits(c))
    <2>1. PICK id \in Ids, room \in [Ids -> Slot] :
              /\ Kept(slots[c], room) /\ room[id] = Free
              /\ slots'[c] = [room EXCEPT ![id] = Pending(q)]
              /\ Asked(c)' = [Asked(c) EXCEPT ![[id |-> id, q |-> q]] = @ + 1]
      BY <1>3, Zenon DEF TakesFrame
    <2>2. CASE slots[c][i] = Orphan
      BY <1>3, <2>2, Zenon DEF TakesFrame
    <2>3. CASE slots[c][i] # Orphan
      BY <1>t, <1>a, <1>c, <2>1, <2>3, AloneQueued, Zenon
    <2> QED
      BY <2>2, <2>3
  <1>4. ASSUME NEW f \in Frame, TakesAnswer(c, f) PROVE i \in Reserved(c)'
    <2>1. /\ Asked(c)[f] > 0 /\ Asked(c)' = [Asked(c) EXCEPT ![f] = @ - 1]
          /\ slots'[c] = [slots[c] EXCEPT ![f.id] = Free]
      BY <1>4, Zenon DEF TakesAnswer
    <2> QED
      BY <1>t, <1>a, <1>c, <2>1, AloneAnswered, Zenon
  <1>5. ASSUME NEW q \in Callers, Cancels(c, q) PROVE i \in Reserved(c)'
    <2>1. wid[q] \in Ids /\ Asked(c)' = Asked(c) /\ slots'[c] = [slots[c] EXCEPT ![wid[q]] = Orphan]
      BY <1>5, Zenon DEF Cancels
    <2>2. Alone(Asked(c), slots'[c], i)
      BY <1>t, <1>a, <2>1, AloneCancelled, Zenon
    <2> QED
      BY <1>c, <2>1, <2>2, Zenon
  <1> QED
    BY <1>1, <1>2, <1>3, <1>4, <1>5, OpenStep, Zenon

(* The waiter taken under such an id gets its own answer: a caller has only *)
(* one slot, the one whose answer was read.                                 *)
LEMMA HandOwn ==
  ASSUME StreamInv, StreamNext, NEW c \in Honest, NEW i \in Reserved(c), hand[c] = None,
         hand'[c] # None, slots[c][i].caller = hand'[c].to
  PROVE  hand'[c].asks = hand'[c].to
  <1>t. StreamTypeOK /\ c \in Conns /\ i \in Ids /\ slots[c] \in [Ids -> Slot]
    BY StreamAssumption DEF StreamInv, StreamTypeOK, Reserved
  <1>1. PICK f \in Frame : Hands(c, f)
    BY HandTaken, Zenon
  <1>2. CASE slots[c][f.id].caller # None /\ hand'[c] = [to |-> slots[c][f.id].caller, asks |-> f.q]
    <2> DEFINE q == slots[c][f.id].caller
    <2>1. f.id \in Ids /\ f.q \in Callers
      BY DEF Frame
    <2>2. slots[c][f.id] \in Slot
      BY <1>t, <2>1
    <2>3. q \in Callers
      BY <1>2, <2>2, SlotCases
    <2>4. hand'[c].to = q /\ hand'[c].asks = f.q
      BY <1>2
    <2>5. wid[q] = f.id /\ wid[q] = i
      <3>1. InSlot(q, c, f.id) /\ InSlot(q, c, i)
        BY <2>4, Zenon DEF InSlot
      <3>2. Waiter(q)
        BY <2>3, Zenon DEF StreamInv
      <3> QED
        BY <1>t, <2>1, <3>1, <3>2, Zenon DEF Waiter
    <2>6. slots[c][i] \in {Pending(f.q), Orphan}
      <3>1. Asked(c)[f] > 0 /\ f.id = i
        BY <1>1, <2>5, Zenon DEF Hands
      <3>2. Alone(Asked(c), slots[c], i)
        BY <1>t, ReservedAre, Zenon
      <3> QED
        BY <3>1, <3>2, Zenon DEF Alone
    <2>7. q = f.q
      BY <1>2, <2>1, <2>5, <2>6, SlotKinds, Zenon
    <2> QED
      BY <2>4, <2>7, Zenon
  <1>3. CASE hand'[c] = [to |-> None, asks |-> None]
    BY <1>3
  <1> QED
    BY <1>1, <1>2, <1>3, Zenon DEF Hands
-----------------------------------------------------------------------------
(* The backends.                                                            *)
BackendsInv == StreamInv /\ StormInv /\ DohInv /\ QuicInv

LEMMA BackendsInvariant == Spec => []BackendsInv
  <1>1. Init => BackendsInv
    <2> SUFFICES ASSUME Init PROVE BackendsInv
      OBVIOUS
    <2>1. protocol \in Protocols
      BY DEF Init, Protocols
    <2>2. StreamInit /\ StreamInv /\ DohInv /\ QuicInv
      BY <2>1, StreamInvInit, DohInitInv, QuicInitInv DEF Init
    <2>3. StormInv
      BY <2>2, StormInit, Zenon
    <2> QED
      BY <2>2, <2>3 DEF BackendsInv
  <1>2. BackendsInv /\ [Next]_vars => BackendsInv'
    <2> SUFFICES ASSUME BackendsInv, [Next]_vars PROVE BackendsInv'
      OBVIOUS
    <2>i. StreamInv /\ StormInv /\ DohInv /\ QuicInv
      BY DEF BackendsInv
    <2>s. ASSUME UNCHANGED streamVars PROVE StreamInv' /\ StormInv'
      BY <2>i, <2>s, StreamInvKept, StormKept, Zenon
    <2>1. CASE protocol = "stream" /\ StreamNext /\ UNCHANGED <<dohVars, quicVars>>
      <3>1. StreamInv'
        BY <2>i, <2>1, StreamInvStep, Zenon
      <3>2. StormInv'
        BY <2>i, <2>1, <3>1, StormStep, Zenon
      <3> QED
        BY <2>i, <2>1, <3>1, <3>2, DohInvKept, QuicInvKept DEF BackendsInv
    <2>2. CASE protocol = "https" /\ DohNext /\ UNCHANGED <<streamVars, quicVars>>
      BY <2>i, <2>s, <2>2, DohStep, QuicInvKept DEF BackendsInv
    <2>3. CASE protocol \in {"doq", "h3"} /\ QuicNext /\ UNCHANGED <<streamVars, dohVars>>
      BY <2>i, <2>s, <2>3, DohInvKept, QuicStep DEF BackendsInv
    <2>4. CASE UNCHANGED vars
      BY <2>i, <2>s, <2>4, DohInvKept, QuicInvKept DEF BackendsInv, vars
    <2> QED
      BY <2>1, <2>2, <2>3, <2>4 DEF Next
  <1> QED
    BY <1>1, <1>2, PTL DEF Spec

(* PendingTable and PendingGuard::drop: an id stays with the one answer     *)
(* that may still carry it until that answer is read or submit drops its    *)
(* tombstone, and the reader hands no waiter another query's answer before. *)
THEOREM LateAnswersKeptApart == Spec => IdsStayReserved
  <1>1. ASSUME BackendsInv, BackendsInv', [Next]_vars
        PROVE  [\A c \in HonestOpen :
                  LET before == Reserved(c)
                      after == Reserved(c)'
                  IN  \A i \in before :
                      /\ i \in after \/ (slots[c][i] = Orphan /\ Submits(c))
                      /\ hand[c] = None /\ hand'[c] # None /\ slots[c][i].caller = hand'[c].to =>
                              hand'[c].asks = hand'[c].to]_streamVars
    <2>1. CASE StreamNext
      <3>1. StreamInv /\ StreamInv'
        BY <1>1 DEF BackendsInv
      <3>2. ASSUME NEW c \in HonestOpen, NEW i \in Reserved(c)
            PROVE  /\ i \in Reserved(c)' \/ (slots[c][i] = Orphan /\ Submits(c))
                   /\ hand[c] = None /\ hand'[c] # None /\ slots[c][i].caller = hand'[c].to =>
                        hand'[c].asks = hand'[c].to
        <4>1. c \in Honest /\ ~closed[c]
          BY DEF HonestOpen
        <4> QED
          BY <2>1, <3>1, <4>1, ReservedStep, HandOwn, Zenon
      <3> QED
        BY <3>2, Zenon
    <2>2. CASE UNCHANGED streamVars
      BY <2>2, Zenon
    <2> QED
      BY <1>1, <2>1, <2>2, Zenon DEF Next, vars
  <1> QED
    BY <1>1, BackendsInvariant, PTL DEF Spec, IdsStayReserved

(* No wait is forgotten by submit, dispatch, fail and PendingGuard::drop in *)
(* whatever order they take the connection's lock.                          *)
THEOREM NoForgottenWait == Spec => []WaiterHeld
  BY BackendsInvariant, InvWaiterHeld, PTL DEF BackendsInv

(* PendingTable::register never finds a table full of pending queries: the  *)
(* pool's leases bound them.                                                *)
THEOREM LeaseIsWorthASlot == Spec => []SlotForEveryLease
  BY BackendsInvariant, InvSlotForEveryLease, PTL DEF BackendsInv

(* The retry of StreamPool::query: a frame is queued at most twice, once    *)
(* for an update.                                                           *)
THEOREM AtMostOneRetry == Spec => []SentAtMostTwice
  BY BackendsInvariant, InvSentAtMostTwice, PTL DEF BackendsInv

(* The slack of dispatch and PendingGuard::drop: in a behaviour of any      *)
(* length it stops covering the late answers of an honest server only when  *)
(* there are more of them than slack_cap.                                   *)
THEOREM LateAnswersTolerated == Spec => StormTolerated
  <1>1. ASSUME BackendsInv, BackendsInv', [Next]_vars
        PROVE  [\A c \in HonestOpen :
                  Covered(c) => Covered(c)' \/ Cardinality(Late(c)') > SlackCap]_streamVars
    <2>1. CASE StreamNext
      <3>1. StreamInv /\ StreamInv' /\ StormInv
        BY <1>1 DEF BackendsInv
      <3>2. ASSUME NEW c \in HonestOpen, Covered(c)
            PROVE  Covered(c)' \/ Cardinality(Late(c)') > SlackCap
        <4>1. c \in Honest /\ ~closed[c]
          BY DEF HonestOpen
        <4>2. PendingAsked(c)
          BY <3>1, <4>1, Zenon DEF StormInv
        <4> QED
          BY <2>1, <3>1, <3>2, <4>1, <4>2, CoverStep, Zenon
      <3> QED
        BY <3>2, Zenon
    <2>2. CASE UNCHANGED streamVars
      BY <2>2, Zenon
    <2> QED
      BY <1>1, <2>1, <2>2, Zenon DEF Next, vars
  <1> QED
    BY <1>1, BackendsInvariant, PTL DEF Spec, StormTolerated

(* As long as no honest connection has more late answers than slack_cap...  *)
FewLate == \A c \in Honest : Cardinality(Late(c)) <= SlackCap

(* ... every open one is covered, and dispatch refuses none of its answers. *)
AllCovered == \A c \in Honest : ~closed[c] => Covered(c)
NoneRefused == \A c \in Honest : hand[c] # None => hand[c].to # None

(* dispatch's answer to an exhausted allowance, closing the connection,     *)
(* never meets an honest server whose late answers number at most slack_cap *)
(* at any one time, however many queries are cancelled over its life.       *)
THEOREM StormsSurvived == Spec => ([]FewLate => []NoneRefused)
  <1>t. SlackCap \in Nat /\ Limit \in Nat
    <2>1. Limit \in Nat /\ MaxInFlight \in Nat
      BY StreamAssumption
    <2> QED
      BY <2>1 DEF SlackCap
  <1>1. Init /\ BackendsInv => AllCovered /\ NoneRefused
    <2> SUFFICES ASSUME Init, BackendsInv, NEW c \in Honest PROVE Covered(c) /\ hand[c] = None
      BY Zenon DEF AllCovered, NoneRefused
    <2>1. StreamInit /\ StreamTypeOK /\ c \in Conns
      BY StreamAssumption DEF Init, BackendsInv, StreamInv
    <2>2. slack[c] = Limit /\ Blank(c) /\ hand[c] = None
      BY <2>1, Zenon DEF StreamInit, Blank
    <2>3. Late(c) = {}
      BY <2>1, <2>2, NothingOwed, Zenon DEF Late
    <2>4. Cardinality(Late(c)) = 0
      BY <2>3, FS_EmptySet, Zenon
    <2> QED
      BY <1>t, <2>2, <2>4 DEF Covered
  <1>2. ASSUME BackendsInv, BackendsInv', [Next]_vars, FewLate', AllCovered, NoneRefused
        PROVE  AllCovered' /\ NoneRefused'
    <2>i. StreamInv /\ StreamInv' /\ StormInv
      BY <1>2 DEF BackendsInv
    <2>1. CASE StreamNext
      <3>1. ASSUME NEW c \in Honest, ~closed'[c] PROVE Covered(c)'
        <4>1. ~closed[c]
          BY <2>1, <2>i, <3>1, OpenStep, Zenon
        <4>2. Covered(c) /\ PendingAsked(c)
          BY <1>2, <2>i, <4>1, Zenon DEF AllCovered, StormInv
        <4>3. Covered(c)' \/ Cardinality(Late(c)') > SlackCap
          BY <2>1, <2>i, <4>1, <4>2, CoverStep, Zenon
        <4>4. Cardinality(Late(c)') <= SlackCap
          BY <1>2, Zenon DEF FewLate
        <4>5. PendingAsked(c)' /\ c \in Conns
          BY <2>1, <2>i, <3>1, <4>2, AccountStep, StreamAssumption
        <4>6. Cardinality(Late(c)') \in Nat
          BY <2>i, <4>5, NextLateCount, Zenon DEF LateSize, StreamInv
        <4>7. ~(Cardinality(Late(c)') > SlackCap)
          BY <1>t, <4>4, <4>6
        <4> QED
          BY <4>3, <4>7
      <3>2. ASSUME NEW c \in Honest, hand'[c] # None PROVE hand'[c].to # None
        <4>1. CASE hand'[c] = hand[c]
          BY <1>2, <3>2, <4>1, Zenon DEF NoneRefused
        <4>2. CASE hand'[c] # hand[c]
          <5>1. ~closed[c] /\ \E f \in Frame : Hands(c, f)
            BY <2>1, <2>i, <3>2, <4>2, HandTaken, Zenon
          <5>2. Covered(c) /\ PendingAsked(c)
            BY <1>2, <2>i, <5>1, Zenon DEF AllCovered, StormInv
          <5> QED
            BY <2>i, <5>1, <5>2, NotRefused, Zenon
        <4> QED
          BY <4>1, <4>2
      <3> QED
        BY <3>1, <3>2, Zenon DEF AllCovered, NoneRefused
    <2>2. CASE UNCHANGED streamVars
      <3>1. /\ closed' = closed /\ slots' = slots /\ served' = served /\ frames' = frames
            /\ slack' = slack /\ hand' = hand
        BY <2>2, Zenon DEF streamVars, connVars, tableVars, taskVars
      <3>2. ASSUME NEW c \in Honest PROVE Covered(c)' = Covered(c)
        <4>1. Asked(c)' = Asked(c)
          BY <3>1, AskedSame, Zenon
        <4> QED
          BY <3>1, <4>1, Zenon DEF Covered, Late, Owed
      <3> QED
        BY <1>2, <3>1, <3>2, Zenon DEF AllCovered, NoneRefused
    <2> QED
      BY <1>2, <2>1, <2>2, Zenon DEF Next, vars
  <1> QED
    BY <1>1, <1>2, BackendsInvariant, PTL DEF Spec

(* DohPool's gate: once the protocol is known to be HTTP/1.1, the call that *)
(* holds it has been notified, or the notification is on its way.           *)
THEOREM GateOpens == Spec => []GateLetsGo
  BY BackendsInvariant, DohInvImplies, PTL DEF BackendsInv

(* Over HTTP and QUIC a query is sent again only when the connection that   *)
(* failed it had answered before, and over HTTP/1.1 only once that          *)
(* connection is closed; an update never is.                                *)
THEOREM RetriesAreSafe == Spec => []SentAgainIfStale
  BY BackendsInvariant, DohInvImplies, QuicInvImplies, PTL DEF BackendsInv, SentAgainIfStale

(* No QUIC query is on a connection whose driver belongs to a runtime that  *)
(* has ended: what is_alive and the end of a runtime see to.                *)
THEOREM RuntimeLives == Spec => []OnLiveRuntime
  BY BackendsInvariant, QuicInvImplies, PTL DEF BackendsInv

=============================================================================
