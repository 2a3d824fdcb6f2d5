-------------------------------- MODULE Quic --------------------------------
(* The pooled QUIC backends, DNS over QUIC and DNS over HTTP/3 (doq.rs,     *)
(* doh.rs), over the shared endpoint (quic.rs): connections belong to the   *)
(* runtime that opened them, a query has a stream of its own, and is sent   *)
(* once more when a connection that had answered closes under it.           *)
(*                                                                          *)
(* The pool of connections is that of module Pool, reduced to what it may   *)
(* hand out; runtimes end, and the peer closes connections, at any time.    *)
EXTENDS Integers, FiniteSets

CONSTANTS
    Queries,
    Changes,        \* the queries whose opcode is not QUERY
    QuicConns,      \* the connections that are ever opened
    Runtimes,
    MaxConnections,
    MaxQueries,     \* bound on the calls made
    Nobody

ASSUME QuicAssumption ==
    /\ Changes \subseteq Queries /\ {MaxConnections, MaxQueries} \subseteq Nat \ {0}

VARIABLES
    protocol,   \* doq or h3, fixed when the backend is made
    running,    \* the runtimes that have not ended
    bound,      \* the runtime that serves the endpoint, or Nobody
    link,       \* per connection [at, runtime, pooled, answered]
    query,      \* per query a record, see IdleQuery
    asked       \* calls made so far

quicVars == <<protocol, running, bound, link, query, asked>>

IdleQuery == [at |-> "idle", runtime |-> Nobody, link |-> Nobody, fresh |-> FALSE,
              sends |-> 0, prev |-> Nobody]

QuicInit ==
    /\ running = Runtimes
    /\ bound = Nobody
    /\ link = [c \in QuicConns |-> [at |-> "new", runtime |-> Nobody, pooled |-> FALSE,
                                    answered |-> FALSE]]
    /\ query = [q \in Queries |-> IdleQuery]
    /\ asked = 0

-----------------------------------------------------------------------------
Ask(q) ==
    /\ query[q].at = "idle" /\ asked < MaxQueries
    /\ asked' = asked + 1
    /\ \E r \in running : query' = [query EXCEPT ![q] = [IdleQuery EXCEPT !.at = "acquire",
                                                                          !.runtime = r]]
    /\ UNCHANGED <<protocol, running, bound, link>>

(* Faulty variant: the runtime of a connection is not looked at.            *)
IsAliveAnywhere(c, r) == link[c].at = "open"

(* is_alive, as the task of a query on runtime r sees it.                   *)
IsAlive(c, r) == link[c].at = "open" /\ link[c].runtime = r

(* The pool's sweep retires what is not alive.                              *)
Swept(r) == [c \in QuicConns |-> [link[c] EXCEPT !.pooled = @ /\ IsAlive(c, r)]]

Pooled(links) == {c \in QuicConns : links[c].pooled}

(* A query that is sent again prefers a connection that has not answered,   *)
(* then a new one.                                                          *)
Leasable(q, links) ==
    LET unused == {c \in Pooled(links) : ~links[c].answered}
        full == Cardinality(Pooled(links)) >= MaxConnections
    IN  IF ~query[q].fresh \/ (full /\ unused = {}) THEN Pooled(links) ELSE unused

Lease(q) ==
    LET links == Swept(query[q].runtime) IN
    /\ query[q].at = "acquire"
    /\ \E c \in Leasable(q, links) :
        query' = [query EXCEPT ![q].at = "leased", ![q].link = c]
    /\ link' = links
    /\ UNCHANGED <<protocol, running, bound, asked>>

(* endpoint: bound to the runtime of the call; the endpoint it replaces is  *)
(* closed, with every connection on it.                                     *)
Rebound(links, r) ==
    [c \in QuicConns |->
        IF bound # r /\ links[c].runtime = bound /\ links[c].at = "open"
        THEN [links[c] EXCEPT !.at = "closed"] ELSE links[c]]

(* The pool opens a connection for the call.                                *)
Connect(q) ==
    LET r == query[q].runtime
        links == Swept(r)
        new == {c \in QuicConns : link[c].at = "new"}
        c == CHOOSE c \in new : TRUE
    IN
    /\ query[q].at = "acquire" /\ Cardinality(Pooled(links)) < MaxConnections
    /\ new # {}
    /\ link' = [Rebound(links, r) EXCEPT ![c] =
                    [at |-> "open", runtime |-> r, pooled |-> TRUE, answered |-> FALSE]]
    /\ query' = [query EXCEPT ![q].at = "leased", ![q].link = c]
    /\ bound' = r
    /\ UNCHANGED <<protocol, running, asked>>

(* open_bi and the write, or send_request: the query is on its way.         *)
SendQuery(q) ==
    /\ query[q].at = "leased" /\ link[query[q].link].at = "open"
    /\ query' = [query EXCEPT ![q].at = "sent", ![q].sends = @ + 1]
    /\ UNCHANGED <<protocol, running, bound, link, asked>>

(* A valid answer; one that is not ends the call with the connection kept.  *)
Answered(q) ==
    /\ query[q].at = "sent" /\ link[query[q].link].at = "open"
    /\ link' = [link EXCEPT ![query[q].link].answered = TRUE]
    /\ query' = [query EXCEPT ![q] = IdleQuery]
    /\ UNCHANGED <<protocol, running, bound, asked>>

-----------------------------------------------------------------------------
(* retry_allowed, and the same rule in DoqPool::query and attempt.          *)
RetryAllowed(q, closed) ==
    closed /\ link[query[q].link].answered /\ ~query[q].fresh /\ q \notin Changes

(* failed: what closed the connection, or over HTTP/3 a GOAWAY, retires it. *)
Closings(q) ==
    IF link[query[q].link].at = "closed" THEN {TRUE}
    ELSE IF protocol = "h3" THEN BOOLEAN ELSE {FALSE}

StreamFails(q) ==
    LET c == query[q].link IN
    /\ query[q].at \in {"leased", "sent"}
    /\ \E closed \in Closings(q) :
        /\ link' = [link EXCEPT ![c].pooled = @ /\ ~closed]
        /\ query' = [query EXCEPT ![q] =
                IF RetryAllowed(q, closed)
                THEN [@ EXCEPT !.at = "acquire", !.link = Nobody, !.fresh = TRUE,
                               !.prev = IF query[q].at = "sent" THEN c ELSE Nobody]
                ELSE IdleQuery]
    /\ UNCHANGED <<protocol, running, bound, asked>>

(* The deadline passes, no connection is to be had, or the caller gives up: *)
(* StreamGuard and CancelOnDrop reset the stream.  A third timeout in a row *)
(* retires the connection.                                                  *)
Withdraw(q) ==
    LET c == query[q].link IN
    /\ query[q].at # "idle"
    /\ query' = [query EXCEPT ![q] = IdleQuery]
    /\ \/ UNCHANGED link
       \/ query[q].at = "sent" /\ link' = [link EXCEPT ![c].pooled = FALSE]
    /\ UNCHANGED <<protocol, running, bound, asked>>

(* External: the peer, or the transport's own idle timeout.                 *)
CloseLink(c) ==
    /\ link[c].at = "open" /\ link[c].runtime \in running
    /\ link' = [link EXCEPT ![c].at = "closed"]
    /\ UNCHANGED <<protocol, running, bound, query, asked>>

(* External: a runtime is shut down, which drops its tasks: its calls end,  *)
(* and its connections have no driver that could notice a close.            *)
RuntimeEnds(r) ==
    /\ r \in running
    /\ running' = running \ {r}
    /\ query' = [q \in Queries |-> IF query[q].runtime = r THEN IdleQuery ELSE query[q]]
    /\ UNCHANGED <<protocol, bound, link, asked>>

QuicNext ==
    \/ \E q \in Queries :
        \/ Ask(q) \/ Lease(q) \/ Connect(q) \/ SendQuery(q) \/ Answered(q)
        \/ StreamFails(q) \/ Withdraw(q)
    \/ \E c \in QuicConns : CloseLink(c)
    \/ \E r \in Runtimes : RuntimeEnds(r)

-----------------------------------------------------------------------------
(* No query is on a connection whose driver belongs to a runtime that has   *)
(* ended, and which could only run into its timeout.                        *)
OnLiveRuntime ==
    \A q \in Queries : query[q].at \in {"leased", "sent"} => link[query[q].link].runtime \in running

(* A query is sent at most twice, one that changes something once, and the  *)
(* second time only because the first connection had answered and is gone.  *)
QuicSentAgainIfStale ==
    \A q \in Queries :
        /\ query[q].sends <= IF q \in Changes THEN 1 ELSE 2
        /\ query[q].sends = 2 =>
            link[query[q].prev].answered /\ ~link[query[q].prev].pooled

=============================================================================
