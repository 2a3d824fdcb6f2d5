-------------------------------- MODULE Doh --------------------------------
(* The pooled DNS-over-HTTPS backend over HTTP/1.1 and HTTP/2               *)
(* (upstream/doh.rs): admission, generations of the HTTP client, the gate   *)
(* that lets one call at a time start a connection, and the single retry.   *)
(*                                                                          *)
(* The HTTP client is external: it opens a connection when it has none for  *)
(* a request, ALPN decides what it speaks, and connections fail or close at *)
(* any time.  The deadline of a call may pass, and its caller may give up,  *)
(* at any await.                                                            *)
EXTENDS Integers, Sequences, FiniteSets

CONSTANTS
    Calls,
    HttpUpdates,    \* the calls whose opcode is not QUERY
    HttpConns,      \* the connections that are ever opened
    Capacity,       \* max_connections x max_in_flight
    MaxGen,         \* bound on the generations
    MaxHttpCalls,   \* bound on the calls made
    Nil

ASSUME DohAssumption ==
    /\ HttpUpdates \subseteq Calls /\ {Capacity, MaxGen, MaxHttpCalls} \subseteq Nat \ {0}
    /\ Nil \notin HttpConns

VARIABLES
    gen,        \* the current generation
    http1,      \* per generation: a connection negotiated HTTP/1.1
    holder,     \* per generation: who holds the gate
    queue,      \* per generation: who waits for it, in order
    conn,       \* per connection [at, gen, by, h2, answered]
    call,       \* per call a record, see IdleCall
    made        \* calls made so far

dohVars == <<gen, http1, holder, queue, conn, call, made>>

Gens == 1 .. MaxGen

IdleCall == [at |-> "idle", gen |-> 0, wait |-> "none", notified |-> FALSE, conn |-> Nil,
             reused |-> FALSE, retry |-> FALSE, retried |-> FALSE, sends |-> 0, prev |-> Nil]

DohInit ==
    /\ gen = 1
    /\ http1 = [g \in Gens |-> FALSE]
    /\ holder = [g \in Gens |-> Nil]
    /\ queue = [g \in Gens |-> <<>>]
    /\ conn = [c \in HttpConns |-> [at |-> "new", gen |-> 0, by |-> Nil, h2 |-> FALSE,
                                answered |-> FALSE]]
    /\ call = [q \in Calls |-> IdleCall]
    /\ made = 0

(* GenState::has_connection: the gauge counts from CountedIo::new to drop.  *)
HasConnection(g) ==
    \E c \in HttpConns : conn[c].gen = g /\ conn[c].at \in {"open", "flagged", "ready"}

Users(c) == {q \in Calls : call[q].at \in {"await", "body"} /\ call[q].conn = c}

Become(q, next) == call' = [call EXCEPT ![q] = next]

(* The guard, or the place in the queue, is dropped.                        *)
LetGo(q) ==
    /\ holder' = [g \in Gens |-> IF holder[g] = q THEN Nil ELSE holder[g]]
    /\ queue' = [g \in Gens |-> SelectSeq(queue[g], LAMBDA p : p # q)]

KeepGate == UNCHANGED <<holder, queue>>

-----------------------------------------------------------------------------
(* admit.                                                                   *)
Begin(q) ==
    /\ call[q].at = "idle" /\ made < MaxHttpCalls
    /\ made' = made + 1
    /\ Become(q, [IdleCall EXCEPT !.at = "admit"])
    /\ UNCHANGED <<gen, http1, holder, queue, conn>>

Admitted == {q \in Calls : call[q].at \notin {"idle", "admit"}}

Admit(q) ==
    /\ call[q].at = "admit" /\ Cardinality(Admitted) < Capacity
    /\ Become(q, [call[q] EXCEPT !.at = "generation"])
    /\ UNCHANGED <<gen, http1, holder, queue, conn, made>>

(* generation: a client that reached the maximum lifetime is replaced.      *)
TakeGeneration(q) ==
    /\ call[q].at = "generation"
    /\ gen' \in {gen, gen + 1} \cap Gens
    /\ Become(q, [call[q] EXCEPT !.at = "check", !.gen = gen'])
    /\ UNCHANGED <<http1, holder, queue, conn, made>>

(* GenState::send: a call that finds a connection needs no guard.           *)
Check(q) ==
    LET g == call[q].gen IN
    /\ call[q].at = "check"
    /\ IF HasConnection(g)
       THEN Become(q, [call[q] EXCEPT !.at = "send"]) /\ UNCHANGED queue
       ELSE /\ Become(q, [call[q] EXCEPT !.at = "gate"])
            /\ queue' = [queue EXCEPT ![g] = Append(@, q)]
    /\ UNCHANGED <<gen, http1, holder, conn, made>>

(* The lock is fair; the guard is kept only if there is still none.         *)
LockGate(q) ==
    LET g == call[q].gen IN
    /\ call[q].at = "gate" /\ holder[g] = Nil /\ Head(queue[g]) = q
    /\ queue' = [queue EXCEPT ![g] = Tail(@)]
    /\ IF HasConnection(g)
       THEN Become(q, [call[q] EXCEPT !.at = "send"]) /\ UNCHANGED holder
       ELSE /\ Become(q, [call[q] EXCEPT !.at = "send", !.wait = "start"])
            /\ holder' = [holder EXCEPT ![g] = q]
    /\ UNCHANGED <<gen, http1, conn, made>>

-----------------------------------------------------------------------------
(* wait_for_http1, which runs beside the request of the call that holds the *)
(* guard: register, look at the flag, wait.                                 *)
Enable(q) ==
    /\ call[q].wait = "start"
    /\ Become(q, [call[q] EXCEPT !.wait = "registered", !.notified = FALSE])
    /\ UNCHANGED <<gen, http1, holder, queue, conn, made>>

LookAtFlag(q) ==
    /\ call[q].wait = "registered"
    /\ IF http1[call[q].gen]
       THEN Become(q, [call[q] EXCEPT !.wait = "none"]) /\ LetGo(q)
       ELSE Become(q, [call[q] EXCEPT !.wait = "looked"]) /\ KeepGate
    /\ UNCHANGED <<gen, http1, conn, made>>

Park(q) ==
    /\ call[q].wait = "looked"
    /\ Become(q, [call[q] EXCEPT !.wait = "parked"])
    /\ UNCHANGED <<gen, http1, holder, queue, conn, made>>

Wake(q) ==
    /\ call[q].wait = "parked" /\ call[q].notified
    /\ Become(q, [call[q] EXCEPT !.wait = "start"])
    /\ UNCHANGED <<gen, http1, holder, queue, conn, made>>

(* Faulty variant: without enable() the future registers when it is polled. *)
RegisteredWhenPolled(q) == call[q].wait = "parked"

(* Who notify_waiters reaches.                                              *)
Registered(q) == call[q].wait \in {"registered", "looked", "parked"}

-----------------------------------------------------------------------------
(* The HTTP client opens a connection for a request that has none to use:   *)
(* CountedIo::new counts it, then sets the flag, then notifies.             *)
Fits(q, c) ==
    conn[c].at = "ready" /\ conn[c].gen = call[q].gen /\ (conn[c].h2 \/ Users(c) = {})

Opening(q) == \E c \in HttpConns : conn[c].at \in {"open", "flagged"} /\ conn[c].by = q

Open(q) ==
    LET new == {c \in HttpConns : conn[c].at = "new"}
        c == CHOOSE c \in new : TRUE
    IN
    /\ call[q].at = "send" /\ ~Opening(q) /\ \A d \in HttpConns : ~Fits(q, d)
    /\ new # {}
    /\ \E h2 \in BOOLEAN :
        conn' = [conn EXCEPT ![c] = [at |-> "open", gen |-> call[q].gen, by |-> q, h2 |-> h2,
                                     answered |-> FALSE]]
    /\ UNCHANGED <<gen, http1, holder, queue, call, made>>

Flag(c) ==
    /\ conn[c].at = "open"
    /\ http1' = [http1 EXCEPT ![conn[c].gen] = @ \/ ~conn[c].h2]
    /\ conn' = [conn EXCEPT ![c].at = IF conn[c].h2 THEN "ready" ELSE "flagged", ![c].by = Nil]
    /\ UNCHANGED <<gen, holder, queue, call, made>>

NotifyWaiters(c) ==
    /\ conn[c].at = "flagged"
    /\ conn' = [conn EXCEPT ![c].at = "ready"]
    /\ call' = [q \in Calls |->
            IF call[q].gen = conn[c].gen /\ Registered(q)
            THEN [call[q] EXCEPT !.notified = TRUE] ELSE call[q]]
    /\ UNCHANGED <<gen, http1, holder, queue, made>>

(* The request goes out on a connection that has room for it.               *)
Send(q) ==
    /\ call[q].at = "send"
    /\ \E c \in HttpConns :
        /\ Fits(q, c)
        /\ Become(q, [call[q] EXCEPT !.at = "await", !.conn = c, !.sends = @ + 1])
    /\ UNCHANGED <<gen, http1, holder, queue, conn, made>>

(* Any connection may close: by the server, for idleness, with its client.  *)
Close(c) ==
    /\ conn[c].at = "ready"
    /\ conn' = [conn EXCEPT ![c].at = "closed"]
    /\ UNCHANGED <<gen, http1, holder, queue, call, made>>

-----------------------------------------------------------------------------
(* attempt, after the request.  The response headers end the wait of the    *)
(* gate, and mark the connection as one that has answered.                  *)
Headers(q) ==
    LET c == call[q].conn IN
    /\ call[q].at = "await" /\ conn[c].at = "ready"
    /\ Become(q, [call[q] EXCEPT !.at = "body", !.wait = "none", !.reused = conn[c].answered])
    /\ conn' = [conn EXCEPT ![c].answered = TRUE]
    /\ LetGo(q)
    /\ UNCHANGED <<gen, http1, made>>

Failed(q, retry) ==
    [call[q] EXCEPT !.at = "failed", !.wait = "none", !.retry = retry,
                    !.prev = IF @ = Nil THEN call[q].conn ELSE @]

(* Faulty variant: any failed connection justifies a retry.                 *)
FailedOnAnyConnection(q) == TRUE

(* failed_on_answering_connection, for a failure of the connection.         *)
FailedOnAnsweringConnection(q) == conn[call[q].conn].answered

(* is_connection_level, which excludes malformed messages and misuse only.  *)
(* A connection that fails may fail under a malformed message, which then   *)
(* is the failure; and HTTP/2 may reset one stream of an open connection,   *)
(* which is neither.                                                        *)
Levels(q) ==
    LET c == call[q].conn
    IN  IF conn[c].at = "closed" \/ conn[c].h2 THEN BOOLEAN ELSE {FALSE}

RequestFails(q) ==
    /\ call[q].at = "await"
    /\ \E level \in Levels(q) : Become(q, Failed(q, level /\ FailedOnAnsweringConnection(q)))
    /\ LetGo(q)
    /\ UNCHANGED <<gen, http1, conn, made>>

BodyFails(q) ==
    /\ call[q].at = "body"
    /\ \E level \in Levels(q) : Become(q, Failed(q, level /\ call[q].reused))
    /\ UNCHANGED <<gen, http1, holder, queue, conn, made>>

(* resolve: once more, or the failure is returned.                          *)
Again(q) ==
    /\ call[q].at = "failed" /\ call[q].retry /\ ~call[q].retried /\ q \notin HttpUpdates
    /\ Become(q, [call[q] EXCEPT !.at = "generation", !.retried = TRUE, !.retry = FALSE])
    /\ UNCHANGED <<gen, http1, holder, queue, conn, made>>

(* The call ends: with an answer, a bad status or body, a failed connect, a *)
(* failure that is not retried, its deadline, or because its caller gives   *)
(* up.  An HTTP/1.1 connection is closed under an unfinished request.       *)
Leave(q) ==
    LET c == call[q].conn
        unfinished == call[q].at \in {"await", "body"} /\ ~conn[c].h2
    IN
    /\ call[q].at # "idle"
    /\ Become(q, IdleCall)
    /\ LetGo(q)
    /\ \/ UNCHANGED conn
       \/ unfinished /\ conn[c].at = "ready" /\ conn' = [conn EXCEPT ![c].at = "closed"]
    /\ UNCHANGED <<gen, http1, made>>

DohNext ==
    \/ \E q \in Calls :
        \/ Begin(q) \/ Admit(q) \/ TakeGeneration(q) \/ Check(q) \/ LockGate(q)
        \/ Enable(q) \/ LookAtFlag(q) \/ Park(q) \/ Wake(q)
        \/ Open(q) \/ Send(q) \/ Headers(q) \/ RequestFails(q) \/ BodyFails(q)
        \/ Again(q) \/ Leave(q)
    \/ \E c \in HttpConns : Flag(c) \/ NotifyWaiters(c) \/ Close(c)

-----------------------------------------------------------------------------
(* Once a connection of the generation has turned out to be HTTP/1.1, the   *)
(* call that holds the gate is not left waiting to hear of it: the calls    *)
(* behind it are released although its own query may never be answered.     *)
GateLetsGo ==
    \A q \in Calls : call[q].wait = "parked" /\ http1[call[q].gen] =>
        \/ call[q].notified
        \/ \E c \in HttpConns : conn[c].gen = call[q].gen /\ conn[c].at = "flagged"

(* A request is handed to a connection at most twice, an update once, and   *)
(* the second time only because it failed on a connection that had answered *)
(* something: with the connection, or over HTTP/2 perhaps alone.            *)
DohSentAgainIfStale ==
    \A q \in Calls :
        /\ call[q].sends <= IF q \in HttpUpdates THEN 1 ELSE 2
        /\ call[q].sends = 2 =>
            LET c == call[q].prev IN conn[c].answered /\ (conn[c].at = "closed" \/ conn[c].h2)

=============================================================================
