------------------------------- MODULE Stream -------------------------------
(* The pipelined engine behind the TCP and DoT backends (upstream/stream.rs *)
(* over the PendingTable of upstream/pool.rs): callers register a query     *)
(* under a wire id and queue its frame, a writer task sends the frames, a   *)
(* reader task hands every answer to the waiter of its id, cancelled        *)
(* queries leave tombstones, and whoever notices that the connection is     *)
(* broken fails every waiter.                                               *)
(*                                                                          *)
(* Every section under the connection's mutex is one step; what a task does *)
(* after it released the mutex (sending to waiters) is another.  A waiter's *)
(* serial is the name of its caller, which no other waiter has meanwhile.   *)
(* Deadlines are choices: a timeout, and the expiry of a tombstone, may     *)
(* come at any moment.  The pool is what Pool.tla says of it: a lease on a  *)
(* connection it still holds, at most MaxInFlight of them at a time.        *)
EXTENDS Integers, FiniteSets, Sequences

CONSTANTS
    Callers,        \* concurrent callers, each with a question of its own
    Updates,        \* the callers whose opcode is not QUERY
    Conns,          \* names for connections, each opened at most once
    Honest,         \* those whose server only answers what it was asked
    IdCount,        \* size of the id space, 65 536 in the code
    Start,          \* the random first id
    MaxInFlight,
    Limit,          \* UNSOLICITED_LIMIT
    MaxCalls,       \* bound on the calls of a behaviour
    None

Ids == 0 .. IdCount - 1

(* A query on the wire.                                                     *)
Frame == [id : Ids, q : Callers]

(* What a channel carries, and what the reader and fail() hold meanwhile.   *)
Message == [ok : {TRUE}, asks : Callers] \cup [ok : {FALSE}, level : BOOLEAN]
Taken == [to : Callers \cup {None}, asks : Callers \cup {None}]
Doomed == [to : SUBSET Callers, level : BOOLEAN]

ASSUME StreamAssumption ==
    /\ IsFiniteSet(Callers) /\ Updates \subseteq Callers
    /\ IsFiniteSet(Conns) /\ Honest \subseteq Conns
    /\ {IdCount, MaxInFlight} \subseteq Nat \ {0} /\ {Limit, MaxCalls} \subseteq Nat
    /\ MaxInFlight <= IdCount /\ Start \in Ids
    /\ None \notin Callers \cup Conns \cup Nat \cup Message \cup Taken \cup Doomed

VARIABLES
    \* a connection
    pooled,     \* new, in (the pool may lease it) or out
    closed,     \* ConnState::closed
    dead,       \* ConnShared::dead
    answered,   \* ConnShared::answered
    slots,      \* PendingTable::slots: None, [caller] or [tomb]
    tombs,      \* PendingTable::tombstones, oldest first
    nextId,     \* PendingTable::next_id
    slack,      \* ConnState::slack
    frames,     \* the queue to the writer
    served,     \* how often each query has reached its server and is not answered
    hand,       \* the waiter and frame the reader has taken: None or a record
    failing,    \* the waiters fail() has yet to notify: None or a record
    \* a caller
    pc, fresh,
    lease,      \* the connection its attempt uses
    wid,        \* the wire id its guard holds
    inbox,      \* its oneshot channel
    tries,      \* how often this call has queued its frame
    calls       \* calls begun

tableVars == <<slots, tombs, nextId, slack>>
taskVars == <<frames, served, hand>>
connVars == <<pooled, closed, dead, answered, tableVars, taskVars, failing>>
callVars == <<pc, fresh, lease, wid, inbox, tries, calls>>
streamVars == <<connVars, callVars>>

-----------------------------------------------------------------------------
(* PendingTable.  A table is a record of its slots, tombstones and counter. *)
Free == [caller |-> None, tomb |-> FALSE]
Pending(q) == [caller |-> q, tomb |-> FALSE]
Orphan == [caller |-> None, tomb |-> TRUE]

SlackCap == Limit + MaxInFlight

InUse(s) == {i \in Ids : s[i] # Free}
PendingIds(c) == {i \in Ids : slots[c][i].caller # None}

(* The ids of the k oldest tombstones become free.                          *)
Without(s, t, k) == [i \in Ids |-> IF \E j \in 1 .. k : t[j] = i THEN Free ELSE s[i]]

Drop(t, k) == SubSeq(t, k + 1, Len(t))
WithoutAt(t, j) == SubSeq(t, 1, j - 1) \o SubSeq(t, j + 1, Len(t))

(* How often the server has each frame once the queued ones are sent.       *)
Asked(c) ==
    [f \in Frame |-> served[c][f] + Cardinality({i \in DOMAIN frames[c] : frames[c][i] = f})]

(* The first id at or after n, wrapping, whose slot is free.                *)
FirstFree(s, n) ==
    LET At(k) == (n + k) % IdCount
        k == CHOOSE k \in 0 .. IdCount - 1 :
                /\ s[At(k)] = Free
                /\ \A j \in 0 .. k - 1 : s[At(j)] # Free
    IN  At(k)

(* register.  The sweep drops the expired tombstones, a prefix of any       *)
(* length; a full table then gives up its oldest tombstone, and is refused  *)
(* when it has none.                                                        *)
Register(c, q, k) ==
    LET s == Without(slots[c], tombs[c], k)
        t == Drop(tombs[c], k)
        full == Cardinality(InUse(s)) >= MaxInFlight
        e == IF full THEN 1 ELSE 0
        room == Without(s, t, e)
        id == FirstFree(room, nextId[c])
    IN  IF full /\ t = <<>>
        THEN [ok |-> FALSE, slots |-> s, tombs |-> t]
        ELSE [ok |-> TRUE, id |-> id, slots |-> [room EXCEPT ![id] = Pending(q)],
              tombs |-> Drop(t, e)]

-----------------------------------------------------------------------------
StreamInit ==
    /\ pooled = [c \in Conns |-> "new"]
    /\ closed = [c \in Conns |-> FALSE]
    /\ dead = [c \in Conns |-> FALSE]
    /\ answered = [c \in Conns |-> FALSE]
    /\ slots = [c \in Conns |-> [i \in Ids |-> Free]]
    /\ tombs = [c \in Conns |-> <<>>]
    /\ nextId = [c \in Conns |-> Start]
    /\ slack = [c \in Conns |-> Limit]
    /\ frames = [c \in Conns |-> <<>>]
    /\ served = [c \in Conns |-> [f \in Frame |-> 0]]
    /\ hand = [c \in Conns |-> None]
    /\ failing = [c \in Conns |-> None]
    /\ pc = [q \in Callers |-> "idle"]
    /\ fresh = [q \in Callers |-> FALSE]
    /\ lease = [q \in Callers |-> None]
    /\ wid = [q \in Callers |-> None]
    /\ inbox = [q \in Callers |-> None]
    /\ tries = [q \in Callers |-> 0]
    /\ calls = 0

-----------------------------------------------------------------------------
(* fail: the section under the lock.  Only the first call has an effect.    *)
(* The table's counters, and what the tasks of a closed connection still    *)
(* hold, no longer reach anyone and are forgotten.                          *)
Fail(c, connectionLevel) ==
    IF closed[c]
    THEN UNCHANGED <<closed, tableVars, failing, frames, served>>
    ELSE /\ closed' = [closed EXCEPT ![c] = TRUE]
         /\ failing' = [failing EXCEPT ![c] =
                [to |-> {slots[c][i].caller : i \in PendingIds(c)}, level |-> connectionLevel]]
         /\ slots' = [slots EXCEPT ![c] = [i \in Ids |-> Free]]
         /\ tombs' = [tombs EXCEPT ![c] = <<>>]
         /\ nextId' = [nextId EXCEPT ![c] = Start]
         /\ slack' = [slack EXCEPT ![c] = Limit]
         /\ frames' = [frames EXCEPT ![c] = <<>>]
         /\ served' = [served EXCEPT ![c] = [f \in Frame |-> 0]]

(* fail: what follows the section.  Sending to a caller that gave up has no *)
(* effect.                                                                  *)
Listening(q) == pc[q] = "wait"

Sent(msgs) == [q \in Callers |-> IF Listening(q) /\ msgs[q] # None THEN msgs[q] ELSE inbox[q]]

Notify(c) ==
    /\ failing[c] # None
    /\ dead' = [dead EXCEPT ![c] = TRUE]
    /\ inbox' = Sent([q \in Callers |->
                    IF q \in failing[c].to THEN [ok |-> FALSE, level |-> failing[c].level] ELSE None])
    /\ failing' = [failing EXCEPT ![c] = None]
    /\ UNCHANGED <<pooled, closed, answered, tableVars, taskVars,
                   pc, fresh, lease, wid, tries, calls>>

-----------------------------------------------------------------------------
(* A caller.  The end of a call, with its lease given back.                 *)
Return(q) ==
    /\ pc' = [pc EXCEPT ![q] = "idle"]
    /\ fresh' = [fresh EXCEPT ![q] = FALSE]
    /\ lease' = [lease EXCEPT ![q] = None]
    /\ wid' = [wid EXCEPT ![q] = None]
    /\ inbox' = [inbox EXCEPT ![q] = None]
    /\ tries' = [tries EXCEPT ![q] = 0]

(* query.  A name is used again once no task holds the waiter of its last   *)
(* call.                                                                    *)
HeldBy(c) ==
    (IF hand[c] = None THEN {} ELSE {hand[c].to})
        \cup (IF failing[c] = None THEN {} ELSE failing[c].to)

Call(q) ==
    /\ pc[q] = "idle" /\ calls < MaxCalls
    /\ \A c \in Conns : q \notin HeldBy(c)
    /\ pc' = [pc EXCEPT ![q] = "acquire"]
    /\ calls' = calls + 1
    /\ UNCHANGED <<connVars, fresh, lease, wid, inbox, tries>>

(* The pool leases a connection it holds, is not known to be dead and has   *)
(* room, or opens one; acquire_fresh prefers one that has not answered.     *)
Leases(c) == Cardinality({q \in Callers : lease[q] = c})
Usable == {c \in Conns : pooled[c] = "in" /\ ~dead[c] /\ Leases(c) < MaxInFlight}
Unopened == {c \in Conns : pooled[c] = "new"}
Unused == {c \in Usable : ~answered[c]}

Offered(q) ==
    IF ~fresh[q] THEN Usable \cup Unopened
    ELSE IF Unused # {} THEN Unused
    ELSE IF Unopened # {} THEN Unopened ELSE Usable

Acquire(q) ==
    /\ pc[q] = "acquire"
    /\ \E c \in Offered(q) :
        /\ pooled' = [pooled EXCEPT ![c] = "in"]
        /\ lease' = [lease EXCEPT ![q] = c]
    /\ pc' = [pc EXCEPT ![q] = "submit"]
    /\ UNCHANGED <<closed, dead, answered, tableVars, taskVars, failing,
                   fresh, wid, inbox, tries, calls>>

(* The pool has no connection before the deadline, or the connect fails.    *)
AcquireFails(q) ==
    /\ pc[q] = "acquire"
    /\ Return(q)
    /\ UNCHANGED <<connVars, calls>>

(* Faulty variant: the opcode is not looked at.                             *)
MayRetryAny(q, connectionLevel) ==
    connectionLevel /\ answered[lease[q]] /\ ~fresh[q]

(* The retry rule: the closure connection_failed, and the loop of query.    *)
MayRetry(q, connectionLevel) ==
    connectionLevel /\ answered[lease[q]] /\ q \notin Updates /\ ~fresh[q]

(* connection_failed, and what query makes of it: another attempt if the    *)
(* deadline has not passed.                                                 *)
ConnectionFailed(q, connectionLevel) ==
    LET c == lease[q] IN
    /\ pooled' = IF connectionLevel \/ dead[c] THEN [pooled EXCEPT ![c] = "out"] ELSE pooled
    /\ \/ /\ MayRetry(q, connectionLevel)
          /\ pc' = [pc EXCEPT ![q] = "acquire"]
          /\ fresh' = [fresh EXCEPT ![q] = TRUE]
          /\ lease' = [lease EXCEPT ![q] = None]
          /\ wid' = [wid EXCEPT ![q] = None]
          /\ inbox' = [inbox EXCEPT ![q] = None]
          /\ UNCHANGED tries
       \/ Return(q)

(* submit: one section under the lock.                                      *)
SubmitClosed(q) ==
    /\ pc[q] = "submit" /\ closed[lease[q]]
    /\ ConnectionFailed(q, TRUE)
    /\ UNCHANGED <<closed, dead, answered, tableVars, taskVars, failing, calls>>

(* When the queue to the writer is full the slot is given back at once and  *)
(* the connection fails next.                                               *)
Submit(q) ==
    LET c == lease[q]
        room == Len(frames[c]) < MaxInFlight
    IN
    /\ pc[q] = "submit" /\ ~closed[c]
    /\ \E k \in 0 .. Len(tombs[c]) :
        LET r == Register(c, q, k) IN
        /\ tombs' = [tombs EXCEPT ![c] = r.tombs]
        /\ \/ /\ ~r.ok
              /\ slots' = [slots EXCEPT ![c] = r.slots]
              /\ ConnectionFailed(q, FALSE)
              /\ UNCHANGED <<nextId, frames>>
           \/ /\ r.ok
              /\ slots' = [slots EXCEPT ![c] =
                    IF room THEN r.slots ELSE [r.slots EXCEPT ![r.id] = Free]]
              /\ nextId' = [nextId EXCEPT ![c] = (r.id + 1) % IdCount]
              /\ IF room
                 THEN /\ frames' = [frames EXCEPT ![c] = Append(@, [id |-> r.id, q |-> q])]
                      /\ wid' = [wid EXCEPT ![q] = r.id]
                      /\ tries' = [tries EXCEPT ![q] = @ + 1]
                      /\ pc' = [pc EXCEPT ![q] = "wait"]
                 ELSE /\ pc' = [pc EXCEPT ![q] = "full"]
                      /\ UNCHANGED <<frames, wid, tries>>
              /\ UNCHANGED <<pooled, fresh, lease, inbox>>
    /\ UNCHANGED <<closed, dead, answered, slack, served, hand, failing, calls>>

SubmitFull(q) ==
    /\ pc[q] = "full"
    /\ Fail(lease[q], TRUE)
    /\ ConnectionFailed(q, TRUE)
    /\ UNCHANGED <<dead, answered, hand, calls>>

(* validate_response without the id: the answer repeats the question.       *)
Validates(q, m) == m.ok /\ m.asks = q

(* attempt: the answer, or the failure, has arrived.                        *)
Receive(q) ==
    LET m == inbox[q] IN
    /\ pc[q] = "wait" /\ m # None
    /\ \/ /\ Validates(q, m)
          /\ pc' = [pc EXCEPT ![q] = "ok"]
          /\ UNCHANGED <<pooled, fresh, lease, wid, inbox, tries>>
       \/ m.ok /\ ~Validates(q, m) /\ Return(q) /\ UNCHANGED pooled
       \/ ~m.ok /\ ConnectionFailed(q, m.level)
    /\ UNCHANGED <<closed, dead, answered, tableVars, taskVars, failing, calls>>

(* attempt: the wait has timed out, or the caller's future is dropped; what *)
(* its channel holds, or still gets, is lost.                               *)
GiveUp(q) ==
    /\ pc[q] = "wait"
    /\ pc' = [pc EXCEPT ![q] = "drop"]
    /\ inbox' = [inbox EXCEPT ![q] = None]
    /\ UNCHANGED <<connVars, fresh, lease, wid, tries, calls>>

(* PendingGuard::drop.  The lease is given back after it.  The serial tells *)
(* whether the slot is still this guard's.                                  *)
(* Faulty variant: whoever holds the id is taken for this guard's waiter.   *)
OwnsAny(q) == slots[lease[q]][wid[q]].caller # None

Owns(q) == slots[lease[q]][wid[q]] = Pending(q)

(* Faulty variant: the slot of a cancelled query stays pending.             *)
DropGuardLeaks(q) ==
    /\ pc[q] = "drop"
    /\ pc' = [pc EXCEPT ![q] = "release"]
    /\ UNCHANGED <<connVars, fresh, lease, wid, inbox, tries, calls>>

(* Faulty variant: a tombstone does not add to the allowance.               *)
DropGuardWithoutSlack(q) ==
    LET c == lease[q] IN
    /\ pc[q] = "drop"
    /\ slots' = [slots EXCEPT ![c][wid[q]] = IF Owns(q) THEN Orphan ELSE @]
    /\ tombs' = [tombs EXCEPT ![c] = IF Owns(q) THEN Append(@, wid[q]) ELSE @]
    /\ pc' = [pc EXCEPT ![q] = "release"]
    /\ UNCHANGED <<pooled, closed, dead, answered, nextId, slack, taskVars, failing,
                   fresh, lease, wid, inbox, tries, calls>>

(* Faulty variant: the id of a cancelled query is free at once.             *)
DropGuardFrees(q) ==
    LET c == lease[q] IN
    /\ pc[q] = "drop"
    /\ slots' = [slots EXCEPT ![c][wid[q]] = IF Owns(q) THEN Free ELSE @]
    /\ pc' = [pc EXCEPT ![q] = "release"]
    /\ UNCHANGED <<pooled, closed, dead, answered, tombs, nextId, slack, taskVars, failing,
                   fresh, lease, wid, inbox, tries, calls>>

DropGuard(q) ==
    LET c == lease[q] IN
    /\ pc[q] = "drop"
    /\ IF Owns(q)
       THEN /\ slots' = [slots EXCEPT ![c][wid[q]] = Orphan]
            /\ tombs' = [tombs EXCEPT ![c] = Append(@, wid[q])]
            /\ slack' = [slack EXCEPT ![c] = IF @ < SlackCap THEN @ + 1 ELSE @]
       ELSE UNCHANGED <<slots, tombs, slack>>
    /\ pc' = [pc EXCEPT ![q] = "release"]
    /\ UNCHANGED <<pooled, closed, dead, answered, nextId, taskVars, failing,
                   fresh, lease, wid, inbox, tries, calls>>

(* The lease is given back, after Lease::complete for an answer.            *)
Release(q) ==
    /\ pc[q] \in {"release", "ok"}
    /\ Return(q)
    /\ UNCHANGED <<connVars, calls>>

-----------------------------------------------------------------------------
(* The writer task takes every queued frame and sends them in one write.    *)
Written(c) ==
    /\ frames[c] # <<>>
    /\ served' = [served EXCEPT ![c] = Asked(c)]
    /\ frames' = [frames EXCEPT ![c] = <<>>]
    /\ UNCHANGED <<pooled, closed, dead, answered, tableVars, hand, failing, callVars>>

(* A failed write is at connection level, a write that times out is not.    *)
WriteFails(c) ==
    /\ frames[c] # <<>>
    /\ \E connectionLevel \in BOOLEAN : Fail(c, connectionLevel)
    /\ UNCHANGED <<pooled, dead, answered, hand, callVars>>

-----------------------------------------------------------------------------
(* The reader task: end of stream, a read error or a frame without an id.   *)
ReadFails(c) ==
    /\ pooled[c] # "new" /\ ~closed[c] /\ hand[c] = None
    /\ Fail(c, TRUE)
    /\ UNCHANGED <<pooled, dead, answered, hand, callVars>>

(* dispatch: the section under the lock, for a frame with this id and this  *)
(* question (None: it does not decode).                                     *)
Take(c, id, asks) ==
    LET slot == slots[c][id] IN
    /\ slots' = [slots EXCEPT ![c][id] = Free]
    /\ \/ /\ slot.caller # None
          /\ slack' = [slack EXCEPT ![c] = IF @ < Limit THEN Limit ELSE @]
          /\ hand' = [hand EXCEPT ![c] = [to |-> slot.caller, asks |-> asks]]
          /\ UNCHANGED tombs
       \/ /\ slot.tomb
          /\ \E j \in DOMAIN tombs[c] :
                tombs[c][j] = id /\ tombs' = [tombs EXCEPT ![c] = WithoutAt(@, j)]
          /\ UNCHANGED <<slack, hand>>
       \/ /\ slot = Free /\ slack[c] > 0
          /\ slack' = [slack EXCEPT ![c] = @ - 1]
          /\ UNCHANGED <<tombs, hand>>
       \/ /\ slot = Free /\ slack[c] = 0
          /\ hand' = [hand EXCEPT ![c] = [to |-> None, asks |-> None]]
          /\ UNCHANGED <<tombs, slack>>

(* An honest server answers a query it has received; any other may send     *)
(* anything.                                                                *)
Dispatch(c) ==
    /\ pooled[c] # "new" /\ ~closed[c] /\ hand[c] = None
    /\ \/ /\ c \in Honest
          /\ \E f \in Frame :
                /\ served[c][f] > 0
                /\ Take(c, f.id, f.q)
                /\ served' = [served EXCEPT ![c][f] = @ - 1]
       \/ /\ c \notin Honest
          /\ \E id \in Ids, asks \in Callers \cup {None} : Take(c, id, asks)
          /\ UNCHANGED served
    /\ UNCHANGED <<pooled, closed, dead, answered, nextId, frames, failing, callVars>>

(* dispatch: what follows the section.                                      *)
Deliver(c) ==
    /\ hand[c] # None
    /\ hand' = [hand EXCEPT ![c] = None]
    /\ \/ /\ hand[c].asks # None
          /\ answered' = [answered EXCEPT ![c] = TRUE]
          /\ inbox' = Sent([q \in Callers |->
                IF q = hand[c].to THEN [ok |-> TRUE, asks |-> hand[c].asks] ELSE None])
          /\ UNCHANGED <<closed, tableVars, failing, frames, served>>
       \/ /\ hand[c].asks = None
          /\ inbox' = Sent([q \in Callers |->
                IF q = hand[c].to THEN [ok |-> FALSE, level |-> FALSE] ELSE None])
          /\ Fail(c, TRUE)
          /\ UNCHANGED answered
    /\ UNCHANGED <<pooled, dead, pc, fresh, lease, wid, tries, calls>>

(* The pool retires the connection: it died, went idle, grew too old or     *)
(* timed out too often.  StreamConn::shutdown.                              *)
Retire(c) ==
    /\ pooled[c] = "in"
    /\ pooled' = [pooled EXCEPT ![c] = "out"]
    /\ Fail(c, TRUE)
    /\ UNCHANGED <<dead, answered, hand, callVars>>

-----------------------------------------------------------------------------
CallerStep(q) ==
    \/ Call(q) \/ Acquire(q) \/ AcquireFails(q)
    \/ SubmitClosed(q) \/ Submit(q) \/ SubmitFull(q)
    \/ Receive(q) \/ GiveUp(q) \/ DropGuard(q) \/ Release(q)

ConnStep(c) ==
    \/ Notify(c) \/ Written(c) \/ WriteFails(c)
    \/ ReadFails(c) \/ Dispatch(c) \/ Deliver(c) \/ Retire(c)

StreamNext == (\E q \in Callers : CallerStep(q)) \/ (\E c \in Conns : ConnStep(c))

-----------------------------------------------------------------------------
(* No wait is forgotten: a caller whose channel is empty has its waiter in  *)
(* the table of an open connection, in the reader's hand or in the hands of *)
(* the one who fails the connection, whatever order submit, dispatch, fail  *)
(* and other callers' guards come in.                                       *)
WaiterHeld ==
    \A q \in Callers : pc[q] = "wait" /\ inbox[q] = None =>
        LET c == lease[q] IN
        \/ ~closed[c] /\ slots[c][wid[q]] = Pending(q)
        \/ hand[c] # None /\ hand[c].to = q
        \/ failing[c] # None /\ q \in failing[c].to

(* A lease is worth a slot: a caller that the pool admitted never finds the *)
(* table full of pending queries, because a guard frees its slot before the *)
(* lease that admitted it is given back.                                    *)
SlotForEveryLease ==
    \A q \in Callers : pc[q] = "submit" => Cardinality(PendingIds(lease[q])) < MaxInFlight

(* The retry rule bounds what reaches a server: a call queues its frame at  *)
(* most twice, and only once when its opcode is not QUERY.                  *)
SentAtMostTwice ==
    \A q \in Callers : tries[q] <= IF q \in Updates THEN 1 ELSE 2

(* The answers an honest server may still send, told apart by their query   *)
(* and a number.                                                            *)
Owed(c) ==
    LET asked == Asked(c)
    IN  UNION {{f} \X (1 .. asked[f]) : f \in Frame}

(* The ids that stand for the one answer that may still carry them: the     *)
(* table holds its waiter, or the tombstone of its waiter.                  *)
Reserved(c) ==
    LET owed == Owed(c)
    IN  {i \in Ids : \A x, y \in owed : x[1].id = i /\ y[1].id = i =>
                        x = y /\ slots[c][i] \in {Pending(x[1].q), Orphan}}

HonestOpen == {c \in Honest : pooled[c] # "new" /\ ~closed[c]}

(* The section of submit under the lock, for whichever caller.              *)
Submits(c) == \E q \in Callers : lease[q] = c /\ pc[q] = "submit" /\ pc'[q] # "submit"

(* "its wire id stays reserved and a late answer cannot reach a newer       *)
(* query", and what ends it: an id that stands for the only answer that may *)
(* still carry it does so until that answer is read or the connection ends, *)
(* unless submit drops its tombstone, expired or to make room; and a waiter *)
(* is handed another query's answer only under an id that was given up so.  *)
IdsStayReserved ==
    [][\A c \in HonestOpen :
        LET before == Reserved(c)
            after == Reserved(c)'
        IN  \A i \in before :
            /\ i \in after \/ (slots[c][i] = Orphan /\ Submits(c))
            /\ hand[c] = None /\ hand'[c] # None /\ slots[c][i].caller = hand'[c].to =>
                    hand'[c].asks = hand'[c].to]_streamVars

(* The answers that are late: all but the one each pending query waits for. *)
Late(c) == {x \in Owed(c) : ~(slots[c][x[1].id] = Pending(x[1].q) /\ x[2] = 1)}

(* The allowance covers every late answer, so that none of them can close   *)
(* the connection.                                                          *)
Covered(c) == Cardinality(Late(c)) <= slack[c]

(* "a cancellation storm cannot close a healthy connection", as far as that *)
(* goes: however many queries are cancelled over the life of a connection,  *)
(* the allowance stops covering the late answers of an honest server only   *)
(* by a cancellation that leaves more of them than it can ever grow to.     *)
StormTolerated ==
    [][\A c \in HonestOpen :
        Covered(c) => Covered(c)' \/ Cardinality(Late(c)') > SlackCap]_streamVars

=============================================================================
