-------------------------------- MODULE Pool --------------------------------
(* The transport-independent connection pool of upstream/pool.rs: fair      *)
(* admission by a semaphore of MaxConnections * MaxInFlight permits, the    *)
(* choice of a connection, the single connect in progress and its waiters,  *)
(* leases, rotation of old connections and the janitor task.                *)
(*                                                                          *)
(* Every section under the state mutex is one step, and so is each          *)
(* notification sent after the mutex was released.  A section reads the     *)
(* clock just before it takes the mutex; the mutex is held for microseconds *)
(* and the timeouts are seconds, so that reading belongs to the same step.  *)
(* Entry ids and connect epochs are u64 counters: the model takes any name  *)
(* nobody refers to any more.                                               *)
EXTENDS Integers, FiniteSets, Sequences

CONSTANTS
    Callers,        \* concurrent callers of acquire
    Conns,          \* names for connections
    Attempts,       \* names for connects
    None,
    MaxConnections, MaxInFlight,
    IdleTimeout, ReadTimeout,
    MaxLifetime,    \* None keeps connections until they fail or go idle
    ScaleBackoff,   \* SCALE_RETRY_BACKOFF
    TimeoutLimit,   \* CONSECUTIVE_TIMEOUT_LIMIT
    MaxTime         \* bound on the clock

ASSUME PoolAssumption ==
    /\ None \notin Conns \cup Attempts \cup Nat
    /\ {MaxConnections, MaxInFlight, IdleTimeout, TimeoutLimit} \subseteq Nat \ {0}
    /\ MaxLifetime \in (Nat \ {0}) \cup {None}
    /\ {ReadTimeout, ScaleBackoff, MaxTime} \subseteq Nat
    /\ IsFiniteSet(Callers) /\ IsFiniteSet(Conns)

VARIABLES
    now,
    conn,       \* State::entries, None for a name that is not an entry
    connecting, \* the connect in progress, None if there is none
    task,       \* each connect task: none, connect, sendOk or sendErr
    failedAt,   \* last_connect_failure
    janitor,    \* the janitor task: none, run (before its lock) or sleep
    deadline,   \* janitor_deadline
    wake,       \* the stored permit of the Notify
    pc,         \* where each caller is
    fresh,      \* whether it called acquire_fresh
    lease,      \* the connection it leases
    rx,         \* the connect it waits for
    free,       \* permits left in the semaphore
    queue       \* callers queued at the semaphore

connectVars == <<connecting, task, failedAt>>
janitorVars == <<janitor, deadline, wake>>
callerVars == <<pc, fresh, lease, rx, free, queue>>
vars == <<now, conn, connectVars, janitorVars, callerVars>>

Capacity == MaxConnections * MaxInFlight

(* Faulty variant: the grace period is not capped.                          *)
UncappedGrace == ReadTimeout

(* Pool::new caps the grace period at the lifetime.                         *)
DrainGrace ==
    IF MaxLifetime # None /\ MaxLifetime < ReadTimeout THEN MaxLifetime ELSE ReadTimeout

Threshold == IF MaxInFlight \div 4 > 1 THEN MaxInFlight \div 4 ELSE 1

-----------------------------------------------------------------------------
(* One connection at time t: whether sweep_locked marks it as draining, and *)
(* whether it retires it.                                                   *)
Aged(r, t) ==
    IF r.draining = None /\ MaxLifetime # None /\ t >= r.opened + MaxLifetime
    THEN [r EXCEPT !.draining = t]
    ELSE r

Due(r, t) ==
    IF r.draining # None
    THEN r.inFlight = 0 \/ t >= r.draining + DrainGrace
    ELSE r.inFlight = 0 /\ t >= r.lastActive + IdleTimeout

Swept(t) ==
    [e \in Conns |->
        IF conn[e] = None \/ ~conn[e].alive \/ Due(Aged(conn[e], t), t)
        THEN None
        ELSE Aged(conn[e], t)]

(* The instants at which one connection needs attention.                    *)
Deadlines(r) ==
    UNION {
        IF r.draining # None THEN {r.draining + DrainGrace} ELSE {},
        IF r.draining = None /\ MaxLifetime # None THEN {r.opened + MaxLifetime} ELSE {},
        IF r.inFlight = 0 THEN {r.lastActive + IdleTimeout} ELSE {} }

Entries(cs) == {e \in Conns : cs[e] # None}

(* next_deadline_locked.                                                    *)
NextDeadline(cs) ==
    LET all == UNION {Deadlines(cs[e]) : e \in Entries(cs)}
    IN  IF all = {} THEN None ELSE CHOOSE d \in all : \A other \in all : d <= other

-----------------------------------------------------------------------------
(* pick.  Among equally loaded connections the code takes the oldest entry; *)
(* the model takes any.                                                     *)
Live(cs) == {e \in Entries(cs) : cs[e].draining = None}
Usable(cs) == {e \in Live(cs) : cs[e].inFlight < MaxInFlight}
Unanswered(cs) == {e \in Usable(cs) : ~cs[e].answered}

LeastLoaded(cs, S) == {e \in S : \A other \in S : cs[e].inFlight <= cs[other].inFlight}

(* Faulty variant: one connection too many.                                 *)
MayOpenOneMore(cs) == connecting = None /\ Cardinality(Live(cs)) <= MaxConnections

MayOpen(cs) == connecting = None /\ Cardinality(Live(cs)) < MaxConnections

Best(cs, c) ==
    IF fresh[c] /\ Unanswered(cs) # {}
    THEN LeastLoaded(cs, Unanswered(cs))
    ELSE IF fresh[c] /\ (connecting # None \/ MayOpen(cs))
    THEN {}
    ELSE LeastLoaded(cs, Usable(cs))

ScaleSuppressed == failedAt # None /\ now < failedAt + ScaleBackoff

(* start_connect_locked, under a name nobody uses any more.                 *)
StartConnect ==
    \E a \in Attempts :
        /\ task[a] = "none"
        /\ connecting' = a
        /\ task' = [task EXCEPT ![a] = "connect"]
        /\ UNCHANGED failedAt

-----------------------------------------------------------------------------
Init ==
    /\ now = 0
    /\ conn = [e \in Conns |-> None]
    /\ connecting = None
    /\ task = [a \in Attempts |-> "none"]
    /\ failedAt = None
    /\ janitor = "none" /\ deadline = None /\ wake = FALSE
    /\ pc = [c \in Callers |-> "idle"]
    /\ fresh = [c \in Callers |-> FALSE]
    /\ lease = [c \in Callers |-> None]
    /\ rx = [c \in Callers |-> None]
    /\ free = Capacity
    /\ queue = <<>>

(* Faulty variant: the permit is handed over and given back.                *)
ReleasePermitTwice(c) ==
    /\ free' = free + 1
    /\ pc' = [d \in Callers |->
                IF d = c THEN "idle"
                ELSE IF queue # <<>> /\ d = Head(queue) THEN "woken" ELSE pc[d]]
    /\ queue' = IF queue = <<>> THEN queue ELSE Tail(queue)

(* A permit goes to the caller at the head of the queue, or back to the     *)
(* semaphore; c is done with its call.                                      *)
ReleasePermit(c) ==
    \/ /\ queue = <<>>
       /\ free' = free + 1
       /\ pc' = [pc EXCEPT ![c] = "idle"]
       /\ UNCHANGED queue
    \/ /\ queue # <<>>
       /\ pc' = [pc EXCEPT ![c] = "idle", ![Head(queue)] = "woken"]
       /\ queue' = Tail(queue)
       /\ UNCHANGED free

(* acquire_inner up to its loop: try_acquire_owned, then queueing.          *)
Acquire(c, wantsFresh) ==
    /\ pc[c] = "idle"
    /\ fresh' = [fresh EXCEPT ![c] = wantsFresh]
    /\ \/ /\ free > 0
          /\ free' = free - 1
          /\ pc' = [pc EXCEPT ![c] = "pick"]
          /\ UNCHANGED queue
       \/ /\ free = 0
          /\ queue' = Append(queue, c)
          /\ pc' = [pc EXCEPT ![c] = "queued"]
          /\ UNCHANGED free
    /\ UNCHANGED <<now, conn, connectVars, janitorVars, lease, rx>>

(* The deadline passes, or the future is dropped, at an await: in the       *)
(* queue, waiting for a connect, or woken from either and not yet polled.   *)
LeaveQueue(c) ==
    /\ pc[c] = "queued"
    /\ \E i \in DOMAIN queue :
        /\ queue[i] = c
        /\ queue' = SubSeq(queue, 1, i - 1) \o SubSeq(queue, i + 1, Len(queue))
    /\ pc' = [pc EXCEPT ![c] = "idle"]
    /\ fresh' = [fresh EXCEPT ![c] = FALSE]
    /\ UNCHANGED <<now, conn, connectVars, janitorVars, lease, rx, free>>

GiveUp(c) ==
    /\ pc[c] \in {"woken", "wait"}
    /\ rx' = [rx EXCEPT ![c] = None]
    /\ fresh' = [fresh EXCEPT ![c] = FALSE]
    /\ ReleasePermit(c)
    /\ UNCHANGED <<now, conn, connectVars, janitorVars, lease>>

(* The loop's locked section, Pick::Use: sweep, pick, lease, and open one   *)
(* more connection in the background when the best one is busy.             *)
Use(c) ==
    /\ pc[c] \in {"pick", "woken"}
    /\ \E e \in Best(Swept(now), c) :
        /\ conn' = [Swept(now) EXCEPT ![e].inFlight = @ + 1]
        /\ lease' = [lease EXCEPT ![c] = e]
        /\ IF /\ Swept(now)[e].inFlight >= Threshold
              /\ MayOpen(Swept(now))
              /\ ~ScaleSuppressed
           THEN StartConnect
           ELSE UNCHANGED connectVars
    /\ pc' = [pc EXCEPT ![c] = "leased"]
    /\ fresh' = [fresh EXCEPT ![c] = FALSE]
    /\ UNCHANGED <<now, janitorVars, rx, free, queue>>

(* Pick::Wait.  The third arm, Pick::Exhausted, is NeverExhausted's matter. *)
Wait(c) ==
    /\ pc[c] \in {"pick", "woken"}
    /\ Best(Swept(now), c) = {}
    /\ \/ connecting # None /\ UNCHANGED connectVars
       \/ MayOpen(Swept(now)) /\ StartConnect
    /\ conn' = Swept(now)
    /\ rx' = [rx EXCEPT ![c] = connecting']
    /\ pc' = [pc EXCEPT ![c] = "wait"]
    /\ UNCHANGED <<now, janitorVars, fresh, lease, free, queue>>

-----------------------------------------------------------------------------
(* finish_connect under the lock, called by the connect task when it is     *)
(* done or by its ConnectGuard when it is cancelled.  A connect that is not *)
(* the one in progress would be stuck here, which WaitsEnd would notice.    *)
FinishConnect(a, result) ==
    /\ task[a] = "connect" /\ connecting = a
    /\ connecting' = None
    /\ task' = [task EXCEPT ![a] = result]
    /\ \/ /\ result = "sendOk"
          /\ \E e \in Conns :
                /\ conn[e] = None /\ \A c \in Callers : lease[c] # e
                /\ conn' = [conn EXCEPT ![e] =
                       [opened |-> now, lastActive |-> now, inFlight |-> 0, answered |-> FALSE,
                        timeouts |-> 0, draining |-> None, alive |-> TRUE]]
          /\ janitor' = IF janitor = "none" THEN "run" ELSE janitor
          /\ deadline' = IF janitor = "none" THEN None ELSE deadline
          /\ wake' = TRUE
          /\ UNCHANGED failedAt
       \/ /\ result = "sendErr"
          /\ failedAt' = now
          /\ UNCHANGED <<conn, janitorVars>>
    /\ UNCHANGED <<now, callerVars>>

(* What the outcome of connect a does to its waiters: wait_connect lets     *)
(* them go round the loop again, or fails their calls.                      *)
Resumed(a, onOk, onErr) ==
    [c \in Callers |-> IF rx[c] # a THEN pc[c] ELSE IF task[a] = "sendOk" THEN onOk ELSE onErr]

(* Faulty variant: a failure does not reach the waiters.                    *)
SendOutcomeIfOk(a) ==
    /\ task[a] \in {"sendOk", "sendErr"}
    /\ task' = [task EXCEPT ![a] = "none"]
    /\ pc' = Resumed(a, "woken", "wait")
    /\ UNCHANGED <<now, conn, connecting, failedAt, janitorVars, fresh, lease, rx, free, queue>>

(* ... and after it: send_replace wakes the waiters.                        *)
SendOutcome(a) ==
    /\ task[a] \in {"sendOk", "sendErr"}
    /\ task' = [task EXCEPT ![a] = "none"]
    /\ pc' = Resumed(a, "woken", "permit")
    /\ rx' = [c \in Callers |-> IF rx[c] = a THEN None ELSE rx[c]]
    /\ UNCHANGED <<now, conn, connecting, failedAt, janitorVars, fresh, lease, free, queue>>

(* The transport notices that the connection is gone (external).            *)
Die(e) ==
    /\ conn[e] # None /\ conn[e].alive
    /\ conn' = [conn EXCEPT ![e].alive = FALSE]
    /\ UNCHANGED <<now, connectVars, janitorVars, callerVars>>

-----------------------------------------------------------------------------
(* What the holder of a lease does before it drops it: complete,            *)
(* note_timeout, mark_dead, or nothing.                                     *)
EndQuery(c, after) ==
    /\ pc[c] = "leased"
    /\ conn' = IF conn[lease[c]] = None
               THEN conn
               ELSE [conn EXCEPT ![lease[c]] = after]
    /\ pc' = [pc EXCEPT ![c] = "drop"]
    /\ UNCHANGED <<now, connectVars, janitorVars, fresh, lease, rx, free, queue>>

Complete(c) == EndQuery(c, [conn[lease[c]] EXCEPT !.answered = TRUE, !.timeouts = 0])

NoteTimeout(c) ==
    EndQuery(c, IF conn[lease[c]].timeouts + 1 >= TimeoutLimit
                THEN None
                ELSE [conn[lease[c]] EXCEPT !.timeouts = @ + 1])

MarkDead(c) == EndQuery(c, None)

Abandon(c) == EndQuery(c, conn[lease[c]])

(* Faulty variant: a lease that ends does not wake the janitor when the     *)
(* janitor has no deadline.                                                 *)
WakesJanitorWithDeadline(candidate) == deadline # None /\ candidate < deadline

(* Whether the janitor sleeps past the instant candidate.                   *)
WakesJanitor(candidate) == deadline = None \/ candidate < deadline

(* Faulty variant: a lease that is dropped keeps its slot.                  *)
DropLeaseUncounted(c) ==
    /\ pc[c] = "drop"
    /\ pc' = [pc EXCEPT ![c] = "permit"]
    /\ lease' = [lease EXCEPT ![c] = None]
    /\ UNCHANGED <<now, conn, connectVars, janitorVars, fresh, rx, free, queue>>

(* Lease::drop under the lock.                                              *)
DropLease(c) ==
    /\ pc[c] = "drop"
    /\ lease' = [lease EXCEPT ![c] = None]
    /\ LET e == lease[c]
           left == [conn[e] EXCEPT !.inFlight = IF @ = 0 THEN 0 ELSE @ - 1,
                                   !.lastActive = now]
           last == conn[e] # None /\ conn[e].inFlight <= 1
           drained == last /\ conn[e].draining # None
       IN  /\ conn' = IF conn[e] = None THEN conn
                      ELSE [conn EXCEPT ![e] = IF drained THEN None ELSE left]
           /\ pc' = [pc EXCEPT ![c] =
                  IF last /\ ~drained /\ WakesJanitor(now + IdleTimeout)
                  THEN "notify" ELSE "permit"]
    /\ UNCHANGED <<now, connectVars, janitorVars, fresh, rx, free, queue>>

(* ... after it: notify_one, and last the permit, a field of the lease.     *)
NotifyJanitor(c) ==
    /\ pc[c] = "notify"
    /\ wake' = TRUE
    /\ pc' = [pc EXCEPT ![c] = "permit"]
    /\ UNCHANGED <<now, conn, connectVars, janitor, deadline, fresh, lease, rx, free, queue>>

DropPermit(c) ==
    /\ pc[c] = "permit"
    /\ fresh' = [fresh EXCEPT ![c] = FALSE]
    /\ ReleasePermit(c)
    /\ UNCHANGED <<now, conn, connectVars, janitorVars, lease, rx>>

-----------------------------------------------------------------------------
(* run_janitor's locked section: sweep, then sleep until the next deadline, *)
(* or end when there is nothing left to watch.                              *)
JanitorRun ==
    /\ janitor = "run"
    /\ conn' = Swept(now)
    /\ \/ /\ Entries(conn') = {}
          /\ janitor' = "none" /\ deadline' = None
       \/ /\ Entries(conn') # {}
          /\ janitor' = "sleep" /\ deadline' = NextDeadline(conn')
    /\ UNCHANGED <<now, wake, connectVars, callerVars>>

(* The two branches of its select.                                          *)
JanitorTimer ==
    /\ janitor = "sleep" /\ deadline # None /\ now >= deadline
    /\ janitor' = "run"
    /\ UNCHANGED <<now, conn, deadline, wake, connectVars, callerVars>>

JanitorWoken ==
    /\ janitor = "sleep" /\ wake
    /\ janitor' = "run" /\ wake' = FALSE
    /\ UNCHANGED <<now, conn, deadline, connectVars, callerVars>>

(* Pool::sweep, called when the counters are read.                          *)
Sweep ==
    /\ conn' = Swept(now)
    /\ UNCHANGED <<now, connectVars, janitorVars, callerVars>>

Tick ==
    /\ now < MaxTime
    /\ now' = now + 1
    /\ UNCHANGED <<conn, connectVars, janitorVars, callerVars>>

CallerStep(c) ==
    \/ Use(c) \/ Wait(c) \/ DropLease(c) \/ NotifyJanitor(c) \/ DropPermit(c)

ConnectStep(a) ==
    SendOutcome(a) \/ \E result \in {"sendOk", "sendErr"} : FinishConnect(a, result)

JanitorStep == JanitorRun \/ JanitorTimer \/ JanitorWoken

Next ==
    \/ \E c \in Callers, wantsFresh \in BOOLEAN : Acquire(c, wantsFresh)
    \/ \E c \in Callers : CallerStep(c)
    \/ \E c \in Callers : LeaveQueue(c) \/ GiveUp(c)
    \/ \E c \in Callers : Complete(c) \/ NoteTimeout(c) \/ MarkDead(c) \/ Abandon(c)
    \/ \E a \in Attempts : ConnectStep(a)
    \/ \E e \in Conns : Die(e)
    \/ JanitorStep \/ Sweep \/ Tick

Spec == Init /\ [][Next]_vars

(* The executor polls every ready task and future, and a connect bounds     *)
(* itself with the transport's timeout.                                     *)
FairSpec ==
    /\ Spec
    /\ \A c \in Callers : WF_vars(CallerStep(c))
    /\ \A a \in Attempts : WF_vars(ConnectStep(a))
    /\ WF_vars(JanitorStep)

-----------------------------------------------------------------------------
Times == 0..MaxTime
Entry == [opened : Times, lastActive : Times, inFlight : 0..MaxInFlight, answered : BOOLEAN,
          timeouts : 0..(TimeoutLimit - 1), draining : Times \cup {None}, alive : BOOLEAN]
Pcs == {"idle", "queued", "woken", "pick", "wait", "leased", "drop", "notify", "permit"}

(* Every field has its type: in particular no connection carries more than  *)
(* max_in_flight leases, and none stays after its third timeout in a row.   *)
TypeOK ==
    /\ now \in Times
    /\ conn \in [Conns -> Entry \cup {None}]
    /\ connecting \in Attempts \cup {None}
    /\ task \in [Attempts -> {"none", "connect", "sendOk", "sendErr"}]
    /\ failedAt \in Times \cup {None}
    /\ janitor \in {"none", "run", "sleep"}
    /\ deadline \in Nat \cup {None}
    /\ wake \in BOOLEAN
    /\ pc \in [Callers -> Pcs]
    /\ fresh \in [Callers -> BOOLEAN]
    /\ lease \in [Callers -> Conns \cup {None}]
    /\ rx \in [Callers -> Attempts \cup {None}]
    /\ free \in 0..Capacity
    /\ queue \in Seq(Callers)

(* "up to max_connections": connections that take queries and the connects  *)
(* that are running together never exceed the limit, whatever a sweep, a    *)
(* rotation or a failed connect did meanwhile.                              *)
WithinLimit ==
    Cardinality(Live(conn)) + Cardinality({a \in Attempts : task[a] = "connect"})
        <= MaxConnections

(* A slot is taken exactly while a lease is held, however the query ends    *)
(* and whoever retires the connection first.                                *)
LeasesCounted ==
    \A e \in Entries(conn) :
        conn[e].inFlight = Cardinality({c \in Callers : lease[c] = e})

(* "a caller that holds a permit can always be placed on a live connection  *)
(* or on one the pool may still open": Pick::Exhausted is unreachable.      *)
NeverExhausted ==
    \A c \in Callers : pc[c] \in {"pick", "woken"} =>
        \/ Best(Swept(now), c) # {}
        \/ connecting # None
        \/ MayOpen(Swept(now))

(* No lost wake-up: while a connection has a deadline, the janitor is about *)
(* to run, will be woken, or sleeps no longer than that.                    *)
JanitorInTime ==
    \A e \in Entries(conn) : \A d \in Deadlines(conn[e]) :
        \/ janitor = "run"
        \/ /\ janitor = "sleep"
           /\ \/ wake
              \/ \E c \in Callers : pc[c] = "notify"
              \/ deadline # None /\ deadline <= d

(* "the overshoot is bounded by the grace period": connections that drain   *)
(* never outnumber the ones that may be open, so rotation at most doubles   *)
(* the connections of a pool.                                               *)
DrainingBounded == Cardinality(Entries(conn) \ Live(conn)) <= MaxConnections

(* Every wait for a connect ends without the help of the caller's deadline. *)
WaitsEnd == \A c \in Callers : pc[c] = "wait" ~> pc[c] # "wait"

=============================================================================
