----------------------------- MODULE PoolProofs -----------------------------
(* Proofs about the connection pool, for any number of callers, connections *)
(* and connects, any limits and any timeouts.                               *)
EXTENDS Pool, CommonFacts

(* A permit is either in the semaphore or held by a caller in its call.     *)
Holders == {c \in Callers : pc[c] \notin {"idle", "queued"}}
PermitsCounted == free + Cardinality(Holders) = Capacity

(* The queue holds each caller that queues, once.                           *)
QueueOfQueued ==
    /\ \A i, j \in DOMAIN queue : queue[i] = queue[j] => i = j
    /\ \A c \in Callers : pc[c] = "queued" <=> \E i \in DOMAIN queue : queue[i] = c

(* What a caller holds where.                                               *)
Holds(c) ==
    /\ lease[c] # None <=> pc[c] \in {"leased", "drop"}
    /\ rx[c] # None => pc[c] = "wait"

OneConnect == \A a \in Attempts : task[a] = "connect" <=> connecting = a

(* A connection is marked as draining when it has reached its lifetime.     *)
Dated(e) ==
    /\ conn[e].opened <= now
    /\ conn[e].draining # None =>
        /\ MaxLifetime # None
        /\ conn[e].opened + MaxLifetime <= conn[e].draining
        /\ conn[e].draining <= now

(* The sweep that marks one connection marks every connection that is old   *)
(* enough, and retires every one that has drained for the grace period.     *)
MarkedTogether(e, x) ==
    conn[e].draining # None =>
        IF conn[x].draining = None
        THEN conn[x].opened + MaxLifetime > conn[e].draining
        ELSE conn[x].draining < conn[e].draining + DrainGrace

(* The connections that took queries when e was marked, and still exist.    *)
Contemporaries(e) ==
    {x \in Entries(conn) :
        /\ conn[x].opened < conn[e].draining
        /\ conn[x].draining = None \/ conn[x].draining >= conn[e].draining}

Rotation ==
    \A e \in Entries(conn) :
        /\ Dated(e)
        /\ \A x \in Entries(conn) : MarkedTogether(e, x)
        /\ conn[e].draining # None => Cardinality(Contemporaries(e)) <= MaxConnections

NothingUnwatched == janitor = "none" => Entries(conn) = {}

PoolInv ==
    /\ TypeOK
    /\ PermitsCounted /\ QueueOfQueued
    /\ \A c \in Callers : Holds(c)
    /\ OneConnect /\ WithinLimit /\ LeasesCounted
    /\ Rotation
    /\ NothingUnwatched /\ JanitorInTime

-----------------------------------------------------------------------------
(* Marking a connection as draining changes nothing else of it.             *)
LEMMA AgedEntry ==
  ASSUME NEW r \in Entry, NEW t \in Times
  PROVE  /\ Aged(r, t) \in Entry
         /\ Aged(r, t).opened = r.opened /\ Aged(r, t).lastActive = r.lastActive
         /\ Aged(r, t).inFlight = r.inFlight
         /\ Aged(r, t).draining = IF r.draining = None /\ MaxLifetime # None
                                        /\ t >= r.opened + MaxLifetime
                                  THEN t ELSE r.draining
  BY DEF Aged, Entry

(* The updates of a connection keep its type.                               *)
LEMMA EntryUpdates ==
  ASSUME NEW r \in Entry, NEW t \in Times
  PROVE  /\ [r EXCEPT !.inFlight = IF @ = 0 THEN 0 ELSE @ - 1, !.lastActive = t] \in Entry
         /\ [r EXCEPT !.answered = TRUE, !.timeouts = 0] \in Entry
         /\ ~(r.timeouts + 1 >= TimeoutLimit) => [r EXCEPT !.timeouts = @ + 1] \in Entry
         /\ [r EXCEPT !.alive = FALSE] \in Entry
         /\ r.inFlight < MaxInFlight => [r EXCEPT !.inFlight = @ + 1] \in Entry
  <1> USE PoolAssumption DEF Entry
  <1>1. [r EXCEPT !.inFlight = IF @ = 0 THEN 0 ELSE @ - 1, !.lastActive = t] \in Entry
    <2> DEFINE n == IF r.inFlight = 0 THEN 0 ELSE r.inFlight - 1
    <2>1. n \in 0 .. MaxInFlight
      OBVIOUS
    <2> HIDE DEF n
    <2>2. [r EXCEPT !.inFlight = n, !.lastActive = t] \in Entry
      BY <2>1, Zenon
    <2> QED
      BY <2>2 DEF n
  <1>2. [r EXCEPT !.answered = TRUE, !.timeouts = 0] \in Entry
    <2>1. 0 \in 0 .. (TimeoutLimit - 1)
      OBVIOUS
    <2> QED
      BY <2>1, Zenon
  <1>3. ~(r.timeouts + 1 >= TimeoutLimit) => [r EXCEPT !.timeouts = @ + 1] \in Entry
    OBVIOUS
  <1>4. [r EXCEPT !.alive = FALSE] \in Entry
    BY Zenon
  <1>5. r.inFlight < MaxInFlight => [r EXCEPT !.inFlight = @ + 1] \in Entry
    OBVIOUS
  <1> QED
    BY <1>1, <1>2, <1>3, <1>4, <1>5

(* A sweep keeps the connections that are not due, marked if they are old.  *)
LEMMA SweptEntries ==
  ASSUME TypeOK
  PROVE  /\ Swept(now) \in [Conns -> Entry \cup {None}]
         /\ \A e \in Entries(Swept(now)) :
                /\ e \in Entries(conn)
                /\ Swept(now)[e] = Aged(conn[e], now) /\ ~Due(Aged(conn[e], now), now)
  <1>1. ASSUME NEW e \in Conns
        PROVE  /\ Swept(now)[e] \in Entry \cup {None}
               /\ Swept(now)[e] # None =>
                    /\ conn[e] # None
                    /\ Swept(now)[e] = Aged(conn[e], now) /\ ~Due(Aged(conn[e], now), now)
    <2>1. conn[e] # None => Aged(conn[e], now) \in Entry
      BY AgedEntry DEF TypeOK
    <2> QED
      BY <2>1 DEF Swept
  <1>2. Swept(now) \in [Conns -> Entry \cup {None}]
    BY <1>1 DEF Swept
  <1> QED
    BY <1>1, <1>2 DEF Entries

(* next_deadline_locked finds the first deadline, if there is any.          *)
LEMMA DeadlinesAreTimes ==
  ASSUME NEW r \in Entry
  PROVE  Deadlines(r) \subseteq Nat
  <1>1. r.opened \in Nat /\ r.lastActive \in Nat /\ (r.draining # None => r.draining \in Nat)
    BY DEF Entry, Times
  <1>2. DrainGrace \in Nat
    BY PoolAssumption DEF DrainGrace
  <1> QED
    BY <1>1, <1>2, PoolAssumption DEF Deadlines

LEMMA DeadlineIsLeast ==
  ASSUME NEW cs \in [Conns -> Entry \cup {None}]
  PROVE  /\ NextDeadline(cs) \in Nat \cup {None}
         /\ \A e \in Entries(cs) : \A d \in Deadlines(cs[e]) :
                NextDeadline(cs) \in Nat /\ NextDeadline(cs) <= d
  <1> DEFINE all == UNION {Deadlines(cs[e]) : e \in Entries(cs)}
  <1>1. all \in SUBSET Nat
    BY DeadlinesAreTimes DEF Entries
  <1>2. CASE all = {}
    BY <1>2 DEF NextDeadline
  <1>3. CASE all # {}
    <2> DEFINE first == CHOOSE d \in all : \A other \in all : d <= other
    <2>1. first \in all /\ \A other \in all : first <= other
      <3> HIDE DEF all
      <3>1. \E d \in all : \A other \in all : d <= other
        BY <1>1, <1>3, Least
      <3> QED
        BY <3>1
    <2>2. NextDeadline(cs) = first
      BY <1>3, Zenon DEF NextDeadline
    <2> HIDE DEF first
    <2> QED
      BY <1>1, <2>1, <2>2
  <1> QED
    BY <1>2, <1>3

(* A caller only gets a connection that has room for one more lease.        *)
LEMMA BestIsUsable ==
  ASSUME NEW cs, NEW c, NEW e \in Best(cs, c)
  PROVE  e \in Usable(cs)
  BY DEF Best, LeastLoaded, Unanswered

(* Every step keeps the types.                                              *)
LEMMA TypeStep == PoolInv /\ Next => TypeOK'
  <1> SUFFICES ASSUME PoolInv, Next PROVE TypeOK'
    OBVIOUS
  <1> USE PoolAssumption
  <1>t. TypeOK
    BY DEF PoolInv
  <1>s. Swept(now) \in [Conns -> Entry \cup {None}]
    BY <1>t, SweptEntries
  <1>c. Capacity \in Nat
    BY DEF Capacity
  <1>1. ASSUME NEW c \in Callers, NEW wantsFresh \in BOOLEAN, Acquire(c, wantsFresh)
        PROVE  TypeOK'
    <2>1. free' \in 0 .. Capacity /\ queue' \in Seq(Callers) /\ pc' \in [Callers -> Pcs]
      <3>1. CASE free > 0
        BY <1>t, <1>c, <1>1, <3>1 DEF TypeOK, Acquire, Pcs
      <3>2. CASE free = 0
        <4>1. Append(queue, c) \in Seq(Callers)
          BY <1>t DEF TypeOK
        <4>2. free' = free /\ queue' = Append(queue, c) /\ pc' = [pc EXCEPT ![c] = "queued"]
          BY <1>1, <3>2 DEF Acquire
        <4> QED
          BY <1>t, <4>1, <4>2 DEF TypeOK, Pcs
      <3> QED
        BY <1>t, <1>c, <3>1, <3>2 DEF TypeOK
    <2> QED
      BY <1>t, <1>1, <2>1 DEF TypeOK, Acquire, connectVars, janitorVars
  <1>2. ASSUME NEW c \in Callers, Use(c)
        PROVE  TypeOK'
    <2>1. PICK e \in Best(Swept(now), c) :
            /\ conn' = [Swept(now) EXCEPT ![e].inFlight = @ + 1]
            /\ lease' = [lease EXCEPT ![c] = e]
            /\ StartConnect \/ UNCHANGED connectVars
      BY <1>2, Zenon DEF Use
    <2>2. e \in Conns /\ Swept(now)[e] \in Entry /\ Swept(now)[e].inFlight < MaxInFlight
      BY <1>s, BestIsUsable DEF Usable, Live, Entries
    <2>3. [Swept(now)[e] EXCEPT !.inFlight = @ + 1] \in Entry
      BY <1>t, <2>2, EntryUpdates, Zenon DEF TypeOK
    <2>4. conn' \in [Conns -> Entry \cup {None}]
      BY <1>s, <2>1, <2>2, <2>3
    <2>5. /\ connecting' \in Attempts \cup {None} /\ failedAt' = failedAt
          /\ task' \in [Attempts -> {"none", "connect", "sendOk", "sendErr"}]
      BY <1>t, <2>1 DEF TypeOK, StartConnect, connectVars
    <2> QED
      BY <1>t, <1>2, <2>1, <2>2, <2>4, <2>5 DEF TypeOK, Use, Pcs, janitorVars
  <1>3. ASSUME NEW c \in Callers, Wait(c)
        PROVE  TypeOK'
    <2>1. /\ connecting' \in Attempts \cup {None} /\ failedAt' = failedAt
          /\ task' \in [Attempts -> {"none", "connect", "sendOk", "sendErr"}]
      BY <1>t, <1>3 DEF TypeOK, Wait, StartConnect, connectVars
    <2> QED
      BY <1>t, <1>s, <1>3, <2>1 DEF TypeOK, Wait, Pcs, janitorVars
  <1>4. ASSUME NEW c \in Callers, DropLease(c)
        PROVE  TypeOK'
    <2>1. lease[c] \in Conns
      BY <1>t, <1>4 DEF PoolInv, Holds, DropLease, TypeOK
    <2>2. conn[lease[c]] # None =>
            [conn[lease[c]] EXCEPT !.inFlight = IF @ = 0 THEN 0 ELSE @ - 1, !.lastActive = now]
                \in Entry
      BY <1>t, <2>1, EntryUpdates, Zenon DEF TypeOK
    <2>3. conn' \in [Conns -> Entry \cup {None}]
      BY <1>t, <1>4, <2>1, <2>2 DEF TypeOK, DropLease
    <2> QED
      BY <1>t, <1>4, <2>3 DEF TypeOK, DropLease, Pcs, connectVars, janitorVars
  <1>5. ASSUME NEW c \in Callers, NotifyJanitor(c) \/ LeaveQueue(c)
        PROVE  TypeOK'
    <2>1. CASE NotifyJanitor(c)
      BY <1>t, <2>1 DEF TypeOK, NotifyJanitor, Pcs, connectVars
    <2>2. CASE LeaveQueue(c)
      <3>1. queue' \in Seq(Callers)
        <4>1. PICK i \in DOMAIN queue :
                  queue' = SubSeq(queue, 1, i - 1) \o SubSeq(queue, i + 1, Len(queue))
          BY <2>2, Zenon DEF LeaveQueue
        <4>2. queue \in Seq(Callers)
          BY <1>t DEF TypeOK
        <4> QED
          BY <4>1, <4>2, OneLess, Zenon
      <3> QED
        BY <1>t, <2>2, <3>1 DEF TypeOK, LeaveQueue, Pcs, connectVars, janitorVars
    <2> QED
      BY <1>5, <2>1, <2>2
  <1>6. ASSUME NEW c \in Callers, DropPermit(c) \/ GiveUp(c)
        PROVE  TypeOK'
    <2>1. ReleasePermit(c) /\ c \in Holders
      BY <1>6 DEF DropPermit, GiveUp, Holders
    <2>2. /\ free' \in 0 .. Capacity /\ queue' \in Seq(Callers) /\ pc' \in [Callers -> Pcs]
      <3>1. CASE queue # <<>>
        <4>1. Head(queue) \in Callers /\ Tail(queue) \in Seq(Callers)
          BY <1>t, <3>1 DEF TypeOK
        <4> QED
          BY <1>t, <2>1, <3>1, <4>1, Zenon DEF TypeOK, ReleasePermit, Pcs
      <3>2. CASE queue = <<>>
        <4>1. Cardinality(Holders) >= 1
          <5>1. IsFiniteSet(Holders)
            BY FS_Subset DEF Holders
          <5> QED
            BY <2>1, <5>1, FS_EmptySet, FS_CardinalityType
        <4>2. free + 1 <= Capacity /\ Capacity \in Nat
          <5>1. Cardinality(Holders) \in Nat
            BY FS_Subset, FS_CardinalityType DEF Holders
          <5>2. Capacity \in Nat
            BY DEF Capacity
          <5> QED
            BY <1>t, <4>1, <5>1, <5>2 DEF PoolInv, PermitsCounted, TypeOK
        <4> QED
          BY <1>t, <2>1, <3>2, <4>2 DEF TypeOK, ReleasePermit, Pcs
      <3> QED
        BY <3>1, <3>2
    <2> QED
      BY <1>t, <1>6, <2>2, Zenon DEF TypeOK, DropPermit, GiveUp, connectVars, janitorVars
  <1>7. ASSUME NEW c \in Callers, Complete(c) \/ NoteTimeout(c) \/ MarkDead(c) \/ Abandon(c)
        PROVE  TypeOK'
    <2>1. PICK after : EndQuery(c, after) /\ (conn[lease[c]] # None => after \in Entry \cup {None})
      <3>1. lease[c] \in Conns
        BY <1>t, <1>7 DEF PoolInv, Holds, TypeOK, Complete, NoteTimeout, MarkDead, Abandon, EndQuery
      <3>2. CASE Complete(c)
        <4>1. conn[lease[c]] # None =>
                [conn[lease[c]] EXCEPT !.answered = TRUE, !.timeouts = 0] \in Entry
          BY <1>t, <3>1, EntryUpdates, Zenon DEF TypeOK
        <4> QED
          BY <3>2, <4>1 DEF Complete
      <3>3. CASE NoteTimeout(c)
        <4>2. conn[lease[c]] # None /\ ~(conn[lease[c]].timeouts + 1 >= TimeoutLimit) =>
                [conn[lease[c]] EXCEPT !.timeouts = @ + 1] \in Entry
          BY <1>t, <3>1, EntryUpdates, Zenon DEF TypeOK
        <4> QED
          BY <3>3, <4>2 DEF NoteTimeout
      <3>4. CASE MarkDead(c) \/ Abandon(c)
        BY <1>t, <3>1, <3>4 DEF MarkDead, Abandon, TypeOK
      <3> QED
        BY <1>7, <3>2, <3>3, <3>4
    <2> QED
      BY <1>t, <2>1, Zenon DEF TypeOK, EndQuery, Pcs, connectVars, janitorVars
  <1>8. ASSUME NEW a \in Attempts, SendOutcome(a)
        PROVE  TypeOK'
    BY <1>t, <1>8 DEF TypeOK, SendOutcome, Resumed, Pcs, janitorVars
  <1>9. ASSUME NEW a \in Attempts, NEW result \in {"sendOk", "sendErr"}, FinishConnect(a, result)
        PROVE  TypeOK'
    <2>1. [opened |-> now, lastActive |-> now, inFlight |-> 0, answered |-> FALSE,
           timeouts |-> 0, draining |-> None, alive |-> TRUE] \in Entry
      BY <1>t DEF TypeOK, Entry
    <2>2. conn' \in [Conns -> Entry \cup {None}]
      BY <1>t, <1>9, <2>1, Zenon DEF TypeOK, FinishConnect, janitorVars
    <2> QED
      BY <1>t, <1>9, <2>2, Zenon DEF TypeOK, FinishConnect, callerVars, janitorVars
  <1>10. ASSUME NEW e \in Conns, Die(e)
         PROVE  TypeOK'
    <2>1. [conn[e] EXCEPT !.alive = FALSE] \in Entry
      BY <1>t, <1>10, EntryUpdates, Zenon DEF TypeOK, Die
    <2> QED
      BY <1>t, <1>10, <2>1 DEF TypeOK, Die, connectVars, janitorVars, callerVars
  <1>11. CASE JanitorRun
    <2>1. NextDeadline(conn') \in Nat \cup {None}
      BY <1>s, <1>11, DeadlineIsLeast DEF JanitorRun
    <2> QED
      BY <1>t, <1>s, <1>11, <2>1 DEF TypeOK, JanitorRun, connectVars, callerVars
  <1>12. CASE JanitorTimer \/ JanitorWoken \/ Sweep \/ Tick
    <2>1. CASE JanitorTimer \/ JanitorWoken
      BY <1>t, <2>1, Zenon DEF TypeOK, JanitorTimer, JanitorWoken, connectVars, callerVars
    <2>2. CASE Sweep
      BY <1>t, <1>s, <2>2 DEF TypeOK, Sweep, connectVars, janitorVars, callerVars
    <2>3. CASE Tick
      <3>1. now' \in Times
        BY <1>t, <2>3 DEF TypeOK, Tick, Times
      <3> QED
        BY <1>t, <2>3, <3>1 DEF TypeOK, Tick, connectVars, janitorVars, callerVars
    <2> QED
      BY <1>12, <2>1, <2>2, <2>3
  <1> QED
    BY <1>1, <1>2, <1>3, <1>4, <1>5, <1>6, <1>7, <1>8, <1>9, <1>10, <1>11, <1>12
       DEF Next, CallerStep, ConnectStep, JanitorStep

-----------------------------------------------------------------------------
(* How a step changes the age of connection e: not at all, by opening it,   *)
(* or as a sweep does.                                                      *)
SameAge(e) ==
    /\ conn[e] # None
    /\ conn'[e].opened = conn[e].opened /\ conn'[e].draining = conn[e].draining

NewlyOpened(e) == conn[e] = None /\ conn'[e].opened = now /\ conn'[e].draining = None

SweptAge(e) ==
    /\ conn[e] # None
    /\ conn'[e].opened = conn[e].opened
    /\ conn'[e].draining = Aged(conn[e], now).draining
    /\ conn'[e].draining # None => now < conn'[e].draining + DrainGrace

Untouched == \A e \in Entries(conn') : SameAge(e)
Opening ==
    /\ \E a \in Attempts : FinishConnect(a, "sendOk")
    /\ \E x \in Conns : NewlyOpened(x) /\ \A e \in Entries(conn') : e = x \/ SameAge(e)
Sweeping == \A e \in Entries(conn') : SweptAge(e)

(* What a sweep leaves has not drained for the grace period.                *)
LEMMA SweptAges ==
  ASSUME TypeOK, NEW e \in Entries(Swept(now))
  PROVE  /\ conn[e] # None
         /\ Swept(now)[e].opened = conn[e].opened
         /\ Swept(now)[e].draining = Aged(conn[e], now).draining
         /\ Swept(now)[e].draining # None => now < Swept(now)[e].draining + DrainGrace
  <1>1. /\ e \in Entries(conn) /\ e \in Conns
        /\ Swept(now)[e] = Aged(conn[e], now) /\ ~Due(Aged(conn[e], now), now)
    BY SweptEntries DEF Entries
  <1>2. conn[e] \in Entry /\ now \in Times
    BY <1>1 DEF TypeOK, Entries
  <1>3. Aged(conn[e], now) \in Entry /\ Aged(conn[e], now).opened = conn[e].opened
    BY <1>2, AgedEntry
  <1>4. Aged(conn[e], now).draining # None => now < Aged(conn[e], now).draining + DrainGrace
    <2> DEFINE r == Aged(conn[e], now)
    <2>1. r \in Entry /\ ~Due(r, now)
      BY <1>1, <1>3
    <2> HIDE DEF r
    <2>2. r.draining # None => r.draining \in Nat /\ now \in Nat /\ DrainGrace \in Nat
      BY <1>2, <2>1, PoolAssumption DEF Entry, Times, DrainGrace
    <2>3. r.draining # None => ~(now >= r.draining + DrainGrace)
      BY <2>1 DEF Due
    <2>4. r.draining # None => now < r.draining + DrainGrace
      BY <2>2, <2>3
    <2> QED
      BY <2>4 DEF r
  <1> QED
    BY <1>1, <1>3, <1>4 DEF Entries

(* Every step is of one of the three kinds.                                 *)
LEMMA ConnsAge == PoolInv /\ Next => Untouched \/ Opening \/ Sweeping
  <1> SUFFICES ASSUME PoolInv, Next PROVE Untouched \/ Opening \/ Sweeping
    OBVIOUS
  <1>t. TypeOK
    BY DEF PoolInv
  <1>0. conn' = conn => Untouched
    BY DEF Untouched, SameAge, Entries
  <1>1. conn' = Swept(now) => Sweeping
    BY <1>t, SweptAges DEF Sweeping, SweptAge
  <1>2. ASSUME NEW c \in Callers, Use(c)
        PROVE  Sweeping
    <2>1. PICK e : conn' = [Swept(now) EXCEPT ![e].inFlight = @ + 1]
      BY <1>2, Zenon DEF Use
    <2>2. ASSUME NEW x \in Entries(conn')
          PROVE  /\ x \in Entries(Swept(now))
                 /\ conn'[x].opened = Swept(now)[x].opened
                 /\ conn'[x].draining = Swept(now)[x].draining
      <3>1. PICK d \in Best(Swept(now), c) : conn' = [Swept(now) EXCEPT ![d].inFlight = @ + 1]
        BY <1>2, Zenon DEF Use
      <3>2. d \in Entries(Swept(now))
        BY <3>1, BestIsUsable DEF Usable, Live
      <3>3. DOMAIN Swept(now) = Conns
        BY DEF Swept
      <3>4. x # d => conn'[x] = Swept(now)[x]
        BY <3>1, <3>3 DEF Entries
      <3>5. Swept(now)[d] \in Entry /\ conn'[d] = [Swept(now)[d] EXCEPT !.inFlight = @ + 1]
        BY <1>t, <3>1, <3>2, <3>3, SweptEntries DEF Entries
      <3>6. conn'[d].opened = Swept(now)[d].opened /\ conn'[d].draining = Swept(now)[d].draining
        BY <3>5 DEF Entry
      <3> QED
        BY <3>2, <3>4, <3>6 DEF Entries
    <2> QED
      BY <1>t, <2>2, SweptAges DEF Sweeping, SweptAge
  <1>3. ASSUME NEW c \in Callers, DropLease(c)
        PROVE  Untouched
    <2> DEFINE e == lease[c]
    <2>1. e \in Conns /\ conn \in [Conns -> Entry \cup {None}]
      BY <1>t, <1>3 DEF PoolInv, Holds, DropLease, TypeOK
    <2>2. \/ conn' = conn
          \/ /\ conn[e] # None
             /\ conn' = [conn EXCEPT ![e] = None]
          \/ /\ conn[e] # None
             /\ conn' = [conn EXCEPT ![e] =
                    [conn[e] EXCEPT !.inFlight = IF @ = 0 THEN 0 ELSE @ - 1, !.lastActive = now]]
      BY <1>3, Zenon DEF DropLease
    <2> HIDE DEF e
    <2>3. ASSUME NEW n, NEW t, conn[e] # None
          PROVE  LET r == [conn[e] EXCEPT !.inFlight = n, !.lastActive = t]
                 IN  r.opened = conn[e].opened /\ r.draining = conn[e].draining
      BY <2>1, <2>3 DEF Entry
    <2>4. conn[e] # None /\ conn'[e] # None => SameAge(e)
      <3> DEFINE n == IF conn[e].inFlight = 0 THEN 0 ELSE conn[e].inFlight - 1
      <3>1. \/ conn' = conn
            \/ conn' = [conn EXCEPT ![e] = None]
            \/ conn' = [conn EXCEPT ![e] = [conn[e] EXCEPT !.inFlight = n, !.lastActive = now]]
        BY <2>2
      <3> HIDE DEF n
      <3>2. CASE conn' = conn
        BY <3>2 DEF SameAge
      <3>3. CASE conn' = [conn EXCEPT ![e] = None]
        BY <2>1, <3>3
      <3>4. CASE conn' = [conn EXCEPT ![e] = [conn[e] EXCEPT !.inFlight = n, !.lastActive = now]]
        <4>1. conn'[e] = [conn[e] EXCEPT !.inFlight = n, !.lastActive = now]
          BY <2>1, <3>4
        <4> QED
          BY <2>3, <4>1 DEF SameAge
      <3> QED
        BY <3>1, <3>2, <3>3, <3>4
    <2>5. \A x \in Conns : x # e => conn'[x] = conn[x]
      BY <2>1, <2>2
    <2>6. conn'[e] # None => conn[e] # None
      BY <2>2
    <2> QED
      BY <2>4, <2>5, <2>6 DEF Untouched, SameAge, Entries
  <1>4. ASSUME NEW c \in Callers, Complete(c) \/ NoteTimeout(c) \/ MarkDead(c) \/ Abandon(c)
        PROVE  Untouched
    <2> DEFINE e == lease[c]
    <2>1. e \in Conns /\ conn \in [Conns -> Entry \cup {None}]
      BY <1>t, <1>4 DEF PoolInv, Holds, TypeOK, Complete, NoteTimeout, MarkDead, Abandon, EndQuery
    <2>2. \/ conn' = conn
          \/ conn[e] # None /\ conn' = [conn EXCEPT ![e] = None]
          \/ /\ conn[e] # None
             /\ conn' = [conn EXCEPT ![e] = [conn[e] EXCEPT !.answered = TRUE, !.timeouts = 0]]
          \/ /\ conn[e] # None
             /\ conn' = [conn EXCEPT ![e] = [conn[e] EXCEPT !.timeouts = @ + 1]]
      BY <1>4, <2>1 DEF Complete, NoteTimeout, MarkDead, Abandon, EndQuery
    <2> HIDE DEF e
    <2>3. conn[e] # None =>
            /\ LET r == [conn[e] EXCEPT !.answered = TRUE, !.timeouts = 0]
               IN  r.opened = conn[e].opened /\ r.draining = conn[e].draining
            /\ LET r == [conn[e] EXCEPT !.timeouts = @ + 1]
               IN  r.opened = conn[e].opened /\ r.draining = conn[e].draining
      BY <2>1 DEF Entry
    <2> QED
      BY <2>1, <2>2, <2>3, Zenon DEF Untouched, SameAge, Entries
  <1>5. ASSUME NEW a \in Attempts, NEW result \in {"sendOk", "sendErr"}, FinishConnect(a, result)
        PROVE  Untouched \/ Opening
    <2>1. CASE conn' = conn
      BY <1>0, <2>1
    <2>2. CASE conn' # conn
      <3>1. PICK e \in Conns :
              /\ conn[e] = None
              /\ conn' = [conn EXCEPT ![e] =
                    [opened |-> now, lastActive |-> now, inFlight |-> 0, answered |-> FALSE,
                     timeouts |-> 0, draining |-> None, alive |-> TRUE]]
        BY <1>5, <2>2 DEF FinishConnect
      <3>2. NewlyOpened(e)
        BY <1>t, <3>1 DEF NewlyOpened, TypeOK
      <3>3. \A x \in Entries(conn') : x = e \/ SameAge(x)
        BY <1>t, <3>1 DEF SameAge, Entries, TypeOK
      <3>4. FinishConnect(a, "sendOk")
        BY <1>5, <2>2, Zenon DEF FinishConnect
      <3> QED
        BY <3>2, <3>3, <3>4 DEF Opening
    <2> QED
      BY <2>1, <2>2
  <1>6. ASSUME NEW e \in Conns, Die(e)
        PROVE  Untouched
    <2>1. conn \in [Conns -> Entry \cup {None}] /\ conn[e] # None
           /\ conn' = [conn EXCEPT ![e] = [conn[e] EXCEPT !.alive = FALSE]]
      BY <1>t, <1>6 DEF TypeOK, Die
    <2>2. LET r == [conn[e] EXCEPT !.alive = FALSE]
          IN  r.opened = conn[e].opened /\ r.draining = conn[e].draining
      BY <2>1 DEF Entry
    <2> QED
      BY <2>1, <2>2 DEF Untouched, SameAge, Entries
  <1>7. ASSUME NEW c \in Callers, Wait(c)
        PROVE  Sweeping
    BY <1>1, <1>7 DEF Wait
  <1>8. CASE JanitorRun \/ Sweep
    BY <1>1, <1>8 DEF JanitorRun, Sweep
  <1>9. ASSUME \/ \E c \in Callers, wantsFresh \in BOOLEAN : Acquire(c, wantsFresh)
               \/ \E c \in Callers : NotifyJanitor(c) \/ DropPermit(c) \/ LeaveQueue(c) \/ GiveUp(c)
               \/ \E a \in Attempts : SendOutcome(a)
               \/ JanitorTimer \/ JanitorWoken \/ Tick
        PROVE  Untouched
    BY <1>0, <1>9
       DEF Acquire, NotifyJanitor, DropPermit, LeaveQueue, GiveUp, SendOutcome, JanitorTimer,
           JanitorWoken, Tick
  <1> QED
    BY <1>2, <1>3, <1>4, <1>5, <1>6, <1>7, <1>8, <1>9
       DEF Next, CallerStep, ConnectStep, JanitorStep

(* The clock goes on, and not in a step that touches a connection.          *)
LEMMA Clock == TypeOK /\ Next => /\ now' \in Nat /\ now \in Nat /\ now <= now'
                                 /\ now' = now \/ conn' = conn
  <1> SUFFICES ASSUME TypeOK, Next
               PROVE  now' \in Nat /\ now <= now' /\ (now' = now \/ conn' = conn)
    BY DEF TypeOK, Times
  <1>1. now' = now \/ Tick
    BY Zenon DEF Next, CallerStep, ConnectStep, JanitorStep, Acquire, Use, Wait, DropLease, NotifyJanitor,
           DropPermit, LeaveQueue, GiveUp, Complete, NoteTimeout, MarkDead, Abandon, EndQuery,
           SendOutcome, FinishConnect, Die, JanitorRun, JanitorTimer, JanitorWoken, Sweep
  <1>2. now \in Nat
    BY DEF TypeOK, Times
  <1> QED
    BY <1>1, <1>2 DEF Tick

(* The numbers in an entry.                                                 *)
LEMMA Numbers ==
  ASSUME TypeOK, NEW e \in Entries(conn)
  PROVE  /\ conn[e] \in Entry /\ now \in Times /\ now \in Nat
         /\ conn[e].opened \in Nat
         /\ conn[e].draining # None => conn[e].draining \in Nat
  BY DEF TypeOK, Entries, Entry, Times

(* A sweep marks a connection that is old enough.                           *)
LEMMA Marks ==
  ASSUME TypeOK, NEW e \in Entries(conn)
  PROVE  Aged(conn[e], now).draining =
            IF conn[e].draining = None /\ MaxLifetime # None /\ now >= conn[e].opened + MaxLifetime
            THEN now ELSE conn[e].draining
  BY Numbers, AgedEntry

(* Connections are dated, and marked and retired together.                  *)
LEMMA DatesStep ==
  PoolInv /\ Next => \A e \in Entries(conn') : Dated(e)' /\ \A x \in Entries(conn') : MarkedTogether(e, x)'
  <1> SUFFICES ASSUME PoolInv, Next, NEW e \in Entries(conn')
               PROVE  Dated(e)' /\ \A x \in Entries(conn') : MarkedTogether(e, x)'
    OBVIOUS
  <1>t. TypeOK /\ PoolAssumption
    BY PoolAssumption DEF PoolInv
  <1>c. now' \in Nat /\ now \in Nat /\ now <= now' /\ (now' = now \/ conn' = conn)
    BY <1>t, Clock
  <1>d. \A x \in Entries(conn) : Dated(x) /\ \A y \in Entries(conn) : MarkedTogether(x, y)
    BY DEF PoolInv, Rotation
  <1>g. /\ DrainGrace \in Nat
        /\ MaxLifetime # None => MaxLifetime \in Nat /\ MaxLifetime >= 1 /\ DrainGrace <= MaxLifetime
    BY <1>t DEF PoolAssumption, DrainGrace
  <1>1. CASE Untouched
    <2>1. \A x \in Entries(conn') : x \in Entries(conn) /\ SameAge(x)
      BY <1>1 DEF Untouched, SameAge, Entries
    <2>2. Dated(e)'
      BY <1>t, <1>c, <1>d, <2>1, Numbers DEF Dated, SameAge
    <2>3. \A x \in Entries(conn') : MarkedTogether(e, x)'
      BY <1>d, <2>1 DEF MarkedTogether, SameAge
    <2> QED
      BY <2>2, <2>3
  <1>2. CASE Opening
    <2>1. PICK n \in Conns : NewlyOpened(n) /\ \A x \in Entries(conn') : x = n \/ SameAge(x)
      BY <1>2 DEF Opening
    <2>2. \A x \in Entries(conn') : SameAge(x) => x \in Entries(conn)
      BY DEF SameAge, Entries
    <2>3. Dated(e)'
      BY <1>t, <1>c, <1>d, <2>1, <2>2, Numbers DEF Dated, SameAge, NewlyOpened
    <2>4. ASSUME NEW x \in Entries(conn')
          PROVE  MarkedTogether(e, x)'
      <3>1. CASE e = n
        BY <2>1, <3>1 DEF MarkedTogether, NewlyOpened
      <3>2. CASE e # n /\ x = n
        <4>1. e \in Entries(conn) /\ SameAge(e) /\ Dated(e)
          BY <1>d, <2>1, <2>2, <3>2
        <4>2. conn[e].draining # None => conn[e].draining <= now /\ MaxLifetime # None
          BY <4>1 DEF Dated
        <4> QED
          BY <1>t, <1>c, <1>g, <2>1, <3>2, <4>1, <4>2, Numbers
             DEF MarkedTogether, NewlyOpened, SameAge
      <3>3. CASE e # n /\ x # n
        BY <1>d, <2>1, <2>2, <3>3 DEF MarkedTogether, SameAge
      <3> QED
        BY <3>1, <3>2, <3>3
    <2> QED
      BY <2>3, <2>4
  <1>3. CASE Sweeping
    <2>1. \A x \in Entries(conn') :
            /\ x \in Entries(conn)
            /\ conn[x].opened \in Nat /\ (conn[x].draining # None => conn[x].draining \in Nat)
            /\ conn'[x].opened = conn[x].opened
            /\ conn'[x].draining =
                 IF conn[x].draining = None /\ MaxLifetime # None /\ now >= conn[x].opened + MaxLifetime
                 THEN now ELSE conn[x].draining
            /\ conn'[x].draining # None => now < conn'[x].draining + DrainGrace
      <3>1. \A x \in Entries(conn') : x \in Entries(conn) /\ SweptAge(x)
        BY <1>3 DEF Sweeping, SweptAge, Entries
      <3> QED
        BY <1>t, <3>1, Marks, Numbers DEF SweptAge
    <2>2. Dated(e)'
      BY <1>c, <1>d, <1>g, <2>1 DEF Dated
    <2>3. ASSUME NEW x \in Entries(conn')
          PROVE  MarkedTogether(e, x)'
      <3>1. MarkedTogether(e, x) /\ Dated(e) /\ Dated(x)
        BY <1>d, <2>1
      <3>2. conn'[e].draining # None => conn'[e].draining \in Nat /\ conn'[e].draining <= now
                                          /\ MaxLifetime # None
        BY <1>c, <2>1, <3>1 DEF Dated
      <3>3. conn'[x].draining # None => conn'[x].draining \in Nat /\ conn'[x].draining <= now
        BY <1>c, <2>1, <3>1 DEF Dated
      <3>4. conn'[x].draining = None /\ MaxLifetime # None => now < conn'[x].opened + MaxLifetime
        <4>1. now # None
          BY <1>c, PoolAssumption
        <4> QED
          BY <1>c, <1>g, <2>1, <4>1
      <3>5. conn'[x].opened \in Nat
        BY <2>1
      <3>6. conn'[e].draining # None => now < conn'[e].draining + DrainGrace
        BY <2>1
      <3> QED
        BY <1>c, <1>g, <3>2, <3>3, <3>4, <3>5, <3>6 DEF MarkedTogether
    <2> QED
      BY <2>2, <2>3
  <1> QED
    BY <1>1, <1>2, <1>3, ConnsAge

(* There is one connect at a time.                                          *)
LEMMA ConnectsCounted ==
  ASSUME NEW tasks, NEW one \in Attempts \cup {None},
         \A a \in Attempts : tasks[a] = "connect" <=> one = a
  PROVE  Cardinality({a \in Attempts : tasks[a] = "connect"}) = IF one = None THEN 0 ELSE 1
  <1> DEFINE running == {a \in Attempts : tasks[a] = "connect"}
  <1>1. CASE one = None
    <2>1. running = {}
      BY <1>1, PoolAssumption
    <2> HIDE DEF running
    <2>2. Cardinality(running) = 0
      BY <2>1, FS_EmptySet
    <2> QED
      BY <1>1, <2>2 DEF running
  <1>2. CASE one # None
    <2>1. running = {one}
      BY <1>2
    <2> HIDE DEF running
    <2>2. Cardinality(running) = 1
      BY <2>1, FS_Singleton
    <2> QED
      BY <1>2, <2>2 DEF running
  <1> QED
    BY <1>1, <1>2

(* The connections that took queries when one was marked only become fewer, *)
(* and were within the limit then.                                          *)
LEMMA ContemporariesStep ==
  PoolInv /\ Next =>
    \A e \in Entries(conn') : conn'[e].draining # None => Cardinality(Contemporaries(e)') <= MaxConnections
  <1> SUFFICES ASSUME PoolInv, Next, NEW e \in Entries(conn'), conn'[e].draining # None
               PROVE  Cardinality(Contemporaries(e)') <= MaxConnections
    OBVIOUS
  <1>t. TypeOK
    BY DEF PoolInv
  <1>c. now' \in Nat /\ now \in Nat /\ now <= now' /\ now # None
    BY <1>t, Clock, PoolAssumption
  <1>d. \A x \in Entries(conn) : Dated(x) /\ \A y \in Entries(conn) : MarkedTogether(x, y)
    BY DEF PoolInv, Rotation
  <1>f. \A S : S \subseteq Conns => IsFiniteSet(S) /\ Cardinality(S) \in Nat
    BY FS_Subset, FS_CardinalityType, PoolAssumption
  <1>l. MaxConnections \in Nat
    BY PoolAssumption
  <1>1. ASSUME e \in Entries(conn), conn[e].draining # None,
               Contemporaries(e)' \subseteq Contemporaries(e)
        PROVE  Cardinality(Contemporaries(e)') <= MaxConnections
    <2>1. Cardinality(Contemporaries(e)) <= MaxConnections
      BY <1>1 DEF PoolInv, Rotation
    <2>2. Contemporaries(e) \subseteq Conns
      BY DEF Contemporaries, Entries
    <2>3. Cardinality(Contemporaries(e)') <= Cardinality(Contemporaries(e))
      BY <1>1, <1>f, <2>2, FS_Subset
    <2>4. Cardinality(Contemporaries(e)) \in Nat /\ Cardinality(Contemporaries(e)') \in Nat
      BY <1>1, <1>f, <2>2
    <2> QED
      BY <1>l, <2>1, <2>3, <2>4
  <1>2. CASE Untouched
    <2>1. \A x \in Entries(conn') : x \in Entries(conn) /\ SameAge(x)
      BY <1>2 DEF Untouched, SameAge, Entries
    <2>2. Contemporaries(e)' \subseteq Contemporaries(e)
      BY <2>1 DEF Contemporaries, SameAge
    <2> QED
      BY <1>1, <2>1, <2>2 DEF SameAge
  <1>3. CASE Opening
    <2>1. PICK n \in Conns : NewlyOpened(n) /\ \A x \in Entries(conn') : x = n \/ SameAge(x)
      BY <1>3 DEF Opening
    <2>2. \A x \in Entries(conn') : SameAge(x) => x \in Entries(conn)
      BY DEF SameAge, Entries
    <2>3. e # n /\ SameAge(e) /\ e \in Entries(conn)
      BY <2>1, <2>2 DEF NewlyOpened
    <2>4. ~(conn'[n].opened < conn'[e].draining)
      BY <1>t, <1>c, <1>d, <2>1, <2>3, Numbers DEF NewlyOpened, SameAge, Dated
    <2>5. Contemporaries(e)' \subseteq Contemporaries(e)
      BY <2>1, <2>2, <2>3, <2>4 DEF Contemporaries, SameAge
    <2> QED
      BY <1>1, <2>3, <2>5 DEF SameAge
  <1>4. CASE Sweeping
    <2>1. \A x \in Entries(conn') :
            /\ x \in Entries(conn)
            /\ conn[x].opened \in Nat /\ (conn[x].draining # None => conn[x].draining \in Nat)
            /\ conn'[x].opened = conn[x].opened
            /\ conn'[x].draining =
                 IF conn[x].draining = None /\ MaxLifetime # None /\ now >= conn[x].opened + MaxLifetime
                 THEN now ELSE conn[x].draining
      <3>1. \A x \in Entries(conn') : x \in Entries(conn) /\ SweptAge(x)
        BY <1>4 DEF Sweeping, SweptAge, Entries
      <3> QED
        BY <1>t, <3>1, Marks, Numbers DEF SweptAge
    <2>2. CASE conn[e].draining # None
      <3>1. conn'[e].draining = conn[e].draining /\ conn[e].draining <= now /\ conn[e].draining \in Nat
        BY <1>d, <2>1, <2>2 DEF Dated
      <3>2. Contemporaries(e)' \subseteq Contemporaries(e)
        BY <2>1, <3>1 DEF Contemporaries
      <3> QED
        BY <1>1, <2>1, <2>2, <3>2
    <2>3. CASE conn[e].draining = None
      <3>1. conn'[e].draining = now /\ MaxLifetime # None /\ now >= conn[e].opened + MaxLifetime
        BY <2>1, <2>3
      <3>2. ASSUME NEW x \in Contemporaries(e)' PROVE x \in Live(conn)
        <4>1. x \in Entries(conn') /\ (conn'[x].draining = None \/ conn'[x].draining >= now)
          BY <3>1 DEF Contemporaries
        <4>2. ASSUME conn[x].draining # None PROVE FALSE
          <5>1. conn'[x].draining = conn[x].draining /\ conn[x].draining \in Nat
            BY <2>1, <4>1, <4>2
          <5>2. conn[x].draining = now
            BY <1>c, <1>d, <2>1, <4>1, <4>2, <5>1 DEF Dated
          <5>3. conn[e].opened + MaxLifetime > conn[x].draining
            BY <1>d, <2>1, <2>3, <4>1, <4>2 DEF MarkedTogether
          <5>4. conn[e].opened + MaxLifetime \in Nat
            BY <2>1, <3>1, PoolAssumption
          <5> QED
            BY <1>c, <3>1, <5>2, <5>3, <5>4
        <4> QED
          BY <2>1, <4>1, <4>2 DEF Live
      <3>3. Live(conn) \subseteq Conns
        BY DEF Live, Entries
      <3>4. Cardinality(Contemporaries(e)') <= Cardinality(Live(conn))
        BY <1>f, <3>2, <3>3, FS_Subset
      <3>5. Cardinality(Live(conn)) <= MaxConnections
        <4>2. Cardinality({a \in Attempts : task[a] = "connect"}) \in Nat
          BY <1>t, ConnectsCounted DEF PoolInv, OneConnect, TypeOK
        <4> QED
          BY <1>f, <1>l, <3>3, <4>2 DEF PoolInv, WithinLimit
      <3> QED
        BY <1>f, <1>l, <3>2, <3>3, <3>4, <3>5
    <2> QED
      BY <2>2, <2>3
  <1> QED
    BY <1>2, <1>3, <1>4, ConnsAge

LEMMA RotationStep == PoolInv /\ Next => Rotation'
  BY DatesStep, ContemporariesStep DEF Rotation

-----------------------------------------------------------------------------
(* A step that moves no caller into or out of its call leaves the semaphore *)
(* as it was.                                                               *)
SameStanding ==
    /\ free' = free /\ queue' = queue
    /\ \A c \in Callers :
        \/ pc'[c] = pc[c]
        \/ {pc[c], pc'[c]} \cap {"idle", "queued"} = {}

LEMMA StandingKept ==
  ASSUME PermitsCounted, QueueOfQueued, SameStanding
  PROVE  PermitsCounted' /\ QueueOfQueued'
  <1>1. Holders' = Holders
    BY Zenon DEF Holders, SameStanding
  <1>2. \A c \in Callers : pc'[c] = "queued" <=> pc[c] = "queued"
    BY Zenon DEF SameStanding
  <1> QED
    BY <1>1, <1>2 DEF PermitsCounted, QueueOfQueued, SameStanding

(* A permit moves to the caller at the head of the queue, or back.          *)
LEMMA Released ==
  ASSUME TypeOK, PermitsCounted, QueueOfQueued, NEW c \in Holders, ReleasePermit(c)
  PROVE  PermitsCounted' /\ QueueOfQueued'
  <1>f. IsFiniteSet(Holders) /\ Cardinality(Holders) \in Nat /\ free \in Nat /\ Capacity \in Nat
    BY FS_Subset, FS_CardinalityType, PoolAssumption DEF Holders, TypeOK, Capacity
  <1>c. c \in Callers /\ pc[c] \notin {"idle", "queued"} /\ pc \in [Callers -> Pcs]
    BY DEF Holders, TypeOK
  <1>1. CASE queue = <<>>
    <2>1. free' = free + 1 /\ pc' = [pc EXCEPT ![c] = "idle"] /\ queue' = queue
      BY <1>1 DEF ReleasePermit
    <2>2. Holders' = Holders \ {c}
      BY <1>c, <2>1 DEF Holders
    <2>3. Cardinality(Holders \ {c}) = Cardinality(Holders) - 1
      BY <1>f, FS_RemoveElement
    <2>4. PermitsCounted'
      BY <1>f, <2>1, <2>2, <2>3 DEF PermitsCounted, Capacity
    <2>5. QueueOfQueued'
      BY <1>c, <2>1 DEF QueueOfQueued
    <2> QED
      BY <2>4, <2>5
  <1>2. CASE queue # <<>>
    <2> DEFINE h == Head(queue)
    <2>1. queue \in Seq(Callers) /\ h \in Callers /\ 1 \in DOMAIN queue /\ queue[1] = h
      BY <1>2 DEF TypeOK
    <2>2. free' = free /\ pc' = [pc EXCEPT ![c] = "idle", ![h] = "woken"] /\ queue' = Tail(queue)
      BY <1>2 DEF ReleasePermit
    <2>3. pc[h] = "queued" /\ h # c
      BY <1>c, <2>1 DEF QueueOfQueued
    <2>a. \A i, j \in DOMAIN queue : queue[i] = queue[j] => i = j
      BY DEF QueueOfQueued
    <2>b. /\ \A y : (\E i \in DOMAIN Tail(queue) : Tail(queue)[i] = y)
                        <=> y # Head(queue) /\ \E i \in DOMAIN queue : queue[i] = y
          /\ \A i, j \in DOMAIN Tail(queue) : Tail(queue)[i] = Tail(queue)[j] => i = j
      BY <1>2, <2>1, <2>a, HeadTaken, Zenon
    <2>4. \A y : (\E i \in DOMAIN queue' : queue'[i] = y)
                    <=> y # h /\ \E i \in DOMAIN queue : queue[i] = y
      BY <2>2, <2>b, Zenon
    <2>5. \A i, j \in DOMAIN queue' : queue'[i] = queue'[j] => i = j
      BY <2>2, <2>b
    <2> HIDE DEF h
    <2>6. Holders' = (Holders \ {c}) \cup {h}
      BY <1>c, <2>1, <2>2, <2>3 DEF Holders
    <2>7. Cardinality((Holders \ {c}) \cup {h}) = Cardinality(Holders)
      <3>1. Cardinality(Holders \ {c}) = Cardinality(Holders) - 1 /\ IsFiniteSet(Holders \ {c})
        BY <1>f, FS_RemoveElement
      <3>2. h \notin Holders \ {c}
        BY <2>3 DEF Holders
      <3> DEFINE rest == Holders \ {c}
      <3> HIDE DEF rest
      <3>3. Cardinality(rest \cup {h}) = Cardinality(rest) + 1
        BY <3>1, <3>2, FS_AddElement DEF rest
      <3> QED
        BY <1>f, <3>1, <3>3 DEF rest
    <2>8. PermitsCounted'
      BY <2>2, <2>6, <2>7 DEF PermitsCounted, Capacity
    <2>9. QueueOfQueued'
      <3>1. ASSUME NEW x \in Callers
            PROVE  pc'[x] = "queued" <=> x # h /\ pc[x] = "queued"
        BY <1>c, <2>1, <2>2, <2>3
      <3>2. \A x \in Callers : pc[x] = "queued" <=> \E i \in DOMAIN queue : queue[i] = x
        BY Zenon DEF QueueOfQueued
      <3>3. \A x \in Callers : pc'[x] = "queued" <=> \E i \in DOMAIN queue' : queue'[i] = x
        BY <2>4, <3>1, <3>2, Zenon
      <3> QED
        BY <2>5, <3>3, Zenon DEF QueueOfQueued
    <2> QED
      BY <2>8, <2>9
  <1> QED
    BY <1>1, <1>2

(* The semaphore hands out as many permits as it has, in order.             *)
LEMMA PermitStep == PoolInv /\ Next => PermitsCounted' /\ QueueOfQueued'
  <1> SUFFICES ASSUME PoolInv, Next PROVE PermitsCounted' /\ QueueOfQueued'
    OBVIOUS
  <1>t. TypeOK /\ PermitsCounted /\ QueueOfQueued
    BY DEF PoolInv
  <1>f. IsFiniteSet(Holders) /\ Cardinality(Holders) \in Nat /\ free \in Nat /\ Capacity \in Nat
    BY <1>t, FS_Subset, FS_CardinalityType, PoolAssumption DEF Holders, TypeOK, Capacity
  <1>1. ASSUME NEW c \in Callers, NEW wantsFresh \in BOOLEAN, Acquire(c, wantsFresh)
        PROVE  PermitsCounted' /\ QueueOfQueued'
    <2>0. pc[c] = "idle" /\ pc \in [Callers -> Pcs] /\ queue \in Seq(Callers)
      BY <1>t, <1>1 DEF Acquire, TypeOK
    <2>1. CASE free > 0
      <3>1. free' = free - 1 /\ pc' = [pc EXCEPT ![c] = "pick"] /\ queue' = queue
        BY <1>f, <1>1, <2>1 DEF Acquire
      <3>2. Holders' = Holders \cup {c} /\ c \notin Holders
        BY <2>0, <3>1 DEF Holders
      <3>3. Cardinality(Holders \cup {c}) = Cardinality(Holders) + 1
        BY <1>f, <3>2, FS_AddElement
      <3>4. PermitsCounted'
        BY <1>t, <1>f, <3>1, <3>2, <3>3 DEF PermitsCounted, Capacity
      <3>5. QueueOfQueued'
        BY <1>t, <2>0, <3>1 DEF QueueOfQueued
      <3> QED
        BY <3>4, <3>5
    <2>2. CASE free = 0
      <3>1. free' = free /\ pc' = [pc EXCEPT ![c] = "queued"] /\ queue' = Append(queue, c)
        BY <1>f, <1>1, <2>2 DEF Acquire
      <3>2. Holders' = Holders
        BY <2>0, <3>1 DEF Holders
      <3>3. \A i \in DOMAIN queue : queue[i] # c
        BY <1>t, <2>0 DEF QueueOfQueued
      <3>4. \A i, j \in DOMAIN queue' : queue'[i] = queue'[j] => i = j
        BY <1>t, <2>0, <3>1, <3>3, Appended DEF QueueOfQueued
      <3>5. \A y : (\E i \in DOMAIN queue' : queue'[i] = y) <=> y = c \/ \E i \in DOMAIN queue : queue[i] = y
        BY <1>t, <2>0, <3>1, <3>3, Appended DEF QueueOfQueued
      <3>6. PermitsCounted'
        BY <1>t, <3>1, <3>2 DEF PermitsCounted, Capacity
      <3>7. QueueOfQueued'
        BY <1>t, <2>0, <3>1, <3>4, <3>5 DEF QueueOfQueued
      <3> QED
        BY <3>6, <3>7
    <2> QED
      BY <1>f, <2>1, <2>2
  <1>2. ASSUME NEW c \in Callers, LeaveQueue(c)
        PROVE  PermitsCounted' /\ QueueOfQueued'
    <2>0. /\ pc[c] = "queued" /\ pc \in [Callers -> Pcs] /\ queue \in Seq(Callers)
          /\ pc' = [pc EXCEPT ![c] = "idle"] /\ free' = free
      BY <1>t, <1>2 DEF LeaveQueue, TypeOK
    <2>1. PICK i \in DOMAIN queue :
            queue[i] = c /\ queue' = SubSeq(queue, 1, i - 1) \o SubSeq(queue, i + 1, Len(queue))
      BY <1>2, Zenon DEF LeaveQueue
    <2>2. /\ \A m, n \in DOMAIN queue' : queue'[m] = queue'[n] => m = n
          /\ \A y : (\E m \in DOMAIN queue' : queue'[m] = y)
                        <=> y # queue[i] /\ \E m \in DOMAIN queue : queue[m] = y
      <3> DEFINE r == SubSeq(queue, 1, i - 1) \o SubSeq(queue, i + 1, Len(queue))
      <3>1. \A m, n \in DOMAIN queue : queue[m] = queue[n] => m = n
        BY <1>t DEF QueueOfQueued
      <3>2. /\ \A m, n \in DOMAIN r : r[m] = r[n] => m = n
            /\ \A y : (\E m \in DOMAIN r : r[m] = y)
                        <=> y # queue[i] /\ \E m \in DOMAIN queue : queue[m] = y
        BY <2>0, <3>1, TakenOut, Zenon
      <3> QED
        BY <2>1, <3>2, Zenon
    <2>3. Holders' = Holders
      BY <2>0 DEF Holders
    <2>4. PermitsCounted'
      BY <1>t, <2>0, <2>3 DEF PermitsCounted, Capacity
    <2>5. QueueOfQueued'
      BY <1>t, <2>0, <2>1, <2>2, Zenon DEF QueueOfQueued
    <2> QED
      BY <2>4, <2>5
  <1>3. ASSUME NEW c \in Callers, DropPermit(c) \/ GiveUp(c)
        PROVE  PermitsCounted' /\ QueueOfQueued'
    <2>1. c \in Holders /\ ReleasePermit(c)
      BY <1>3 DEF DropPermit, GiveUp, Holders
    <2> QED
      BY <1>t, <2>1, Released
  <1>4. ASSUME NEW c \in Callers,
               \/ Use(c) \/ Wait(c) \/ DropLease(c) \/ NotifyJanitor(c)
               \/ Complete(c) \/ NoteTimeout(c) \/ MarkDead(c) \/ Abandon(c)
        PROVE  SameStanding
    <2>0. pc \in [Callers -> Pcs]
      BY <1>t DEF TypeOK
    <2>1. CASE Use(c) \/ Wait(c) \/ NotifyJanitor(c)
      BY <2>0, <2>1 DEF Use, Wait, NotifyJanitor, SameStanding
    <2>2. CASE DropLease(c)
      <3>1. pc[c] = "drop" /\ \E p \in {"notify", "permit"} : pc' = [pc EXCEPT ![c] = p]
        BY <2>2, Zenon DEF DropLease
      <3> QED
        BY <2>0, <2>2, <3>1 DEF DropLease, SameStanding
    <2>3. CASE Complete(c) \/ NoteTimeout(c) \/ MarkDead(c) \/ Abandon(c)
      <3>1. PICK after : EndQuery(c, after)
        BY <2>3 DEF Complete, NoteTimeout, MarkDead, Abandon
      <3> QED
        BY <2>0, <3>1 DEF EndQuery, SameStanding
    <2> QED
      BY <1>4, <2>1, <2>2, <2>3
  <1>5. ASSUME NEW a \in Attempts, SendOutcome(a)
        PROVE  SameStanding
    <2>1. ASSUME NEW c \in Callers
          PROVE  pc'[c] = pc[c] \/ {pc[c], pc'[c]} \cap {"idle", "queued"} = {}
      <3>1. rx[c] # a => pc'[c] = pc[c]
        BY <1>5 DEF SendOutcome, Resumed
      <3>2. rx[c] = a => pc[c] = "wait"
        BY PoolAssumption DEF PoolInv, Holds
      <3>3. rx[c] = a => pc'[c] \in {"woken", "permit"}
        BY <1>5 DEF SendOutcome, Resumed
      <3> QED
        BY <3>1, <3>2, <3>3
    <2> QED
      BY <1>5, <2>1 DEF SendOutcome, SameStanding
  <1>6. ASSUME \/ \E a \in Attempts, result \in {"sendOk", "sendErr"} : FinishConnect(a, result)
               \/ \E e \in Conns : Die(e)
               \/ JanitorStep \/ Sweep \/ Tick
        PROVE  SameStanding
    BY <1>6 DEF FinishConnect, Die, JanitorStep, JanitorRun, JanitorTimer, JanitorWoken, Sweep, Tick,
                callerVars, SameStanding
  <1> QED
    BY <1>t, <1>1, <1>2, <1>3, <1>4, <1>5, <1>6, StandingKept
       DEF Next, CallerStep, ConnectStep

-----------------------------------------------------------------------------
(* What a caller holds fits where it is.                                    *)
LEMMA HoldsStep == PoolInv /\ Next => \A c \in Callers : Holds(c)'
  <1> SUFFICES ASSUME PoolInv, Next, NEW p \in Callers PROVE Holds(p)'
    OBVIOUS
  <1>t. /\ pc \in [Callers -> Pcs] /\ lease \in [Callers -> Conns \cup {None}]
        /\ rx \in [Callers -> Attempts \cup {None}] /\ queue \in Seq(Callers)
    BY DEF PoolInv, TypeOK
  <1>h. Holds(p)
    BY DEF PoolInv
  <1>0. ASSUME pc'[p] = pc[p], lease'[p] = lease[p], rx'[p] = rx[p]
        PROVE  Holds(p)'
    BY <1>h, <1>0 DEF Holds
  <1>1. ASSUME NEW c \in Callers, NEW wantsFresh \in BOOLEAN, Acquire(c, wantsFresh)
        PROVE  Holds(p)'
    BY <1>t, <1>h, <1>1 DEF Acquire, Holds
  <1>2. ASSUME NEW c \in Callers, Use(c)
        PROVE  Holds(p)'
    <2>1. PICK e \in Conns : lease' = [lease EXCEPT ![c] = e]
      BY <1>2, BestIsUsable, Zenon DEF Use, Usable, Live, Entries
    <2>2. e # None
      BY PoolAssumption
    <2> QED
      BY <1>t, <1>h, <1>2, <2>1, <2>2 DEF Use, Holds
  <1>3. ASSUME NEW c \in Callers, Wait(c) \/ NotifyJanitor(c) \/ LeaveQueue(c)
        PROVE  Holds(p)'
    BY <1>t, <1>h, <1>3 DEF Wait, NotifyJanitor, LeaveQueue, Holds
  <1>4. ASSUME NEW c \in Callers, DropLease(c)
        PROVE  Holds(p)'
    <2>1. pc[c] = "drop" /\ \E q \in {"notify", "permit"} : pc' = [pc EXCEPT ![c] = q]
      BY <1>4, Zenon DEF DropLease
    <2> QED
      BY <1>t, <1>h, <1>4, <2>1 DEF DropLease, Holds
  <1>5. ASSUME NEW c \in Callers, Complete(c) \/ NoteTimeout(c) \/ MarkDead(c) \/ Abandon(c)
        PROVE  Holds(p)'
    <2>1. PICK after : EndQuery(c, after)
      BY <1>5 DEF Complete, NoteTimeout, MarkDead, Abandon
    <2> QED
      BY <1>t, <1>h, <2>1 DEF EndQuery, Holds
  <1>6. ASSUME NEW c \in Callers, DropPermit(c) \/ GiveUp(c)
        PROVE  Holds(p)'
    <2>1. /\ pc[c] \in {"permit", "woken", "wait"} /\ lease' = lease
          /\ (rx' = rx /\ pc[c] = "permit") \/ rx' = [rx EXCEPT ![c] = None]
      BY <1>6 DEF DropPermit, GiveUp
    <2>2. ReleasePermit(c)
      BY <1>6 DEF DropPermit, GiveUp
    <2>3. Holds(c)
      BY DEF PoolInv
    <2>4. CASE queue = <<>>
      BY <1>t, <1>h, <2>1, <2>2, <2>3, <2>4 DEF ReleasePermit, Holds
    <2>5. CASE queue # <<>>
      <3>1. Head(queue) \in Callers /\ pc[Head(queue)] = "queued"
        BY <1>t, <2>5 DEF PoolInv, QueueOfQueued
      <3>2. pc' = [pc EXCEPT ![c] = "idle", ![Head(queue)] = "woken"]
        BY <2>2, <2>5 DEF ReleasePermit
      <3> QED
        BY <1>t, <1>h, <2>1, <2>3, <3>1, <3>2 DEF Holds
    <2> QED
      BY <2>4, <2>5
  <1>7. ASSUME NEW a \in Attempts, SendOutcome(a)
        PROVE  Holds(p)'
    <2>1. CASE rx[p] = a
      <3>1. pc[p] = "wait" /\ lease[p] = None
        BY <1>h, <2>1, PoolAssumption DEF Holds
      <3> QED
        BY <1>7, <2>1, <3>1 DEF SendOutcome, Resumed, Holds
    <2>2. CASE rx[p] # a
      BY <1>0, <1>7, <2>2 DEF SendOutcome, Resumed
    <2> QED
      BY <2>1, <2>2
  <1>8. ASSUME \/ \E a \in Attempts, result \in {"sendOk", "sendErr"} : FinishConnect(a, result)
               \/ \E e \in Conns : Die(e)
               \/ JanitorStep \/ Sweep \/ Tick
        PROVE  Holds(p)'
    BY <1>0, <1>8 DEF FinishConnect, Die, JanitorStep, JanitorRun, JanitorTimer, JanitorWoken, Sweep,
                      Tick, callerVars
  <1> QED
    BY <1>1, <1>2, <1>3, <1>4, <1>5, <1>6, <1>7, <1>8 DEF Next, CallerStep, ConnectStep

(* The load of a connection, and when it was used last.                     *)
SameLoad(e) ==
    /\ conn[e] # None
    /\ conn'[e].inFlight = conn[e].inFlight /\ conn'[e].lastActive = conn[e].lastActive

SameLoads == lease' = lease /\ \A e \in Entries(conn') : SameLoad(e)

LEMMA SweptLoads ==
  ASSUME TypeOK, NEW e \in Entries(Swept(now))
  PROVE  /\ conn[e] # None /\ Swept(now)[e].inFlight = conn[e].inFlight
         /\ Swept(now)[e].lastActive = conn[e].lastActive
  <1>1. e \in Entries(conn) /\ Swept(now)[e] = Aged(conn[e], now)
    BY SweptEntries
  <1>2. conn[e] \in Entry /\ now \in Times
    BY <1>1, Numbers
  <1> QED
    BY <1>1, <1>2, AgedEntry DEF Entries

(* acquire leases a connection that existed and adds one to its load.       *)
LEMMA UseLoads ==
  ASSUME PoolInv, NEW c \in Callers, Use(c)
  PROVE  \E d \in Entries(conn) :
            /\ lease' = [lease EXCEPT ![c] = d]
            /\ conn'[d].inFlight = conn[d].inFlight + 1
            /\ \A e \in Entries(conn') : e # d => SameLoad(e)
  <1>t. TypeOK
    BY DEF PoolInv
  <1>1. PICK d \in Best(Swept(now), c) :
            conn' = [Swept(now) EXCEPT ![d].inFlight = @ + 1] /\ lease' = [lease EXCEPT ![c] = d]
    BY Zenon DEF Use
  <1>2. d \in Entries(Swept(now)) /\ d \in Conns /\ DOMAIN Swept(now) = Conns
    BY BestIsUsable DEF Usable, Live, Entries, Swept
  <1>3. conn'[d] = [Swept(now)[d] EXCEPT !.inFlight = @ + 1] /\ Swept(now)[d] \in Entry
    BY <1>t, <1>1, <1>2, SweptEntries DEF Entries
  <1>4. conn'[d].inFlight = Swept(now)[d].inFlight + 1
    BY <1>3 DEF Entry
  <1>5. \A e \in Entries(conn') : e # d => conn'[e] = Swept(now)[e] /\ e \in Entries(Swept(now))
    BY <1>1, <1>2 DEF Entries
  <1>6. d \in Entries(conn) /\ conn'[d].inFlight = conn[d].inFlight + 1
    BY <1>t, <1>2, <1>4, SweptLoads DEF Entries
  <1>7. \A e \in Entries(conn') : e # d => SameLoad(e)
    BY <1>t, <1>5, SweptLoads DEF SameLoad
  <1> QED
    BY <1>1, <1>6, <1>7, Zenon

(* Every other step but the end of a lease and a connect that succeeds      *)
(* leaves the leases and loads as they are.                                 *)
LEMMA ConnsLoad ==
  PoolInv /\ Next =>
    \/ SameLoads
    \/ \E c \in Callers : Use(c) \/ DropLease(c)
    \/ \E a \in Attempts : FinishConnect(a, "sendOk")
  <1> SUFFICES ASSUME PoolInv, Next,
                      ~ \E c \in Callers : Use(c) \/ DropLease(c),
                      ~ \E a \in Attempts : FinishConnect(a, "sendOk")
               PROVE  SameLoads
    OBVIOUS
  <1>t. TypeOK
    BY DEF PoolInv
  <1>0. conn' = conn /\ lease' = lease => SameLoads
    BY DEF SameLoads, SameLoad, Entries
  <1>1. conn' = Swept(now) /\ lease' = lease => SameLoads
    BY <1>t, SweptLoads DEF SameLoads, SameLoad
  <1>2. ASSUME NEW c \in Callers, Complete(c) \/ NoteTimeout(c) \/ MarkDead(c) \/ Abandon(c)
        PROVE  SameLoads
    <2> DEFINE e == lease[c]
    <2>1. e \in Conns /\ conn \in [Conns -> Entry \cup {None}]
      BY <1>t, <1>2 DEF PoolInv, Holds, TypeOK, Complete, NoteTimeout, MarkDead, Abandon, EndQuery
    <2>2. \/ conn' = conn
          \/ conn[e] # None /\ conn' = [conn EXCEPT ![e] = None]
          \/ /\ conn[e] # None
             /\ conn' = [conn EXCEPT ![e] = [conn[e] EXCEPT !.answered = TRUE, !.timeouts = 0]]
          \/ /\ conn[e] # None
             /\ conn' = [conn EXCEPT ![e] = [conn[e] EXCEPT !.timeouts = @ + 1]]
      BY <1>2, <2>1 DEF Complete, NoteTimeout, MarkDead, Abandon, EndQuery
    <2>3. lease' = lease
      BY <1>2 DEF Complete, NoteTimeout, MarkDead, Abandon, EndQuery
    <2> HIDE DEF e
    <2>4. conn[e] # None =>
            /\ LET r == [conn[e] EXCEPT !.answered = TRUE, !.timeouts = 0]
               IN  r.inFlight = conn[e].inFlight /\ r.lastActive = conn[e].lastActive
            /\ LET r == [conn[e] EXCEPT !.timeouts = @ + 1]
               IN  r.inFlight = conn[e].inFlight /\ r.lastActive = conn[e].lastActive
      BY <2>1 DEF Entry
    <2> QED
      BY <2>1, <2>2, <2>3, <2>4, Zenon DEF SameLoads, SameLoad, Entries
  <1>3. ASSUME NEW e \in Conns, Die(e)
        PROVE  SameLoads
    <2>1. /\ conn \in [Conns -> Entry \cup {None}] /\ conn[e] # None /\ lease' = lease
          /\ conn' = [conn EXCEPT ![e] = [conn[e] EXCEPT !.alive = FALSE]]
      BY <1>t, <1>3 DEF TypeOK, Die, callerVars
    <2>2. LET r == [conn[e] EXCEPT !.alive = FALSE]
          IN  r.inFlight = conn[e].inFlight /\ r.lastActive = conn[e].lastActive
      BY <2>1 DEF Entry
    <2> QED
      BY <2>1, <2>2 DEF SameLoads, SameLoad, Entries
  <1>4. ASSUME \/ \E c \in Callers : Wait(c)
               \/ JanitorRun \/ Sweep
        PROVE  SameLoads
    BY <1>1, <1>4 DEF Wait, JanitorRun, Sweep, callerVars
  <1>5. ASSUME \/ \E c \in Callers, wantsFresh \in BOOLEAN : Acquire(c, wantsFresh)
               \/ \E c \in Callers : NotifyJanitor(c) \/ DropPermit(c) \/ LeaveQueue(c) \/ GiveUp(c)
               \/ \E a \in Attempts : SendOutcome(a)
               \/ \E a \in Attempts : FinishConnect(a, "sendErr")
               \/ JanitorTimer \/ JanitorWoken \/ Tick
        PROVE  SameLoads
    BY <1>0, <1>5
       DEF Acquire, NotifyJanitor, DropPermit, LeaveQueue, GiveUp, SendOutcome, FinishConnect,
           JanitorTimer, JanitorWoken, Tick, callerVars
  <1> QED
    BY <1>2, <1>3, <1>4, <1>5 DEF Next, CallerStep, ConnectStep, JanitorStep

(* The load of a connection is the number of its leases.                    *)
LEMMA LeaseStep == PoolInv /\ Next => LeasesCounted'
  <1> SUFFICES ASSUME PoolInv, Next, NEW e \in Entries(conn')
               PROVE  conn'[e].inFlight = Cardinality({c \in Callers : lease'[c] = e})
    BY DEF LeasesCounted
  <1>t. TypeOK
    BY DEF PoolInv
  <1>l. lease \in [Callers -> Conns \cup {None}] /\ None \notin Conns
    BY <1>t, PoolAssumption, Zenon DEF TypeOK
  <1>f. \A d : IsFiniteSet({c \in Callers : lease[c] = d})
    BY FS_Subset, PoolAssumption
  <1>c. \A d \in Entries(conn) : conn[d].inFlight = Cardinality({c \in Callers : lease[c] = d})
    BY DEF PoolInv, LeasesCounted
  <1>e. e \in Conns
    BY DEF Entries
  <1>0. ASSUME SameLoad(e), {c \in Callers : lease'[c] = e} = {c \in Callers : lease[c] = e}
        PROVE  conn'[e].inFlight = Cardinality({c \in Callers : lease'[c] = e})
    BY <1>c, <1>e, <1>0 DEF SameLoad, Entries
  <1>1. CASE SameLoads
    BY <1>0, <1>1 DEF SameLoads
  <1>2. ASSUME NEW c \in Callers, Use(c)
        PROVE  conn'[e].inFlight = Cardinality({x \in Callers : lease'[x] = e})
    <2>1. PICK d \in Entries(conn) :
            /\ lease' = [lease EXCEPT ![c] = d]
            /\ conn'[d].inFlight = conn[d].inFlight + 1
            /\ \A x \in Entries(conn') : x # d => SameLoad(x)
      BY <1>2, UseLoads
    <2>2. lease[c] = None
      BY <1>2 DEF PoolInv, Holds, Use
    <2>3. CASE e # d
      <3>1. {x \in Callers : lease'[x] = e} = {x \in Callers : lease[x] = e}
        BY <1>l, <1>e, <2>1, <2>2, <2>3
      <3> QED
        BY <1>0, <2>1, <2>3, <3>1
    <2>4. CASE e = d
      <3> DEFINE old == {x \in Callers : lease[x] = e}
      <3>1. {x \in Callers : lease'[x] = e} = old \cup {c} /\ c \notin old
        BY <1>l, <1>e, <2>1, <2>2, <2>4
      <3>2. IsFiniteSet(old) /\ conn[e].inFlight = Cardinality(old)
        BY <1>f, <1>c, <2>1, <2>4, Zenon
      <3> HIDE DEF old
      <3>3. Cardinality(old \cup {c}) = Cardinality(old) + 1
        BY <3>1, <3>2, FS_AddElement, Zenon
      <3> QED
        BY <2>1, <2>4, <3>1, <3>2, <3>3
    <2> QED
      BY <2>3, <2>4
  <1>3. ASSUME NEW c \in Callers, DropLease(c)
        PROVE  conn'[e].inFlight = Cardinality({x \in Callers : lease'[x] = e})
    <2> DEFINE d == lease[c]
    <2>1. d \in Conns /\ lease' = [lease EXCEPT ![c] = None]
      BY <1>l, <1>3 DEF PoolInv, Holds, DropLease
    <2>2. CASE e # d
      <3>1. {x \in Callers : lease'[x] = e} = {x \in Callers : lease[x] = e}
        BY <1>l, <1>e, <2>1, <2>2
      <3>2. conn'[e] = conn[e]
        BY <1>t, <1>e, <1>3, <2>2 DEF DropLease, TypeOK
      <3> QED
        BY <1>0, <3>1, <3>2 DEF SameLoad, Entries
    <2>3. CASE e = d
      <3> DEFINE old == {x \in Callers : lease[x] = e}
      <3>1. {x \in Callers : lease'[x] = e} = old \ {c} /\ c \in old
        BY <1>l, <1>e, <2>1, <2>3
      <3>2. /\ conn[e] # None /\ conn[e] \in Entry
            /\ conn'[e] = [conn[e] EXCEPT !.inFlight = IF @ = 0 THEN 0 ELSE @ - 1, !.lastActive = now]
        BY <1>t, <1>e, <1>3, <2>3 DEF DropLease, TypeOK, Entries
      <3>3. IsFiniteSet(old) /\ conn[e].inFlight = Cardinality(old)
        BY <1>f, <1>c, <1>e, <3>2, Zenon DEF Entries
      <3> HIDE DEF old
      <3>4. Cardinality(old \ {c}) = Cardinality(old) - 1 /\ Cardinality(old) # 0
        BY <3>1, <3>3, FS_RemoveElement, FS_EmptySet, Zenon
      <3>5. conn'[e].inFlight = IF conn[e].inFlight = 0 THEN 0 ELSE conn[e].inFlight - 1
        BY <3>2 DEF Entry
      <3> QED
        BY <3>1, <3>3, <3>4, <3>5
    <2> QED
      BY <2>2, <2>3
  <1>4. ASSUME NEW a \in Attempts, FinishConnect(a, "sendOk")
        PROVE  conn'[e].inFlight = Cardinality({x \in Callers : lease'[x] = e})
    <2>1. PICK d \in Conns :
            /\ conn[d] = None /\ \A c \in Callers : lease[c] # d
            /\ conn' = [conn EXCEPT ![d] =
                  [opened |-> now, lastActive |-> now, inFlight |-> 0, answered |-> FALSE,
                   timeouts |-> 0, draining |-> None, alive |-> TRUE]]
      BY <1>4 DEF FinishConnect
    <2>2. lease' = lease
      BY <1>4 DEF FinishConnect, callerVars
    <2>3. CASE e # d
      BY <1>t, <1>0, <1>e, <2>1, <2>2, <2>3 DEF SameLoad, Entries, TypeOK
    <2>4. CASE e = d
      <3>1. conn'[e].inFlight = 0
        BY <1>t, <1>e, <2>1, <2>4 DEF TypeOK
      <3>2. {x \in Callers : lease'[x] = e} = {}
        BY <2>1, <2>2, <2>4
      <3> QED
        BY <3>1, <3>2, FS_EmptySet
    <2> QED
      BY <2>3, <2>4
  <1> QED
    BY <1>1, <1>2, <1>3, <1>4, ConnsLoad

-----------------------------------------------------------------------------
(* A connect is started only when none is running and the limit allows it.  *)
LEMMA ConnectStarts ==
  ASSUME PoolInv, Next
  PROVE  /\ OneConnect'
         /\ \/ connecting' = connecting /\ (Untouched \/ Sweeping)
            \/ connecting' = None /\ (Untouched \/ Opening)
            \/ /\ Live(conn') \subseteq Live(Swept(now))
               /\ Cardinality(Live(Swept(now))) < MaxConnections
  <1>t. /\ TypeOK /\ OneConnect /\ task \in [Attempts -> {"none", "connect", "sendOk", "sendErr"}]
        /\ None \notin Attempts
    BY PoolAssumption DEF PoolInv, TypeOK
  <1>u. Untouched \/ Opening \/ Sweeping
    BY ConnsAge
  <1>s. ASSUME connecting = None, StartConnect
        PROVE  OneConnect'
    BY <1>t, <1>s DEF StartConnect, OneConnect
  <1>k. ASSUME connecting' = connecting, task' = task,
               ~ \E a \in Attempts : FinishConnect(a, "sendOk")
        PROVE  OneConnect' /\ (Untouched \/ Sweeping)
    BY <1>t, <1>u, <1>k DEF OneConnect, Opening
  <1>f. ASSUME connecting' # None
        PROVE  ~ \E a \in Attempts : FinishConnect(a, "sendOk")
    BY <1>f DEF FinishConnect
  <1>1. ASSUME NEW c \in Callers, Use(c), connectVars' # connectVars
        PROVE  /\ OneConnect' /\ Live(conn') \subseteq Live(Swept(now))
               /\ Cardinality(Live(Swept(now))) < MaxConnections
    <2>1. PICK d \in Best(Swept(now), c) :
            /\ conn' = [Swept(now) EXCEPT ![d].inFlight = @ + 1]
            /\ MayOpen(Swept(now)) /\ StartConnect
      BY <1>1, Zenon DEF Use
    <2>2. d \in Entries(Swept(now)) /\ d \in Conns /\ Swept(now) \in [Conns -> Entry \cup {None}]
      BY <1>t, BestIsUsable, SweptEntries DEF Usable, Live, Entries
    <2>3. /\ \A x \in Conns \ {d} : conn'[x] = Swept(now)[x]
          /\ conn'[d] = [Swept(now)[d] EXCEPT !.inFlight = @ + 1] /\ Swept(now)[d] \in Entry
      BY <2>1, <2>2 DEF Entries
    <2>4. conn'[d].draining = Swept(now)[d].draining
      BY <2>3 DEF Entry
    <2>6. Live(conn') \subseteq Live(Swept(now))
      BY <2>2, <2>3, <2>4, Zenon DEF Live, Entries
    <2> QED
      BY <1>s, <2>1, <2>6, Zenon DEF MayOpen
  <1>2. ASSUME NEW c \in Callers, Wait(c), connectVars' # connectVars
        PROVE  /\ OneConnect' /\ Live(conn') \subseteq Live(Swept(now))
               /\ Cardinality(Live(Swept(now))) < MaxConnections
    <2>1. MayOpen(Swept(now)) /\ StartConnect /\ conn' = Swept(now)
      BY <1>2 DEF Wait
    <2> QED
      BY <1>s, <2>1 DEF MayOpen
  <1>3. ASSUME NEW a \in Attempts, NEW result \in {"sendOk", "sendErr"}, FinishConnect(a, result)
        PROVE  OneConnect' /\ connecting' = None /\ (Untouched \/ Opening)
    <2>1. /\ connecting = a /\ connecting' = None /\ task' = [task EXCEPT ![a] = result]
      BY <1>3, Zenon DEF FinishConnect
    <2>2. OneConnect'
      BY <1>t, <2>1 DEF OneConnect
    <2>3. result = "sendErr" => Untouched
      BY <1>3 DEF FinishConnect, Untouched, SameAge, Entries
    <2>4. result = "sendOk" => Untouched \/ Opening
      <3> SUFFICES ASSUME FinishConnect(a, "sendOk") PROVE Opening
        BY <1>3
      <3>1. PICK e \in Conns :
              /\ conn[e] = None
              /\ conn' = [conn EXCEPT ![e] =
                    [opened |-> now, lastActive |-> now, inFlight |-> 0, answered |-> FALSE,
                     timeouts |-> 0, draining |-> None, alive |-> TRUE]]
        BY DEF FinishConnect
      <3>2. NewlyOpened(e) /\ \A x \in Entries(conn') : x = e \/ SameAge(x)
        BY <1>t, <3>1 DEF NewlyOpened, SameAge, Entries, TypeOK
      <3> QED
        BY <3>2 DEF Opening
    <2> QED
      BY <2>1, <2>2, <2>3, <2>4
  <1>4. ASSUME NEW a \in Attempts, SendOutcome(a)
        PROVE  OneConnect' /\ connecting' = connecting /\ Untouched
    <2>1. task[a] \in {"sendOk", "sendErr"} /\ task' = [task EXCEPT ![a] = "none"] /\ connecting' = connecting
      BY <1>4 DEF SendOutcome
    <2>2. OneConnect'
      BY <1>t, <2>1 DEF OneConnect
    <2>3. Untouched
      BY <1>4 DEF SendOutcome, Untouched, SameAge, Entries
    <2> QED
      BY <2>1, <2>2, <2>3
  <1>5. ASSUME ~ \E a \in Attempts, result \in {"sendOk", "sendErr"} : FinishConnect(a, result),
               connectVars' = connectVars
        PROVE  OneConnect' /\ connecting' = connecting /\ (Untouched \/ Sweeping)
    BY <1>k, <1>5 DEF connectVars
  <1>6. \/ connectVars' = connectVars
        \/ \E a \in Attempts, result \in {"sendOk", "sendErr"} : FinishConnect(a, result)
        \/ \E a \in Attempts : SendOutcome(a)
        \/ \E c \in Callers : Use(c) \/ Wait(c)
    BY Zenon DEF Next, CallerStep, ConnectStep, JanitorStep, Acquire, DropLease, NotifyJanitor,
           DropPermit, LeaveQueue, GiveUp, Complete, NoteTimeout, MarkDead, Abandon, EndQuery,
           Die, JanitorRun, JanitorTimer, JanitorWoken, Sweep, Tick, connectVars
  <1> QED
    BY <1>1, <1>2, <1>3, <1>4, <1>5, <1>6

(* Live connections and the connect in progress stay within the limit.      *)
LEMMA LimitStep == PoolInv /\ Next => OneConnect' /\ WithinLimit'
  <1> SUFFICES ASSUME PoolInv, Next PROVE OneConnect' /\ WithinLimit'
    OBVIOUS
  <1>t. TypeOK /\ OneConnect /\ TypeOK' /\ OneConnect'
    BY TypeStep, ConnectStarts DEF PoolInv
  <1>l. MaxConnections \in Nat
    BY PoolAssumption
  <1>f. \A S : S \subseteq Conns => IsFiniteSet(S) /\ Cardinality(S) \in Nat
    BY FS_Subset, FS_CardinalityType, PoolAssumption
  <1>v. \A cs : Live(cs) \subseteq Conns
    BY DEF Live, Entries
  <1>a. WithinLimit <=> Cardinality(Live(conn)) + (IF connecting = None THEN 0 ELSE 1) <= MaxConnections
    <2>1. connecting \in Attempts \cup {None} /\ \A a \in Attempts : task[a] = "connect" <=> connecting = a
      BY <1>t DEF OneConnect, TypeOK
    <2>2. Cardinality({a \in Attempts : task[a] = "connect"}) = IF connecting = None THEN 0 ELSE 1
      BY <2>1, ConnectsCounted
    <2> QED
      BY <2>2 DEF WithinLimit
  <1>b. WithinLimit' <=> Cardinality(Live(conn')) + (IF connecting' = None THEN 0 ELSE 1) <= MaxConnections
    <2>1. connecting' \in Attempts \cup {None} /\ \A a \in Attempts : task'[a] = "connect" <=> connecting' = a
      BY <1>t DEF OneConnect, TypeOK
    <2>2. Cardinality({a \in Attempts : task'[a] = "connect"}) = IF connecting' = None THEN 0 ELSE 1
      BY <2>1, ConnectsCounted
    <2> QED
      BY <2>2 DEF WithinLimit
  <1>w. WithinLimit
    BY DEF PoolInv
  <1>1. ASSUME Untouched \/ Sweeping
        PROVE  Cardinality(Live(conn')) <= Cardinality(Live(conn))
    <2>1. Live(conn') \subseteq Live(conn)
      <3> SUFFICES ASSUME NEW e \in Entries(conn'), conn'[e].draining = None
                   PROVE  e \in Live(conn)
        BY DEF Live
      <3>1. CASE Untouched
        BY <3>1 DEF Untouched, SameAge, Live, Entries
      <3>2. CASE Sweeping
        <4>1. e \in Entries(conn) /\ Aged(conn[e], now).draining = None
          BY <3>2 DEF Sweeping, SweptAge, Entries
        <4>2. now # None
          <5>1. now \in Nat
            BY <1>t, <4>1, Numbers, Zenon
          <5> QED
            BY <5>1, PoolAssumption
        <4> QED
          BY <1>t, <4>1, <4>2, Marks DEF Live
      <3> QED
        BY <1>1, <3>1, <3>2
    <2> QED
      BY <1>f, <1>v, <2>1, FS_Subset
  <1>2. ASSUME Opening
        PROVE  connecting # None /\ Cardinality(Live(conn')) <= Cardinality(Live(conn)) + 1
    <2>1. PICK n \in Conns : \A x \in Entries(conn') : x = n \/ SameAge(x)
      BY <1>2 DEF Opening
    <2>2. Live(conn') \subseteq Live(conn) \cup {n}
      BY <2>1 DEF Live, SameAge, Entries
    <2>3. Cardinality(Live(conn')) <= Cardinality(Live(conn) \cup {n})
      BY <1>f, <1>v, <2>2, FS_Subset
    <2>4. Cardinality(Live(conn) \cup {n}) <= Cardinality(Live(conn)) + 1
      BY <1>f, <1>v, FS_AddElement
    <2>5. connecting # None
      BY <1>2, PoolAssumption DEF Opening, FinishConnect
    <2> QED
      BY <1>f, <1>v, <2>3, <2>4, <2>5
  <1>3. Cardinality(Live(conn)) \in Nat /\ Cardinality(Live(conn')) \in Nat
    BY <1>f, <1>v
  <1>4. CASE connecting' = connecting /\ (Untouched \/ Sweeping)
    BY <1>t, <1>l, <1>a, <1>b, <1>w, <1>1, <1>3, <1>4
  <1>5. CASE connecting' = None /\ (Untouched \/ Opening)
    BY <1>t, <1>l, <1>a, <1>b, <1>w, <1>1, <1>2, <1>3, <1>5
  <1>6. CASE /\ Live(conn') \subseteq Live(Swept(now))
             /\ Cardinality(Live(Swept(now))) < MaxConnections
    <2>1. Cardinality(Live(conn')) <= Cardinality(Live(Swept(now)))
      BY <1>f, <1>v, <1>6, FS_Subset
    <2>2. Cardinality(Live(Swept(now))) \in Nat
      BY <1>f, <1>v
    <2> QED
      BY <1>t, <1>l, <1>b, <1>3, <1>6, <2>1, <2>2
  <1> QED
    BY <1>4, <1>5, <1>6, ConnectStarts

-----------------------------------------------------------------------------
(* The janitor will look at instant d or before.                            *)
Watched(d) ==
    \/ janitor = "run"
    \/ /\ janitor = "sleep"
       /\ \/ wake
          \/ \E c \in Callers : pc[c] = "notify"
          \/ deadline # None /\ deadline <= d

(* No step but the janitor's own lets an instant out of sight.              *)
LEMMA WatchKept ==
  ASSUME PoolInv, Next, ~JanitorRun, NEW d \in Nat, NEW later \in Nat, d <= later, Watched(d)
  PROVE  Watched(later)'
  <1>t. /\ pc \in [Callers -> Pcs] /\ janitor \in {"none", "run", "sleep"}
        /\ deadline \in Nat \cup {None} /\ queue \in Seq(Callers)
    BY DEF PoolInv, TypeOK
  <1>1. ASSUME NEW c \in Callers, NotifyJanitor(c)
        PROVE  Watched(later)'
    BY <1>1 DEF NotifyJanitor, Watched
  <1>2. CASE JanitorTimer \/ JanitorWoken
    BY <1>2 DEF JanitorTimer, JanitorWoken, Watched
  <1>3. ASSUME NEW a \in Attempts, NEW result \in {"sendOk", "sendErr"}, FinishConnect(a, result)
        PROVE  Watched(later)'
    BY <1>t, <1>3 DEF FinishConnect, Watched, callerVars, janitorVars
  <1>k. ASSUME janitorVars' = janitorVars, \A c \in Callers : pc[c] = "notify" => pc'[c] = "notify"
        PROVE  Watched(later)'
    BY <1>t, <1>k DEF Watched, janitorVars
  <1>4. ASSUME NEW c \in Callers,
               \/ \E wantsFresh \in BOOLEAN : Acquire(c, wantsFresh)
               \/ Use(c) \/ Wait(c) \/ DropLease(c) \/ LeaveQueue(c)
        PROVE  Watched(later)'
    BY <1>t, <1>k, <1>4 DEF Acquire, Use, Wait, DropLease, LeaveQueue
  <1>5. ASSUME NEW c \in Callers, DropPermit(c) \/ GiveUp(c)
        PROVE  Watched(later)'
    <2>1. ReleasePermit(c) /\ janitorVars' = janitorVars /\ pc[c] \in {"permit", "woken", "wait"}
      BY <1>5 DEF DropPermit, GiveUp, janitorVars
    <2>2. queue # <<>> => pc[Head(queue)] = "queued" /\ Head(queue) \in Callers
      BY <1>t DEF PoolInv, QueueOfQueued
    <2> QED
      BY <1>t, <1>k, <2>1, <2>2 DEF ReleasePermit
  <1>6. ASSUME NEW c \in Callers, Complete(c) \/ NoteTimeout(c) \/ MarkDead(c) \/ Abandon(c)
        PROVE  Watched(later)'
    <2>1. PICK after : EndQuery(c, after)
      BY <1>6 DEF Complete, NoteTimeout, MarkDead, Abandon
    <2> QED
      BY <1>t, <1>k, <2>1 DEF EndQuery
  <1>7. ASSUME NEW a \in Attempts, SendOutcome(a)
        PROVE  Watched(later)'
    <2>1. \A c \in Callers : rx[c] = a => pc[c] = "wait"
      BY PoolAssumption DEF PoolInv, Holds
    <2> QED
      BY <1>t, <1>k, <1>7, <2>1 DEF SendOutcome, Resumed
  <1>8. CASE (\E e \in Conns : Die(e)) \/ Sweep \/ Tick
    BY <1>k, <1>8 DEF Die, Sweep, Tick, callerVars
  <1> QED
    BY <1>1, <1>2, <1>3, <1>4, <1>5, <1>6, <1>7, <1>8 DEF Next, CallerStep, ConnectStep, JanitorStep

LEMMA DeadlineOf ==
  ASSUME NEW r, NEW d \in Deadlines(r)
  PROVE  \/ r.draining # None /\ d = r.draining + DrainGrace
         \/ r.draining = None /\ MaxLifetime # None /\ d = r.opened + MaxLifetime
         \/ r.inFlight = 0 /\ d = r.lastActive + IdleTimeout
  BY DEF Deadlines

(* No deadline of a connection moves forward, except that one appears when  *)
(* its last lease ends.                                                     *)
LEMMA LaterDeadlines ==
  ASSUME TypeOK, NEW e \in Entries(conn'), conn'[e] \in Entry,
         SameAge(e) \/ SweptAge(e),
         conn'[e].inFlight = 0 => conn[e].inFlight = 0 /\ conn'[e].lastActive = conn[e].lastActive,
         NEW d \in Deadlines(conn'[e])
  PROVE  \E earlier \in Deadlines(conn[e]) : earlier \in Nat /\ d \in Nat /\ earlier <= d
  <1>1. e \in Entries(conn)
    BY DEF SameAge, SweptAge, Entries
  <1>2. conn[e] \in Entry /\ now \in Nat /\ conn[e].opened \in Nat
    BY <1>1, Numbers
  <1>3. d \in Nat /\ Deadlines(conn[e]) \subseteq Nat /\ DrainGrace \in Nat
    BY <1>2, DeadlinesAreTimes, PoolAssumption DEF DrainGrace
  <1>4. CASE conn'[e].draining = conn[e].draining /\ conn'[e].opened = conn[e].opened
    <2>1. d \in Deadlines(conn[e])
      BY <1>4 DEF Deadlines
    <2> QED
      BY <1>3, <2>1
  <1>5. CASE /\ conn[e].draining = None /\ MaxLifetime # None /\ now >= conn[e].opened + MaxLifetime
             /\ conn'[e].draining = now
    <2>1. now # None /\ MaxLifetime \in Nat
      BY <1>2, <1>5, PoolAssumption
    <2>2. \/ d = now + DrainGrace
          \/ conn'[e].inFlight = 0 /\ d = conn'[e].lastActive + IdleTimeout
      <3>1. \/ conn'[e].draining # None /\ d = conn'[e].draining + DrainGrace
            \/ conn'[e].draining = None /\ MaxLifetime # None /\ d = conn'[e].opened + MaxLifetime
            \/ conn'[e].inFlight = 0 /\ d = conn'[e].lastActive + IdleTimeout
        BY DeadlineOf
      <3>2. conn'[e].draining # None
        BY <1>5, <2>1
      <3>3. conn'[e].draining + DrainGrace = now + DrainGrace
        BY <1>5
      <3> QED
        BY <3>1, <3>2, <3>3
    <2>3. conn[e].opened + MaxLifetime \in Deadlines(conn[e])
      BY <1>5 DEF Deadlines
    <2>4. CASE d = now + DrainGrace
      <3> DEFINE older == conn[e].opened + MaxLifetime
      <3>1. older \in Nat /\ older <= now
        BY <1>2, <1>5, <2>1
      <3>2. older \in Deadlines(conn[e])
        BY <2>3
      <3> HIDE DEF older
      <3>3. older <= d
        BY <1>2, <1>3, <2>4, <3>1
      <3> QED
        BY <1>3, <3>1, <3>2, <3>3, Zenon
    <2>5. CASE conn'[e].inFlight = 0 /\ d = conn'[e].lastActive + IdleTimeout
      <3>1. d \in Deadlines(conn[e])
        BY <2>5 DEF Deadlines
      <3> QED
        BY <1>3, <3>1
    <2> QED
      BY <2>2, <2>4, <2>5
  <1> QED
    BY <1>1, <1>4, <1>5, Marks DEF SameAge, SweptAge

(* The janitor watches every deadline.                                      *)
LEMMA WatchStep == PoolInv /\ Next => NothingUnwatched' /\ JanitorInTime'
  <1> SUFFICES ASSUME PoolInv, Next PROVE NothingUnwatched' /\ JanitorInTime'
    OBVIOUS
  <1>t. TypeOK /\ TypeOK'
    BY TypeStep DEF PoolInv
  <1>w. \A e \in Entries(conn) : \A d \in Deadlines(conn[e]) : Watched(d)
    BY DEF PoolInv, JanitorInTime, Watched
  <1>g. (\A e \in Entries(conn') : \A d \in Deadlines(conn'[e]) : Watched(d)') => JanitorInTime'
    BY DEF JanitorInTime, Watched
  <1>e. \A e \in Entries(conn') : e \in Conns /\ conn'[e] \in Entry
    BY <1>t DEF TypeOK, Entries
  <1>n. janitor = "none" => Entries(conn) = {}
    BY DEF PoolInv, NothingUnwatched
  <1>1. CASE JanitorRun
    <2>1. conn' \in [Conns -> Entry \cup {None}]
      BY <1>t DEF TypeOK
    <2>2. CASE Entries(conn') = {}
      BY <1>g, <2>2 DEF NothingUnwatched
    <2>3. CASE Entries(conn') # {}
      <3>1. janitor' = "sleep" /\ deadline' = NextDeadline(conn')
        BY <1>1, <2>3 DEF JanitorRun
      <3>2. ASSUME NEW e \in Entries(conn'), NEW d \in Deadlines(conn'[e])
            PROVE  Watched(d)'
        <4>1. deadline' \in Nat /\ deadline' <= d
          BY <2>1, <3>1, DeadlineIsLeast
        <4>2. deadline' # None
          BY <4>1, PoolAssumption
        <4> QED
          BY <3>1, <4>1, <4>2 DEF Watched
      <3> QED
        BY <1>g, <3>1, <3>2 DEF NothingUnwatched
    <2> QED
      BY <2>2, <2>3
  <1>2. ASSUME ~JanitorRun, NEW e \in Entries(conn'), SameAge(e) \/ SweptAge(e),
               conn'[e].inFlight = 0 => conn[e].inFlight = 0 /\ conn'[e].lastActive = conn[e].lastActive,
               NEW d \in Deadlines(conn'[e])
        PROVE  Watched(d)'
    <2>1. PICK earlier \in Deadlines(conn[e]) : earlier \in Nat /\ d \in Nat /\ earlier <= d
      BY <1>t, <1>e, <1>2, LaterDeadlines
    <2>2. e \in Entries(conn)
      BY <1>2 DEF SameAge, SweptAge, Entries
    <2> QED
      BY <1>2, <1>w, <2>1, <2>2, WatchKept
  <1>3. ASSUME ~JanitorRun, \A e \in Entries(conn') : conn[e] # None,
               ~ \E a \in Attempts : FinishConnect(a, "sendOk")
        PROVE  NothingUnwatched'
    <2>1. janitor' = "none" => janitor = "none"
      BY <1>3, Zenon DEF Next, CallerStep, ConnectStep, JanitorStep, Acquire, Use, Wait, DropLease,
             NotifyJanitor, DropPermit, LeaveQueue, GiveUp, Complete, NoteTimeout, MarkDead, Abandon,
             EndQuery, SendOutcome, FinishConnect, Die, JanitorTimer, JanitorWoken, Sweep, Tick, janitorVars
    <2> QED
      BY <1>3, <1>n, <2>1 DEF NothingUnwatched, Entries
  <1>4. ASSUME NEW a \in Attempts, FinishConnect(a, "sendOk")
        PROVE  NothingUnwatched' /\ JanitorInTime'
    <2>1. wake' = TRUE /\ janitor' \in {"run", "sleep"}
      BY <1>t, <1>4 DEF FinishConnect, TypeOK
    <2>2. \A d : Watched(d)'
      BY <2>1 DEF Watched
    <2> QED
      BY <1>g, <2>1, <2>2 DEF NothingUnwatched
  <1>5. CASE ~JanitorRun /\ SameLoads /\ ~ \E a \in Attempts : FinishConnect(a, "sendOk")
    <2>1. \A e \in Entries(conn') : SameAge(e) \/ SweptAge(e)
      BY <1>5, ConnsAge DEF Untouched, Sweeping, Opening
    <2>2. \A e \in Entries(conn') : SameLoad(e)
      BY <1>5 DEF SameLoads
    <2>3. \A e \in Entries(conn') : \A d \in Deadlines(conn'[e]) : Watched(d)'
      BY <1>2, <1>5, <2>1, <2>2 DEF SameLoad
    <2>4. NothingUnwatched'
      BY <1>3, <1>5, <2>2 DEF SameLoad
    <2> QED
      BY <1>g, <2>3, <2>4
  <1>6. ASSUME NEW c \in Callers, Use(c)
        PROVE  NothingUnwatched' /\ JanitorInTime'
    <2>0. ~JanitorRun /\ ~ \E a \in Attempts : FinishConnect(a, "sendOk")
      <3>1. pc' # pc
        BY <1>t, <1>6 DEF Use, TypeOK
      <3> QED
        BY <3>1 DEF JanitorRun, FinishConnect, callerVars
    <2>1. PICK x \in Entries(conn) :
            /\ conn'[x].inFlight = conn[x].inFlight + 1
            /\ \A e \in Entries(conn') : e # x => SameLoad(e)
      BY <1>6, UseLoads
    <2>2. \A e \in Entries(conn') : SameAge(e) \/ SweptAge(e)
      BY <2>0, ConnsAge DEF Untouched, Sweeping, Opening
    <2>3. conn'[x].inFlight # 0
      <3>1. conn[x].inFlight \in Nat
        BY <1>t, Numbers DEF Entry
      <3> QED
        BY <2>1, <3>1
    <2>4. \A e \in Entries(conn') : \A d \in Deadlines(conn'[e]) : Watched(d)'
      BY <1>2, <2>0, <2>1, <2>2, <2>3 DEF SameLoad
    <2>5. NothingUnwatched'
      BY <1>3, <2>0, <2>1 DEF SameLoad, Entries
    <2> QED
      BY <1>g, <2>4, <2>5
  <1>7. ASSUME NEW c \in Callers, DropLease(c)
        PROVE  NothingUnwatched' /\ JanitorInTime'
    <2> DEFINE x == lease[c]
    <2>0. ~JanitorRun /\ ~ \E a \in Attempts : FinishConnect(a, "sendOk")
      <3>1. pc[c] = "drop" /\ pc'[c] # "drop"
        BY <1>t, <1>7 DEF DropLease, TypeOK
      <3> QED
        BY <3>1 DEF JanitorRun, FinishConnect, callerVars
    <2>1. /\ x \in Conns /\ conn \in [Conns -> Entry \cup {None}] /\ now \in Nat
          /\ janitorVars' = janitorVars /\ deadline \in Nat \cup {None} /\ pc \in [Callers -> Pcs]
      BY <1>t, <1>7 DEF PoolInv, Holds, DropLease, TypeOK, Times
    <2>2. \A e \in Entries(conn') : e # x => conn'[e] = conn[e]
      BY <1>7, <2>1 DEF DropLease, Entries
    <2>3. \A e \in Entries(conn') : conn[e] # None
      BY <1>7, <2>1, <2>2 DEF DropLease, Entries
    <2>4. NothingUnwatched'
      BY <1>3, <2>0, <2>3
    <2>5. ASSUME NEW e \in Entries(conn'), e # x, NEW d \in Deadlines(conn'[e])
          PROVE  Watched(d)'
      BY <1>2, <2>0, <2>2, <2>3, <2>5 DEF SameAge
    <2>6. ASSUME x \in Entries(conn'), NEW d \in Deadlines(conn'[x])
          PROVE  Watched(d)'
      <3> DEFINE n == IF conn[x].inFlight = 0 THEN 0 ELSE conn[x].inFlight - 1
      <3>1. /\ conn[x] # None /\ conn[x] \in Entry
            /\ conn'[x] = [conn[x] EXCEPT !.inFlight = n, !.lastActive = now]
            /\ ~(conn[x].inFlight <= 1 /\ conn[x].draining # None)
        BY <1>7, <2>1, <2>3, <2>6, Zenon DEF DropLease, Entries
      <3>2. /\ conn'[x].opened = conn[x].opened /\ conn'[x].draining = conn[x].draining
            /\ conn'[x].inFlight = n /\ conn'[x].lastActive = now /\ conn[x].inFlight \in Nat
        BY <3>1 DEF Entry
      <3>3. SameAge(x)
        BY <3>1, <3>2 DEF SameAge
      <3>4. janitor \in {"run", "sleep"}
        BY <1>t, <1>n, <2>1, <3>1 DEF TypeOK, Entries
      <3>5. CASE n # 0
        BY <1>2, <2>0, <2>6, <3>2, <3>3, <3>5
      <3>6. CASE n = 0 /\ d # now + IdleTimeout
        <4>1. d \in Deadlines(conn[x])
          BY <3>2, <3>6 DEF Deadlines
        <4>2. d \in Nat
          BY <3>1, <4>1, DeadlinesAreTimes
        <4>3. x \in Entries(conn)
          BY <2>1, <3>1 DEF Entries
        <4> HIDE DEF x
        <4>w. Watched(d)
          BY <1>w, <4>1, <4>3, Zenon
        <4>d. d <= d
          BY <4>2
        <4>4. Watched(d) /\ d <= d
          BY <4>w, <4>d, Zenon
        <4> QED
          BY <2>0, <4>2, <4>4, WatchKept, Zenon
      <3>7. CASE n = 0 /\ d = now + IdleTimeout
        <4>1. conn[x].inFlight <= 1
          BY <3>2, <3>7, LastOne, Zenon
        <4>2. pc' = [pc EXCEPT ![c] = IF WakesJanitor(now + IdleTimeout) THEN "notify" ELSE "permit"]
          BY <1>7, <3>1, <4>1, Zenon DEF DropLease
        <4>3. CASE WakesJanitor(now + IdleTimeout)
          BY <2>1, <3>4, <4>2, <4>3 DEF Watched, janitorVars
        <4>4. CASE ~WakesJanitor(now + IdleTimeout)
          <5>1. deadline # None /\ ~(d < deadline) /\ d \in Nat
            BY <2>1, <3>7, <4>4, PoolAssumption DEF WakesJanitor
          <5>2. deadline <= d
            BY <2>1, <5>1
          <5> QED
            BY <2>1, <3>4, <5>1, <5>2 DEF Watched, janitorVars
        <4> QED
          BY <4>3, <4>4
      <3> QED
        BY <3>5, <3>6, <3>7
    <2> QED
      BY <1>g, <2>4, <2>5, <2>6
  <1> QED
    BY <1>1, <1>4, <1>5, <1>6, <1>7, ConnsLoad

-----------------------------------------------------------------------------
(* The invariant is inductive.                                              *)
LEMMA PoolInvInit == Init => PoolInv
  <1> SUFFICES ASSUME Init PROVE PoolInv
    OBVIOUS
  <1> USE PoolAssumption
  <1>e. Entries(conn) = {} /\ Live(conn) = {}
    BY DEF Init, Entries, Live
  <1>c. Capacity \in Nat
    BY DEF Capacity
  <1>1. TypeOK
    <2>1. queue \in Seq(Callers) /\ now \in Times
      BY DEF Init, Times
    <2>2. free \in 0 .. Capacity
      BY <1>c DEF Init
    <2>3. conn \in [Conns -> Entry \cup {None}] /\ lease \in [Callers -> Conns \cup {None}]
      BY DEF Init
    <2>4. /\ pc \in [Callers -> Pcs] /\ fresh \in [Callers -> BOOLEAN]
          /\ task \in [Attempts -> {"none", "connect", "sendOk", "sendErr"}]
          /\ rx \in [Callers -> Attempts \cup {None}] /\ wake \in BOOLEAN
      BY Zenon DEF Init, Pcs
    <2> QED
      BY <2>1, <2>2, <2>3, <2>4 DEF Init, TypeOK
  <1>2. PermitsCounted
    <2>1. Holders = {}
      BY DEF Init, Holders
    <2> QED
      BY <1>c, <2>1, FS_EmptySet DEF Init, PermitsCounted
  <1>3. QueueOfQueued /\ OneConnect /\ \A c \in Callers : Holds(c)
    BY DEF Init, QueueOfQueued, OneConnect, Holds
  <1>4. WithinLimit
    <2>1. {a \in Attempts : task[a] = "connect"} = {}
      BY DEF Init
    <2>2. Cardinality(Live(conn)) = 0 /\ Cardinality({a \in Attempts : task[a] = "connect"}) = 0
      BY <1>e, <2>1, FS_EmptySet
    <2> QED
      BY <2>2 DEF WithinLimit
  <1>5. LeasesCounted /\ Rotation /\ NothingUnwatched /\ JanitorInTime
    BY <1>e DEF LeasesCounted, Rotation, NothingUnwatched, JanitorInTime
  <1> QED
    BY <1>1, <1>2, <1>3, <1>4, <1>5 DEF PoolInv

LEMMA PoolInvKept ==
  ASSUME PoolInv, UNCHANGED vars
  PROVE  PoolInv'
  <1> USE DEF vars, connectVars, janitorVars, callerVars
  <1>1. TypeOK'
    BY DEF PoolInv, TypeOK
  <1>2. PermitsCounted' /\ QueueOfQueued'
    BY DEF PoolInv, PermitsCounted, Holders, QueueOfQueued
  <1>3. ASSUME NEW c \in Callers PROVE Holds(c)'
    BY DEF PoolInv, Holds
  <1>4. OneConnect' /\ WithinLimit' /\ LeasesCounted'
    BY DEF PoolInv, OneConnect, WithinLimit, LeasesCounted, Live, Entries
  <1>5. Rotation'
    BY DEF PoolInv, Rotation, Dated, MarkedTogether, Contemporaries, Entries
  <1>6. NothingUnwatched' /\ JanitorInTime'
    BY DEF PoolInv, NothingUnwatched, JanitorInTime, Entries
  <1> QED
    BY <1>1, <1>2, <1>3, <1>4, <1>5, <1>6 DEF PoolInv

LEMMA PoolInvStep == PoolInv /\ [Next]_vars => PoolInv'
  <1> SUFFICES ASSUME PoolInv, [Next]_vars PROVE PoolInv'
    OBVIOUS
  <1>1. CASE Next
    BY <1>1, TypeStep, PermitStep, HoldsStep, LimitStep, LeaseStep, RotationStep, WatchStep DEF PoolInv
  <1>2. CASE UNCHANGED vars
    BY <1>2, PoolInvKept
  <1> QED
    BY <1>1, <1>2

LEMMA PoolInvariant == Spec => []PoolInv
  BY PoolInvInit, PoolInvStep, PTL DEF Spec

(* No field of the pool leaves its type: no connection carries more than    *)
(* max_in_flight leases, the semaphore never exceeds its permits.           *)
THEOREM TypeCorrect == Spec => []TypeOK
  <1>1. PoolInv => TypeOK
    BY DEF PoolInv
  <1> QED
    BY <1>1, PoolInvariant, PTL

(* pick and finish_connect_locked keep the connections that take queries    *)
(* and the connect in progress within max_connections.                      *)
THEOREM LimitKept == Spec => []WithinLimit
  <1>1. PoolInv => WithinLimit
    BY DEF PoolInv
  <1> QED
    BY <1>1, PoolInvariant, PTL

(* The load of an entry is the number of leases on it, however they end.    *)
THEOREM EveryLeaseCounted == Spec => []LeasesCounted
  <1>1. PoolInv => LeasesCounted
    BY DEF PoolInv
  <1> QED
    BY <1>1, PoolInvariant, PTL

(* The janitor misses no deadline of a connection.                          *)
THEOREM NoLostWakeUp == Spec => []JanitorInTime
  <1>1. PoolInv => JanitorInTime
    BY DEF PoolInv
  <1> QED
    BY <1>1, PoolInvariant, PTL

(* Rotation at most doubles the connections: all that drain took queries    *)
(* when the one that drains longest was marked.                             *)
THEOREM OvershootBounded == Spec => []DrainingBounded
  <1>1. PoolInv => DrainingBounded
    <2> SUFFICES ASSUME PoolInv PROVE Cardinality(Entries(conn) \ Live(conn)) <= MaxConnections
      BY DEF DrainingBounded
    <2> DEFINE D == Entries(conn) \ Live(conn)
    <2>t. TypeOK
      BY DEF PoolInv
    <2>1. \A e \in D : e \in Entries(conn) /\ conn[e].draining # None /\ conn[e].draining \in Nat
      BY <2>t, Numbers DEF Live
    <2>2. D = {} => Cardinality(D) = 0
      BY FS_EmptySet
    <2>3. ASSUME D # {} PROVE Cardinality(D) <= MaxConnections
      <3> DEFINE marks == {conn[e].draining : e \in D}
      <3>1. marks \in SUBSET Nat /\ marks # {}
        BY <2>1, <2>3
      <3> HIDE DEF marks
      <3>2. PICK m \in marks : \A k \in marks : m <= k
        BY <3>1, Least
      <3>3. PICK e \in D : conn[e].draining = m
        BY DEF marks
      <3>4. ASSUME NEW x \in D PROVE x \in Contemporaries(e)
        <4>1. conn[x].draining >= conn[e].draining
          BY <2>1, <3>2, <3>3 DEF marks
        <4>2. conn[x].draining < conn[e].draining + DrainGrace
          BY <2>1, <3>3 DEF PoolInv, Rotation, MarkedTogether
        <4>3. conn[x].opened + MaxLifetime <= conn[x].draining /\ MaxLifetime # None
          BY <2>1 DEF PoolInv, Rotation, Dated
        <4>4. MaxLifetime \in Nat /\ DrainGrace \in Nat /\ DrainGrace <= MaxLifetime
          <5>1. MaxLifetime \in Nat /\ ReadTimeout \in Nat /\ MaxLifetime # None
            BY <4>3, PoolAssumption
          <5> QED
            BY <5>1 DEF DrainGrace
        <4>5. conn[x].opened \in Nat
          BY <2>t, <2>1, Numbers
        <4>6. conn[x].opened < conn[e].draining
          BY <2>1, <4>2, <4>3, <4>4, <4>5
        <4> QED
          BY <2>1, <4>1, <4>6 DEF Contemporaries
      <3>5. Cardinality(Contemporaries(e)) <= MaxConnections
        BY <2>1, <3>3 DEF PoolInv, Rotation
      <3>6. IsFiniteSet(Contemporaries(e))
        BY FS_Subset, PoolAssumption DEF Contemporaries, Entries
      <3>7. Cardinality(D) <= Cardinality(Contemporaries(e)) /\ Cardinality(D) \in Nat
        BY <3>4, <3>6, FS_Subset, FS_CardinalityType
      <3>8. Cardinality(Contemporaries(e)) \in Nat
        BY <3>6, FS_CardinalityType
      <3> QED
        BY <3>5, <3>7, <3>8, PoolAssumption
    <2> QED
      BY <2>2, <2>3, PoolAssumption
  <1> QED
    BY <1>1, PoolInvariant, PTL

(* Among connections there is one that is least loaded.                     *)
LEMMA LeastLoadedExists ==
  ASSUME NEW cs \in [Conns -> Entry \cup {None}], NEW S \in SUBSET Entries(cs), S # {}
  PROVE  LeastLoaded(cs, S) # {}
  <1> DEFINE loads == {cs[e].inFlight : e \in S}
  <1>1. \A e \in S : cs[e].inFlight \in Nat
    BY DEF Entries, Entry
  <1>2. loads \in SUBSET Nat /\ loads # {}
    BY <1>1
  <1> HIDE DEF loads
  <1>3. PICK m \in loads : \A k \in loads : m <= k
    BY <1>2, Least
  <1>4. PICK e \in S : cs[e].inFlight = m
    BY DEF loads
  <1>5. e \in LeastLoaded(cs, S)
    BY <1>3, <1>4 DEF loads, LeastLoaded
  <1> QED
    BY <1>5

LEMMA LeasesFill ==
  ASSUME NEW K, IsFiniteSet(K), IsFiniteSet(Callers), MaxInFlight \in Nat,
         \A e \in K : Cardinality({x \in Callers : lease[x] = e}) >= MaxInFlight
  PROVE  Cardinality(K) * MaxInFlight <= Cardinality({x \in Callers : lease[x] \in K})
  BY Shares

(* "a caller that holds a permit can always be placed": when every          *)
(* connection the pool may have is full, each permit is with a lease, and   *)
(* nobody is left to ask for one.                                           *)
THEOREM PermitMeansPlace == Spec => []NeverExhausted
  <1>1. PoolInv => NeverExhausted
    <2> SUFFICES ASSUME PoolInv, NEW c \in Callers, pc[c] \in {"pick", "woken"},
                        Best(Swept(now), c) = {}, connecting = None, ~MayOpen(Swept(now))
                 PROVE  FALSE
      BY DEF NeverExhausted
    <2> DEFINE cs == Swept(now)
               L == {x \in Callers : lease[x] \in Live(cs)}
    <2>t. TypeOK
      BY DEF PoolInv
    <2>s. /\ cs \in [Conns -> Entry \cup {None}]
          /\ \A e \in Entries(cs) : e \in Entries(conn) /\ cs[e].inFlight = conn[e].inFlight
      BY <2>t, SweptEntries, SweptLoads
    <2>n. MaxConnections \in Nat /\ MaxInFlight \in Nat \ {0}
      BY PoolAssumption
    <2>1. Usable(cs) = {}
      <3>1. Unanswered(cs) \in SUBSET Entries(cs) /\ Usable(cs) \in SUBSET Entries(cs)
        BY DEF Unanswered, Usable, Live
      <3>2. LeastLoaded(cs, Unanswered(cs)) = {} \/ LeastLoaded(cs, Usable(cs)) = {}
        BY DEF Best
      <3>3. ~(fresh[c] /\ Unanswered(cs) # {})
        <4> HIDE DEF cs
        <4> QED
          BY <2>s, <3>1, LeastLoadedExists DEF Best, cs
      <3>4. LeastLoaded(cs, Usable(cs)) = {}
        BY <3>3 DEF Best
      <3> HIDE DEF cs
      <3> QED
        BY <2>s, <3>1, <3>4, LeastLoadedExists
    <2> HIDE DEF cs
    <2>2. \A e \in Live(cs) : Cardinality({x \in Callers : lease[x] = e}) >= MaxInFlight
      <3> SUFFICES ASSUME NEW e \in Live(cs)
                   PROVE  Cardinality({x \in Callers : lease[x] = e}) >= MaxInFlight
        OBVIOUS
      <3>1. e \in Entries(cs) /\ cs[e] \in Entry
        BY <2>s DEF Live, Entries
      <3>2. cs[e].inFlight \in Nat /\ ~(cs[e].inFlight < MaxInFlight)
        BY <2>1, <3>1 DEF Usable, Entry
      <3>3. cs[e].inFlight = Cardinality({x \in Callers : lease[x] = e})
        BY <2>s, <3>1, Zenon DEF PoolInv, LeasesCounted
      <3>4. \A k \in Nat : ~(k < MaxInFlight) => k >= MaxInFlight
        BY <2>n
      <3> QED
        BY <3>2, <3>3, <3>4, Zenon
    <2>3. IsFiniteSet(Live(cs)) /\ IsFiniteSet(Callers) /\ IsFiniteSet(Holders) /\ IsFiniteSet(L)
      BY FS_Subset, PoolAssumption DEF Live, Entries, Holders
    <2>4. Cardinality(Live(cs)) * MaxInFlight <= Cardinality(L)
      <3>1. MaxInFlight \in Nat
        BY <2>n
      <3> QED
        BY <2>2, <2>3, <3>1, LeasesFill, Zenon
    <2>5. Cardinality(Live(cs)) \in Nat /\ Cardinality(L) \in Nat /\ Cardinality(Holders) \in Nat
      BY <2>3, FS_CardinalityType
    <2>6. Cardinality(Live(cs)) >= MaxConnections
      <3>1. ~(Cardinality(Live(cs)) < MaxConnections)
        BY Zenon DEF MayOpen, cs
      <3> QED
        BY <2>n, <2>5, <3>1
    <2>7. Cardinality(L) <= Cardinality(Holders) - 1
      <3>1. L \subseteq Holders \ {c} /\ c \in Holders
        <4>1. None \notin Live(cs)
          BY PoolAssumption DEF Live, Entries
        <4> QED
          BY <4>1 DEF PoolInv, Holds, Holders
      <3>2. IsFiniteSet(Holders \ {c}) /\ Cardinality(Holders \ {c}) = Cardinality(Holders) - 1
        BY <2>3, <3>1, FS_RemoveElement
      <3> HIDE DEF L
      <3> QED
        BY <3>1, <3>2, FS_Subset
    <2>8. Cardinality(Holders) <= MaxConnections * MaxInFlight
      <3>1. free + Cardinality(Holders) = Capacity /\ free \in 0..Capacity
        BY Zenon DEF PoolInv, PermitsCounted, TypeOK
      <3> QED
        BY <2>5, <3>1 DEF Capacity
    <2>9. MaxConnections * MaxInFlight <= Cardinality(Live(cs)) * MaxInFlight
      BY <2>n, <2>5, <2>6, Multiplied
    <2>10. MaxConnections * MaxInFlight \in Nat /\ Cardinality(Live(cs)) * MaxInFlight \in Nat
      BY <2>n, <2>5
    <2> QED
      BY <2>4, <2>5, <2>7, <2>8, <2>9, <2>10
  <1> QED
    BY <1>1, PoolInvariant, PTL

=============================================================================
