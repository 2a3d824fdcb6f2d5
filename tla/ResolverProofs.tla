---------------------------- MODULE ResolverProofs ---------------------------
(***************************************************************************)
(* The resolver uses the flight registry as Flights allows, is type-correct,*)
(* never brings a purged answer back and runs one upstream call per key,    *)
(* for any queries, keys, durations and feature flags.                      *)
(***************************************************************************)
EXTENDS Resolver, TLAPS

FP == INSTANCE FlightsProofs WITH
        Callers <- Queries, NoFlight <- None, key <- KeyOf

-----------------------------------------------------------------------------
(* The resolver's constants are constants that Flights accepts.             *)
LEMMA FlightConstants == FP!HashAssumption /\ FP!NoFlightAssumption
  BY KeyAssumption, NoneAssumption DEF FP!HashAssumption, FP!NoFlightAssumption

LEMMA InitFlights == Init => F!Init
  BY KeyAssumption DEF Init, F!Init

(* Every step of the resolver is a step of Flights or leaves the registry   *)
(* alone.                                                                   *)
LEMMA NextFlights == [Next]_vars => [F!Next]_F!flightVars
  <1> SUFFICES ASSUME [Next]_vars PROVE [F!Next]_F!flightVars
    OBVIOUS
  <1> DEFINE Alone == UNCHANGED flightVars
  <1>a. Alone => UNCHANGED F!flightVars
    BY DEF flightVars, F!flightVars
  <1>1. ASSUME NEW q \in Queries, QueryStep(q) PROVE Alone \/ F!Next
    <2>1. CASE LookupHit(q) \/ LookupMiss(q) \/ PrefetchNotDue(q) \/ PrefetchFollows(q)
               \/ RecheckHit(q)
      BY <2>1 DEF LookupHit, LookupMiss, PrefetchNotDue, PrefetchFollows, RecheckHit
    <2>2. CASE StartPrefetch(q)
      BY <2>2 DEF StartPrefetch, F!Next
    <2>3. CASE JoinFollow(q) \/ JoinLead(q)
      BY <2>3 DEF JoinFollow, JoinLead, F!Next
    <2>4. CASE FollowerDone(q) \/ FollowerAbandoned(q)
      BY <2>4 DEF FollowerDone, FollowerAbandoned, F!Next
    <2>5. CASE ServeHeld(q)
      BY <2>5 DEF ServeHeld, F!Next
    <2>6. CASE RecheckMiss(q)
      BY <2>6 DEF RecheckMiss, F!Next, flightVars
    <2> QED
      BY <1>1, <2>1, <2>2, <2>3, <2>4, <2>5, <2>6 DEF QueryStep
  <1>2. ASSUME NEW q \in Queries, RunStep(q) PROVE Alone \/ F!Next
    <2>1. CASE Begin(q) \/ ReturnAnswer(q) \/ SettleAnswer(q) \/ ReturnPlain(q)
               \/ FailStale(q) \/ FailRemember(q) \/ FailPrefetch(q)
      BY <2>1 DEF Begin, ReturnAnswer, SettleAnswer, ReturnPlain, FailStale,
         FailRemember, FailPrefetch
    <2>2. CASE FinishGuard(q) \/ PublishOutcome(q) \/ AbandonFlight(q)
      BY <2>2 DEF FinishGuard, PublishOutcome, AbandonFlight, F!Next
    <2> QED
      BY <1>2, <2>1, <2>2 DEF RunStep
  <1>3. ASSUME NEW q \in Queries, CancelWaiting(q) \/ DropCall(q) PROVE Alone \/ F!Next
    <2>1. CASE CancelWaiting(q)
      BY <2>1 DEF CancelWaiting, F!Next, F!Wake, F!Leave
    <2>2. CASE DropCall(q)
      BY <2>2 DEF DropCall, F!Next
    <2> QED
      BY <1>3, <2>1, <2>2
  <1>4. CASE BeginPurge \/ (\E k \in Keys : SweepShard(k) \/ Evict(k)) \/ Tick
             \/ Finished \/ UNCHANGED vars
    BY <1>4, <1>a DEF BeginPurge, SweepShard, Evict, Tick, Finished, vars
  <1> QED
    BY <1>a, <1>1, <1>2, <1>3, <1>4 DEF Next

(* F and FP instantiate the same module with the same constants.            *)
LEMMA SameFlights ==
  /\ F!Init => FP!Init
  /\ [F!Next]_F!flightVars => [FP!Next]_FP!flightVars
  <1>1. F!Init => FP!Init
    BY DEF F!Init, FP!Init
  <1>2. F!flightVars = FP!flightVars
    BY DEF F!flightVars, FP!flightVars
  <1>3. F!Next => FP!Next
    BY DEF F!Next, FP!Next, F!Start, FP!Start, F!Follow, FP!Follow,
       F!LeadPrivate, FP!LeadPrivate, F!LeadRegistered, FP!LeadRegistered,
       F!Handover, FP!Handover, F!Finish, FP!Finish, F!Publish, FP!Publish,
       F!Drop, FP!Drop, F!Abandon, FP!Abandon, F!Wake, FP!Wake, F!Leave, FP!Leave,
       F!Release, FP!Release, F!Idle, FP!Idle, F!Unregistered, FP!Unregistered,
       F!Receivers, FP!Receivers, F!Woken, FP!Woken, F!Unsubscribe, FP!Unsubscribe
  <1> QED
    BY <1>1, <1>2, <1>3 DEF F!flightVars, FP!flightVars

(* The resolver implements Flights: it touches the registry only through    *)
(* join_or_lead, follower, finish, Drop and wait, each used as it may be.   *)
THEOREM ImplementsFlights == Spec => UsesFlights
  BY InitFlights, NextFlights, PTL DEF Spec, UsesFlights, F!Spec

(* What FlightsProofs proves of every use of the registry holds of this one.*)
THEOREM FlightInvariants == Spec => []FP!IInv
  <1>1. Spec => FP!Spec
    BY InitFlights, NextFlights, SameFlights, PTL DEF Spec, FP!Spec
  <1> QED
    BY <1>1, FP!Invariance, FlightConstants, PTL

-----------------------------------------------------------------------------
LEMMA MaxOfTwo ==
  ASSUME NEW a \in Nat, NEW b \in Nat
  PROVE  /\ Max({a, b}) \in Nat
         /\ Max({a, b}) \in {a, b} /\ Max({a, b}) >= a /\ Max({a, b}) >= b
  <1>1. \E x \in {a, b} : \A y \in {a, b} : x >= y
    <2>1. CASE a >= b
      BY <2>1
    <2>2. CASE b >= a
      BY <2>2
    <2> QED
      BY <2>1, <2>2
  <1> QED
    BY <1>1 DEF Max

LEMMA MinOfTwo ==
  ASSUME NEW a \in Nat, NEW b \in Nat
  PROVE  /\ Min({a, b}) \in Nat
         /\ Min({a, b}) \in {a, b} /\ Min({a, b}) <= a /\ Min({a, b}) <= b
  <1>1. \E x \in {a, b} : \A y \in {a, b} : x <= y
    <2>1. CASE a >= b
      BY <2>1
    <2>2. CASE b >= a
      BY <2>2
    <2> QED
      BY <2>1, <2>2
  <1> QED
    BY <1>1 DEF Min

LEMMA LongestType == LongestBackoff \in Nat /\ LongestBackoff >= InitialBackoff
  BY DurationAssumption, MaxOfTwo DEF LongestBackoff

(* failure_backoff stays between the initial and the longest window.        *)
LEMMA BackoffBounded ==
  ASSUME NEW previous \in 0..LongestBackoff
  PROVE  Backoff(previous) \in InitialBackoff..LongestBackoff
  <1> DEFINE doubled == Max({2 * previous, InitialBackoff})
  <1>1. previous \in Nat /\ 2 * previous \in Nat /\ InitialBackoff \in Nat
    BY LongestType, DurationAssumption
  <1>2. doubled \in Nat /\ doubled >= InitialBackoff
    BY <1>1, MaxOfTwo
  <1>3. Min({doubled, LongestBackoff}) \in InitialBackoff..LongestBackoff
    <2> HIDE DEF doubled
    <2> QED
      BY <1>1, <1>2, LongestType, MinOfTwo
  <1> QED
    BY <1>1, <1>3, LongestType DEF Backoff, NextBackoff

(* CachedAnswer::new and CachedAnswer::failure build entries.               *)
LEMMA NewEntryTypes ==
  ASSUME NEW at \in Nat, NEW ep \in 0..MaxPurges, NEW b \in 0..LongestBackoff
  PROVE  /\ NewAnswer(at, ep) \in EntrySet /\ NewAnswer(at, ep).epoch = ep
         /\ NewFailure(at, b, ep) \in EntrySet /\ NewFailure(at, b, ep).epoch = ep
  <1>1. {Ttl, MaxStale, MaxPurges, LongestBackoff} \subseteq Nat /\ b \in Nat
    BY DurationAssumption, LongestType
  <1>2. NoEntry \in EntrySet
    BY <1>1 DEF NoEntry, EntrySet
  <1> DEFINE kept == at + Ttl + (IF ServeStale THEN MaxStale ELSE 0)
  <1>3. kept \in Nat /\ at + Ttl \in Nat /\ at + b \in Nat
        /\ at + b + LongestBackoff \in Nat
    BY <1>1
  <1> HIDE DEF kept
  <1>4. NewAnswer(at, ep) \in EntrySet /\ NewAnswer(at, ep).epoch = ep
    <2>1. NewAnswer(at, ep) = [NoEntry EXCEPT !.inserted = at, !.expires = at + Ttl,
                                 !.epoch = ep, !.staleUntil = kept]
      BY DEF NewAnswer, kept
    <2> QED
      BY <2>1, <1>2, <1>3, Zenon DEF EntrySet
  <1>5. NewFailure(at, b, ep) \in EntrySet /\ NewFailure(at, b, ep).epoch = ep
    BY <1>2, <1>3, Zenon DEF NewFailure, EntrySet
  <1> QED
    BY <1>4, <1>5

(* What classify returns: a hit names the stored entry, a miss carries the  *)
(* stale entry and the last backoff.                                        *)
LEMMA ClassifyTypes ==
  ASSUME TypeOK, NEW k \in Keys
  PROVE  /\ Classify(k).kind # "Refresh" =>
              /\ cache[k] \in Queries /\ Classify(k).entry = cache[k]
              /\ Served(Classify(k)) \in ReplySet
         /\ Classify(k).stale \in Entries
         /\ Classify(k).stale # None => Classify(k).stale = cache[k]
         /\ Classify(k).backoff \in 0..LongestBackoff
  <1>1. CASE ~Live(k)
    BY <1>1, LongestType DEF Classify, Refresh, Entries
  <1>2. CASE Live(k)
    <2>1. cache[k] \in Queries /\ entry[cache[k]] \in EntrySet
      BY <1>2 DEF Live, TypeOK, Entries
    <2>2. entry[cache[k]].backoff \in 0..LongestBackoff
      BY <2>1 DEF EntrySet
    <2> QED
      BY <1>2, <2>1, <2>2, LongestType DEF Classify, Refresh, Hit, Served, ReplySet,
         Replies, Entries
  <1> QED
    BY <1>1, <1>2

LEMMA AfterGetTypes ==
  ASSUME TypeOK, NEW k \in Keys
  PROVE  /\ AfterGet(k) \in [Keys -> Entries]
         /\ \A j \in Keys : AfterGet(k)[j] \in {cache[j], None}
  BY DEF AfterGet, TypeOK, Entries

LEMMA ForgetTypes ==
  ASSUME TypeOK, NEW k \in Keys, NEW b
  PROVE  /\ ForgetFailure(k, b) \in [Keys -> Entries]
         /\ \A j \in Keys : ForgetFailure(k, b)[j] \in {cache[j], None}
  BY DEF ForgetFailure, TypeOK, Entries

LEMMA InitTypes == Init => TypeOK
  <1> SUFFICES ASSUME Init PROVE TypeOK
    OBVIOUS
  <1>1. NoEntry \in EntrySet /\ NoCall \in CallSet /\ NoReply \in ReplySet
    BY DurationAssumption, LongestType
    DEF NoEntry, EntrySet, NoCall, CallSet, NoReply, ReplySet, Replies, Entries
  <1> QED
    BY <1>1, DurationAssumption DEF Init, TypeOK, Entries, Pcs, Runs

(* The end of a resolution keeps its five variables typed.                  *)
LEMMA SettledTypes ==
  ASSUME TypeOK, NEW q \in Queries, NEW o \in ReplySet, Settled(q, o)
  PROVE  /\ published' \in [Queries -> ReplySet]
         /\ call' \in [Queries -> CallSet]
         /\ run' \in [Queries -> Runs]
         /\ reply' \in [Queries -> ReplySet]
         /\ pc' \in [Queries -> Pcs]
  <1>1. NoCall \in CallSet
    BY DurationAssumption, LongestType DEF NoCall, CallSet
  <1> QED
    BY <1>1 DEF Settled, TypeOK, Runs, Pcs

(* maybe_prefetch counts a hit and may set `refreshing`.                    *)
LEMMA CountedTypes ==
  ASSUME TypeOK, NEW q \in Queries,
         PrefetchNotDue(q) \/ StartPrefetch(q) \/ PrefetchFollows(q)
  PROVE  /\ entry' \in [Queries -> EntrySet]
         /\ \A d \in Queries : entry'[d].epoch = entry[d].epoch
  <1> DEFINE e == reply[q].entry
             counted == [entry EXCEPT ![e].hits = @ + 1]
             marked == [counted EXCEPT ![e].refreshing = TRUE]
  <1>0. entry' = counted \/ entry' = marked
    BY DEF PrefetchNotDue, StartPrefetch, PrefetchFollows
  <1>1. \A r \in EntrySet : /\ [r EXCEPT !.hits = @ + 1] \in EntrySet
                            /\ [r EXCEPT !.hits = @ + 1].epoch = r.epoch
    BY DEF EntrySet
  <1>2. \A r \in EntrySet : /\ [r EXCEPT !.refreshing = TRUE] \in EntrySet
                            /\ [r EXCEPT !.refreshing = TRUE].epoch = r.epoch
    BY Zenon DEF EntrySet
  <1>3. /\ counted \in [Queries -> EntrySet]
        /\ \A d \in Queries : counted[d].epoch = entry[d].epoch
    BY <1>1, Zenon DEF TypeOK
  <1> HIDE DEF counted
  <1>4. /\ marked \in [Queries -> EntrySet]
        /\ \A d \in Queries : marked[d].epoch = counted[d].epoch
    BY <1>2, <1>3, Zenon
  <1> QED
    BY <1>0, <1>3, <1>4, Zenon

LEMMA QueryTypes ==
  ASSUME TypeOK, F!TypeOK, NEW q \in Queries, QueryStep(q)
  PROVE  TypeOK'
  <1>k. KeyOf[q] \in Keys
    BY KeyAssumption
  <1>c. NoCall \in CallSet
    BY DurationAssumption, LongestType DEF NoCall, CallSet
  <1>f. /\ Classify(KeyOf[q]).stale \in Entries
        /\ Classify(KeyOf[q]).backoff \in 0..LongestBackoff
        /\ Classify(KeyOf[q]).kind # "Refresh" => Served(Classify(KeyOf[q])) \in ReplySet
    BY <1>k, ClassifyTypes
  <1>g. AfterGet(KeyOf[q]) \in [Keys -> Entries]
    BY <1>k, AfterGetTypes
  <1>w. F!Wake(q) => published[following[q]] \in ReplySet
    BY NoneAssumption DEF F!Wake, F!Unsubscribe, F!TypeOK, TypeOK
  <1>h. StaleReply(held[q]) \in ReplySet
    BY DEF StaleReply, ReplySet, Replies, TypeOK
  <1>1. CASE LookupHit(q)
    <2>1. call' = call \/ call' = [call EXCEPT ![q].at = now]
      BY <1>1 DEF LookupHit
    <2>2. call' \in [Queries -> CallSet]
      BY <2>1 DEF TypeOK, CallSet
    <2> QED
      BY <1>1, <1>k, <1>f, <2>2, Zenon DEF LookupHit, TypeOK, Pcs, envVars, storeVars
  <1>2. CASE LookupMiss(q)
    <2>1. call' \in [Queries -> CallSet]
      BY <1>2, <1>f, Zenon DEF LookupMiss, TypeOK, CallSet
    <2> QED
      BY <1>2, <1>k, <1>f, <1>g, <2>1 DEF LookupMiss, TypeOK, Pcs, Runs, envVars
  <1>3. CASE PrefetchNotDue(q) \/ StartPrefetch(q) \/ PrefetchFollows(q)
    <2>1. entry' \in [Queries -> EntrySet]
      BY <1>3, CountedTypes DEF PrefetchNotDue, StartPrefetch, PrefetchFollows
    <2> QED
      BY <1>3, <1>c, <2>1 DEF PrefetchNotDue, StartPrefetch, PrefetchFollows, TypeOK,
         Pcs, Runs, envVars, holdVars
  <1>4. CASE JoinFollow(q) \/ JoinLead(q) \/ FollowerAbandoned(q)
    BY <1>4, Zenon DEF JoinFollow, JoinLead, FollowerAbandoned, TypeOK, Pcs, envVars,
       storeVars, holdVars
  <1>5. CASE FollowerDone(q)
    BY <1>5, <1>c, <1>w DEF FollowerDone, Answered, TypeOK, Pcs, envVars, storeVars,
       holdVars
  <1>6. CASE ServeHeld(q)
    BY <1>6, <1>c, <1>h DEF ServeHeld, Answered, TypeOK, Pcs, envVars, storeVars,
       holdVars
  <1>7. CASE RecheckHit(q)
    BY <1>7, <1>c, <1>f DEF RecheckHit, TypeOK, Pcs, Runs, envVars, storeVars, holdVars
  <1>8. CASE RecheckMiss(q)
    <2>1. call' \in [Queries -> CallSet]
      BY <1>8, <1>f DEF RecheckMiss, TypeOK, CallSet
    <2> QED
      BY <1>8, <1>f, <1>g, <2>1 DEF RecheckMiss, TypeOK, Pcs, Runs, envVars
  <1> QED
    BY <1>1, <1>2, <1>3, <1>4, <1>5, <1>6, <1>7, <1>8 DEF QueryStep

LEMMA RunTypes ==
  ASSUME TypeOK, NEW q \in Queries, RunStep(q)
  PROVE  TypeOK'
  <1>k. KeyOf[q] \in Keys /\ call[q] \in CallSet
    BY KeyAssumption DEF TypeOK
  <1>r. /\ [how |-> "Fresh", entry |-> q] \in ReplySet
        /\ [how |-> "Plain", entry |-> None] \in ReplySet
        /\ Failed(q) \in ReplySet
        /\ StaleReply(held[q]) \in ReplySet
    BY DEF Failed, StaleReply, ReplySet, Replies, Entries, TypeOK
  <1>g. ForgetFailure(KeyOf[q], call[q].prev) \in [Keys -> Entries]
    BY <1>k, ForgetTypes
  <1>i. InsertIf(KeyOf[q], q, call[q].epoch) \in [Keys -> Entries]
    BY <1>k DEF InsertIf, TypeOK, Entries
  <1>m. /\ call[q].at \in Nat /\ call[q].epoch \in 0..MaxPurges /\ now \in Nat
        /\ call[q].prev \in 0..LongestBackoff
    BY <1>k, DurationAssumption DEF CallSet, TypeOK
  <1>1. CASE Begin(q)
    <2>1. \A r \in CallSet : \A t \in 0..MaxTime, n \in 0..MaxPurges :
            [r EXCEPT !.at = t, !.epoch = n] \in CallSet
      BY Zenon DEF CallSet
    <2>2. call' \in [Queries -> CallSet]
      <3> DEFINE t == IF task[q] = "inline" /\ ~announced[q] THEN call[q].at ELSE now
      <3>1. t \in 0..MaxTime /\ epoch \in 0..MaxPurges
        BY <1>k DEF TypeOK, CallSet
      <3>2. [call[q] EXCEPT !.at = t, !.epoch = epoch] \in CallSet
        BY <1>k, <2>1, <3>1, Zenon
      <3>3. call' = [call EXCEPT ![q] = [call[q] EXCEPT !.at = t, !.epoch = epoch]]
        BY <1>1, Zenon DEF Begin, TypeOK
      <3> QED
        BY <3>2, <3>3 DEF TypeOK
    <2> QED
      BY <1>1, <2>2 DEF Begin, TypeOK, Runs, envVars, storeVars, holdVars
  <1>2. CASE ReturnAnswer(q)
    <2>1. NewAnswer(call[q].at, call[q].epoch) \in EntrySet
      BY <1>m, NewEntryTypes
    <2> QED
      BY <1>2, <1>i, <2>1 DEF ReturnAnswer, TypeOK, Runs, envVars, holdVars
  <1>3. CASE SettleAnswer(q)
    <2>1. Settled(q, [how |-> "Fresh", entry |-> q])
      BY <1>3 DEF SettleAnswer
    <2> QED
      BY <1>3, <1>g, <1>r, <2>1, SettledTypes DEF SettleAnswer, TypeOK, envVars, holdVars
  <1>4. CASE ReturnPlain(q)
    <2>1. Settled(q, [how |-> "Plain", entry |-> None])
      BY <1>4 DEF ReturnPlain
    <2> QED
      BY <1>4, <1>g, <1>r, <2>1, SettledTypes DEF ReturnPlain, TypeOK, envVars, holdVars
  <1>5. CASE FailStale(q)
    <2>1. Settled(q, StaleReply(held[q]))
      BY <1>5 DEF FailStale
    <2>2. \A r \in EntrySet :
            [r EXCEPT !.recheck = Max({@, now + FailureRecheck})] \in EntrySet
      <3>1. now + FailureRecheck \in Nat
        BY <1>m, DurationAssumption
      <3>2. \A r \in EntrySet : Max({r.recheck, now + FailureRecheck}) \in Nat
        BY <3>1, MaxOfTwo DEF EntrySet
      <3> QED
        BY <3>2 DEF EntrySet
    <2>3. entry' \in [Queries -> EntrySet]
      BY <1>5, <2>2, Zenon DEF FailStale, TypeOK
    <2> QED
      BY <1>5, <1>r, <2>1, <2>3, SettledTypes DEF FailStale, TypeOK, envVars, holdVars
  <1>6. CASE FailRemember(q)
    <2>1. Settled(q, Failed(q))
      BY <1>6 DEF FailRemember
    <2>2. Backoff(call[q].prev) \in 0..LongestBackoff
      BY <1>m, BackoffBounded, DurationAssumption, LongestType
    <2>3. NewFailure(now, Backoff(call[q].prev), call[q].epoch) \in EntrySet
      BY <1>m, <2>2, NewEntryTypes
    <2>4. entry' \in [Queries -> EntrySet] /\ cache' \in [Keys -> Entries]
      BY <1>6, <1>i, <2>3 DEF FailRemember, storeVars, TypeOK
    <2> QED
      BY <1>6, <1>r, <2>1, <2>4, SettledTypes DEF FailRemember, TypeOK, envVars, holdVars
  <1>7. CASE FailPrefetch(q)
    <2>1. Settled(q, Failed(q))
      BY <1>7 DEF FailPrefetch
    <2> QED
      BY <1>7, <1>r, <2>1, SettledTypes DEF FailPrefetch, TypeOK, envVars, storeVars,
         holdVars
  <1>8. CASE FinishGuard(q) \/ PublishOutcome(q) \/ AbandonFlight(q)
    BY <1>8 DEF FinishGuard, PublishOutcome, AbandonFlight, TypeOK, Runs, Pcs, envVars,
       storeVars, holdVars
  <1> QED
    BY <1>1, <1>2, <1>3, <1>4, <1>5, <1>6, <1>7, <1>8 DEF RunStep

LEMMA TypeStep == TypeOK /\ F!TypeOK /\ [Next]_vars => TypeOK'
  <1> SUFFICES ASSUME TypeOK, F!TypeOK, [Next]_vars PROVE TypeOK'
    OBVIOUS
  <1>1. ASSUME NEW q \in Queries, QueryStep(q) PROVE TypeOK'
    BY <1>1, QueryTypes
  <1>2. ASSUME NEW q \in Queries, RunStep(q) PROVE TypeOK'
    BY <1>2, RunTypes
  <1>3. ASSUME NEW q \in Queries, CancelWaiting(q) \/ DropCall(q) PROVE TypeOK'
    <2>1. NoCall \in CallSet
      BY DurationAssumption, LongestType DEF NoCall, CallSet
    <2> QED
      BY <1>3, <2>1 DEF CancelWaiting, DropCall, TypeOK, Pcs, Runs, envVars, storeVars,
         holdVars
  <1>4. CASE BeginPurge
    <2>m. MaxPurges \in Nat
      BY DurationAssumption
    <2>e. epoch \in 0..MaxPurges /\ epoch < MaxPurges /\ epoch' = epoch + 1
      BY <1>4 DEF BeginPurge, TypeOK
    <2>1. epoch' \in 0..MaxPurges
      BY <2>m, <2>e
    <2>2. sweep' \subseteq Keys
      BY <1>4 DEF BeginPurge
    <2> QED
      BY <1>4, <2>1, <2>2 DEF BeginPurge, TypeOK, storeVars, holdVars
  <1>5. ASSUME NEW k \in Keys, SweepShard(k) \/ Evict(k) PROVE TypeOK'
    BY <1>5, DurationAssumption DEF SweepShard, Evict, TypeOK, Entries, envVars, holdVars
  <1>6. CASE Tick
    BY <1>6, DurationAssumption DEF Tick, TypeOK, storeVars, holdVars
  <1>7. CASE Finished \/ UNCHANGED vars
    BY <1>7 DEF Finished, TypeOK, vars, envVars, storeVars, holdVars
  <1> QED
    BY <1>1, <1>2, <1>3, <1>4, <1>5, <1>6, <1>7 DEF Next

-----------------------------------------------------------------------------
(* A query that has not reached its upstream call has no resolution yet.    *)
NotYetRunning ==
    \A q \in Queries :
        pc[q] \in {"lookup", "prefetch", "join", "wait", "recheck"} => run[q] = "none"

(* The entry a call will create is not in the store before the call         *)
(* returns, so creating it changes no stored entry.                         *)
CreatedOnReturn ==
    \A q \in Queries : run[q] \in {"none", "begin", "call"} =>
        \A k \in Keys : cache[k] # q

(* No shard was swept by a purge that has not bumped the epoch.             *)
SweptAfterBump == \A k \in Keys : purged[k] <= epoch

(* With coalescing, whoever re-checks or resolves holds a live guard.       *)
ResolvesUnderGuard ==
    Coalesce => \A q \in Queries :
        pc[q] = "recheck" \/ run[q] \in {"begin", "call", "settle", "finish"}
          => stage[q] = "led"

IInv ==
    /\ TypeOK
    /\ F!TypeOK
    /\ NotYetRunning
    /\ CreatedOnReturn
    /\ SweptAfterBump
    /\ ResolvesUnderGuard
    /\ PurgedStaysPurged

LEMMA InitIInv == Init => IInv
  <1> SUFFICES ASSUME Init PROVE IInv
    OBVIOUS
  <1>1. TypeOK
    BY InitTypes
  <1>2. F!TypeOK
    BY KeyAssumption, NoneAssumption DEF Init, F!TypeOK, F!Stages, F!States
  <1>3. NotYetRunning /\ CreatedOnReturn /\ SweptAfterBump /\ ResolvesUnderGuard
        /\ PurgedStaysPurged
    BY NoneAssumption DEF Init, NotYetRunning, CreatedOnReturn, SweptAfterBump,
       ResolvesUnderGuard, PurgedStaysPurged
  <1> QED
    BY <1>1, <1>2, <1>3 DEF IInv

(* Control: a resolution starts only from the lookup, the prefetch or the   *)
(* re-check, each with the guard it needs.                                  *)
LEMMA ControlStep == IInv /\ [Next]_vars => NotYetRunning' /\ ResolvesUnderGuard'
  <1> SUFFICES ASSUME IInv, [Next]_vars PROVE NotYetRunning' /\ ResolvesUnderGuard'
    OBVIOUS
  <1> USE DEF IInv, TypeOK, F!TypeOK, NotYetRunning, ResolvesUnderGuard
  <1>1. ASSUME NEW q \in Queries, QueryStep(q)
        PROVE  NotYetRunning' /\ ResolvesUnderGuard'
    <2>1. CASE LookupHit(q) \/ LookupMiss(q)
      BY <2>1 DEF LookupHit, LookupMiss, flightVars
    <2>2. CASE PrefetchNotDue(q) \/ PrefetchFollows(q)
      BY <2>2 DEF PrefetchNotDue, PrefetchFollows, flightVars
    <2>3. CASE StartPrefetch(q)
      BY <2>3 DEF StartPrefetch, flightVars, F!LeadPrivate, F!LeadRegistered
    <2>4. CASE JoinFollow(q) \/ JoinLead(q)
      BY <2>4 DEF JoinFollow, JoinLead, F!Follow, F!LeadPrivate, F!LeadRegistered
    <2>5. CASE FollowerDone(q) \/ FollowerAbandoned(q) \/ ServeHeld(q)
      BY <2>5 DEF FollowerDone, FollowerAbandoned, ServeHeld, Answered, F!Wake, F!Leave,
         F!Unsubscribe
    <2>6. CASE RecheckHit(q) \/ RecheckMiss(q)
      BY <2>6 DEF RecheckHit, RecheckMiss, flightVars, F!Handover
    <2> QED
      BY <1>1, <2>1, <2>2, <2>3, <2>4, <2>5, <2>6, Zenon DEF QueryStep
  <1>2. ASSUME NEW q \in Queries, RunStep(q)
        PROVE  NotYetRunning' /\ ResolvesUnderGuard'
    <2>1. CASE Begin(q) \/ ReturnAnswer(q)
      BY <2>1 DEF Begin, ReturnAnswer, flightVars
    <2>2. CASE SettleAnswer(q) \/ ReturnPlain(q) \/ FailStale(q) \/ FailRemember(q)
               \/ FailPrefetch(q)
      BY <2>2 DEF SettleAnswer, ReturnPlain, FailStale, FailRemember, FailPrefetch,
         Settled, flightVars
    <2>3. CASE FinishGuard(q) \/ PublishOutcome(q) \/ AbandonFlight(q)
      BY <2>3 DEF FinishGuard, PublishOutcome, AbandonFlight, F!Finish, F!Publish,
         F!Abandon
    <2> QED
      BY <1>2, <2>1, <2>2, <2>3 DEF RunStep
  <1>3. ASSUME NEW q \in Queries, CancelWaiting(q) \/ DropCall(q)
        PROVE  NotYetRunning' /\ ResolvesUnderGuard'
    BY <1>3 DEF CancelWaiting, DropCall, F!Unsubscribe, F!Drop, flightVars
  <1>4. CASE BeginPurge \/ (\E k \in Keys : SweepShard(k) \/ Evict(k)) \/ Tick
             \/ Finished \/ UNCHANGED vars
    BY <1>4 DEF BeginPurge, SweepShard, Evict, Tick, Finished, vars, flightVars
  <1> QED
    BY <1>1, <1>2, <1>3, <1>4 DEF Next

(* A step that only removes from the store and keeps every entry's epoch    *)
(* brings nothing back.                                                     *)
LEMMA OnlyRemoves ==
  ASSUME IInv, UNCHANGED <<purged, epoch>>,
         \A k \in Keys : cache'[k] \in {cache[k], None},
         \A e \in Queries : entry'[e].epoch = entry[e].epoch
  PROVE  SweptAfterBump' /\ PurgedStaysPurged'
  BY DEF IInv, TypeOK, Entries, SweptAfterBump, PurgedStaysPurged

(* insert_if stores the entry of a call only under the epoch the call began *)
(* in, which no sweep so far is ahead of.                                   *)
LEMMA InsertKeepsPurges ==
  ASSUME IInv, UNCHANGED <<purged, epoch>>, NEW q \in Queries, run[q] = "call",
         NEW new \in EntrySet, new.epoch = call[q].epoch,
         entry' = [entry EXCEPT ![q] = new],
         cache' = InsertIf(KeyOf[q], q, call[q].epoch)
  PROVE  SweptAfterBump' /\ PurgedStaysPurged'
  <1>1. SweptAfterBump'
    BY DEF IInv, SweptAfterBump
  <1>2. ASSUME NEW k \in Keys, cache'[k] # None
        PROVE  entry'[cache'[k]].epoch >= purged'[k]
    <2>s. KeyOf[q] \in Keys /\ cache \in [Keys -> Entries] /\ entry \in [Queries -> EntrySet]
      BY KeyAssumption, Zenon DEF IInv, TypeOK
    <2>e. epoch \in Int /\ purged[k] \in Int /\ epoch >= purged[k]
      BY DurationAssumption DEF IInv, TypeOK, SweptAfterBump
    <2>q. cache[k] \in Queries \cup {None} /\ cache[k] # q
      BY <2>s DEF IInv, Entries, CreatedOnReturn
    <2>1. CASE cache'[k] = q
      <3>1. call[q].epoch = epoch
        BY <2>1, <2>s, <2>q DEF InsertIf
      <3> QED
        BY <2>1, <2>s, <2>e, <3>1
    <2>2. CASE cache'[k] # q
      <3>1. cache'[k] = cache[k]
        BY <2>2, <2>s DEF InsertIf
      <3> QED
        BY <1>2, <2>2, <2>s, <2>q, <3>1 DEF IInv, PurgedStaysPurged
    <2> QED
      BY <2>1, <2>2
  <1> QED
    BY <1>1, <1>2 DEF PurgedStaysPurged

(* Store: what is removed by a purge is not brought back.                   *)
LEMMA PurgeStep == IInv /\ [Next]_vars => SweptAfterBump' /\ PurgedStaysPurged'
  <1> SUFFICES ASSUME IInv, [Next]_vars PROVE SweptAfterBump' /\ PurgedStaysPurged'
    OBVIOUS
  <1> DEFINE Removes ==
        /\ UNCHANGED <<purged, epoch>>
        /\ \A k \in Keys : cache'[k] \in {cache[k], None}
        /\ \A e \in Queries : entry'[e].epoch = entry[e].epoch
  <1>r. Removes => SweptAfterBump' /\ PurgedStaysPurged'
    BY OnlyRemoves
  <1>t. TypeOK
    BY DEF IInv
  <1>p. /\ epoch \in Int
        /\ purged \in [Keys -> Int]
    BY <1>t DEF TypeOK
  <1>1. ASSUME NEW q \in Queries, QueryStep(q) PROVE Removes
    <2>k. KeyOf[q] \in Keys
      BY KeyAssumption
    <2>1. CASE LookupMiss(q) \/ RecheckMiss(q)
      BY <2>1, <2>k, <1>t, AfterGetTypes DEF LookupMiss, RecheckMiss, envVars
    <2>2. CASE PrefetchNotDue(q) \/ StartPrefetch(q) \/ PrefetchFollows(q)
      BY <2>2, <1>t, CountedTypes, Zenon DEF PrefetchNotDue, StartPrefetch, PrefetchFollows,
         envVars
    <2>3. CASE LookupHit(q) \/ JoinFollow(q) \/ JoinLead(q) \/ FollowerDone(q)
               \/ FollowerAbandoned(q) \/ ServeHeld(q) \/ RecheckHit(q)
      BY <2>3 DEF LookupHit, JoinFollow, JoinLead, FollowerDone, FollowerAbandoned,
         ServeHeld, RecheckHit, envVars, storeVars
    <2> QED
      BY <1>1, <2>1, <2>2, <2>3 DEF QueryStep
  <1>2. ASSUME NEW q \in Queries, RunStep(q)
        PROVE  SweptAfterBump' /\ PurgedStaysPurged'
    <2>k. KeyOf[q] \in Keys
      BY KeyAssumption
    <2>c. /\ call[q].at \in Nat /\ call[q].epoch \in 0..MaxPurges /\ now \in Nat
          /\ Backoff(call[q].prev) \in 0..LongestBackoff
      <3>1. call[q] \in CallSet /\ now \in Nat
        BY <1>t DEF TypeOK
      <3>2. /\ call[q].at \in Nat /\ call[q].epoch \in 0..MaxPurges
            /\ call[q].prev \in 0..LongestBackoff
        BY <3>1 DEF CallSet
      <3> QED
        BY <3>1, <3>2, BackoffBounded, LongestType, DurationAssumption
    <2>1. CASE ReturnAnswer(q)
      <3>1. /\ NewAnswer(call[q].at, call[q].epoch) \in EntrySet
            /\ NewAnswer(call[q].at, call[q].epoch).epoch = call[q].epoch
        BY <2>c, NewEntryTypes
      <3> QED
        BY <2>1, <3>1, InsertKeepsPurges, Zenon DEF ReturnAnswer, envVars
    <2>2. CASE FailRemember(q) /\ FailureCache
      <3>1. /\ NewFailure(now, Backoff(call[q].prev), call[q].epoch) \in EntrySet
            /\ NewFailure(now, Backoff(call[q].prev), call[q].epoch).epoch = call[q].epoch
        BY <2>c, NewEntryTypes
      <3> QED
        BY <2>2, <3>1, InsertKeepsPurges, Zenon DEF FailRemember, envVars
    <2>3. CASE FailRemember(q) /\ ~FailureCache
      <3>1. Removes
        BY <2>3 DEF FailRemember, storeVars, envVars
      <3> QED
        BY <3>1, <1>r
    <2>4. CASE SettleAnswer(q) \/ ReturnPlain(q)
      <3>1. Removes
        BY <2>4, <2>k, <1>t, ForgetTypes DEF SettleAnswer, ReturnPlain, envVars
      <3> QED
        BY <3>1, <1>r
    <2>5. CASE FailStale(q)
      <3>1. Removes
        BY <2>5, <1>t DEF FailStale, envVars, TypeOK, EntrySet
      <3> QED
        BY <3>1, <1>r
    <2>6. CASE Begin(q) \/ FailPrefetch(q) \/ FinishGuard(q) \/ PublishOutcome(q)
               \/ AbandonFlight(q)
      <3>1. Removes
        BY <2>6 DEF Begin, FailPrefetch, FinishGuard, PublishOutcome, AbandonFlight,
           envVars, storeVars
      <3> QED
        BY <3>1, <1>r
    <2> QED
      BY <1>2, <2>1, <2>2, <2>3, <2>4, <2>5, <2>6 DEF RunStep
  <1>3. CASE BeginPurge
    <2>1. UNCHANGED <<purged, cache, entry>> /\ epoch' = epoch + 1
      BY <1>3 DEF BeginPurge, storeVars
    <2>2. SweptAfterBump'
      BY <1>p, <2>1 DEF IInv, SweptAfterBump
    <2> QED
      BY <2>1, <2>2 DEF IInv, PurgedStaysPurged
  <1>4. ASSUME NEW k \in Keys, SweepShard(k) PROVE SweptAfterBump' /\ PurgedStaysPurged'
    <2>1. /\ UNCHANGED <<epoch, entry>> /\ purged' = [purged EXCEPT ![k] = epoch]
          /\ cache' = [cache EXCEPT ![k] = None]
      BY <1>4 DEF SweepShard
    <2>2. cache \in [Keys -> Entries]
      BY <1>t DEF TypeOK
    <2>3. SweptAfterBump'
      BY <1>p, <2>1 DEF IInv, SweptAfterBump
    <2> QED
      BY <1>p, <2>1, <2>2, <2>3 DEF IInv, PurgedStaysPurged
  <1>5. CASE \/ \E q \in Queries : CancelWaiting(q) \/ DropCall(q)
             \/ \E k \in Keys : Evict(k)
             \/ Tick \/ Finished \/ UNCHANGED vars
    <2>1. Removes
      BY <1>5, <1>t DEF CancelWaiting, DropCall, Evict, Tick, Finished, vars, envVars,
         storeVars, TypeOK
    <2> QED
      BY <2>1, <1>r
  <1> QED
    BY <1>r, <1>1, <1>2, <1>3, <1>4, <1>5 DEF Next

(* A step that only removes from the store and puts no query back to before *)
(* its call keeps CreatedOnReturn.                                          *)
LEMMA CreatedKept ==
  ASSUME IInv, \A k \in Keys : cache'[k] \in {cache[k], None},
         \A q \in Queries : run'[q] \in {"none", "begin", "call"} =>
                              run[q] \in {"none", "begin", "call"}
  PROVE  CreatedOnReturn'
  BY NoneAssumption DEF IInv, CreatedOnReturn

LEMMA CreatedStep == IInv /\ [Next]_vars => CreatedOnReturn'
  <1> SUFFICES ASSUME IInv, [Next]_vars PROVE CreatedOnReturn'
    OBVIOUS
  <1> DEFINE Before(r) == r \in {"none", "begin", "call"}
             Kept == /\ \A k \in Keys : cache'[k] \in {cache[k], None}
                     /\ \A q \in Queries : Before(run'[q]) => Before(run[q])
  <1>r. Kept => CreatedOnReturn'
    BY CreatedKept
  <1>t. TypeOK /\ NotYetRunning
    BY DEF IInv
  <1>1. ASSUME NEW q \in Queries, QueryStep(q) PROVE Kept
    <2>k. KeyOf[q] \in Keys
      BY KeyAssumption
    <2>1. CASE LookupMiss(q) \/ RecheckMiss(q)
      BY <2>1, <2>k, <1>t, AfterGetTypes DEF LookupMiss, RecheckMiss, NotYetRunning,
         TypeOK
    <2>2. CASE StartPrefetch(q) \/ RecheckHit(q)
      BY <2>2, <1>t DEF StartPrefetch, RecheckHit, storeVars, NotYetRunning, TypeOK
    <2>3. CASE LookupHit(q) \/ PrefetchNotDue(q) \/ PrefetchFollows(q) \/ JoinFollow(q)
               \/ JoinLead(q) \/ FollowerDone(q) \/ FollowerAbandoned(q) \/ ServeHeld(q)
      BY <2>3 DEF LookupHit, PrefetchNotDue, PrefetchFollows, JoinFollow, JoinLead,
         FollowerDone, FollowerAbandoned, ServeHeld, storeVars
    <2> QED
      BY <1>1, <2>1, <2>2, <2>3 DEF QueryStep
  <1>2. ASSUME NEW q \in Queries, RunStep(q) PROVE CreatedOnReturn'
    <2>k. KeyOf[q] \in Keys
      BY KeyAssumption
    <2>1. CASE ReturnAnswer(q) \/ FailRemember(q)
      <3>1. ~Before(run'[q]) /\ \A p \in Queries \ {q} : run'[p] = run[p]
        BY <2>1, <1>t DEF ReturnAnswer, FailRemember, Settled, TypeOK
      <3>2. \A k \in Keys : cache'[k] \in {cache[k], q}
        BY <2>1, <2>k, <1>t DEF ReturnAnswer, FailRemember, InsertIf, storeVars, TypeOK
      <3> QED
        BY <3>1, <3>2 DEF IInv, CreatedOnReturn
    <2>2. CASE SettleAnswer(q) \/ ReturnPlain(q)
      <3>1. ~Before(run'[q]) /\ \A p \in Queries \ {q} : run'[p] = run[p]
        BY <2>2, <1>t DEF SettleAnswer, ReturnPlain, Settled, TypeOK
      <3>2. \A k \in Keys : cache'[k] \in {cache[k], None}
        BY <2>2, <2>k, <1>t, ForgetTypes, Zenon DEF SettleAnswer, ReturnPlain
      <3> QED
        BY <3>1, <3>2, <1>r
    <2>3. CASE FailStale(q) \/ FailPrefetch(q) \/ Begin(q) \/ FinishGuard(q)
               \/ PublishOutcome(q) \/ AbandonFlight(q)
      <3>1. Kept
        BY <2>3, <1>t DEF FailStale, FailPrefetch, Settled, Begin, FinishGuard,
           PublishOutcome, AbandonFlight, storeVars, TypeOK
      <3> QED
        BY <3>1, <1>r
    <2> QED
      BY <1>2, <2>1, <2>2, <2>3 DEF RunStep
  <1>3. CASE \/ \E q \in Queries : CancelWaiting(q) \/ DropCall(q)
             \/ BeginPurge \/ \E k \in Keys : SweepShard(k) \/ Evict(k)
             \/ Tick \/ Finished \/ UNCHANGED vars
    <2>1. Kept
      BY <1>3, <1>t DEF CancelWaiting, DropCall, BeginPurge, SweepShard, Evict, Tick,
         Finished, vars, storeVars, TypeOK
    <2> QED
      BY <2>1, <1>r
  <1> QED
    BY <1>r, <1>1, <1>2, <1>3 DEF Next

(* The inductive invariant holds in every reachable state.                  *)
THEOREM Invariance == Spec => []IInv
  <1>1. FP!TypeOK => F!TypeOK
    BY DEF FP!TypeOK, F!TypeOK, FP!Stages, F!Stages, FP!States, F!States
  <1>2. FP!IInv => FP!TypeOK
    BY DEF FP!IInv
  <1>3. IInv /\ [Next]_vars => TypeOK'
    BY TypeStep DEF IInv
  <1>4. IInv /\ [Next]_vars /\ (F!TypeOK)' => IInv'
    BY <1>3, ControlStep, PurgeStep, CreatedStep DEF IInv
  <1> QED
    BY FlightInvariants, InitIInv, <1>1, <1>2, <1>4, PTL DEF Spec

(* Every step of the cached resolution path has types.                      *)
THEOREM TypeCorrect == Spec => []TypeOK
  BY Invariance, PTL DEF IInv

(* However late an upstream call returns, a purge is final for the keys it  *)
(* has swept.                                                               *)
THEOREM PurgeIsFinal == Spec => []PurgedStaysPurged
  BY Invariance, PTL DEF IInv

-----------------------------------------------------------------------------
(* No two keys in use share a 64-bit hash.                                  *)
DistinctHashes == \A j, k \in Keys : HashOf[j] = HashOf[k] => j = k

(* Then join_or_lead never makes a private flight.                          *)
AllRegistered == \A q \in Queries : stage[q] = "led" => registered[q]

LEMMA RegisteredStep ==
  ASSUME DistinctHashes
  PROVE  FP!IInv /\ AllRegistered /\ [F!Next]_F!flightVars => AllRegistered'
  <1> SUFFICES ASSUME FP!IInv, AllRegistered, [F!Next]_F!flightVars
               PROVE  AllRegistered'
    OBVIOUS
  <1> USE KeyAssumption, NoneAssumption DEF AllRegistered
  <1>t. FP!TypeOK /\ FP!RegistrySound
    BY DEF FP!IInv
  <1>u. CASE UNCHANGED F!flightVars
    BY <1>u DEF F!flightVars
  <1>1. ASSUME NEW q \in Queries, F!LeadPrivate(q) PROVE FALSE
    BY <1>1, <1>t DEF F!LeadPrivate, FP!TypeOK, FP!RegistrySound, DistinctHashes
  <1>2. ASSUME NEW q \in Queries, F!LeadRegistered(q) PROVE AllRegistered'
    BY <1>2, <1>t DEF F!LeadRegistered, FP!TypeOK
  <1>3. ASSUME NEW q \in Queries,
               \/ F!Start(q) \/ F!Follow(q) \/ F!Handover(q) \/ F!Wake(q) \/ F!Leave(q)
        PROVE  AllRegistered'
    BY <1>3 DEF F!Start, F!Follow, F!Handover, F!Wake, F!Leave, F!Unsubscribe
  <1>4. ASSUME NEW q \in Queries,
               \/ F!Finish(q) \/ F!Publish(q) \/ F!Drop(q) \/ F!Abandon(q) \/ F!Release(q)
        PROVE  AllRegistered'
    BY <1>4, <1>t DEF F!Finish, F!Publish, F!Drop, F!Abandon, F!Release, FP!TypeOK
  <1> QED
    BY <1>u, <1>1, <1>2, <1>3, <1>4, Zenon DEF F!Next

(* "Concurrent misses for the same question share one upstream query": with *)
(* coalescing on and no colliding hashes, no two upstream calls for a key   *)
(* ever overlap.  Each caller holds a registered guard, and the registry    *)
(* has room for one per key.                                                *)
THEOREM OneUpstreamCall ==
  ASSUME Coalesce, DistinctHashes
  PROVE  Spec => []OneCallPerKey
  <1>1. Init => AllRegistered
    BY DEF Init, AllRegistered
  <1>2. FP!IInv /\ AllRegistered /\ [Next]_vars => AllRegistered'
    BY RegisteredStep, NextFlights
  <1>3. Spec => []AllRegistered
    BY <1>1, <1>2, FlightInvariants, PTL DEF Spec
  <1>4. FP!IInv /\ IInv /\ AllRegistered => OneCallPerKey
    BY DEF FP!IInv, FP!RegistrySound, IInv, ResolvesUnderGuard, AllRegistered,
       OneCallPerKey
  <1> QED
    BY <1>3, <1>4, FlightInvariants, Invariance, PTL

-----------------------------------------------------------------------------
(* The call that creates the entry has returned.                            *)
Created(e) == run[e] \notin {"none", "begin", "call"}

(* What a CachedAnswer never changes, and `refreshing`, which is only set.  *)
Fixed(e) ==
    /\ entry'[e].failure = entry[e].failure
    /\ entry'[e].expires = entry[e].expires
    /\ entry'[e].staleUntil = entry[e].staleUntil
    /\ entry'[e].backoff = entry[e].backoff
    /\ entry'[e].epoch = entry[e].epoch
    /\ entry[e].refreshing => entry'[e].refreshing

(* A step of the store that stores nothing.                                 *)
OnlyForgets ==
    /\ \A k \in Keys : cache'[k] \in {cache[k], None}
    /\ \A e \in Queries : Fixed(e)

Quiet == OnlyForgets /\ \A e \in Queries : entry'[e].recheck = entry[e].recheck

Stores(q) == ReturnAnswer(q) \/ (FailRemember(q) /\ FailureCache)

(* The fields of entries and calls that are read.                           *)
LEMMA Typed ==
  ASSUME TypeOK
  PROVE  /\ now \in Nat
         /\ \A e \in Queries :
              /\ entry[e].failure \in BOOLEAN
              /\ entry[e].expires \in Nat /\ entry[e].staleUntil \in Nat /\ entry[e].recheck \in Nat
         /\ \A q \in Queries :
              /\ call[q].at \in Nat /\ call[q].epoch \in 0..MaxPurges
              /\ call[q].prev \in 0..LongestBackoff
  <1>1. /\ now \in 0..MaxTime
        /\ \A e \in Queries : entry[e] \in EntrySet
        /\ \A q \in Queries : call[q] \in CallSet
    BY Zenon DEF TypeOK
  <1>2. MaxTime \in Nat
    BY DurationAssumption, Zenon
  <1>3. 0..MaxTime \subseteq Nat
    BY <1>2
  <1>4. \A r \in EntrySet :
          /\ r.failure \in BOOLEAN
          /\ r.expires \in Nat /\ r.staleUntil \in Nat /\ r.recheck \in Nat
    BY Zenon DEF EntrySet
  <1>5. \A r \in CallSet :
          r.at \in 0..MaxTime /\ r.epoch \in 0..MaxPurges /\ r.prev \in 0..LongestBackoff
    BY Zenon DEF CallSet
  <1> QED
    BY <1>1, <1>3, <1>4, <1>5, Zenon

LEMMA CountedKeeps ==
  ASSUME TypeOK, NEW q \in Queries,
         PrefetchNotDue(q) \/ StartPrefetch(q) \/ PrefetchFollows(q)
  PROVE  \A e \in Queries : Fixed(e) /\ entry'[e].recheck = entry[e].recheck
  <1> DEFINE d == reply[q].entry
             counted == [entry EXCEPT ![d].hits = @ + 1]
             marked == [counted EXCEPT ![d].refreshing = TRUE]
             Same(r, s) == /\ s.failure = r.failure /\ s.expires = r.expires
                           /\ s.staleUntil = r.staleUntil /\ s.backoff = r.backoff
                           /\ s.epoch = r.epoch /\ s.recheck = r.recheck
                           /\ r.refreshing => s.refreshing
  <1>0. entry' = counted \/ entry' = marked
    BY DEF PrefetchNotDue, StartPrefetch, PrefetchFollows
  <1>1. \A r \in EntrySet : /\ [r EXCEPT !.hits = @ + 1] \in EntrySet
                            /\ Same(r, [r EXCEPT !.hits = @ + 1])
    BY DEF EntrySet
  <1>2. \A r \in EntrySet : Same(r, [r EXCEPT !.refreshing = TRUE])
    BY DEF EntrySet
  <1>r. \A r : Same(r, r)
    OBVIOUS
  <1>f. ASSUME NEW e \in Queries, Same(entry[e], entry'[e])
        PROVE  Fixed(e) /\ entry'[e].recheck = entry[e].recheck
    BY <1>f DEF Fixed
  <1>s. \A r, s, t : Same(r, s) /\ Same(s, t) => Same(r, t)
    OBVIOUS
  <1> HIDE DEF Same
  <1>3. /\ counted \in [Queries -> EntrySet]
        /\ \A e \in Queries : Same(entry[e], counted[e])
    BY <1>1, <1>r, Zenon DEF TypeOK
  <1> HIDE DEF counted
  <1>4. \A e \in Queries : Same(counted[e], marked[e])
    BY <1>2, <1>3, <1>r
  <1>5. \A e \in Queries : Same(entry[e], entry'[e])
    BY <1>0, <1>3, <1>4, <1>s, Zenon
  <1> QED
    BY <1>5, <1>f

(* Every step of the resolver forgets at most, defers a recheck or stores   *)
(* what an upstream call has returned.                                      *)
LEMMA StoreSteps ==
  ASSUME TypeOK, [Next]_vars
  PROVE  \/ Quiet
         \/ \E q \in Queries : FailStale(q)
         \/ \E q \in Queries : Stores(q)
  <1>u. UNCHANGED entry => \A e \in Queries : Fixed(e) /\ entry'[e].recheck = entry[e].recheck
    BY DEF Fixed
  <1>1. ASSUME NEW q \in Queries, QueryStep(q) PROVE Quiet
    <2>k. KeyOf[q] \in Keys
      BY KeyAssumption
    <2>1. CASE LookupMiss(q) \/ RecheckMiss(q)
      <3>1. cache' = AfterGet(KeyOf[q]) /\ UNCHANGED entry
        BY <2>1 DEF LookupMiss, RecheckMiss
      <3> QED
        BY <2>k, <3>1, <1>u, AfterGetTypes DEF Quiet, OnlyForgets
    <2>2. CASE PrefetchNotDue(q) \/ StartPrefetch(q) \/ PrefetchFollows(q)
      <3>1. UNCHANGED cache
        BY <2>2 DEF PrefetchNotDue, StartPrefetch, PrefetchFollows
      <3> QED
        BY <2>2, <3>1, CountedKeeps DEF Quiet, OnlyForgets
    <2>3. CASE LookupHit(q) \/ JoinFollow(q) \/ JoinLead(q) \/ FollowerDone(q)
               \/ FollowerAbandoned(q) \/ ServeHeld(q) \/ RecheckHit(q)
      <3>1. UNCHANGED <<cache, entry>>
        BY <2>3 DEF LookupHit, JoinFollow, JoinLead, FollowerDone, FollowerAbandoned,
           ServeHeld, RecheckHit, storeVars
      <3> QED
        BY <3>1, <1>u DEF Quiet, OnlyForgets
    <2> QED
      BY <1>1, <2>1, <2>2, <2>3 DEF QueryStep
  <1>2. ASSUME NEW q \in Queries, RunStep(q) PROVE Quiet \/ FailStale(q) \/ Stores(q)
    <2>k. KeyOf[q] \in Keys
      BY KeyAssumption
    <2>1. CASE SettleAnswer(q) \/ ReturnPlain(q)
      <3>1. cache' = ForgetFailure(KeyOf[q], call[q].prev) /\ UNCHANGED entry
        BY <2>1 DEF SettleAnswer, ReturnPlain
      <3> QED
        BY <2>k, <3>1, <1>u, ForgetTypes DEF Quiet, OnlyForgets
    <2>2. CASE \/ FailRemember(q) /\ ~FailureCache
               \/ Begin(q) \/ FailPrefetch(q) \/ FinishGuard(q) \/ PublishOutcome(q)
               \/ AbandonFlight(q)
      <3>1. UNCHANGED <<cache, entry>>
        BY <2>2 DEF FailRemember, Begin, FailPrefetch, FinishGuard, PublishOutcome,
           AbandonFlight, storeVars
      <3> QED
        BY <3>1, <1>u DEF Quiet, OnlyForgets
    <2> QED
      BY <1>2, <2>1, <2>2 DEF RunStep, Stores
  <1>3. CASE \/ \E q \in Queries : CancelWaiting(q) \/ DropCall(q)
             \/ BeginPurge
             \/ \E k \in Keys : SweepShard(k) \/ Evict(k)
             \/ Tick \/ Finished \/ UNCHANGED vars
    <2>1. UNCHANGED entry /\ \A k \in Keys : cache'[k] \in {cache[k], None}
      BY <1>3 DEF CancelWaiting, DropCall, BeginPurge, SweepShard, Evict, Tick, Finished,
         vars, storeVars, TypeOK
    <2> QED
      BY <2>1, <1>u DEF Quiet, OnlyForgets
  <1> QED
    BY <1>1, <1>2, <1>3 DEF Next

(* settle_failure with a stale entry touches nothing but its recheck.       *)
LEMMA StaleDefers ==
  ASSUME TypeOK, NEW q \in Queries, FailStale(q)
  PROVE  /\ OnlyForgets /\ UNCHANGED cache
         /\ \A e \in Queries \ {held[q]} : entry'[e].recheck = entry[e].recheck
  <1>1. /\ entry' = [entry EXCEPT ![held[q]].recheck = Max({@, now + FailureRecheck})]
        /\ cache' = cache
    BY DEF FailStale
  <1>2. \A r \in EntrySet : \A m :
          /\ [r EXCEPT !.recheck = m].failure = r.failure
          /\ [r EXCEPT !.recheck = m].expires = r.expires
          /\ [r EXCEPT !.recheck = m].staleUntil = r.staleUntil
          /\ [r EXCEPT !.recheck = m].backoff = r.backoff
          /\ [r EXCEPT !.recheck = m].epoch = r.epoch
          /\ [r EXCEPT !.recheck = m].refreshing = r.refreshing
    BY DEF EntrySet
  <1>3. \A e \in Queries : Fixed(e)
    BY <1>1, <1>2 DEF TypeOK, Fixed
  <1> QED
    BY <1>1, <1>3 DEF OnlyForgets, TypeOK

(* The entry an upstream call creates, and where it is stored.              *)
LEMMA StoreResult ==
  ASSUME TypeOK, NEW q \in Queries, Stores(q)
  PROVE  /\ run[q] = "call" /\ ~(run'[q] \in {"none", "begin", "call"})
         /\ \A e \in Queries \ {q} : entry'[e] = entry[e] /\ run'[e] = run[e]
         /\ \A k \in Keys : cache'[k] = cache[k] \/ (k = KeyOf[q] /\ cache'[k] = q)
         /\ entry'[q].epoch = call[q].epoch
         /\ ReturnAnswer(q) =>
              /\ ~entry'[q].failure
              /\ ~ServeStale => entry'[q].staleUntil = entry'[q].expires
         /\ FailRemember(q) /\ FailureCache =>
              /\ entry'[q].failure
              /\ entry'[q].backoff = Backoff(call[q].prev) /\ entry'[q].backoff # 0
  <1>k. KeyOf[q] \in Keys
    BY KeyAssumption
  <1>c. /\ call[q].at \in Nat /\ now \in Nat /\ call[q].epoch \in 0..MaxPurges
        /\ call[q].prev \in 0..LongestBackoff
    BY Typed, Zenon
  <1>1. CASE ReturnAnswer(q)
    <2>1. /\ entry' = [entry EXCEPT ![q] = NewAnswer(call[q].at, call[q].epoch)]
          /\ cache' = InsertIf(KeyOf[q], q, call[q].epoch)
          /\ run[q] = "call" /\ run' = [run EXCEPT ![q] = "settle"]
      BY <1>1, Zenon DEF ReturnAnswer
    <2>2. /\ NewAnswer(call[q].at, call[q].epoch).failure = FALSE
          /\ NewAnswer(call[q].at, call[q].epoch).epoch = call[q].epoch
          /\ ~ServeStale => NewAnswer(call[q].at, call[q].epoch).staleUntil
                              = NewAnswer(call[q].at, call[q].epoch).expires
      BY <1>c, DurationAssumption DEF NewAnswer, NoEntry
    <2>3. ~FailRemember(q)
      BY <2>1, Zenon DEF FailRemember, Settled, TypeOK
    <2> QED
      BY <1>k, <2>1, <2>2, <2>3, Zenon DEF TypeOK, InsertIf
  <1>2. CASE FailRemember(q) /\ FailureCache
    <2> DEFINE b == Backoff(call[q].prev)
               new == NewFailure(now, b, call[q].epoch)
    <2>1. /\ entry' = [entry EXCEPT ![q] = new]
          /\ cache' = InsertIf(KeyOf[q], q, call[q].epoch)
          /\ run[q] = "call"
          /\ run' = [run EXCEPT ![q] = IF stage[q] = "led" THEN "finish" ELSE "over"]
      BY <1>2, Zenon DEF FailRemember, Settled
    <2>2. new.failure = TRUE /\ new.epoch = call[q].epoch /\ new.backoff = b
      BY DEF NewFailure, NoEntry
    <2>3. b # 0
      BY <1>c, BackoffBounded, DurationAssumption, LongestType
    <2>4. ~ReturnAnswer(q)
      BY <2>1, Zenon DEF ReturnAnswer, TypeOK
    <2> HIDE DEF new
    <2> QED
      BY <1>k, <2>1, <2>2, <2>3, <2>4, Zenon DEF TypeOK, InsertIf
  <1> QED
    BY <1>1, <1>2, Zenon DEF Stores

(* A call that has returned stays returned.                                 *)
LEMMA StaysCreated ==
  ASSUME IInv, [Next]_vars, NEW e \in Queries, Created(e)
  PROVE  Created(e)'
  <1> USE DEF Created
  <1>t. run \in [Queries -> Runs] /\ NotYetRunning
    BY DEF IInv, TypeOK
  <1>1. ASSUME NEW q \in Queries, QueryStep(q) PROVE Created(e)'
    <2>1. CASE LookupMiss(q) \/ StartPrefetch(q) \/ RecheckHit(q) \/ RecheckMiss(q)
      BY <2>1, <1>t DEF LookupMiss, StartPrefetch, RecheckHit, RecheckMiss, NotYetRunning
    <2>2. CASE LookupHit(q) \/ PrefetchNotDue(q) \/ PrefetchFollows(q) \/ JoinFollow(q)
               \/ JoinLead(q) \/ FollowerDone(q) \/ FollowerAbandoned(q) \/ ServeHeld(q)
      BY <2>2 DEF LookupHit, PrefetchNotDue, PrefetchFollows, JoinFollow, JoinLead,
         FollowerDone, FollowerAbandoned, ServeHeld
    <2> QED
      BY <1>1, <2>1, <2>2 DEF QueryStep
  <1>2. ASSUME NEW q \in Queries, RunStep(q) PROVE Created(e)'
    <2>1. CASE Begin(q) \/ ReturnAnswer(q) \/ FinishGuard(q) \/ PublishOutcome(q)
               \/ AbandonFlight(q)
      BY <2>1, <1>t DEF Begin, ReturnAnswer, FinishGuard, PublishOutcome, AbandonFlight
    <2>2. CASE SettleAnswer(q) \/ ReturnPlain(q) \/ FailStale(q) \/ FailRemember(q)
               \/ FailPrefetch(q)
      BY <2>2, <1>t DEF SettleAnswer, ReturnPlain, FailStale, FailRemember, FailPrefetch,
         Settled
    <2> QED
      BY <1>2, <2>1, <2>2 DEF RunStep
  <1>3. CASE \/ \E q \in Queries : CancelWaiting(q) \/ DropCall(q)
             \/ BeginPurge
             \/ \E k \in Keys : SweepShard(k) \/ Evict(k)
             \/ Tick \/ Finished \/ UNCHANGED vars
    BY <1>3, <1>t DEF CancelWaiting, DropCall, BeginPurge, SweepShard, Evict, Tick,
       Finished, vars
  <1> QED
    BY <1>1, <1>2, <1>3, Zenon DEF Next

(* Who runs a resolution: a prefetch is started by a query that has its     *)
(* answer, a stale refresh by one that waits for it.                        *)
TaskControl ==
    \A q \in Queries :
        /\ task[q] = "prefetch" => pc[q] = "done"
        /\ task[q] = "stale" => pc[q] \in {"selfwait", "done", "cancelled"}
        /\ pc[q] = "selfwait" => task[q] = "stale"

LEMMA TaskStep == TypeOK /\ TaskControl /\ [Next]_vars => TaskControl'
  <1> SUFFICES ASSUME TypeOK, TaskControl, [Next]_vars PROVE TaskControl'
    OBVIOUS
  <1> USE DEF TaskControl
  <1>t. /\ pc \in [Queries -> Pcs]
        /\ task \in [Queries -> {"inline", "stale", "prefetch"}]
    BY DEF TypeOK
  <1>1. ASSUME NEW q \in Queries, QueryStep(q) PROVE TaskControl'
    <2>1. CASE LookupHit(q) \/ LookupMiss(q) \/ JoinFollow(q) \/ JoinLead(q)
               \/ FollowerAbandoned(q) \/ RecheckHit(q)
      BY <2>1, <1>t DEF LookupHit, LookupMiss, JoinFollow, JoinLead, FollowerAbandoned,
         RecheckHit
    <2>2. CASE PrefetchNotDue(q) \/ StartPrefetch(q) \/ PrefetchFollows(q)
      BY <2>2, <1>t DEF PrefetchNotDue, StartPrefetch, PrefetchFollows
    <2>3. CASE FollowerDone(q) \/ ServeHeld(q)
      BY <2>3, <1>t DEF FollowerDone, ServeHeld, Answered
    <2>4. CASE RecheckMiss(q)
      BY <2>4, <1>t DEF RecheckMiss
    <2> QED
      BY <1>1, <2>1, <2>2, <2>3, <2>4, Zenon DEF QueryStep
  <1>2. ASSUME NEW q \in Queries, RunStep(q) PROVE TaskControl'
    <2>1. CASE Begin(q) \/ ReturnAnswer(q) \/ FinishGuard(q) \/ PublishOutcome(q)
               \/ AbandonFlight(q)
      BY <2>1, <1>t DEF Begin, ReturnAnswer, FinishGuard, PublishOutcome, AbandonFlight
    <2>2. CASE SettleAnswer(q) \/ ReturnPlain(q) \/ FailStale(q) \/ FailRemember(q)
               \/ FailPrefetch(q)
      BY <2>2, <1>t DEF SettleAnswer, ReturnPlain, FailStale, FailRemember, FailPrefetch,
         Settled
    <2> QED
      BY <1>2, <2>1, <2>2, Zenon DEF RunStep
  <1>3. CASE \/ \E q \in Queries : CancelWaiting(q) \/ DropCall(q)
             \/ BeginPurge
             \/ \E k \in Keys : SweepShard(k) \/ Evict(k)
             \/ Tick \/ Finished \/ UNCHANGED vars
    BY <1>3, <1>t DEF CancelWaiting, DropCall, BeginPurge, SweepShard, Evict, Tick,
       Finished, vars
  <1> QED
    BY <1>1, <1>2, <1>3, Zenon DEF Next

(* What is stored under a key, or held by a query, was created by a call    *)
(* for that key that has returned.  A failure has a backoff, and without    *)
(* serve-stale an answer is kept no longer than it is fresh.                *)
EntriesSound ==
    /\ \A k \in Keys : cache[k] # None => KeyOf[cache[k]] = k /\ Created(cache[k])
    /\ \A q \in Queries : held[q] # None => KeyOf[held[q]] = KeyOf[q] /\ Created(held[q])
    /\ \A e \in Queries :
        /\ entry[e].failure => entry[e].backoff # 0
        /\ ~entry[e].failure /\ ~ServeStale => entry[e].staleUntil = entry[e].expires

(* A query takes hold of nothing but the entry stored under its key.        *)
LEMMA HeldSteps ==
  ASSUME TypeOK, [Next]_vars, NEW p \in Queries
  PROVE  held'[p] \in {held[p], None, cache[KeyOf[p]]}
  <1>t. held \in [Queries -> Entries] /\ KeyOf[p] \in Keys
    BY KeyAssumption DEF TypeOK
  <1>1. ASSUME NEW q \in Queries, LookupMiss(q) \/ RecheckMiss(q)
        PROVE  held'[p] \in {held[p], None, cache[KeyOf[p]]}
    <2>1. held' = [held EXCEPT ![q] = Classify(KeyOf[q]).stale] /\ KeyOf[q] \in Keys
      BY <1>1, KeyAssumption DEF LookupMiss, RecheckMiss
    <2>2. Classify(KeyOf[q]).stale \in {None, cache[KeyOf[q]]}
      BY <2>1, ClassifyTypes
    <2> QED
      BY <1>t, <2>1, <2>2
  <1>2. ASSUME NEW q \in Queries, QueryStep(q), ~(LookupMiss(q) \/ RecheckMiss(q))
        PROVE  UNCHANGED held
    BY <1>2 DEF QueryStep, LookupHit, PrefetchNotDue, StartPrefetch, PrefetchFollows,
       JoinFollow, JoinLead, FollowerDone, FollowerAbandoned, ServeHeld, RecheckHit,
       holdVars
  <1>3. ASSUME NEW q \in Queries, RunStep(q)
        PROVE  UNCHANGED held
    BY <1>3 DEF RunStep, Begin, ReturnAnswer, SettleAnswer, ReturnPlain, FailStale,
       FailRemember, FailPrefetch, FinishGuard, PublishOutcome, AbandonFlight, holdVars
  <1>4. CASE \/ \E q \in Queries : CancelWaiting(q) \/ DropCall(q)
             \/ BeginPurge
             \/ \E k \in Keys : SweepShard(k) \/ Evict(k)
             \/ Tick \/ Finished \/ UNCHANGED vars
    BY <1>4 DEF CancelWaiting, DropCall, BeginPurge, SweepShard, Evict, Tick,
       Finished, vars, holdVars
  <1> QED
    BY <1>1, <1>2, <1>3, <1>4, Zenon DEF Next

LEMMA EntriesStep == IInv /\ EntriesSound /\ [Next]_vars => EntriesSound'
  <1> SUFFICES ASSUME IInv, EntriesSound, [Next]_vars PROVE EntriesSound'
    OBVIOUS
  <1>t. /\ TypeOK /\ cache \in [Keys -> Entries] /\ held \in [Queries -> Entries]
        /\ None \notin Queries
    BY NoneAssumption DEF IInv, TypeOK
  <1>c. \A e \in Queries : Created(e) => Created(e)'
    BY StaysCreated
  <1>s. OnlyForgets \/ \E q \in Queries : Stores(q)
    BY <1>t, StoreSteps, StaleDefers DEF Quiet
  <1>1. ASSUME NEW k \in Keys, cache'[k] # None
        PROVE  KeyOf[cache'[k]] = k /\ Created(cache[k])'
    <2>1. CASE OnlyForgets
      <3>1. cache'[k] = cache[k] /\ cache[k] \in Queries
        BY <1>1, <1>t, <2>1 DEF OnlyForgets, Entries
      <3> QED
        BY <3>1, <1>c, <1>t DEF EntriesSound, Created
    <2>2. ASSUME NEW q \in Queries, Stores(q)
          PROVE  KeyOf[cache'[k]] = k /\ Created(cache[k])'
      <3>1. CASE cache'[k] = cache[k]
        <4>1. cache[k] \in Queries
          BY <3>1, <1>1, <1>t, Zenon DEF Entries
        <4>2. KeyOf[cache[k]] = k /\ Created(cache[k])
          BY <3>1, <1>1, <1>t, Zenon DEF EntriesSound
        <4> QED
          BY <3>1, <4>1, <4>2, <1>c DEF Created
      <3>2. CASE k = KeyOf[q] /\ cache'[k] = q
        BY <3>2, <2>2, <1>t, StoreResult DEF Created
      <3> QED
        BY <2>2, <3>1, <3>2, <1>t, StoreResult
    <2> QED
      BY <1>s, <2>1, <2>2
  <1>2. ASSUME NEW q \in Queries, held'[q] # None
        PROVE  KeyOf[held'[q]] = KeyOf[q] /\ Created(held[q])'
    <2>1. held'[q] \in {held[q], cache[KeyOf[q]]} /\ KeyOf[q] \in Keys
      BY <1>2, <1>t, HeldSteps, KeyAssumption
    <2>2. held'[q] \in Queries /\ KeyOf[held'[q]] = KeyOf[q] /\ run[held'[q]] \notin {"none", "begin", "call"}
      BY <1>2, <2>1, <1>t DEF EntriesSound, Created, Entries
    <2> QED
      BY <2>2, <1>c DEF Created
  <1>3. ASSUME NEW e \in Queries
        PROVE  /\ entry'[e].failure => entry'[e].backoff # 0
               /\ ~entry'[e].failure /\ ~ServeStale =>
                    entry'[e].staleUntil = entry'[e].expires
    <2>1. CASE OnlyForgets
      BY <2>1 DEF OnlyForgets, Fixed, EntriesSound
    <2>2. ASSUME NEW q \in Queries, Stores(q)
          PROVE  /\ entry'[e].failure => entry'[e].backoff # 0
                 /\ ~entry'[e].failure /\ ~ServeStale =>
                      entry'[e].staleUntil = entry'[e].expires
      <3>1. CASE e = q
        <4>1. /\ ReturnAnswer(q) =>
                   /\ ~entry'[q].failure
                   /\ ~ServeStale => entry'[q].staleUntil = entry'[q].expires
              /\ FailRemember(q) /\ FailureCache => entry'[q].failure /\ entry'[q].backoff # 0
          BY <2>2, <1>t, StoreResult, Zenon
        <4> QED
          BY <2>2, <3>1, <4>1, Zenon DEF Stores
      <3>2. CASE e # q
        <4>1. entry'[e] = entry[e]
          BY <2>2, <3>2, <1>t, StoreResult, Zenon
        <4> QED
          BY <4>1, <1>t, Zenon DEF EntriesSound
      <3> QED
        BY <3>1, <3>2, Zenon
    <2> QED
      BY <1>s, <2>1, <2>2
  <1> QED
    BY <1>1, <1>2, <1>3, Zenon DEF EntriesSound

-----------------------------------------------------------------------------
(* The entry a query was served from fresh, for which it may start or has   *)
(* started a prefetch; a prefetch has marked it as refreshing.              *)
MarkedBy ==
    \A q \in Queries :
        /\ pc[q] = "prefetch" \/ task[q] = "prefetch" =>
             reply[q].entry \in Queries /\ Created(reply[q].entry)
        /\ task[q] = "prefetch" => entry[reply[q].entry].refreshing

(* A query is at its prefetch after a fresh hit, and a prefetch has the     *)
(* reply of its query, which nothing replaces.                              *)
LEMMA PrefetchSteps ==
  ASSUME IInv, TaskControl, [Next]_vars, NEW p \in Queries
  PROVE  /\ pc'[p] = "prefetch" =>
              \/ pc[p] = "prefetch" /\ reply'[p] = reply[p]
              \/ reply'[p].entry = cache[KeyOf[p]] /\ cache[KeyOf[p]] \in Queries
         /\ task'[p] = "prefetch" =>
              \/ task[p] = "prefetch" /\ reply'[p] = reply[p]
              \/ StartPrefetch(p)
  <1> DEFINE Goal == /\ pc'[p] = "prefetch" =>
                          \/ pc[p] = "prefetch" /\ reply'[p] = reply[p]
                          \/ reply'[p].entry = cache[KeyOf[p]] /\ cache[KeyOf[p]] \in Queries
                     /\ task'[p] = "prefetch" =>
                          \/ task[p] = "prefetch" /\ reply'[p] = reply[p]
                          \/ StartPrefetch(p)
  <1>t. /\ pc \in [Queries -> Pcs] /\ reply \in [Queries -> ReplySet]
        /\ task \in [Queries -> {"inline", "stale", "prefetch"}]
        /\ KeyOf[p] \in Keys /\ TypeOK
    BY KeyAssumption DEF IInv, TypeOK
  <1>1. ASSUME NEW q \in Queries, QueryStep(q) PROVE Goal
    <2>1. CASE LookupHit(q)
      <3>1. KeyOf[q] \in Keys /\ Classify(KeyOf[q]).kind # "Refresh"
        BY <2>1, KeyAssumption DEF LookupHit
      <3>2. /\ cache[KeyOf[q]] \in Queries
            /\ Served(Classify(KeyOf[q])).entry = cache[KeyOf[q]]
        BY <3>1, <1>t, ClassifyTypes, Zenon DEF Served
      <3>3. /\ UNCHANGED task /\ reply' = [reply EXCEPT ![q] = Served(Classify(KeyOf[q]))]
            /\ \A d \in Queries \ {q} : pc'[d] = pc[d]
            /\ pc[q] = "lookup"
        BY <2>1, <1>t DEF LookupHit
      <3> QED
        BY <1>t, <3>2, <3>3, Zenon DEF TaskControl
    <2>2. CASE LookupMiss(q) \/ JoinFollow(q) \/ JoinLead(q) \/ FollowerAbandoned(q)
      BY <2>2, <1>t DEF LookupMiss, JoinFollow, JoinLead, FollowerAbandoned, TaskControl
    <2>3. CASE PrefetchNotDue(q) \/ PrefetchFollows(q)
      BY <2>3, <1>t DEF PrefetchNotDue, PrefetchFollows, TaskControl
    <2>4. CASE StartPrefetch(q)
      <3>1. /\ UNCHANGED reply /\ pc' = [pc EXCEPT ![q] = "done"]
            /\ task' = [task EXCEPT ![q] = "prefetch"]
        BY <2>4 DEF StartPrefetch
      <3> QED
        BY <2>4, <3>1, <1>t
    <2>5. CASE FollowerDone(q) \/ ServeHeld(q)
      BY <2>5, <1>t, Zenon DEF FollowerDone, ServeHeld, Answered, TaskControl
    <2>6. CASE RecheckHit(q) \/ RecheckMiss(q)
      BY <2>6, <1>t DEF RecheckHit, RecheckMiss, TaskControl
    <2> QED
      BY <1>1, <2>1, <2>2, <2>3, <2>4, <2>5, <2>6, Zenon DEF QueryStep
  <1>2. ASSUME NEW q \in Queries, RunStep(q) PROVE Goal
    <2>1. CASE Begin(q) \/ ReturnAnswer(q) \/ FinishGuard(q) \/ PublishOutcome(q)
               \/ AbandonFlight(q)
      BY <2>1, <1>t DEF Begin, ReturnAnswer, FinishGuard, PublishOutcome, AbandonFlight
    <2>2. ASSUME NEW o, Settled(q, o), UNCHANGED task, run[q] \in {"call", "settle"} PROVE Goal
      BY <2>2, <1>t, Zenon DEF Settled, IInv, NotYetRunning
    <2>3. CASE SettleAnswer(q) \/ ReturnPlain(q) \/ FailStale(q) \/ FailRemember(q)
               \/ FailPrefetch(q)
      BY <2>2, <2>3 DEF SettleAnswer, ReturnPlain, FailStale, FailRemember, FailPrefetch
    <2> QED
      BY <1>2, <2>1, <2>3, Zenon DEF RunStep
  <1>3. CASE \/ \E q \in Queries : CancelWaiting(q) \/ DropCall(q)
             \/ BeginPurge
             \/ \E k \in Keys : SweepShard(k) \/ Evict(k)
             \/ Tick \/ Finished \/ UNCHANGED vars
    BY <1>3, <1>t, Zenon DEF CancelWaiting, DropCall, BeginPurge, SweepShard, Evict, Tick,
       Finished, vars
  <1> QED
    BY <1>1, <1>2, <1>3 DEF Next

RInv == IInv /\ TaskControl /\ EntriesSound /\ MarkedBy /\ PrefetchOnce

LEMMA MarkedStep == RInv /\ [Next]_vars => MarkedBy' /\ PrefetchOnce'
  <1> SUFFICES ASSUME RInv, [Next]_vars PROVE MarkedBy' /\ PrefetchOnce'
    OBVIOUS
  <1>t. /\ IInv /\ TypeOK /\ TaskControl /\ EntriesSound /\ MarkedBy /\ PrefetchOnce
        /\ None \notin Queries
    BY NoneAssumption DEF RInv, IInv
  <1>c. \A e \in Queries : Created(e) => Created(e)'
    BY <1>t, StaysCreated
  <1>k. \A q \in Queries : cache[KeyOf[q]] \in Queries => Created(cache[KeyOf[q]])
    BY <1>t, KeyAssumption DEF EntriesSound
  <1>m. \A e \in Queries : Created(e) /\ entry[e].refreshing => entry'[e].refreshing
    <2>1. CASE OnlyForgets
      BY <2>1 DEF OnlyForgets, Fixed
    <2>2. CASE \E q \in Queries : Stores(q)
      BY <2>2, <1>t, StoreResult DEF Created
    <2> QED
      BY <2>1, <2>2, <1>t, StoreSteps, StaleDefers DEF Quiet
  <1>s. ASSUME NEW q \in Queries, StartPrefetch(q)
        PROVE  /\ pc[q] = "prefetch" /\ reply'[q] = reply[q]
               /\ ~entry[reply[q].entry].refreshing
               /\ entry'[reply[q].entry].refreshing
               /\ \A p \in Queries \ {q} : task'[p] = task[p]
    <2>1. /\ pc[q] = "prefetch" /\ reply' = reply /\ Due(reply[q].entry, call[q].at)
          /\ entry' = [entry EXCEPT ![reply[q].entry].hits = @ + 1,
                                    ![reply[q].entry].refreshing = TRUE]
          /\ task' = [task EXCEPT ![q] = "prefetch"]
      BY <1>s DEF StartPrefetch
    <2>2. reply[q].entry \in Queries /\ entry \in [Queries -> EntrySet]
      BY <2>1, <1>t DEF MarkedBy, TypeOK
    <2>3. \A r \in EntrySet : [[r EXCEPT !.hits = @ + 1] EXCEPT !.refreshing = TRUE].refreshing
      BY DEF EntrySet
    <2>4. entry'[reply[q].entry].refreshing
      BY <2>1, <2>2, <2>3
    <2> QED
      BY <2>1, <2>4, <1>t DEF Due, TypeOK
  <1>1. ASSUME NEW q \in Queries, pc'[q] = "prefetch"
        PROVE  reply'[q].entry \in Queries /\ run'[reply'[q].entry] \notin {"none", "begin", "call"}
    BY <1>1, <1>t, <1>c, <1>k, PrefetchSteps, Zenon DEF MarkedBy, Created
  <1>2. ASSUME NEW q \in Queries, task'[q] = "prefetch"
        PROVE  /\ reply'[q].entry \in Queries /\ run'[reply'[q].entry] \notin {"none", "begin", "call"}
               /\ entry'[reply'[q].entry].refreshing
    <2>1. CASE task[q] = "prefetch" /\ reply'[q] = reply[q]
      BY <2>1, <1>t, <1>c, <1>m DEF MarkedBy, Created
    <2>2. CASE StartPrefetch(q)
      BY <2>2, <1>s, <1>t, <1>c DEF MarkedBy, Created
    <2> QED
      BY <1>2, <2>1, <2>2, <1>t, PrefetchSteps
  <1>3. ASSUME NEW p \in Queries, NEW q \in Queries, p # q,
               task'[p] = "prefetch", task'[q] = "prefetch",
               reply'[p].entry = reply'[q].entry
        PROVE  FALSE
    <2>1. ASSUME NEW a \in Queries, NEW b \in Queries, a # b, StartPrefetch(a),
                 task'[b] = "prefetch", reply'[a].entry = reply'[b].entry
          PROVE  FALSE
      <3>1. task[b] = "prefetch" /\ UNCHANGED reply
        BY <2>1, <1>s DEF StartPrefetch
      <3>2. entry[reply[b].entry].refreshing
        BY <3>1, <1>t DEF MarkedBy
      <3> QED
        BY <2>1, <3>1, <3>2, <1>s
    <2>2. CASE StartPrefetch(p)
      BY <2>1, <2>2, <1>3
    <2>3. CASE StartPrefetch(q)
      BY <2>1, <2>3, <1>3
    <2>4. CASE ~StartPrefetch(p) /\ ~StartPrefetch(q)
      <3>1. /\ task[p] = "prefetch" /\ reply'[p] = reply[p]
            /\ task[q] = "prefetch" /\ reply'[q] = reply[q]
        BY <1>3, <2>4, <1>t, PrefetchSteps
      <3> QED
        BY <1>3, <3>1, <1>t DEF PrefetchOnce
    <2> QED
      BY <2>2, <2>3, <2>4
  <1>4. MarkedBy'
    BY <1>1, <1>2 DEF MarkedBy, Created
  <1> QED
    BY <1>3, <1>4 DEF PrefetchOnce

LEMMA RInvariant == Spec => []RInv
  <1>1. Init => TaskControl /\ EntriesSound /\ MarkedBy /\ PrefetchOnce
    <2> SUFFICES ASSUME Init PROVE TaskControl /\ EntriesSound /\ MarkedBy /\ PrefetchOnce
      OBVIOUS
    <2>1. \A q \in Queries : task[q] = "inline" /\ pc[q] = "lookup" /\ held[q] = None
      BY Zenon DEF Init
    <2>2. /\ \A k \in Keys : cache[k] = None
          /\ \A e \in Queries : entry[e] = NoEntry
      BY Zenon DEF Init
    <2>3. ~NoEntry.failure /\ NoEntry.staleUntil = NoEntry.expires
      BY DEF NoEntry
    <2>4. TaskControl /\ MarkedBy /\ PrefetchOnce
      BY <2>1 DEF TaskControl, MarkedBy, PrefetchOnce
    <2>5. EntriesSound
      BY <2>1, <2>2, <2>3, Zenon DEF EntriesSound
    <2> QED
      BY <2>4, <2>5
  <1>2. RInv /\ IInv' /\ [Next]_vars => RInv'
    <2> SUFFICES ASSUME RInv, IInv', [Next]_vars PROVE RInv'
      OBVIOUS
    <2>1. IInv /\ TypeOK /\ TaskControl /\ EntriesSound
      BY DEF RInv, IInv
    <2> QED
      BY <2>1, TaskStep, EntriesStep, MarkedStep DEF RInv
  <1>3. Init /\ IInv => RInv
    BY <1>1 DEF RInv
  <1> QED
    BY <1>2, <1>3, Invariance, PTL DEF Spec

(* "each stored entry is refreshed at most once": maybe_prefetch sets       *)
(* `refreshing` with the task it starts and nothing clears it, so no two    *)
(* prefetches are for one entry, whichever hits race.                       *)
THEOREM RefreshedOnce == Spec => []PrefetchOnce
  BY RInvariant, PTL DEF RInv

-----------------------------------------------------------------------------
(* What a resolution that is not a prefetch may rely on until its call      *)
(* returns: whatever is stored under its key has expired; it is the failure *)
(* whose backoff the resolution has read, or the stale answer it holds,     *)
(* outside its recheck window.                                              *)
Justified(q) ==
    LET e == cache[KeyOf[q]] IN
    e # None =>
      /\ entry[e].expires <= now
      /\ entry[e].failure => held[q] = None /\ call[q].prev = entry[e].backoff
      /\ ~entry[e].failure => ServeStale /\ held[q] = e /\ entry[e].recheck <= now

CallsJustified ==
    \A q \in Queries : run[q] \in {"begin", "call"} /\ task[q] # "prefetch" => Justified(q)

SoleLeader ==
    \A p, q \in Queries :
        stage[p] = "led" /\ stage[q] = "led" /\ KeyOf[p] = KeyOf[q] => p = q

LEMMA ClockGoesOn == TypeOK /\ [Next]_vars => now \in Nat /\ now' \in Nat /\ now <= now'
  <1> SUFFICES ASSUME TypeOK, [Next]_vars PROVE now \in Nat /\ now' \in Nat /\ now <= now'
    OBVIOUS
  <1>1. now \in Nat
    BY Typed, Zenon
  <1>2. UNCHANGED now \/ now' = now + 1
    <2>1. ASSUME NEW q \in Queries, QueryStep(q) PROVE UNCHANGED now
      BY <2>1 DEF QueryStep, LookupHit, LookupMiss, PrefetchNotDue, StartPrefetch,
         PrefetchFollows, JoinFollow, JoinLead, FollowerDone, FollowerAbandoned, ServeHeld,
         RecheckHit, RecheckMiss, envVars
    <2>2. ASSUME NEW q \in Queries, RunStep(q) PROVE UNCHANGED now
      BY <2>2 DEF RunStep, Begin, ReturnAnswer, SettleAnswer, ReturnPlain, FailStale,
         FailRemember, FailPrefetch, FinishGuard, PublishOutcome, AbandonFlight, envVars
    <2>3. ASSUME NEW q \in Queries, CancelWaiting(q) \/ DropCall(q) PROVE UNCHANGED now
      BY <2>3 DEF CancelWaiting, DropCall, envVars
    <2>4. ASSUME NEW k \in Keys, SweepShard(k) \/ Evict(k) PROVE UNCHANGED now
      BY <2>4 DEF SweepShard, Evict, envVars
    <2>5. CASE BeginPurge \/ Tick \/ Finished \/ UNCHANGED vars
      BY <2>5 DEF BeginPurge, Tick, Finished, vars, envVars
    <2> QED
      BY <2>1, <2>2, <2>3, <2>4, <2>5, Zenon DEF Next
  <1> QED
    BY <1>1, <1>2

(* A resolution that is not a prefetch begins, with coalescing, in the      *)
(* leader's re-check, and keeps its locals until its call returns.          *)
LEMMA ResolutionSteps ==
  ASSUME RInv, Coalesce, [Next]_vars, NEW p \in Queries,
         run'[p] \in {"begin", "call"}, task'[p] # "prefetch"
  PROVE  \/ RecheckMiss(p)
         \/ /\ run[p] \in {"begin", "call"} /\ task[p] # "prefetch"
            /\ held'[p] = held[p] /\ call'[p].prev = call[p].prev
  <1> DEFINE Kept == /\ run[p] \in {"begin", "call"} /\ task[p] # "prefetch"
                     /\ held'[p] = held[p] /\ call'[p].prev = call[p].prev
  <1>t. /\ pc \in [Queries -> Pcs] /\ run \in [Queries -> Runs]
        /\ task \in [Queries -> {"inline", "stale", "prefetch"}]
        /\ held \in [Queries -> Entries] /\ call \in [Queries -> CallSet]
        /\ NotYetRunning /\ TaskControl
    BY Zenon DEF RInv, IInv, TypeOK
  <1>1. ASSUME NEW q \in Queries, QueryStep(q) PROVE RecheckMiss(p) \/ Kept
    <2>1. CASE LookupHit(q) \/ LookupMiss(q)
      BY <2>1, <1>t, Zenon DEF LookupHit, LookupMiss, NotYetRunning, holdVars, CallSet
    <2>2. CASE PrefetchNotDue(q) \/ StartPrefetch(q) \/ PrefetchFollows(q)
      BY <2>2, <1>t DEF PrefetchNotDue, StartPrefetch, PrefetchFollows, NotYetRunning,
         holdVars
    <2>3. CASE JoinFollow(q) \/ JoinLead(q) \/ FollowerAbandoned(q)
      BY <2>3, Zenon DEF JoinFollow, JoinLead, FollowerAbandoned, holdVars
    <2>4. CASE FollowerDone(q) \/ ServeHeld(q)
      BY <2>4, <1>t, Zenon DEF FollowerDone, ServeHeld, Answered, NotYetRunning, TaskControl,
         holdVars
    <2>5. CASE RecheckHit(q) \/ RecheckMiss(q)
      BY <2>5, <1>t DEF RecheckHit, RecheckMiss, NotYetRunning, holdVars
    <2> QED
      BY <1>1, <2>1, <2>2, <2>3, <2>4, <2>5, Zenon DEF QueryStep
  <1>2. ASSUME NEW q \in Queries, RunStep(q) PROVE Kept
    <2>1. CASE Begin(q)
      BY <2>1, <1>t DEF Begin, holdVars, CallSet
    <2>2. CASE ReturnAnswer(q) \/ FinishGuard(q) \/ PublishOutcome(q) \/ AbandonFlight(q)
      BY <2>2, <1>t, Zenon DEF ReturnAnswer, FinishGuard, PublishOutcome, AbandonFlight, holdVars
    <2>3. CASE SettleAnswer(q) \/ ReturnPlain(q) \/ FailStale(q) \/ FailRemember(q)
               \/ FailPrefetch(q)
      BY <2>3, <1>t DEF SettleAnswer, ReturnPlain, FailStale, FailRemember, FailPrefetch,
         Settled, holdVars
    <2> QED
      BY <1>2, <2>1, <2>2, <2>3, Zenon DEF RunStep
  <1>3. ASSUME NEW q \in Queries, CancelWaiting(q) \/ DropCall(q) PROVE Kept
    BY <1>3, <1>t DEF CancelWaiting, DropCall, NotYetRunning, TaskControl, holdVars
  <1>4. CASE \/ BeginPurge
             \/ \E k \in Keys : SweepShard(k) \/ Evict(k)
             \/ Tick \/ Finished \/ UNCHANGED vars
    BY <1>4, Zenon DEF BeginPurge, SweepShard, Evict, Tick, Finished, vars, holdVars
  <1> QED
    BY <1>1, <1>2, <1>3, <1>4, Zenon DEF Next

(* The re-check goes on only past an entry that justifies a call.           *)
LEMMA RecheckJustifies ==
  ASSUME RInv, NEW q \in Queries, RecheckMiss(q)
  PROVE  Justified(q)'
  <1> DEFINE k == KeyOf[q]
             e == cache[k]
  <1>t. /\ k \in Keys /\ TypeOK /\ EntriesSound /\ now \in Nat
        /\ cache \in [Keys -> Entries]
    <2>1. TypeOK /\ EntriesSound
      BY Zenon DEF RInv, IInv
    <2> QED
      BY <2>1, KeyAssumption, Typed, Zenon DEF TypeOK
  <1>1. /\ UNCHANGED <<now, entry>> /\ cache' = AfterGet(k)
        /\ Classify(k).kind = "Refresh"
        /\ held' = [held EXCEPT ![q] = Classify(k).stale]
        /\ call' = [call EXCEPT ![q].prev = Classify(k).backoff]
    BY DEF RecheckMiss, envVars
  <1> SUFFICES ASSUME cache'[k] # None
               PROVE  /\ entry[e].expires <= now /\ cache'[k] = e
                      /\ entry[e].failure => held'[q] = None /\ call'[q].prev = entry[e].backoff
                      /\ ~entry[e].failure => ServeStale /\ held'[q] = e /\ entry[e].recheck <= now
    BY <1>1 DEF Justified
  <1>2. Live(k) /\ cache'[k] = e /\ e \in Queries
    BY <1>1, <1>t DEF AfterGet, Live, Entries
  <1>3. /\ entry[e].expires \in Nat /\ entry[e].recheck \in Nat /\ entry[e].staleUntil \in Nat
        /\ entry[e].failure \in BOOLEAN
    BY <1>2, <1>t, Zenon DEF TypeOK, EntrySet
  <1>4. ~(now < entry[e].expires)
    BY <1>1, <1>2 DEF Classify, Hit
  <1>5. entry[e].failure => Classify(k).stale = None /\ Classify(k).backoff = entry[e].backoff
    BY <1>1, <1>2, <1>4 DEF Classify, Refresh
  <1>6. ~entry[e].failure => ServeStale
    BY <1>2, <1>3, <1>4, <1>t DEF EntriesSound, Live
  <1>7. ~entry[e].failure => Classify(k).stale = e /\ ~(now < entry[e].recheck)
    BY <1>1, <1>2, <1>4, <1>6 DEF Classify, Refresh, Hit
  <1>8. held'[q] = Classify(k).stale /\ call'[q].prev = Classify(k).backoff
    BY <1>1, <1>t DEF TypeOK, CallSet
  <1> HIDE DEF k, e
  <1>9. entry[e].expires <= now /\ (~(now < entry[e].recheck) => entry[e].recheck <= now)
    BY <1>3, <1>4, <1>t
  <1> QED
    BY <1>2, <1>5, <1>6, <1>7, <1>8, <1>9, Zenon

LEMMA JustifiedStep ==
  ASSUME Coalesce
  PROVE  RInv /\ SoleLeader /\ CallsJustified /\ [Next]_vars => CallsJustified'
  <1> SUFFICES ASSUME RInv, SoleLeader, CallsJustified, [Next]_vars, NEW q \in Queries,
                      run'[q] \in {"begin", "call"}, task'[q] # "prefetch"
               PROVE  Justified(q)'
    BY DEF CallsJustified
  <1> DEFINE k == KeyOf[q]
  <1>t. /\ k \in Keys /\ TypeOK /\ IInv /\ EntriesSound /\ None \notin Queries
        /\ cache \in [Keys -> Entries] /\ entry \in [Queries -> EntrySet]
    BY KeyAssumption, NoneAssumption, Zenon DEF RInv, IInv, TypeOK
  <1>n. now \in Nat /\ now' \in Nat /\ now <= now'
    BY <1>t, ClockGoesOn
  <1>1. CASE RecheckMiss(q)
    BY <1>1, RecheckJustifies
  <1>2. CASE ~RecheckMiss(q)
    <2>1. /\ run[q] \in {"begin", "call"} /\ task[q] # "prefetch" /\ Justified(q)
          /\ held'[q] = held[q] /\ call'[q].prev = call[q].prev
      BY <1>2, ResolutionSteps DEF CallsJustified
    <2>l. \A p \in Queries : run[p] = "call" /\ KeyOf[p] = k => p = q
      BY <2>1, <1>t DEF IInv, ResolvesUnderGuard, SoleLeader
    <2> SUFFICES ASSUME NEW e \in Queries, cache'[k] = e
                 PROVE  /\ entry'[e].expires <= now'
                        /\ entry'[e].failure => held[q] = None /\ call[q].prev = entry'[e].backoff
                        /\ ~entry'[e].failure => ServeStale /\ held[q] = e /\ entry'[e].recheck <= now'
      <3>1. TypeOK'
        BY <1>t, TypeStep DEF IInv
      <3>2. cache'[k] \in Queries \cup {None}
        BY <3>1, <1>t, Zenon DEF TypeOK, Entries
      <3> QED
        BY <2>1, <3>2 DEF Justified
    <2>2. cache[k] = e /\ Fixed(e) /\ entry'[e].recheck = entry[e].recheck
      <3>1. CASE Quiet
        BY <3>1, <1>t DEF Quiet, OnlyForgets
      <3>2. ASSUME NEW p \in Queries, FailStale(p)
            PROVE  cache[k] = e /\ Fixed(e) /\ entry'[e].recheck = entry[e].recheck
        <4>1. OnlyForgets /\ UNCHANGED cache
              /\ \A d \in Queries \ {held[p]} : entry'[d].recheck = entry[d].recheck
          BY <3>2, <1>t, StaleDefers
        <4>2. p # q /\ run[p] = "call" /\ held[p] # None
          BY <3>2, <1>t DEF FailStale, Settled, TypeOK
        <4>3. KeyOf[held[p]] # k /\ KeyOf[e] = k
          BY <4>1, <4>2, <2>l, <1>t DEF EntriesSound
        <4> QED
          BY <4>1, <4>3 DEF OnlyForgets
      <3>3. ASSUME NEW p \in Queries, Stores(p)
            PROVE  cache[k] = e /\ Fixed(e) /\ entry'[e].recheck = entry[e].recheck
        <4>0. /\ run[p] = "call" /\ ~(run'[p] \in {"none", "begin", "call"})
              /\ \A d \in Queries \ {p} : entry'[d] = entry[d]
              /\ \A j \in Keys : cache'[j] = cache[j] \/ (j = KeyOf[p] /\ cache'[j] = p)
          <5>1. TypeOK
            BY <1>t, Zenon
          <5> QED
            BY <3>3, <5>1, StoreResult
        <4>1. p # q /\ KeyOf[p] # k
          BY <4>0, <2>l, <1>t
        <4>2. cache[k] = e
          BY <4>0, <4>1, <1>t, Zenon
        <4>3. e # p
          <5>1. EntriesSound /\ k \in Keys /\ cache[k] # None
            BY <4>2, <1>t
          <5>2. KeyOf[cache[k]] = k
            BY <5>1, Zenon DEF EntriesSound
          <5> HIDE DEF k
          <5> QED
            BY <4>1, <4>2, <5>2
        <4>4. entry'[e] = entry[e]
          BY <4>0, <4>3, <1>t, Zenon
        <4> QED
          BY <4>2, <4>4, Zenon DEF Fixed
      <3> QED
        BY <1>t, <3>1, <3>2, <3>3, StoreSteps
    <2>3. /\ entry[e].expires \in Nat /\ entry[e].recheck \in Nat
          /\ entry[e].expires <= now
          /\ entry[e].failure => held[q] = None /\ call[q].prev = entry[e].backoff
          /\ ~entry[e].failure => ServeStale /\ held[q] = e /\ entry[e].recheck <= now
      BY <2>1, <2>2, <1>t DEF Justified, EntrySet
    <2> HIDE DEF k
    <2> QED
      BY <2>2, <2>3, <1>n DEF Fixed
  <1> QED
    BY <1>1, <1>2

LEMMA CallInvariant ==
  ASSUME Coalesce, DistinctHashes
  PROVE  Spec => [](RInv /\ SoleLeader /\ CallsJustified)
  <1>1. Init => AllRegistered
    BY DEF Init, AllRegistered
  <1>2. FP!IInv /\ AllRegistered /\ [Next]_vars => AllRegistered'
    BY RegisteredStep, NextFlights
  <1>3. FP!IInv /\ AllRegistered => SoleLeader
    <2>1. FP!IInv => FP!RegistrySound
      BY Zenon DEF FP!IInv
    <2> QED
      <3> SUFFICES ASSUME FP!RegistrySound, AllRegistered, NEW p \in Queries, NEW q \in Queries,
                          stage[p] = "led", stage[q] = "led", KeyOf[p] = KeyOf[q]
                   PROVE  p = q
        BY <2>1, Zenon DEF SoleLeader
      <3>1. registered[p] /\ registered[q]
        BY Zenon DEF AllRegistered
      <3>2. registry[HashOf[KeyOf[p]]] = p /\ registry[HashOf[KeyOf[q]]] = q
        BY <3>1, Zenon DEF FP!RegistrySound
      <3> QED
        BY <3>2, Zenon
  <1>4. Init => CallsJustified
    BY DEF Init, CallsJustified
  <1>5. RInv /\ SoleLeader /\ CallsJustified /\ [Next]_vars => CallsJustified'
    BY JustifiedStep
  <1> QED
    BY <1>1, <1>2, <1>3, <1>4, <1>5, FlightInvariants, RInvariant, PTL DEF Spec

(* "another leader may have stored an answer (or recorded a failure) and    *)
(* unregistered" (resolve): thanks to the re-check under the flight, no     *)
(* upstream call but a prefetch begins while the store could answer.        *)
THEOREM CallsAreNeeded ==
  ASSUME Coalesce, DistinctHashes
  PROVE  Spec => NoCallWhileAnswerable
  <1>1. ASSUME RInv, CallsJustified, NEW q \in Queries, run[q] = "begin", task[q] # "prefetch"
        PROVE  Classify(KeyOf[q]).kind = "Refresh"
    <2> DEFINE k == KeyOf[q]
               e == cache[k]
    <2>1. k \in Keys /\ Justified(q) /\ TypeOK /\ now \in Nat
      <3>1. TypeOK
        BY <1>1, Zenon DEF RInv, IInv
      <3>2. Justified(q)
        BY <1>1, Zenon DEF CallsJustified
      <3> QED
        BY <3>1, <3>2, KeyAssumption, Typed, Zenon
    <2>2. CASE ~Live(k)
      BY <2>2 DEF Classify, Refresh
    <2>3. CASE Live(k)
      <3>1. e \in Queries
        BY <2>1, <2>3 DEF Live, TypeOK, Entries
      <3>2. entry[e].expires \in Nat /\ entry[e].recheck \in Nat /\ entry[e].failure \in BOOLEAN
        BY <2>1, <3>1 DEF TypeOK, EntrySet
      <3>3. /\ ~(now < entry[e].expires)
            /\ ~entry[e].failure => ServeStale /\ ~(now < entry[e].recheck)
        <4>1. /\ entry[e].expires <= now
              /\ ~entry[e].failure => ServeStale /\ entry[e].recheck <= now
          BY <2>1, <2>3, Zenon DEF Justified, Live
        <4> HIDE DEF e
        <4>2. \A t \in Nat : t <= now => ~(now < t)
          BY <2>1
        <4> QED
          BY <3>2, <4>1, <4>2, Zenon
      <3> QED
        BY <2>3, <3>2, <3>3 DEF Classify, Refresh
    <2> QED
      BY <2>2, <2>3
  <1>2. RInv /\ CallsJustified =>
          [\A q \in Queries :
             run[q] = "begin" /\ run'[q] = "call" /\ task[q] # "prefetch"
               => Classify(KeyOf[q]).kind = "Refresh"]_vars
    BY <1>1
  <1> QED
    BY <1>2, CallInvariant, PTL DEF NoCallWhileAnswerable

(* A stored failure follows, under its flight, whatever was stored before.  *)
LEMMA FailureFollows ==
  ASSUME RInv, CallsJustified, NEW p \in Queries, FailRemember(p), FailureCache,
         NEW e \in Queries, cache[KeyOf[p]] = e
  PROVE  /\ entry[e].failure /\ entry[e].backoff # 0 /\ now >= entry[e].expires
         /\ entry'[p].backoff = NextBackoff(entry[e].backoff)
  <1>1. /\ run[p] = "call" /\ task[p] # "prefetch" /\ held[p] = None
        /\ TypeOK /\ EntriesSound /\ Stores(p) /\ None \notin Queries
    BY NoneAssumption, Zenon DEF FailRemember, RInv, IInv, Stores
  <1>2. Justified(p) /\ now \in Nat /\ entry[e].expires \in Nat
    BY <1>1, Typed, Zenon DEF CallsJustified
  <1>3. entry[e].failure /\ call[p].prev = entry[e].backoff /\ entry[e].expires <= now
    BY <1>1, <1>2 DEF Justified
  <1>4. entry[e].backoff # 0 /\ entry'[p].backoff = Backoff(entry[e].backoff)
    <2>1. entry[e].backoff # 0
      BY <1>1, <1>3, Zenon DEF EntriesSound
    <2>2. entry'[p].backoff = Backoff(call[p].prev)
      BY <1>1, StoreResult, Zenon
    <2> QED
      BY <1>3, <2>1, <2>2, Zenon
  <1> QED
    BY <1>2, <1>3, <1>4, Zenon DEF Backoff

(* "a failure never overwrites it": under coalescing, settle_failure and    *)
(* remember_failure never store over an answer that could be served.        *)
THEOREM FailuresYield ==
  ASSUME Coalesce, DistinctHashes
  PROVE  Spec => FailureKeepsAnswer
  <1>1. ASSUME RInv, CallsJustified, [Next]_vars, NEW k \in Keys,
               Live(k), ~entry[cache[k]].failure, cache'[k] # None
        PROVE  ~entry'[cache'[k]].failure
    <2>t. TypeOK /\ EntriesSound /\ cache[k] \in Queries
      BY <1>1 DEF RInv, IInv, TypeOK, Live, Entries
    <2>1. CASE OnlyForgets
      BY <1>1, <2>1, <2>t DEF OnlyForgets, Fixed
    <2>2. ASSUME NEW p \in Queries, Stores(p) PROVE ~entry'[cache'[k]].failure
      <3>1. CASE cache'[k] = cache[k]
        <4>0. run[p] = "call" /\ \A d \in Queries \ {p} : entry'[d] = entry[d]
          BY <2>2, <2>t, StoreResult, Zenon
        <4>1. cache[k] # p
          <5>1. cache[k] # None => Created(cache[k])
            BY <2>t, Zenon DEF EntriesSound
          <5> QED
            BY <1>1, <4>0, <5>1 DEF Created, Live
        <4> QED
          BY <3>1, <4>0, <4>1, <2>t, <1>1, Zenon
      <3>2. CASE k = KeyOf[p] /\ cache'[k] = p
        <4>1. CASE ReturnAnswer(p)
          BY <3>2, <4>1, <2>2, <2>t, StoreResult
        <4>2. CASE FailRemember(p) /\ FailureCache
          BY <3>2, <4>2, <2>t, <1>1, FailureFollows
        <4> QED
          BY <4>1, <4>2, <2>2 DEF Stores
      <3> QED
        BY <2>2, <3>1, <3>2, <2>t, StoreResult
    <2> QED
      BY <2>1, <2>2, <2>t, <1>1, StoreSteps, StaleDefers, Zenon DEF Quiet
  <1>2. RInv /\ CallsJustified /\ [Next]_vars =>
          [\A k \in Keys :
             Live(k) /\ ~entry[cache[k]].failure /\ cache'[k] # None
               => ~entry'[cache'[k]].failure]_vars
    BY <1>1
  <1> QED
    BY <1>2, CallInvariant, PTL DEF FailureKeepsAnswer, Spec

(* "if it fails too, the window doubles": failure_backoff gets the backoff  *)
(* of the very failure that the new one replaces, and never before that     *)
(* failure's window has run out.                                            *)
THEOREM WindowsDouble ==
  ASSUME Coalesce, DistinctHashes
  PROVE  Spec => BackoffDoubles
  <1>1. ASSUME RInv, CallsJustified, [Next]_vars, NEW k \in Keys,
               cache[k] # None, cache'[k] # None, cache[k] # cache'[k],
               entry[cache[k]].failure, entry'[cache'[k]].failure
        PROVE  /\ now >= entry[cache[k]].expires
               /\ entry'[cache'[k]].backoff = NextBackoff(entry[cache[k]].backoff)
    <2>t. TypeOK /\ EntriesSound /\ cache[k] \in Queries
      BY <1>1, Zenon DEF RInv, IInv, TypeOK, Entries
    <2>1. ~OnlyForgets
      BY <1>1, Zenon DEF OnlyForgets
    <2>2. PICK p \in Queries : Stores(p)
      BY <2>1, <2>t, <1>1, StoreSteps, StaleDefers DEF Quiet
    <2>3. k = KeyOf[p] /\ cache'[k] = p
      BY <2>2, <2>t, <1>1, StoreResult
    <2>4. FailRemember(p) /\ FailureCache
      BY <2>2, <2>3, <2>t, <1>1, StoreResult DEF Stores
    <2> QED
      BY <2>3, <2>4, <2>t, <1>1, FailureFollows
  <1>2. RInv /\ CallsJustified /\ [Next]_vars =>
          [\A k \in Keys :
             /\ cache[k] # None /\ cache'[k] # None /\ cache[k] # cache'[k]
             /\ entry[cache[k]].failure /\ entry'[cache'[k]].failure
             => /\ now >= entry[cache[k]].expires
                /\ entry'[cache'[k]].backoff = NextBackoff(entry[cache[k]].backoff)]_vars
    BY <1>1
  <1> QED
    BY <1>2, CallInvariant, PTL DEF BackoffDoubles, Spec

-----------------------------------------------------------------------------
(* Without coalescing, a query gets nothing from another one but through    *)
(* the store.  What it holds, what its call will create and what it was     *)
(* answered with are no older than the last purge of its key before it      *)
(* looked there.                                                            *)
Younger ==
    \A q \in Queries :
        /\ pc[q] \notin {"join", "wait", "selfwait", "recheck"} /\ stage[q] = "absent"
        /\ pc[q] = "lookup" => held[q] = None
        /\ arrived[q] <= epoch
        /\ held[q] # None => entry[held[q]].epoch >= arrived[q]
        /\ run[q] = "call" => call[q].epoch >= arrived[q]
        /\ run[q] = "settle" => entry[q].epoch >= arrived[q]
        /\ pc[q] \in {"prefetch", "done"} /\ reply[q].how \in {"Fresh", "Stale"} =>
             /\ reply[q].entry \in Queries /\ Created(reply[q].entry)
             /\ entry[reply[q].entry].epoch >= arrived[q]

(* The steps of one query leave the locals of every other one alone.        *)
LEMMA OthersKeep ==
  ASSUME TypeOK, NEW p \in Queries, NEW q \in Queries, p # q,
         QueryStep(p) \/ RunStep(p) \/ CancelWaiting(p) \/ DropCall(p)
  PROVE  /\ pc'[q] = pc[q] /\ run'[q] = run[q] /\ held'[q] = held[q]
         /\ arrived'[q] = arrived[q] /\ call'[q] = call[q] /\ reply'[q] = reply[q]
  <1>t. /\ pc \in [Queries -> Pcs] /\ run \in [Queries -> Runs]
        /\ held \in [Queries -> Entries] /\ call \in [Queries -> CallSet]
        /\ reply \in [Queries -> ReplySet] /\ arrived \in [Queries -> -1..MaxPurges]
    BY DEF TypeOK
  <1>1. CASE LookupHit(p) \/ LookupMiss(p)
    BY <1>1, <1>t DEF LookupHit, LookupMiss
  <1>2. CASE PrefetchNotDue(p) \/ StartPrefetch(p) \/ PrefetchFollows(p)
    BY <1>2, <1>t DEF PrefetchNotDue, StartPrefetch, PrefetchFollows, holdVars
  <1>3. CASE JoinFollow(p) \/ JoinLead(p) \/ FollowerAbandoned(p)
    BY <1>3, <1>t, Zenon DEF JoinFollow, JoinLead, FollowerAbandoned, holdVars
  <1>4. CASE FollowerDone(p) \/ ServeHeld(p)
    BY <1>4, <1>t, Zenon DEF FollowerDone, ServeHeld, Answered, holdVars
  <1>5. CASE RecheckHit(p) \/ RecheckMiss(p)
    BY <1>5, <1>t DEF RecheckHit, RecheckMiss, holdVars
  <1>6. CASE Begin(p) \/ ReturnAnswer(p)
    BY <1>6, <1>t DEF Begin, ReturnAnswer, holdVars
  <1>7. CASE SettleAnswer(p) \/ ReturnPlain(p) \/ FailStale(p) \/ FailRemember(p)
             \/ FailPrefetch(p)
    BY <1>7, <1>t DEF SettleAnswer, ReturnPlain, FailStale, FailRemember, FailPrefetch,
       Settled, holdVars
  <1>8. CASE FinishGuard(p) \/ PublishOutcome(p) \/ AbandonFlight(p)
    BY <1>8, <1>t DEF FinishGuard, PublishOutcome, AbandonFlight, holdVars
  <1>9. CASE CancelWaiting(p) \/ DropCall(p)
    BY <1>9, <1>t, Zenon DEF CancelWaiting, DropCall, holdVars
  <1> QED
    BY <1>1, <1>2, <1>3, <1>4, <1>5, <1>6, <1>7, <1>8, <1>9, Zenon DEF QueryStep, RunStep

(* Without coalescing no step touches the registry, and a query takes only  *)
(* the steps that need no flight.                                           *)
LEMMA NoFlights ==
  ASSUME ~Coalesce, RInv, Younger, NEW q \in Queries
  PROVE  /\ QueryStep(q) => \/ LookupHit(q) \/ LookupMiss(q)
                            \/ PrefetchNotDue(q) \/ StartPrefetch(q)
         /\ RunStep(q) => \/ Begin(q) \/ ReturnAnswer(q) \/ SettleAnswer(q)
                          \/ ReturnPlain(q) \/ FailStale(q) \/ FailRemember(q)
                          \/ FailPrefetch(q)
         /\ ~CancelWaiting(q)
         /\ QueryStep(q) \/ RunStep(q) \/ DropCall(q) => UNCHANGED stage
  <1>1. /\ pc[q] \notin {"join", "wait", "selfwait", "recheck"} /\ stage[q] = "absent"
    BY Zenon DEF Younger
  <1>2. QueryStep(q) => LookupHit(q) \/ LookupMiss(q) \/ PrefetchNotDue(q) \/ StartPrefetch(q)
    BY <1>1 DEF QueryStep, PrefetchFollows, JoinFollow, JoinLead, FollowerDone,
       FollowerAbandoned, ServeHeld, RecheckHit, RecheckMiss
  <1>3. RunStep(q) => \/ Begin(q) \/ ReturnAnswer(q) \/ SettleAnswer(q) \/ ReturnPlain(q)
                      \/ FailStale(q) \/ FailRemember(q) \/ FailPrefetch(q)
    BY <1>1 DEF RunStep, FinishGuard, PublishOutcome, AbandonFlight, F!Finish, F!Publish,
       F!Abandon
  <1>4. ~CancelWaiting(q)
    BY <1>1, Zenon DEF CancelWaiting
  <1>5. QueryStep(q) => UNCHANGED stage
    BY <1>2 DEF LookupHit, LookupMiss, PrefetchNotDue, StartPrefetch, flightVars
  <1>6. RunStep(q) \/ DropCall(q) => UNCHANGED stage
    BY <1>1, <1>3 DEF Begin, ReturnAnswer, SettleAnswer, ReturnPlain, FailStale,
       FailRemember, FailPrefetch, DropCall, flightVars
  <1> QED
    BY <1>2, <1>3, <1>4, <1>5, <1>6

(* The epoch of an entry is that of its call, for good.                     *)
LEMMA EpochKept ==
  ASSUME RInv, [Next]_vars, NEW e \in Queries, Created(e)
  PROVE  Created(e)' /\ entry'[e].epoch = entry[e].epoch
  <1>t. TypeOK /\ IInv
    BY DEF RInv, IInv
  <1>1. CASE OnlyForgets
    BY <1>1, <1>t, StaysCreated DEF OnlyForgets, Fixed
  <1>2. CASE \E p \in Queries : Stores(p)
    BY <1>2, <1>t, StaysCreated, StoreResult, Zenon DEF Created
  <1> QED
    BY <1>1, <1>2, <1>t, StoreSteps, StaleDefers DEF Quiet

LEMMA EpochGrows == TypeOK /\ [Next]_vars => epoch \in Int /\ epoch' \in Int /\ epoch <= epoch'
  <1> SUFFICES ASSUME TypeOK, [Next]_vars
               PROVE  epoch \in Int /\ epoch' \in Int /\ epoch <= epoch'
    OBVIOUS
  <1>1. epoch \in Int
    BY DEF TypeOK
  <1>2. UNCHANGED epoch \/ epoch' = epoch + 1
    <2>1. ASSUME NEW q \in Queries, QueryStep(q) PROVE UNCHANGED epoch
      BY <2>1 DEF QueryStep, LookupHit, LookupMiss, PrefetchNotDue, StartPrefetch,
         PrefetchFollows, JoinFollow, JoinLead, FollowerDone, FollowerAbandoned, ServeHeld,
         RecheckHit, RecheckMiss, envVars
    <2>2. ASSUME NEW q \in Queries, RunStep(q) PROVE UNCHANGED epoch
      BY <2>2 DEF RunStep, Begin, ReturnAnswer, SettleAnswer, ReturnPlain, FailStale,
         FailRemember, FailPrefetch, FinishGuard, PublishOutcome, AbandonFlight, envVars
    <2>3. ASSUME NEW q \in Queries, CancelWaiting(q) \/ DropCall(q) PROVE UNCHANGED epoch
      BY <2>3 DEF CancelWaiting, DropCall, envVars
    <2>4. ASSUME NEW k \in Keys, SweepShard(k) \/ Evict(k) PROVE UNCHANGED epoch
      BY <2>4 DEF SweepShard, Evict, envVars
    <2>5. CASE BeginPurge \/ Tick \/ Finished \/ UNCHANGED vars
      BY <2>5 DEF BeginPurge, Tick, Finished, vars, envVars
    <2> QED
      BY <2>1, <2>2, <2>3, <2>4, <2>5, Zenon DEF Next
  <1> QED
    BY <1>1, <1>2

LEMMA YoungerStep ==
  ASSUME ~Coalesce
  PROVE  RInv /\ Younger /\ [Next]_vars => Younger'
  <1> SUFFICES ASSUME RInv, Younger, [Next]_vars PROVE Younger'
    OBVIOUS
  <1> DEFINE Before == {"none", "begin", "call"}
             Good(q) ==
               /\ pc'[q] \notin {"join", "wait", "selfwait", "recheck"} /\ stage'[q] = "absent"
               /\ pc'[q] = "lookup" => held'[q] = None
               /\ arrived'[q] <= epoch'
               /\ held'[q] # None => entry'[held'[q]].epoch >= arrived'[q]
               /\ run'[q] = "call" => call'[q].epoch >= arrived'[q]
               /\ run'[q] = "settle" => entry'[q].epoch >= arrived'[q]
               /\ pc'[q] \in {"prefetch", "done"} /\ reply'[q].how \in {"Fresh", "Stale"} =>
                    /\ reply'[q].entry \in Queries /\ run'[reply'[q].entry] \notin Before
                    /\ entry'[reply'[q].entry].epoch >= arrived'[q]
  <1> SUFFICES ASSUME NEW q \in Queries PROVE Good(q)
    BY Zenon DEF Younger, Created
  <1>t. /\ TypeOK /\ IInv /\ EntriesSound /\ KeyOf[q] \in Keys /\ NotYetRunning
        /\ pc \in [Queries -> Pcs] /\ run \in [Queries -> Runs]
        /\ held \in [Queries -> Entries] /\ call \in [Queries -> CallSet]
        /\ reply \in [Queries -> ReplySet] /\ arrived \in [Queries -> -1..MaxPurges]
        /\ None \notin Queries
    BY KeyAssumption, NoneAssumption DEF RInv, IInv, TypeOK
  <1>e. epoch \in Int /\ epoch' \in Int /\ epoch <= epoch'
    BY <1>t, EpochGrows
  <1>a. arrived[q] \in Int /\ arrived[q] <= epoch'
    <2>1. arrived[q] \in -1..MaxPurges /\ arrived[q] <= epoch
      BY <1>t, Zenon DEF Younger
    <2> QED
      BY <1>e, <2>1
  <1>g. \A e \in Queries : run[e] \notin Before =>
          run'[e] \notin Before /\ entry'[e].epoch = entry[e].epoch
    BY EpochKept DEF Created
  <1>h. held[q] # None => /\ held[q] \in Queries /\ run[held[q]] \notin Before
                          /\ entry'[held[q]].epoch >= arrived[q]
    <2> SUFFICES ASSUME held[q] # None
                 PROVE  /\ held[q] \in Queries /\ run[held[q]] \notin Before
                        /\ entry'[held[q]].epoch >= arrived[q]
      OBVIOUS
    <2>1. held[q] \in Queries /\ run[held[q]] \notin Before
      BY <1>t DEF EntriesSound, Created, Entries
    <2> QED
      BY <2>1, <1>g DEF Younger
  <1>s. run[q] = "settle" => entry'[q].epoch >= arrived[q]
    BY <1>g DEF Younger
  <1>r. pc[q] \in {"prefetch", "done"} /\ reply[q].how \in {"Fresh", "Stale"} =>
          /\ reply[q].entry \in Queries /\ run'[reply[q].entry] \notin Before
          /\ entry'[reply[q].entry].epoch >= arrived[q]
    BY <1>g DEF Younger, Created
  <1>y. /\ pc[q] \notin {"join", "wait", "selfwait", "recheck"} /\ stage[q] = "absent"
        /\ pc[q] = "lookup" => held[q] = None
        /\ run[q] = "call" => call[q].epoch >= arrived[q]
    BY DEF Younger
  <1>k. cache[KeyOf[q]] # None =>
          /\ cache[KeyOf[q]] \in Queries /\ run'[cache[KeyOf[q]]] \notin Before
          /\ entry'[cache[KeyOf[q]]].epoch >= purged[KeyOf[q]]
    <2> SUFFICES ASSUME NEW k \in Keys, cache[k] # None
                 PROVE  cache[k] \in Queries /\ run'[cache[k]] \notin Before
                        /\ entry'[cache[k]].epoch >= purged[k]
      BY <1>t
    <2>1. cache[k] \in Queries /\ run[cache[k]] \notin Before
      <3>1. cache[k] \in Entries /\ Created(cache[k])
        BY <1>t, Zenon DEF EntriesSound, TypeOK
      <3> QED
        BY <3>1 DEF Created, Entries
    <2> QED
      BY <2>1, <1>g, <1>t, Zenon DEF IInv, PurgedStaysPurged
  <1>p. purged[KeyOf[q]] \in Int /\ purged[KeyOf[q]] <= epoch'
    BY <1>t, <1>e DEF IInv, SweptAfterBump, TypeOK
  <1>u. ASSUME pc'[q] = pc[q], run'[q] = run[q], held'[q] = held[q], arrived'[q] = arrived[q],
               call'[q] = call[q], reply'[q] = reply[q], stage'[q] = stage[q]
        PROVE  Good(q)
    BY <1>u, <1>a, <1>h, <1>s, <1>r, <1>y
  <1>1. ASSUME NEW p \in Queries, p # q,
               QueryStep(p) \/ RunStep(p) \/ CancelWaiting(p) \/ DropCall(p)
        PROVE  Good(q)
    <2>1. stage'[q] = stage[q]
      BY <1>1, NoFlights
    <2> QED
      BY <2>1, <1>1, <1>t, <1>u, OthersKeep, Zenon
  <1>2. CASE LookupHit(q)
    <2>1. Classify(KeyOf[q]).kind # "Refresh"
      BY <1>2 DEF LookupHit
    <2>2. cache[KeyOf[q]] \in Queries /\ Served(Classify(KeyOf[q])).entry = cache[KeyOf[q]]
      BY <2>1, <1>t, ClassifyTypes, Zenon DEF Served
    <2>3. /\ reply'[q] = Served(Classify(KeyOf[q])) /\ pc'[q] \in {"prefetch", "done"}
          /\ arrived'[q] = purged[KeyOf[q]] /\ held'[q] = None /\ run'[q] = "none"
          /\ stage'[q] = "absent"
      BY <1>2, <1>t, <1>y DEF LookupHit, flightVars, NotYetRunning
    <2> QED
      BY <2>2, <2>3, <1>k, <1>p, <1>t, Zenon
  <1>3. CASE LookupMiss(q)
    <2>1. held'[q] \in {None, cache[KeyOf[q]]}
      BY <1>3, <1>t, <1>y, HeldSteps DEF LookupMiss
    <2>2. /\ pc'[q] = "run" /\ run'[q] = "begin" /\ arrived'[q] = purged[KeyOf[q]]
          /\ stage'[q] = "absent"
      BY <1>3, <1>t, <1>y DEF LookupMiss, flightVars
    <2> QED
      BY <2>1, <2>2, <1>k, <1>p
  <1>4. CASE PrefetchNotDue(q) \/ StartPrefetch(q)
    <2>1. /\ pc[q] = "prefetch" /\ pc'[q] = "done" /\ run'[q] \in {"none", "begin"}
          /\ held'[q] = held[q] /\ arrived'[q] = arrived[q] /\ reply'[q] = reply[q]
      BY <1>4, <1>t DEF PrefetchNotDue, StartPrefetch, holdVars, NotYetRunning
    <2>2. stage'[q] = "absent"
      BY <1>4, <1>y, NoFlights, Zenon DEF QueryStep
    <2> QED
      BY <2>1, <2>2, <1>a, <1>h, <1>r
  <1>5. CASE Begin(q)
    <2>1. /\ pc'[q] = pc[q] /\ run'[q] = "call" /\ held'[q] = held[q]
          /\ arrived'[q] = arrived[q] /\ reply'[q] = reply[q] /\ stage'[q] = "absent"
          /\ call'[q].epoch = epoch
      BY <1>5, <1>t, <1>y DEF Begin, holdVars, flightVars, CallSet
    <2>2. epoch >= arrived[q]
      BY <1>a, <1>e, Zenon DEF Younger
    <2> QED
      BY <2>1, <2>2, <1>a, <1>h, <1>r, <1>y
  <1>6. CASE ReturnAnswer(q)
    <2>1. /\ pc'[q] = pc[q] /\ run'[q] = "settle" /\ held'[q] = held[q] /\ run[q] = "call"
          /\ arrived'[q] = arrived[q] /\ reply'[q] = reply[q] /\ stage'[q] = "absent"
      BY <1>6, <1>t, <1>y, Zenon DEF ReturnAnswer, holdVars, flightVars
    <2>2. entry'[q].epoch = call[q].epoch
      BY <1>6, <1>t, StoreResult, Zenon DEF Stores
    <2> QED
      BY <2>1, <2>2, <1>a, <1>h, <1>r, <1>y, Zenon
  <1>7. ASSUME NEW o, Settled(q, o), UNCHANGED <<arrived, held, stage>>,
               o.how \in {"Fresh", "Stale"} =>
                 /\ o.entry \in Queries /\ run'[o.entry] \notin Before
                 /\ entry'[o.entry].epoch >= arrived[q]
        PROVE  Good(q)
    <2>1. /\ run'[q] \in {"finish", "over"} /\ pc'[q] \in {pc[q], "done"}
          /\ \/ reply'[q] = o
             \/ reply'[q] = reply[q] /\ pc'[q] = pc[q]
      BY <1>7, <1>t, Zenon DEF Settled
    <2> QED
      BY <2>1, <1>7, <1>a, <1>h, <1>r, <1>y
  <1>8. CASE SettleAnswer(q)
    <2> DEFINE o == [how |-> "Fresh", entry |-> q]
    <2>1. Settled(q, o) /\ UNCHANGED <<arrived, held, stage>> /\ run[q] = "settle"
      BY <1>8, Zenon DEF SettleAnswer, holdVars, flightVars
    <2>2. o.entry = q /\ run'[q] \notin Before
      BY <2>1, <1>g
    <2> HIDE DEF o
    <2> QED
      BY <2>1, <2>2, <1>7, <1>s
  <1>9. CASE FailStale(q)
    <2> DEFINE o == StaleReply(held[q])
    <2>1. Settled(q, o) /\ UNCHANGED <<arrived, held, stage>> /\ held[q] # None
      BY <1>9 DEF FailStale, holdVars, flightVars
    <2>2. o.entry = held[q]
      BY DEF StaleReply
    <2> HIDE DEF o
    <2> QED
      BY <2>1, <2>2, <1>7, <1>g, <1>h
  <1>10. CASE ReturnPlain(q)
    <2> DEFINE o == [how |-> "Plain", entry |-> None]
    <2>1. Settled(q, o) /\ UNCHANGED <<arrived, held, stage>>
      BY <1>10, Zenon DEF ReturnPlain, holdVars, flightVars
    <2>2. o.how \notin {"Fresh", "Stale"}
      OBVIOUS
    <2> HIDE DEF o
    <2> QED
      BY <2>1, <2>2, <1>7, Zenon
  <1>11. CASE FailRemember(q) \/ FailPrefetch(q)
    <2>1. Settled(q, Failed(q)) /\ UNCHANGED <<arrived, held, stage>>
      BY <1>11, Zenon DEF FailRemember, FailPrefetch, holdVars, flightVars
    <2>2. Failed(q).how \notin {"Fresh", "Stale"}
      BY DEF Failed
    <2> QED
      BY <2>1, <2>2, <1>7
  <1>12. CASE DropCall(q)
    <2>1. /\ pc'[q] \in {pc[q], "cancelled"} /\ run'[q] \in {"drop", "over"}
          /\ held'[q] = held[q] /\ arrived'[q] = arrived[q] /\ reply'[q] = reply[q]
      BY <1>12, <1>t, Zenon DEF DropCall, holdVars
    <2>2. stage'[q] = "absent"
      BY <1>12, <1>y, NoFlights, Zenon
    <2> QED
      BY <2>1, <2>2, <1>a, <1>h, <1>r, <1>y
  <1>13. CASE \/ BeginPurge
              \/ \E k \in Keys : SweepShard(k) \/ Evict(k)
              \/ Tick \/ Finished \/ UNCHANGED vars
    <2>1. UNCHANGED <<pc, run, held, arrived, call, reply, stage>>
      BY <1>13 DEF BeginPurge, SweepShard, Evict, Tick, Finished, vars, holdVars, flightVars
    <2> QED
      BY <2>1, <1>u, Zenon
  <1>14. ASSUME QueryStep(q) \/ RunStep(q) \/ CancelWaiting(q) \/ DropCall(q) PROVE Good(q)
    BY <1>14, <1>2, <1>3, <1>4, <1>5, <1>6, <1>8, <1>9, <1>10, <1>11, <1>12, NoFlights, Zenon
  <1> HIDE DEF Good
  <1> QED
    BY <1>1, <1>13, <1>14 DEF Next

(* Without coalescing, a query that arrives after clear_cache or a purge    *)
(* has swept its key is answered from nothing that was fetched before.      *)
THEOREM FlushIsFelt ==
  ASSUME ~Coalesce
  PROVE  Spec => []FlushedAnswersStayGone
  <1>1. Init => Younger
    BY DEF Init, Younger, NoReply
  <1>2. RInv /\ Younger /\ [Next]_vars => Younger'
    BY YoungerStep
  <1>3. Younger => FlushedAnswersStayGone
    BY DEF Younger, FlushedAnswersStayGone
  <1> QED
    BY <1>1, <1>2, <1>3, RInvariant, PTL DEF Spec

-----------------------------------------------------------------------------
(* A failure that a resolution other than a prefetch has settled.           *)
Blames(r) == r.how = "Failure" /\ task[r.entry] # "prefetch"

NoAnswer(k) == cache[k] # None => entry[cache[k]].failure

(* The answer the query holds, if any, is no longer in the store.           *)
LetGo(q) == held[q] # None => cache[KeyOf[q]] # held[q]

(* What a query holds is an answer; a query has no reply before it is       *)
(* answered, and a resolution no outcome before it has settled.             *)
HeldAnswers == \A q \in Queries : held[q] # None => ~entry[held[q]].failure

Unanswered ==
    \A q \in Queries :
        pc[q] \in {"lookup", "join", "wait", "recheck"} => reply[q].how = "None"

Unpublished ==
    \A q \in Queries :
        run[q] \in {"none", "begin", "call", "settle"} => published[q].how = "None"

(* A failure names the query whose call failed.                             *)
Named ==
    \A q \in Queries : /\ reply[q].how = "Failure" => reply[q].entry \in Queries
                       /\ published[q].how = "Failure" => published[q].entry \in Queries

(* While a flight that has failed is still registered the store has no      *)
(* answer, and whoever follows it or was answered by it has let go of it.   *)
FlightLeavesNone ==
    \A p \in Queries : stage[p] = "led" /\ Blames(published[p]) => NoAnswer(KeyOf[p])

FollowersLetGo ==
    \A q \in Queries : following[q] # None /\ Blames(published[following[q]]) => LetGo(q)

FailedLetGo == \A q \in Queries : Blames(reply[q]) => LetGo(q)

(* Whoever follows a flight is waiting for it.                              *)
Waits == \A q \in Queries : following[q] # None => pc[q] \in {"wait", "selfwait"}

ControlInv == Unanswered /\ Unpublished /\ Named /\ Waits

FailInv == HeldAnswers /\ FlightLeavesNone /\ FollowersLetGo /\ FailedLetGo

LEMMA TaskStays ==
  ASSUME RInv, [Next]_vars, NEW x \in Queries, task[x] = "prefetch"
  PROVE  task'[x] = "prefetch"
  <1>t. task \in [Queries -> {"inline", "stale", "prefetch"}] /\ TaskControl
    BY Zenon DEF RInv, IInv, TypeOK
  <1>1. ASSUME NEW q \in Queries, StartPrefetch(q) PROVE task'[x] = "prefetch"
    BY <1>1, <1>t, Zenon DEF StartPrefetch
  <1>2. ASSUME NEW q \in Queries, RecheckMiss(q) PROVE task'[x] = "prefetch"
    <2>1. q # x
      <3>1. pc[q] = "recheck" /\ pc[x] = "done"
        BY <1>2, <1>t, Zenon DEF RecheckMiss, TaskControl
      <3>2. "recheck" # "done"
        OBVIOUS
      <3> QED
        BY <3>1, <3>2, Zenon
    <2>2. task' = task \/ task' = [task EXCEPT ![q] = "stale"]
      BY <1>2, Zenon DEF RecheckMiss
    <2> QED
      BY <1>t, <2>1, <2>2, Zenon
  <1>3. ASSUME NEW q \in Queries, QueryStep(q), ~(StartPrefetch(q) \/ RecheckMiss(q))
        PROVE  UNCHANGED task
    BY <1>3, Zenon DEF QueryStep, LookupHit, LookupMiss, PrefetchNotDue, PrefetchFollows,
       JoinFollow, JoinLead, FollowerDone, FollowerAbandoned, ServeHeld, RecheckHit
  <1>4. ASSUME NEW q \in Queries, RunStep(q) PROVE UNCHANGED task
    BY <1>4, Zenon DEF RunStep, Begin, ReturnAnswer, SettleAnswer, ReturnPlain, FailStale,
       FailRemember, FailPrefetch, FinishGuard, PublishOutcome, AbandonFlight
  <1>5. CASE \/ \E q \in Queries : CancelWaiting(q) \/ DropCall(q)
             \/ BeginPurge
             \/ \E k \in Keys : SweepShard(k) \/ Evict(k)
             \/ Tick \/ Finished \/ UNCHANGED vars
    BY <1>5, Zenon DEF CancelWaiting, DropCall, BeginPurge, SweepShard, Evict, Tick,
       Finished, vars
  <1> QED
    BY <1>1, <1>2, <1>3, <1>4, <1>5, Zenon DEF Next

(* What a caller gets, step by step.                                        *)
LEMMA ReplySteps ==
  ASSUME RInv, [Next]_vars, NEW p \in Queries
  PROVE  \/ reply'[p] = reply[p]
         \/ /\ LookupHit(p) \/ RecheckHit(p)
            /\ reply'[p] = Served(Classify(KeyOf[p])) /\ Classify(KeyOf[p]).kind # "Refresh"
         \/ FollowerDone(p) /\ reply'[p] = published[following[p]]
         \/ FailRemember(p) /\ task[p] = "inline" /\ reply'[p] = Failed(p)
         \/ reply'[p].how \in {"Fresh", "Plain", "Stale"} /\ ~(pc'[p] \in {"lookup", "join", "wait", "recheck"})
  <1>t. /\ reply \in [Queries -> ReplySet] /\ pc \in [Queries -> Pcs] /\ NotYetRunning
    BY Zenon DEF RInv, IInv, TypeOK
  <1> DEFINE Gets == \/ reply'[p] = reply[p]
                     \/ /\ LookupHit(p) \/ RecheckHit(p)
                        /\ reply'[p] = Served(Classify(KeyOf[p])) /\ Classify(KeyOf[p]).kind # "Refresh"
                     \/ FollowerDone(p) /\ reply'[p] = published[following[p]]
                     \/ FailRemember(p) /\ task[p] = "inline" /\ reply'[p] = Failed(p)
                     \/ reply'[p].how \in {"Fresh", "Plain", "Stale"}
                          /\ ~(pc'[p] \in {"lookup", "join", "wait", "recheck"})
  <1>o. ASSUME NEW q \in Queries, NEW r, reply' = [reply EXCEPT ![q] = r]
        PROVE  reply'[p] = reply[p] \/ (p = q /\ reply'[p] = r)
    BY <1>o, <1>t, Zenon
  <1>1. ASSUME NEW q \in Queries, LookupHit(q) \/ RecheckHit(q) PROVE Gets
    <2>1. reply' = [reply EXCEPT ![q] = Served(Classify(KeyOf[q]))] /\ Classify(KeyOf[q]).kind # "Refresh"
      BY <1>1, Zenon DEF LookupHit, RecheckHit
    <2> QED
      BY <1>1, <1>o, <2>1, Zenon
  <1>2. ASSUME NEW q \in Queries, FollowerDone(q) PROVE Gets
    <2>1. reply' = [reply EXCEPT ![q] = published[following[q]]]
      BY <1>2, Zenon DEF FollowerDone, Answered
    <2> QED
      BY <1>2, <1>o, <2>1, Zenon
  <1>3. ASSUME NEW q \in Queries, ServeHeld(q) PROVE Gets
    <2>1. reply' = [reply EXCEPT ![q] = StaleReply(held[q])] /\ pc' = [pc EXCEPT ![q] = "done"]
      BY <1>3, Zenon DEF ServeHeld, Answered
    <2>2. StaleReply(held[q]).how = "Stale"
      BY DEF StaleReply
    <2>3. pc'[q] = "done"
      BY <2>1, <1>t, Zenon
    <2>4. ~(pc'[q] \in {"lookup", "join", "wait", "recheck"})
      BY <2>3
    <2> QED
      BY <1>o, <2>1, <2>2, <2>4, Zenon
  <1>4. ASSUME NEW q \in Queries, QueryStep(q),
               ~(LookupHit(q) \/ RecheckHit(q) \/ FollowerDone(q) \/ ServeHeld(q))
        PROVE  UNCHANGED reply
    BY <1>4, Zenon DEF QueryStep, LookupMiss, PrefetchNotDue, StartPrefetch, PrefetchFollows,
       JoinFollow, JoinLead, FollowerAbandoned, RecheckMiss
  <1>5. ASSUME NEW q \in Queries, NEW o, Settled(q, o), run[q] \in {"call", "settle"},
               \/ o.how \in {"Fresh", "Plain", "Stale"}
               \/ FailRemember(q) /\ o = Failed(q)
               \/ task[q] = "prefetch"
        PROVE  Gets
    <2>1. reply' = [reply EXCEPT ![q] = IF task[q] = "inline" THEN o ELSE @]
      BY <1>5, Zenon DEF Settled
    <2>2. task[q] # "inline" => reply' = reply
      BY <2>1, <1>t, Zenon
    <2>3. task[q] = "inline" => reply' = [reply EXCEPT ![q] = o]
      BY <2>1
    <2>4. ~(pc[q] \in {"lookup", "join", "wait", "recheck"})
      BY <1>5, <1>t DEF NotYetRunning
    <2>5. pc'[q] = "done" \/ pc'[q] = pc[q]
      BY <1>5, <1>t, Zenon DEF Settled
    <2>6. ~(pc'[q] \in {"lookup", "join", "wait", "recheck"})
      BY <2>4, <2>5
    <2>7. "prefetch" # "inline"
      OBVIOUS
    <2> QED
      BY <1>5, <1>o, <2>2, <2>3, <2>6, <2>7, Zenon
  <1>6. ASSUME NEW q \in Queries, RunStep(q) PROVE Gets
    <2>1. CASE SettleAnswer(q)
      BY <2>1, <1>5 DEF SettleAnswer
    <2>2. CASE ReturnPlain(q)
      BY <2>2, <1>5 DEF ReturnPlain
    <2>3. CASE FailStale(q)
      BY <2>3, <1>5 DEF FailStale, StaleReply
    <2>4. CASE FailRemember(q)
      <3>1. Settled(q, Failed(q)) /\ run[q] = "call"
        BY <2>4, Zenon DEF FailRemember
      <3> QED
        BY <2>4, <3>1, <1>5, Zenon
    <2>5. CASE FailPrefetch(q)
      <3>1. Settled(q, Failed(q)) /\ run[q] = "call" /\ task[q] = "prefetch"
        BY <2>5, Zenon DEF FailPrefetch
      <3> QED
        BY <3>1, <1>5, Zenon
    <2>6. CASE Begin(q) \/ ReturnAnswer(q) \/ FinishGuard(q) \/ PublishOutcome(q) \/ AbandonFlight(q)
      BY <2>6, Zenon DEF Begin, ReturnAnswer, FinishGuard, PublishOutcome, AbandonFlight
    <2> QED
      BY <1>6, <2>1, <2>2, <2>3, <2>4, <2>5, <2>6, Zenon DEF RunStep
  <1>7. CASE \/ \E q \in Queries : CancelWaiting(q) \/ DropCall(q)
             \/ BeginPurge
             \/ \E k \in Keys : SweepShard(k) \/ Evict(k)
             \/ Tick \/ Finished \/ UNCHANGED vars
    BY <1>7, Zenon DEF CancelWaiting, DropCall, BeginPurge, SweepShard, Evict, Tick,
       Finished, vars
  <1> QED
    BY <1>1, <1>2, <1>3, <1>4, <1>6, <1>7, Zenon DEF Next

(* What a resolution hands to its followers, step by step.                  *)
LEMMA PublishedSteps ==
  ASSUME RInv, [Next]_vars, NEW p \in Queries
  PROVE  \/ published'[p] = published[p]
         \/ /\ RecheckHit(p) /\ published'[p] = Served(Classify(KeyOf[p]))
            /\ run'[p] = "finish"
         \/ /\ FailRemember(p) \/ FailPrefetch(p)
            /\ published'[p] = Failed(p) /\ run'[p] \in {"finish", "over"}
         \/ /\ published'[p].how \in {"Fresh", "Plain", "Stale"}
            /\ run'[p] \in {"finish", "over"}
  <1>t. published \in [Queries -> ReplySet] /\ run \in [Queries -> Runs]
    BY Zenon DEF RInv, IInv, TypeOK
  <1> DEFINE Gives == \/ published'[p] = published[p]
                      \/ /\ RecheckHit(p) /\ published'[p] = Served(Classify(KeyOf[p]))
                         /\ run'[p] = "finish"
                      \/ /\ FailRemember(p) \/ FailPrefetch(p)
                         /\ published'[p] = Failed(p) /\ run'[p] \in {"finish", "over"}
                      \/ /\ published'[p].how \in {"Fresh", "Plain", "Stale"}
                         /\ run'[p] \in {"finish", "over"}
  <1>o. ASSUME NEW q \in Queries, NEW r, published' = [published EXCEPT ![q] = r]
        PROVE  published'[p] = published[p] \/ (p = q /\ published'[p] = r)
    BY <1>o, <1>t, Zenon
  <1>1. ASSUME NEW q \in Queries, RecheckHit(q) PROVE Gives
    <2>1. /\ published' = [published EXCEPT ![q] = Served(Classify(KeyOf[q]))]
          /\ run' = [run EXCEPT ![q] = "finish"]
      BY <1>1, Zenon DEF RecheckHit
    <2>2. run'[q] = "finish"
      BY <2>1, <1>t, Zenon
    <2> QED
      BY <1>1, <1>o, <2>1, <2>2, Zenon
  <1>2. ASSUME NEW q \in Queries, QueryStep(q), ~RecheckHit(q) PROVE UNCHANGED published
    BY <1>2, Zenon DEF QueryStep, LookupHit, LookupMiss, PrefetchNotDue, StartPrefetch,
       PrefetchFollows, JoinFollow, JoinLead, FollowerDone, FollowerAbandoned, ServeHeld,
       RecheckMiss
  <1>3. ASSUME NEW q \in Queries, NEW o, Settled(q, o),
               \/ o.how \in {"Fresh", "Plain", "Stale"}
               \/ (FailRemember(q) \/ FailPrefetch(q)) /\ o = Failed(q)
        PROVE  Gives
    <2>1. published' = [published EXCEPT ![q] = o]
      BY <1>3, Zenon DEF Settled
    <2>2. run'[q] = "finish" \/ run'[q] = "over"
      BY <1>3, <1>t, Zenon DEF Settled
    <2>3. run'[q] \in {"finish", "over"}
      BY <2>2
    <2> QED
      BY <1>3, <1>o, <2>1, <2>3, Zenon
  <1>4. ASSUME NEW q \in Queries, RunStep(q) PROVE Gives
    <2>1. CASE SettleAnswer(q)
      BY <2>1, <1>3 DEF SettleAnswer
    <2>2. CASE ReturnPlain(q)
      BY <2>2, <1>3 DEF ReturnPlain
    <2>3. CASE FailStale(q)
      BY <2>3, <1>3 DEF FailStale, StaleReply
    <2>4. CASE FailRemember(q) \/ FailPrefetch(q)
      <3>1. Settled(q, Failed(q))
        BY <2>4, Zenon DEF FailRemember, FailPrefetch
      <3> QED
        BY <2>4, <3>1, <1>3, Zenon
    <2>5. CASE Begin(q) \/ ReturnAnswer(q) \/ FinishGuard(q) \/ PublishOutcome(q) \/ AbandonFlight(q)
      BY <2>5, Zenon DEF Begin, ReturnAnswer, FinishGuard, PublishOutcome, AbandonFlight
    <2> QED
      BY <1>4, <2>1, <2>2, <2>3, <2>4, <2>5, Zenon DEF RunStep
  <1>5. CASE \/ \E q \in Queries : CancelWaiting(q) \/ DropCall(q)
             \/ BeginPurge
             \/ \E k \in Keys : SweepShard(k) \/ Evict(k)
             \/ Tick \/ Finished \/ UNCHANGED vars
    BY <1>5, Zenon DEF CancelWaiting, DropCall, BeginPurge, SweepShard, Evict, Tick,
       Finished, vars
  <1> QED
    BY <1>1, <1>2, <1>4, <1>5, Zenon DEF Next

(* Nobody goes back to before the answer or the outcome it has got.         *)
LEMMA NoWayBack ==
  ASSUME RInv, [Next]_vars, NEW p \in Queries
  PROVE  /\ pc'[p] \in {"lookup", "join", "wait", "recheck"} =>
              pc[p] \in {"lookup", "join", "wait", "recheck"}
         /\ run'[p] \in {"none", "begin", "call", "settle"} =>
              run[p] \in {"none", "begin", "call", "settle"}
  <1>t. pc \in [Queries -> Pcs] /\ run \in [Queries -> Runs] /\ NotYetRunning
    BY Zenon DEF RInv, IInv, TypeOK
  <1> DEFINE Early(s) == s \in {"lookup", "join", "wait", "recheck"}
             Open(s) == s \in {"none", "begin", "call", "settle"}
             OnlyOn == (Early(pc'[p]) => Early(pc[p])) /\ (Open(run'[p]) => Open(run[p]))
  <1>p. ASSUME NEW q \in Queries, NEW s, pc' = [pc EXCEPT ![q] = s], Early(s) => Early(pc[q])
        PROVE  Early(pc'[p]) => Early(pc[p])
    <2>1. pc'[p] = pc[p] \/ (p = q /\ pc'[p] = s)
      BY <1>p, <1>t, Zenon
    <2> HIDE DEF Early
    <2> QED
      BY <1>p, <2>1, Zenon
  <1>r. ASSUME NEW q \in Queries, NEW s, run' = [run EXCEPT ![q] = s], Open(s) => Open(run[q])
        PROVE  Open(run'[p]) => Open(run[p])
    <2>1. run'[p] = run[p] \/ (p = q /\ run'[p] = s)
      BY <1>r, <1>t, Zenon
    <2> HIDE DEF Open
    <2> QED
      BY <1>r, <2>1, Zenon
  <1>s. /\ Early("lookup") /\ Early("join") /\ Early("wait") /\ Early("recheck")
        /\ ~Early("prefetch") /\ ~Early("run") /\ ~Early("done") /\ ~Early("selfwait")
        /\ ~Early("cancelled")
        /\ Open("none") /\ Open("begin") /\ Open("call") /\ Open("settle")
        /\ ~Open("finish") /\ ~Open("publish") /\ ~Open("drop") /\ ~Open("over")
    OBVIOUS
  <1>n. \A q \in Queries : pc[q] \in {"lookup", "prefetch", "recheck"} => Open(run[q])
    BY <1>t DEF NotYetRunning
  <1>u. /\ UNCHANGED pc => (Early(pc'[p]) => Early(pc[p]))
        /\ UNCHANGED run => (Open(run'[p]) => Open(run[p]))
    OBVIOUS
  <1>m. ASSUME NEW q \in Queries, NEW C, NEW s, pc' = [pc EXCEPT ![q] = IF C THEN s ELSE @], ~Early(s)
        PROVE  Early(pc'[p]) => Early(pc[p])
    <2>1. pc'[p] = pc[p] \/ pc'[p] = s
      BY <1>m, <1>t, Zenon
    <2> HIDE DEF Early
    <2> QED
      BY <1>m, <2>1, Zenon
  <1> HIDE DEF Early, Open
  <1>1. ASSUME NEW q \in Queries, QueryStep(q) PROVE OnlyOn
    <2>1. CASE LookupHit(q) \/ PrefetchNotDue(q) \/ PrefetchFollows(q)
      BY <2>1, <1>p, <1>u, <1>s, Zenon DEF LookupHit, PrefetchNotDue, PrefetchFollows
    <2>2. CASE LookupMiss(q)
      <3>1. pc[q] = "lookup" /\ Open(run[q])
        BY <2>2, <1>n DEF LookupMiss
      <3> DEFINE s == IF Coalesce THEN "join" ELSE "run"
                 t == IF Coalesce THEN "none" ELSE "begin"
      <3>2. pc' = [pc EXCEPT ![q] = s] /\ run' = [run EXCEPT ![q] = t]
        BY <2>2, Zenon DEF LookupMiss
      <3> HIDE DEF s, t
      <3> QED
        BY <3>1, <3>2, <1>p, <1>r, <1>s, Zenon
    <2>3. CASE StartPrefetch(q)
      <3>1. pc[q] = "prefetch" /\ Open(run[q])
        BY <2>3, <1>n DEF StartPrefetch
      <3>2. pc' = [pc EXCEPT ![q] = "done"] /\ run' = [run EXCEPT ![q] = "begin"]
        BY <2>3, Zenon DEF StartPrefetch
      <3> QED
        BY <3>1, <3>2, <1>p, <1>r, <1>s, Zenon
    <2>4. CASE JoinFollow(q) \/ JoinLead(q) \/ FollowerAbandoned(q)
      BY <2>4, <1>p, <1>u, <1>s, Zenon DEF JoinFollow, JoinLead, FollowerAbandoned
    <2>5. CASE FollowerDone(q) \/ ServeHeld(q)
      BY <2>5, <1>p, <1>u, <1>s, Zenon DEF FollowerDone, ServeHeld, Answered
    <2>6. CASE RecheckHit(q)
      BY <2>6, <1>p, <1>r, <1>s, Zenon DEF RecheckHit
    <2>7. CASE RecheckMiss(q)
      <3>1. pc[q] = "recheck" /\ Open(run[q])
        BY <2>7, <1>n DEF RecheckMiss
      <3>2. /\ pc' = [pc EXCEPT ![q] = "selfwait"] \/ pc' = [pc EXCEPT ![q] = "run"]
            /\ run' = [run EXCEPT ![q] = "begin"]
        BY <2>7, Zenon DEF RecheckMiss
      <3> QED
        BY <3>1, <3>2, <1>p, <1>r, <1>s, Zenon
    <2> QED
      BY <1>1, <2>1, <2>2, <2>3, <2>4, <2>5, <2>6, <2>7, Zenon DEF QueryStep
  <1>2. ASSUME NEW q \in Queries, RunStep(q) PROVE OnlyOn
    <2>1. CASE Begin(q) \/ ReturnAnswer(q) \/ FinishGuard(q) \/ AbandonFlight(q)
      BY <2>1, <1>r, <1>u, <1>s, Zenon DEF Begin, ReturnAnswer, FinishGuard, AbandonFlight
    <2>2. CASE PublishOutcome(q)
      <3>1. /\ run' = [run EXCEPT ![q] = "over"]
            /\ pc' = [pc EXCEPT ![q] = IF @ = "run" THEN "done" ELSE @]
        BY <2>2, Zenon DEF PublishOutcome
      <3>2. pc'[p] = pc[p] \/ pc'[p] = "done"
        BY <3>1, <1>t, Zenon
      <3> QED
        BY <3>1, <3>2, <1>r, <1>s, Zenon
    <2>3. CASE SettleAnswer(q) \/ ReturnPlain(q) \/ FailStale(q) \/ FailRemember(q)
               \/ FailPrefetch(q)
      <3>1. \E o : Settled(q, o)
        BY <2>3, Zenon DEF SettleAnswer, ReturnPlain, FailStale, FailRemember, FailPrefetch
      <3> DEFINE t == IF stage[q] = "led" THEN "finish" ELSE "over"
                 C == task[q] = "inline" /\ stage[q] # "led"
      <3>2. run' = [run EXCEPT ![q] = t] /\ pc' = [pc EXCEPT ![q] = IF C THEN "done" ELSE @]
        BY <3>1, Zenon DEF Settled
      <3> HIDE DEF C
      <3>3. Early(pc'[p]) => Early(pc[p])
        BY <3>2, <1>m, <1>s, Zenon
      <3>4. ~Open(t)
        BY <1>s, Zenon
      <3> HIDE DEF t
      <3> QED
        BY <3>2, <3>3, <3>4, <1>r, Zenon
    <2> QED
      BY <1>2, <2>1, <2>2, <2>3, Zenon DEF RunStep
  <1>3. ASSUME NEW q \in Queries, CancelWaiting(q) PROVE OnlyOn
    BY <1>3, <1>p, <1>u, <1>s, Zenon DEF CancelWaiting
  <1>4. ASSUME NEW q \in Queries, DropCall(q) PROVE OnlyOn
    <2>1. /\ pc' = [pc EXCEPT ![q] = IF task[q] = "inline" THEN "cancelled" ELSE @]
          /\ run' = [run EXCEPT ![q] = "drop"] \/ run' = [run EXCEPT ![q] = "over"]
      BY <1>4, Zenon DEF DropCall
    <2>2. pc'[p] = pc[p] \/ pc'[p] = "cancelled"
      BY <2>1, <1>t, Zenon
    <2> QED
      BY <2>1, <2>2, <1>r, <1>s, Zenon
  <1>5. ASSUME \/ BeginPurge
               \/ \E k \in Keys : SweepShard(k) \/ Evict(k)
               \/ Tick \/ Finished \/ UNCHANGED vars
        PROVE  OnlyOn
    BY <1>5, <1>u, Zenon DEF BeginPurge, SweepShard, Evict, Tick, Finished, vars
  <1>6. OnlyOn
    <2> HIDE DEF OnlyOn
    <2> QED
      BY <1>1, <1>2, <1>3, <1>4, <1>5, Zenon DEF Next
  <1> QED
    BY <1>6 DEF Early, Open

(* A query takes hold of an entry at its lookup or its re-check, and of an  *)
(* answer.                                                                  *)
LEMMA TakesHold ==
  ASSUME RInv, [Next]_vars, NEW p \in Queries
  PROVE  \/ held'[p] = held[p]
         \/ /\ pc[p] \in {"lookup", "recheck"}
            /\ held'[p] # None => /\ held'[p] \in Queries /\ ~entry[held'[p]].failure
                                  /\ UNCHANGED entry
  <1>t. held \in [Queries -> Entries] /\ TypeOK /\ KeyOf[p] \in Keys
    BY KeyAssumption, Zenon DEF RInv, IInv, TypeOK
  <1>c. ASSUME Classify(KeyOf[p]).stale # None
        PROVE  /\ Classify(KeyOf[p]).stale \in Queries
               /\ ~entry[Classify(KeyOf[p]).stale].failure
    <2>1. Classify(KeyOf[p]).stale \in Entries
      BY <1>t, ClassifyTypes, Zenon
    <2>2. ~entry[Classify(KeyOf[p]).stale].failure
      BY <1>c DEF Classify, Refresh, Hit
    <2> QED
      BY <1>c, <2>1, <2>2 DEF Entries
  <1>1. ASSUME NEW q \in Queries, LookupMiss(q) \/ RecheckMiss(q)
        PROVE  \/ held'[p] = held[p]
               \/ /\ pc[p] \in {"lookup", "recheck"} /\ UNCHANGED entry
                  /\ held'[p] = Classify(KeyOf[p]).stale
    <2>1. /\ held' = [held EXCEPT ![q] = Classify(KeyOf[q]).stale]
          /\ pc[q] = "lookup" \/ pc[q] = "recheck"
          /\ entry' = entry
      BY <1>1, Zenon DEF LookupMiss, RecheckMiss
    <2>2. held'[p] = held[p] \/ (p = q /\ held'[p] = Classify(KeyOf[p]).stale)
      BY <1>t, <2>1, Zenon
    <2>3. pc[q] \in {"lookup", "recheck"}
      BY <2>1
    <2> QED
      BY <2>1, <2>2, <2>3, Zenon
  <1>2. ASSUME NEW q \in Queries, QueryStep(q), ~(LookupMiss(q) \/ RecheckMiss(q))
        PROVE  UNCHANGED held
    BY <1>2, Zenon DEF QueryStep, LookupHit, PrefetchNotDue, StartPrefetch, PrefetchFollows,
       JoinFollow, JoinLead, FollowerDone, FollowerAbandoned, ServeHeld, RecheckHit, holdVars
  <1>3. ASSUME NEW q \in Queries, RunStep(q) PROVE UNCHANGED held
    BY <1>3, Zenon DEF RunStep, Begin, ReturnAnswer, SettleAnswer, ReturnPlain, FailStale,
       FailRemember, FailPrefetch, FinishGuard, PublishOutcome, AbandonFlight, holdVars
  <1>4. ASSUME \/ \E q \in Queries : CancelWaiting(q) \/ DropCall(q)
               \/ BeginPurge
               \/ \E k \in Keys : SweepShard(k) \/ Evict(k)
               \/ Tick \/ Finished \/ UNCHANGED vars
        PROVE  UNCHANGED held
    BY <1>4, Zenon DEF CancelWaiting, DropCall, BeginPurge, SweepShard, Evict, Tick,
       Finished, vars, holdVars
  <1>5. \/ held' = held
        \/ \E q \in Queries : LookupMiss(q) \/ RecheckMiss(q)
    BY <1>2, <1>3, <1>4, Zenon DEF Next
  <1> QED
    BY <1>1, <1>5, <1>c, Zenon

(* A query follows a flight that is led when it subscribes, and waits.      *)
LEMMA FollowSteps ==
  ASSUME RInv, FP!IInv, [Next]_vars, NEW p \in Queries, following'[p] # None
  PROVE  \/ /\ following'[p] = following[p]
            /\ pc[p] \in {"wait", "selfwait"} => pc'[p] \in {"wait", "selfwait"}
         \/ /\ pc'[p] \in {"wait", "selfwait"}
            /\ following'[p] \in Queries /\ stage'[following'[p]] = "led"
  <1>t. /\ pc \in [Queries -> Pcs] /\ following \in [Queries -> Queries \cup {None}]
        /\ NotYetRunning /\ TaskControl /\ KeyOf[p] \in Keys /\ HashOf[KeyOf[p]] \in Hashes
        /\ registry \in [Hashes -> Queries \cup {None}] /\ FP!RegistrySound
    BY KeyAssumption, Zenon DEF RInv, IInv, TypeOK, F!TypeOK, FP!IInv
  <1> DEFINE Waiting(s) == s \in {"wait", "selfwait"}
             Stays == following'[p] = following[p] /\ (Waiting(pc[p]) => Waiting(pc'[p]))
             Joins == /\ Waiting(pc'[p])
                      /\ following'[p] \in Queries /\ stage'[following'[p]] = "led"
  <1>s. Waiting("wait") /\ Waiting("selfwait")
    OBVIOUS
  <1>w. \A q \in Queries : pc[q] \in {"lookup", "prefetch", "join", "recheck"} => ~Waiting(pc[q])
    OBVIOUS
  <1>r. \A q \in Queries : run[q] # "none" /\ Waiting(pc[q]) => pc[q] = "selfwait" /\ task[q] # "inline"
    BY <1>t DEF NotYetRunning, TaskControl
  <1>o. ASSUME NEW q \in Queries, NEW s, pc' = [pc EXCEPT ![q] = s], ~Waiting(pc[q])
        PROVE  Waiting(pc[p]) => Waiting(pc'[p])
    <2>1. p = q \/ pc'[p] = pc[p]
      BY <1>o, <1>t, Zenon
    <2> HIDE DEF Waiting
    <2> QED
      BY <1>o, <2>1, Zenon
  <1>u. ASSUME NEW q \in Queries, NEW s, pc' = [pc EXCEPT ![q] = s],
               following' = [following EXCEPT ![q] = None]
        PROVE  Stays
    <2>1. p # q
      BY <1>u, <1>t, Zenon
    <2>2. following'[p] = following[p] /\ pc'[p] = pc[p]
      BY <1>u, <2>1, <1>t, Zenon
    <2> HIDE DEF Waiting
    <2> QED
      BY <2>2, Zenon
  <1> HIDE DEF Waiting
  <1>1. ASSUME NEW q \in Queries, JoinFollow(q) PROVE Stays \/ Joins
    <2> DEFINE f == registry[HashOf[KeyOf[q]]]
    <2>1. /\ following' = [following EXCEPT ![q] = f] /\ f # None /\ stage' = stage
          /\ pc' = [pc EXCEPT ![q] = "wait"] /\ pc[q] = "join"
      BY <1>1, Zenon DEF JoinFollow, F!Follow
    <2>2. CASE p = q
      <3>1. f \in Queries /\ stage[f] = "led"
        <4>1. KeyOf[q] \in Keys /\ HashOf[KeyOf[q]] \in Hashes /\ f \in Queries \cup {None}
          BY <1>t, KeyAssumption DEF TypeOK
        <4> QED
          BY <2>1, <1>t, <4>1, Zenon DEF FP!RegistrySound
      <3>2. pc'[p] = "wait" /\ following'[p] = f
        BY <2>1, <2>2, <1>t, Zenon
      <3> QED
        BY <2>1, <3>1, <3>2, <1>s, Zenon
    <2>3. CASE p # q
      <3>1. pc'[p] = pc[p] /\ following'[p] = following[p]
        BY <2>1, <2>3, <1>t, Zenon
      <3> QED
        BY <3>1, Zenon
    <2> QED
      BY <2>2, <2>3
  <1>2. ASSUME NEW q \in Queries, RecheckMiss(q) PROVE Stays \/ Joins
    <2>0. pc[q] = "recheck" /\ ~Waiting(pc[q])
      <3>1. pc[q] = "recheck"
        BY <1>2, Zenon DEF RecheckMiss
      <3>2. pc[q] \in {"lookup", "prefetch", "join", "recheck"}
        BY <3>1
      <3> QED
        BY <3>1, <3>2, <1>w, Zenon
    <2>1. CASE F!Handover(q) /\ pc' = [pc EXCEPT ![q] = "selfwait"]
      <3>1. following' = [following EXCEPT ![q] = q] /\ stage' = stage /\ stage[q] = "led"
        BY <2>1, Zenon DEF F!Handover
      <3>2. CASE p = q
        <4>1. pc'[p] = "selfwait" /\ following'[p] = p
          BY <2>1, <3>1, <3>2, <1>t, Zenon
        <4> QED
          BY <3>1, <3>2, <4>1, <1>s, Zenon
      <3>3. CASE p # q
        <4>1. pc'[p] = pc[p] /\ following'[p] = following[p]
          BY <2>1, <3>1, <3>3, <1>t, Zenon
        <4> QED
          BY <4>1, Zenon
      <3> QED
        BY <3>2, <3>3
    <2>2. CASE following' = following /\ pc' = [pc EXCEPT ![q] = "run"]
      BY <2>0, <2>2, <1>o, Zenon
    <2> QED
      BY <1>2, <2>1, <2>2, Zenon DEF RecheckMiss, flightVars
  <1>3. ASSUME NEW q \in Queries, QueryStep(q), ~(JoinFollow(q) \/ RecheckMiss(q)) PROVE Stays
    <2>1. CASE FollowerDone(q) \/ FollowerAbandoned(q) \/ ServeHeld(q)
      <3>1. following' = [following EXCEPT ![q] = None] /\ \E s : pc' = [pc EXCEPT ![q] = s]
        BY <2>1, Zenon DEF FollowerDone, FollowerAbandoned, ServeHeld, Answered, F!Wake,
           F!Leave, F!Unsubscribe
      <3> QED
        BY <3>1, <1>u, Zenon
    <2>2. CASE LookupHit(q) \/ LookupMiss(q) \/ PrefetchNotDue(q) \/ StartPrefetch(q)
               \/ PrefetchFollows(q) \/ JoinLead(q) \/ RecheckHit(q)
      <3>1. pc[q] = "lookup" \/ pc[q] = "prefetch" \/ pc[q] = "join" \/ pc[q] = "recheck"
        BY <2>2, Zenon DEF LookupHit, LookupMiss, PrefetchNotDue, StartPrefetch,
           PrefetchFollows, JoinLead, RecheckHit
      <3>2. ~Waiting(pc[q])
        <4>1. pc[q] \in {"lookup", "prefetch", "join", "recheck"}
          BY <3>1
        <4> QED
          BY <4>1, <1>w, Zenon
      <3>3. following' = following
        BY <2>2, Zenon DEF LookupHit, LookupMiss, PrefetchNotDue, StartPrefetch,
           PrefetchFollows, JoinLead, RecheckHit, F!LeadPrivate, F!LeadRegistered, flightVars
      <3>4. \E s : pc' = [pc EXCEPT ![q] = s]
        BY <2>2, Zenon DEF LookupHit, LookupMiss, PrefetchNotDue, StartPrefetch,
           PrefetchFollows, JoinLead, RecheckHit
      <3> QED
        BY <3>2, <3>3, <3>4, <1>o, Zenon
    <2> QED
      BY <1>3, <2>1, <2>2, Zenon DEF QueryStep
  <1>4. ASSUME NEW q \in Queries, RunStep(q) PROVE Stays
    <2>0. following' = following
      BY <1>4, Zenon DEF RunStep, Begin, ReturnAnswer, SettleAnswer, ReturnPlain, FailStale,
         FailRemember, FailPrefetch, FinishGuard, PublishOutcome, AbandonFlight, F!Finish,
         F!Publish, F!Abandon, flightVars
    <2>1. CASE Begin(q) \/ ReturnAnswer(q) \/ FinishGuard(q) \/ AbandonFlight(q)
      <3>1. pc' = pc
        BY <2>1, Zenon DEF Begin, ReturnAnswer, FinishGuard, AbandonFlight
      <3> QED
        BY <2>0, <3>1, Zenon
    <2>2. CASE PublishOutcome(q)
      <3>1. pc'[p] = pc[p] \/ pc[p] = "run"
        BY <2>2, <1>t, Zenon DEF PublishOutcome
      <3>2. pc'[p] = pc[p] \/ ~Waiting(pc[p])
        BY <3>1 DEF Waiting
      <3> QED
        BY <2>0, <3>2, Zenon
    <2>3. CASE SettleAnswer(q) \/ ReturnPlain(q) \/ FailStale(q) \/ FailRemember(q)
               \/ FailPrefetch(q)
      <3>1. /\ \E o : Settled(q, o)
            /\ run[q] = "call" \/ run[q] = "settle"
        BY <2>3, Zenon DEF SettleAnswer, ReturnPlain, FailStale, FailRemember, FailPrefetch
      <3>2. pc'[p] = pc[p] \/ (p = q /\ task[q] = "inline")
        BY <3>1, <1>t, Zenon DEF Settled
      <3>3. run[q] # "none"
        BY <3>1
      <3> QED
        BY <2>0, <3>2, <3>3, <1>r, Zenon
    <2> QED
      BY <1>4, <2>1, <2>2, <2>3, Zenon DEF RunStep
  <1>5. ASSUME NEW q \in Queries, CancelWaiting(q) PROVE Stays
    BY <1>5, <1>u, Zenon DEF CancelWaiting, F!Unsubscribe
  <1>6. ASSUME NEW q \in Queries, DropCall(q) PROVE Stays
    <2>1. /\ pc' = [pc EXCEPT ![q] = IF task[q] = "inline" THEN "cancelled" ELSE @]
          /\ following' = following /\ run[q] = "call"
      BY <1>6, Zenon DEF DropCall, F!Drop, flightVars
    <2>2. pc'[p] = pc[p] \/ (p = q /\ task[q] = "inline")
      BY <2>1, <1>t, Zenon
    <2>3. run[q] # "none"
      BY <2>1
    <2> QED
      BY <2>1, <2>2, <2>3, <1>r, Zenon
  <1>7. ASSUME \/ BeginPurge
               \/ \E k \in Keys : SweepShard(k) \/ Evict(k)
               \/ Tick \/ Finished \/ UNCHANGED vars
        PROVE  Stays
    <2>1. pc' = pc /\ following' = following
      BY <1>7, Zenon DEF BeginPurge, SweepShard, Evict, Tick, Finished, vars, flightVars
    <2> QED
      BY <2>1, Zenon
  <1>8. Stays \/ Joins
    <2> HIDE DEF Stays, Joins
    <2> QED
      BY <1>1, <1>2, <1>3, <1>4, <1>5, <1>6, <1>7, Zenon DEF Next
  <1> QED
    BY <1>8 DEF Waiting

(* A flight is led before its leader has an outcome.                        *)
LEMMA LeadSteps ==
  ASSUME RInv, [Next]_vars, NEW p \in Queries, stage'[p] = "led", stage[p] # "led"
  PROVE  run'[p] \in {"none", "begin"}
  <1>t. /\ run \in [Queries -> Runs] /\ stage \in [Queries -> F!Stages] /\ NotYetRunning
    BY Zenon DEF RInv, IInv, TypeOK, F!TypeOK
  <1>s. "finishing" # "led" /\ "closed" # "led" /\ "dropping" # "led"
    OBVIOUS
  <1>k. stage' # stage
    BY Zenon
  <1>1. ASSUME NEW q \in Queries, QueryStep(q) PROVE run'[p] \in {"none", "begin"}
    <2>1. CASE StartPrefetch(q)
      <3>1. stage' = [stage EXCEPT ![q] = "led"] /\ run' = [run EXCEPT ![q] = "begin"]
        BY <2>1, <1>k, Zenon DEF StartPrefetch, F!LeadPrivate, F!LeadRegistered, flightVars
      <3>2. p = q
        BY <3>1, <1>t, Zenon
      <3>3. run'[p] = "begin"
        BY <3>1, <3>2, <1>t, Zenon
      <3> QED
        BY <3>3
    <2>2. CASE JoinLead(q)
      <3>1. stage' = [stage EXCEPT ![q] = "led"] /\ run' = run /\ pc[q] = "join"
        BY <2>2, Zenon DEF JoinLead, F!LeadPrivate, F!LeadRegistered
      <3>2. p = q
        BY <3>1, <1>t, Zenon
      <3>3. run[q] = "none"
        BY <3>1, <1>t DEF NotYetRunning
      <3> QED
        BY <3>1, <3>2, <3>3
    <2>3. CASE ~(StartPrefetch(q) \/ JoinLead(q))
      <3>1. UNCHANGED stage
        BY <1>1, <2>3, Zenon DEF QueryStep, LookupHit, LookupMiss, PrefetchNotDue,
           PrefetchFollows, JoinFollow, FollowerDone, FollowerAbandoned, ServeHeld,
           RecheckHit, RecheckMiss, F!Follow, F!Wake, F!Leave, F!Unsubscribe, F!Handover,
           flightVars
      <3> QED
        BY <3>1, <1>k
    <2> QED
      BY <2>1, <2>2, <2>3
  <1>2. ASSUME NEW q \in Queries, NEW s, stage' = [stage EXCEPT ![q] = s], s # "led" PROVE FALSE
    BY <1>2, <1>t, Zenon
  <1>3. ASSUME NEW q \in Queries, RunStep(q) PROVE FALSE
    BY <1>3, <1>2, <1>s, <1>k, Zenon DEF RunStep, Begin, ReturnAnswer, SettleAnswer,
       ReturnPlain, FailStale, FailRemember, FailPrefetch, FinishGuard, PublishOutcome,
       AbandonFlight, F!Finish, F!Publish, F!Abandon, flightVars
  <1>4. ASSUME NEW q \in Queries, CancelWaiting(q) \/ DropCall(q) PROVE FALSE
    BY <1>4, <1>2, <1>s, <1>k, Zenon DEF CancelWaiting, DropCall, F!Unsubscribe, F!Drop,
       flightVars
  <1>5. ASSUME \/ BeginPurge
               \/ \E k \in Keys : SweepShard(k) \/ Evict(k)
               \/ Tick \/ Finished \/ UNCHANGED vars
        PROVE  FALSE
    BY <1>5, <1>k, Zenon DEF BeginPurge, SweepShard, Evict, Tick, Finished, vars, flightVars
  <1> QED
    BY <1>1, <1>3, <1>4, <1>5, Zenon DEF Next

LEMMA OutcomeStep == RInv /\ FP!IInv /\ ControlInv /\ [Next]_vars => ControlInv'
  <1> SUFFICES ASSUME RInv, FP!IInv, ControlInv, [Next]_vars PROVE ControlInv'
    OBVIOUS
  <1> DEFINE Early(s) == s \in {"lookup", "join", "wait", "recheck"}
             Open(s) == s \in {"none", "begin", "call", "settle"}
  <1>t. /\ pc \in [Queries -> Pcs] /\ run \in [Queries -> Runs] /\ NotYetRunning
        /\ following \in [Queries -> Queries \cup {None}] /\ TypeOK /\ None \notin Queries
        /\ Unanswered /\ Unpublished /\ Named /\ Waits
    BY NoneAssumption, Zenon DEF RInv, IInv, TypeOK, F!TypeOK, ControlInv
  <1>1. ASSUME NEW q \in Queries, Early(pc'[q]) PROVE reply'[q].how = "None"
    <2>1. Early(pc[q]) /\ reply[q].how = "None" /\ run[q] = "none"
      <3>1. Early(pc[q])
        BY <1>1, NoWayBack
      <3> QED
        BY <3>1, <1>t DEF Unanswered, NotYetRunning
    <2>2. ~LookupHit(q) /\ ~RecheckHit(q) /\ ~FollowerDone(q)
      <3>1. LookupHit(q) \/ RecheckHit(q) \/ FollowerDone(q)
              => pc'[q] = "prefetch" \/ pc'[q] = "done" \/ pc'[q] = "run"
        BY <1>t, Zenon DEF LookupHit, RecheckHit, FollowerDone, Answered
      <3>2. ~(pc'[q] = "prefetch" \/ pc'[q] = "done" \/ pc'[q] = "run")
        BY <1>1
      <3> QED
        BY <3>1, <3>2, Zenon
    <2>3. ~FailRemember(q)
      BY <2>1 DEF FailRemember
    <2>4. reply'[q] = reply[q]
      <3> HIDE DEF Early
      <3> QED
        BY <1>1, <2>2, <2>3, ReplySteps, Zenon DEF Early
    <2> QED
      BY <2>1, <2>4
  <1>2. ASSUME NEW q \in Queries, Open(run'[q]) PROVE published'[q].how = "None"
    <2>1. published[q].how = "None"
      BY <1>2, <1>t, NoWayBack DEF Unpublished
    <2>2. run'[q] # "finish" /\ ~(run'[q] \in {"finish", "over"})
      BY <1>2
    <2>3. published'[q] = published[q]
      BY <2>2, PublishedSteps, Zenon
    <2> QED
      BY <2>1, <2>3
  <1>f. ASSUME NEW q \in Queries, Served(Classify(KeyOf[q])).how = "Failure"
        PROVE  Served(Classify(KeyOf[q])).entry \in Queries
    <2>1. Classify(KeyOf[q]).kind # "Refresh" /\ KeyOf[q] \in Keys
      BY <1>f, KeyAssumption DEF Served
    <2>2. Classify(KeyOf[q]).entry \in Queries
      BY <2>1, <1>t, ClassifyTypes, Zenon
    <2> QED
      BY <2>2 DEF Served
  <1>g. ASSUME NEW q \in Queries PROVE Failed(q).entry \in Queries
    BY DEF Failed
  <1>h. ASSUME NEW r, r.how \in {"Fresh", "Plain", "Stale"} PROVE r.how # "Failure"
    BY <1>h
  <1>3. ASSUME NEW q \in Queries, reply'[q].how = "Failure" PROVE reply'[q].entry \in Queries
    <2>1. CASE FollowerDone(q) /\ reply'[q] = published[following[q]]
      <3>1. following[q] \in Queries
        <4>1. following[q] # None
          BY <2>1, Zenon DEF FollowerDone, F!Wake, F!Woken
        <4> QED
          BY <4>1, <1>t
      <3> QED
        BY <1>3, <2>1, <3>1, <1>t, Zenon DEF Named
    <2>2. CASE reply'[q] = reply[q]
      BY <1>3, <2>2, <1>t, Zenon DEF Named
    <2>3. CASE reply'[q] = Served(Classify(KeyOf[q]))
      BY <1>3, <2>3, <1>f, Zenon
    <2>4. CASE reply'[q] = Failed(q)
      BY <2>4, <1>g, Zenon
    <2> QED
      BY <1>3, <1>h, <2>1, <2>2, <2>3, <2>4, ReplySteps, Zenon
  <1>4. ASSUME NEW q \in Queries, published'[q].how = "Failure" PROVE published'[q].entry \in Queries
    <2>2. CASE published'[q] = published[q]
      BY <1>4, <2>2, <1>t, Zenon DEF Named
    <2>3. CASE published'[q] = Served(Classify(KeyOf[q]))
      BY <1>4, <2>3, <1>f, Zenon
    <2>4. CASE published'[q] = Failed(q)
      BY <2>4, <1>g, Zenon
    <2> QED
      BY <1>4, <1>h, <2>2, <2>3, <2>4, PublishedSteps, Zenon
  <1>5. ASSUME NEW q \in Queries, following'[q] # None PROVE pc'[q] \in {"wait", "selfwait"}
    BY <1>5, <1>t, FollowSteps, Zenon DEF Waits
  <1> QED
    BY <1>1, <1>2, <1>3, <1>4, <1>5, Zenon DEF ControlInv, Unanswered, Unpublished, Named, Waits

(* What is stored later is not what a query already holds.                  *)
LEMMA LetGoKept ==
  ASSUME RInv, [Next]_vars, NEW q \in Queries, LetGo(q), held'[q] = held[q]
  PROVE  LetGo(q)'
  <1> SUFFICES ASSUME held[q] # None, cache'[KeyOf[q]] = held[q] PROVE FALSE
    BY Zenon DEF LetGo
  <1>t. /\ TypeOK /\ KeyOf[q] \in Keys /\ Created(held[q]) /\ cache[KeyOf[q]] # held[q]
    BY KeyAssumption, Zenon DEF RInv, IInv, EntriesSound, LetGo
  <1>1. ~OnlyForgets
    BY <1>t DEF OnlyForgets
  <1>2. ~Quiet /\ \A r \in Queries : ~FailStale(r)
    BY <1>1, <1>t, StaleDefers, Zenon DEF Quiet
  <1>3. ASSUME NEW r \in Queries, Stores(r) PROVE FALSE
    <2>1. run[r] = "call" /\ held[q] = r
      BY <1>3, <1>t, StoreResult, Zenon
    <2> QED
      BY <2>1, <1>t DEF Created
  <1> QED
    BY <1>2, <1>3, <1>t, StoreSteps, Zenon

LEMMA HeldAnswersStep == RInv /\ HeldAnswers /\ [Next]_vars => HeldAnswers'
  <1> SUFFICES ASSUME RInv, HeldAnswers, [Next]_vars, NEW q \in Queries, held'[q] # None
               PROVE  ~entry'[held'[q]].failure
    BY Zenon DEF HeldAnswers
  <1>1. CASE held'[q] = held[q]
    <2> DEFINE e == held[q]
    <2>t. /\ TypeOK /\ e \in Queries /\ Created(e) /\ ~entry[e].failure
      <3>1. held \in [Queries -> Entries] /\ EntriesSound /\ TypeOK /\ e # None
        BY <1>1, Zenon DEF RInv, IInv, TypeOK
      <3>2. e \in Queries
        BY <3>1 DEF Entries
      <3> QED
        BY <3>1, <3>2, Zenon DEF EntriesSound, HeldAnswers
    <2>1. CASE OnlyForgets
      BY <2>1, <2>t, <1>1, Zenon DEF OnlyForgets, Fixed
    <2>2. CASE Quiet \/ \E r \in Queries : FailStale(r)
      BY <2>1, <2>2, <2>t, StaleDefers, Zenon DEF Quiet
    <2>3. ASSUME NEW r \in Queries, Stores(r) PROVE ~entry'[e].failure
      <3>1. run[r] = "call" /\ \A d \in Queries \ {r} : entry'[d] = entry[d]
        BY <2>3, <2>t, StoreResult, Zenon
      <3>2. e # r
        BY <3>1, <2>t DEF Created
      <3>3. entry'[e] = entry[e]
        BY <3>1, <3>2, <2>t
      <3> QED
        BY <3>3, <2>t
    <2> QED
      BY <1>1, <2>2, <2>3, <2>t, StoreSteps, Zenon
  <1>2. CASE held'[q] # held[q]
    BY <1>2, TakesHold, Zenon
  <1> QED
    BY <1>1, <1>2

(* A failure still in charge of its flight, or blamed on a caller, was      *)
(* blamable before: a prefetch stays one.                                   *)
LEMMA BlameIsOld ==
  ASSUME RInv, [Next]_vars, NEW r, r.how = "Failure" => r.entry \in Queries,
         r.how = "Failure" /\ task'[r.entry] # "prefetch"
  PROVE  Blames(r)
  BY TaskStays, Zenon DEF Blames

(* A hit that is a failure finds no answer stored.                          *)
LEMMA FailureHit ==
  ASSUME RInv, NEW k \in Keys, Served(Classify(k)).how = "Failure"
  PROVE  NoAnswer(k)
  BY DEF Served, Classify, Refresh, Hit, NoAnswer

LEMMA HitLeavesStore ==
  ASSUME NEW q, LookupHit(q) \/ RecheckHit(q) \/ FollowerDone(q)
  PROVE  /\ UNCHANGED <<cache, entry, held>>
         /\ RecheckHit(q) => UNCHANGED stage
  BY Zenon DEF LookupHit, RecheckHit, FollowerDone, storeVars, holdVars, flightVars

(* While a flight whose outcome is settled is registered, nobody stores an  *)
(* answer under its key.                                                    *)
LEMMA NoAnswerKept ==
  ASSUME Coalesce, RInv, SoleLeader, ControlInv, [Next]_vars, NEW p \in Queries,
         stage[p] = "led", published[p].how # "None", NoAnswer(KeyOf[p])
  PROVE  NoAnswer(KeyOf[p])'
  <1> DEFINE k == KeyOf[p]
  <1>t. /\ TypeOK /\ k \in Keys /\ cache \in [Keys -> Entries] /\ None \notin Queries
        /\ ResolvesUnderGuard /\ CreatedOnReturn /\ Unpublished
    BY KeyAssumption, NoneAssumption, Zenon DEF RInv, IInv, TypeOK, ControlInv
  <1>1. CASE OnlyForgets
    <2> SUFFICES ASSUME cache'[k] # None PROVE entry'[cache'[k]].failure
      BY Zenon DEF NoAnswer
    <2>1. cache'[k] = cache[k]
      BY <1>1, <1>t DEF OnlyForgets
    <2>2. cache[k] \in Queries /\ entry[cache[k]].failure
      BY <2>1, <1>t, Zenon DEF NoAnswer, Entries
    <2> QED
      BY <1>1, <2>1, <2>2, Zenon DEF OnlyForgets, Fixed
  <1>2. CASE Quiet \/ \E r \in Queries : FailStale(r)
    BY <1>1, <1>2, <1>t, StaleDefers, Zenon DEF Quiet
  <1>3. ASSUME NEW r \in Queries, Stores(r) PROVE NoAnswer(k)'
    <2>1. /\ run[r] = "call" /\ \A d \in Queries \ {r} : entry'[d] = entry[d]
          /\ cache'[k] = cache[k] \/ (k = KeyOf[r] /\ cache'[k] = r)
      BY <1>3, <1>t, StoreResult, Zenon
    <2>2. KeyOf[r] # k
      <3>1. stage[r] = "led" /\ published[r].how = "None"
        BY <2>1, <1>t DEF ResolvesUnderGuard, Unpublished
      <3>2. r # p
        BY <3>1
      <3> QED
        BY <3>1, <3>2, Zenon DEF SoleLeader
    <2>3. cache'[k] = cache[k] /\ cache[k] # r
      BY <2>1, <2>2, <1>t DEF CreatedOnReturn
    <2> SUFFICES ASSUME cache'[k] # None PROVE entry'[cache'[k]].failure
      BY Zenon DEF NoAnswer
    <2>4. cache[k] \in Queries /\ entry[cache[k]].failure
      BY <2>3, <1>t, Zenon DEF NoAnswer, Entries
    <2>5. entry'[cache[k]] = entry[cache[k]]
      BY <2>1, <2>3, <2>4
    <2> QED
      BY <2>3, <2>4, <2>5, Zenon
  <1> QED
    BY <1>2, <1>3, <1>t, StoreSteps, Zenon

(* A failure that is remembered finds no answer, and leaves none.           *)
LEMMA FailureLeavesNone ==
  ASSUME RInv, CallsJustified, [Next]_vars, NEW p \in Queries, FailRemember(p)
  PROVE  NoAnswer(KeyOf[p])'
  <1> DEFINE k == KeyOf[p]
  <1>t. /\ TypeOK /\ k \in Keys /\ cache \in [Keys -> Entries] /\ None \notin Queries
        /\ CreatedOnReturn /\ run[p] = "call" /\ task[p] # "prefetch" /\ held[p] = None
    BY KeyAssumption, NoneAssumption, Zenon DEF RInv, IInv, TypeOK, FailRemember
  <1>1. cache[k] # None => entry[cache[k]].failure /\ cache[k] \in Queries /\ cache[k] # p
    <2>1. Justified(p)
      BY <1>t DEF CallsJustified
    <2>2. cache[k] # p
      BY <1>t DEF CreatedOnReturn
    <2> QED
      BY <2>1, <2>2, <1>t DEF Justified, Entries
  <1> SUFFICES ASSUME cache'[k] # None PROVE entry'[cache'[k]].failure
    BY Zenon DEF NoAnswer
  <1>2. CASE FailureCache
    <2>1. Stores(p)
      BY <1>2, Zenon DEF Stores
    <2>2. /\ \A d \in Queries \ {p} : entry'[d] = entry[d]
          /\ cache'[k] = cache[k] \/ cache'[k] = p
          /\ entry'[p].failure
      BY <1>2, <2>1, <1>t, StoreResult, Zenon
    <2>3. CASE cache'[k] = p
      BY <2>2, <2>3, Zenon
    <2>4. CASE cache'[k] = cache[k]
      <3>1. entry'[cache[k]] = entry[cache[k]]
        BY <2>2, <2>4, <1>1
      <3> QED
        BY <2>4, <3>1, <1>1, Zenon
    <2> QED
      BY <2>2, <2>3, <2>4
  <1>3. CASE ~FailureCache
    <2>1. cache' = cache /\ entry' = entry
      BY <1>3, Zenon DEF FailRemember, storeVars
    <2> QED
      BY <2>1, <1>1, Zenon
  <1> QED
    BY <1>2, <1>3

LEMMA LeavesNoneStep ==
  ASSUME Coalesce
  PROVE  RInv /\ FP!IInv /\ SoleLeader /\ CallsJustified /\ ControlInv /\ FlightLeavesNone
         /\ [Next]_vars => FlightLeavesNone'
  <1> SUFFICES ASSUME RInv, FP!IInv, SoleLeader, CallsJustified, ControlInv, FlightLeavesNone,
                      [Next]_vars, NEW p \in Queries, stage'[p] = "led", Blames(published[p])'
               PROVE  NoAnswer(KeyOf[p])'
    BY Zenon DEF FlightLeavesNone
  <1>b. published'[p].how = "Failure" /\ task'[published'[p].entry] # "prefetch"
    BY Zenon DEF Blames
  <1>n. Named /\ Unpublished' /\ Named' /\ KeyOf[p] \in Keys
    BY OutcomeStep, KeyAssumption, Zenon DEF ControlInv
  <1>d. published'[p].entry \in Queries /\ Blames(published'[p])
    BY <1>b, <1>n, BlameIsOld, Zenon DEF Named
  <1>1. CASE published'[p] = published[p]
    <2>1. published'[p].how # "None" /\ Blames(published[p])
      BY <1>1, <1>b, <1>d
    <2>2. stage[p] = "led"
      <3>1. ~(run'[p] \in {"none", "begin"})
        BY <2>1, <1>n DEF Unpublished
      <3> QED
        BY <3>1, LeadSteps, Zenon
    <2>3. NoAnswer(KeyOf[p])
      BY <2>1, <2>2, Zenon DEF FlightLeavesNone
    <2> QED
      BY <1>1, <2>1, <2>2, <2>3, NoAnswerKept, Zenon
  <1>2. CASE RecheckHit(p) /\ published'[p] = Served(Classify(KeyOf[p]))
    <2>1. NoAnswer(KeyOf[p])
      BY <1>2, <1>b, <1>n, FailureHit, Zenon
    <2>2. cache' = cache /\ entry' = entry
      BY <1>2, HitLeavesStore, Zenon
    <2> QED
      BY <2>1, <2>2, Zenon DEF NoAnswer
  <1>3. CASE FailRemember(p)
    BY <1>3, FailureLeavesNone
  <1>4. CASE FailPrefetch(p) /\ published'[p] = Failed(p)
    <2>1. task[p] = "prefetch" /\ published'[p].entry = p
      BY <1>4 DEF FailPrefetch, Failed
    <2> QED
      BY <2>1, <1>d, Zenon DEF Blames
  <1>5. ~(published'[p].how \in {"Fresh", "Plain", "Stale"})
    BY <1>b
  <1> QED
    BY <1>1, <1>2, <1>3, <1>4, <1>5, PublishedSteps, Zenon

LEMMA FollowersStep ==
  ASSUME Coalesce
  PROVE  /\ RInv /\ FP!IInv /\ FP!IInv' /\ ControlInv /\ FollowersLetGo /\ [Next]_vars
         /\ HeldAnswers' /\ FlightLeavesNone'
         => FollowersLetGo'
  <1> SUFFICES ASSUME RInv, FP!IInv, FP!IInv', ControlInv, FollowersLetGo, [Next]_vars,
                      HeldAnswers', FlightLeavesNone', NEW q \in Queries,
                      following'[q] # None, Blames(published[following[q]])'
               PROVE  LetGo(q)'
    BY Zenon DEF FollowersLetGo
  <1>f. FP!TypeOK' /\ FP!FollowersShareKey'
    BY Zenon DEF FP!IInv
  <1>p. PICK f \in Queries : following'[q] = f
    <2>1. following'[q] \in Queries \cup {None}
      BY <1>f, Zenon DEF FP!TypeOK
    <2> QED
      BY <2>1
  <1>t. /\ KeyOf[f] = KeyOf[q]
        /\ Waits /\ Named' /\ ResolvesUnderGuard
    <2>1. KeyOf[f] = KeyOf[q]
      BY <1>f, <1>p, Zenon DEF FP!FollowersShareKey
    <2>2. Waits /\ Named' /\ ResolvesUnderGuard
      BY OutcomeStep, Zenon DEF ControlInv, RInv, IInv
    <2> QED
      BY <2>1, <2>2, Zenon
  <1>b. published'[f].how = "Failure" /\ task'[published'[f].entry] # "prefetch"
    BY <1>p, Zenon DEF Blames
  <1>d. Blames(published'[f])
    BY <1>b, <1>t, BlameIsOld, Zenon DEF Named
  <1>1. CASE stage'[f] = "led"
    <2> SUFFICES ASSUME held'[q] # None, cache'[KeyOf[q]] = held'[q] PROVE FALSE
      BY Zenon DEF LetGo
    <2>1. NoAnswer(KeyOf[f])'
      BY <1>1, <1>t, <1>b, Zenon DEF FlightLeavesNone, Blames
    <2>2. entry'[held'[q]].failure
      BY <2>1, <1>t, Zenon DEF NoAnswer
    <2> QED
      BY <2>2, Zenon DEF HeldAnswers
  <1>2. CASE stage'[f] # "led"
    <2>1. following[q] = f /\ held'[q] = held[q]
      <3>1. following[q] = f
        BY <1>2, <1>p, FollowSteps, Zenon
      <3>2. pc[q] \in {"wait", "selfwait"}
        BY <3>1, <1>p, <1>t, Zenon DEF Waits
      <3>3. ~(pc[q] \in {"lookup", "recheck"})
        BY <3>2
      <3> QED
        BY <3>1, <3>3, TakesHold, Zenon
    <2>2. published'[f] = published[f]
      <3>1. ~(published'[f].how \in {"Fresh", "Plain", "Stale"})
        BY <1>b
      <3>2. ~RecheckHit(f)
        <4>1. RecheckHit(f) => pc[f] = "recheck" /\ stage' = stage
          BY HitLeavesStore, Zenon DEF RecheckHit
        <4> QED
          BY <4>1, <1>2, <1>t, Zenon DEF ResolvesUnderGuard
      <3>3. ~(FailRemember(f) \/ FailPrefetch(f))
        <4>1. FailRemember(f) \/ FailPrefetch(f) => run[f] = "call" /\ stage' = stage
          BY Zenon DEF FailRemember, FailPrefetch, flightVars
        <4>2. run[f] = "call" => stage[f] = "led"
          BY <1>t DEF ResolvesUnderGuard
        <4> QED
          BY <4>1, <4>2, <1>2, Zenon
      <3> QED
        BY <3>1, <3>2, <3>3, <1>t, PublishedSteps, Zenon
    <2>3. LetGo(q)
      <3>1. following[q] # None /\ Blames(published[following[q]])
        BY <2>1, <2>2, <1>p, <1>d, Zenon
      <3> QED
        BY <3>1, Zenon DEF FollowersLetGo
    <2> QED
      BY <2>1, <2>3, LetGoKept, Zenon
  <1> QED
    BY <1>1, <1>2

LEMMA FailedStep ==
  RInv /\ FP!IInv /\ ControlInv /\ HeldAnswers /\ FollowersLetGo /\ FailedLetGo /\ [Next]_vars
    => FailedLetGo'
  <1> SUFFICES ASSUME RInv, FP!IInv, ControlInv, HeldAnswers, FollowersLetGo, FailedLetGo,
                      [Next]_vars, NEW q \in Queries, Blames(reply[q])'
               PROVE  LetGo(q)'
    BY Zenon DEF FailedLetGo
  <1>t. /\ Unanswered /\ Named' /\ KeyOf[q] \in Keys
    BY OutcomeStep, KeyAssumption, Zenon DEF ControlInv
  <1>b. reply'[q].how = "Failure" /\ task'[reply'[q].entry] # "prefetch"
    BY Zenon DEF Blames
  <1>d. Blames(reply'[q])
    BY <1>b, <1>t, BlameIsOld, Zenon DEF Named
  <1>1. CASE reply'[q] = reply[q]
    <2>1. LetGo(q)
      BY <1>1, <1>d, Zenon DEF FailedLetGo
    <2>2. ~(pc[q] \in {"lookup", "recheck"})
      BY <1>1, <1>b, <1>t DEF Unanswered
    <2> QED
      BY <2>1, <2>2, TakesHold, LetGoKept, Zenon
  <1>2. CASE (LookupHit(q) \/ RecheckHit(q)) /\ reply'[q] = Served(Classify(KeyOf[q]))
    <2> SUFFICES ASSUME held'[q] # None, cache'[KeyOf[q]] = held'[q] PROVE FALSE
      BY Zenon DEF LetGo
    <2>1. cache' = cache /\ entry' = entry /\ held' = held
      BY <1>2, HitLeavesStore, Zenon
    <2>2. NoAnswer(KeyOf[q])
      BY <1>2, <1>b, <1>t, FailureHit, Zenon
    <2> QED
      BY <2>1, <2>2, Zenon DEF NoAnswer, HeldAnswers
  <1>3. CASE FollowerDone(q) /\ reply'[q] = published[following[q]]
    <2>1. cache' = cache /\ held' = held
      BY <1>3, HitLeavesStore, Zenon
    <2>2. following[q] # None
      BY <1>3, Zenon DEF FollowerDone, F!Wake, F!Woken
    <2>3. LetGo(q)
      BY <1>3, <2>2, <1>d, Zenon DEF FollowersLetGo
    <2> QED
      BY <2>1, <2>3, Zenon DEF LetGo
  <1>4. CASE FailRemember(q)
    <2>1. held' = held /\ held[q] = None
      BY <1>4, Zenon DEF FailRemember, holdVars
    <2> QED
      BY <2>1, Zenon DEF LetGo
  <1>5. ~(reply'[q].how \in {"Fresh", "Plain", "Stale"})
    BY <1>b
  <1> QED
    BY <1>1, <1>2, <1>3, <1>4, <1>5, ReplySteps, Zenon

(* Serve-stale covers every failure but a prefetch's: with coalescing and   *)
(* keys of different hashes, a query whose stale answer is still in the     *)
(* store gets a failure only from a failed prefetch, however leaders,       *)
(* followers, background tasks, cancellations, evictions and purges         *)
(* interleave.                                                              *)
THEOREM StaleCovers ==
  ASSUME Coalesce, DistinctHashes
  PROVE  Spec => []StaleUnlessPrefetch
  <1>1. Init => ControlInv /\ FailInv
    <2> SUFFICES ASSUME Init PROVE ControlInv /\ FailInv
      OBVIOUS
    <2>1. \A q \in Queries : /\ held[q] = None /\ following[q] = None
                             /\ reply[q] = NoReply /\ published[q] = NoReply
      BY Zenon DEF Init
    <2>2. NoReply.how = "None"
      BY DEF NoReply
    <2>3. \A q \in Queries : reply[q].how = "None" /\ published[q].how = "None"
      BY <2>1, <2>2, Zenon
    <2>4. "None" # "Failure"
      OBVIOUS
    <2>5. ControlInv
      BY <2>1, <2>3, <2>4, Zenon DEF ControlInv, Unanswered, Unpublished, Named, Waits
    <2> QED
      BY <2>1, <2>3, <2>4, <2>5, Zenon DEF FailInv, HeldAnswers, FlightLeavesNone,
         FollowersLetGo, FailedLetGo, Blames
  <1>2. RInv /\ FP!IInv /\ ControlInv /\ [Next]_vars => ControlInv'
    BY OutcomeStep
  <1>3. /\ RInv /\ FP!IInv /\ FP!IInv' /\ SoleLeader /\ CallsJustified /\ ControlInv /\ FailInv
        /\ [Next]_vars
        => FailInv'
    BY HeldAnswersStep, LeavesNoneStep, FollowersStep, FailedStep, Zenon DEF FailInv
  <1>4. ControlInv /\ FailInv => StaleUnlessPrefetch
    BY Zenon DEF FailInv, FailedLetGo, Blames, LetGo, StaleUnlessPrefetch
  <1> QED
    BY <1>1, <1>2, <1>3, <1>4, CallInvariant, FlightInvariants, PTL DEF Spec

=============================================================================
