---------------------------- MODULE FlightsProofs ----------------------------
(***************************************************************************)
(* The safety of in-flight coalescing for any set of callers, any set of    *)
(* keys and any hash function.                                              *)
(***************************************************************************)
EXTENDS Flights, TLAPS

(* RegistrySound, FollowersShareKey and NobodyStranded support each other:  *)
(* a caller can only be followed through the registry, what the registry    *)
(* holds is led, and a followed flight is not released or given a new key.  *)
IInv ==
    /\ TypeOK
    /\ RegistrySound
    /\ FollowersShareKey
    /\ NobodyStranded

-----------------------------------------------------------------------------
(* Nothing is registered, led or followed when the registry is created.     *)
LEMMA InitIInv == Init => IInv
  <1> SUFFICES ASSUME Init PROVE IInv
    OBVIOUS
  <1> USE HashAssumption, NoFlightAssumption DEF Init
  <1>1. TypeOK
    BY DEF TypeOK, Stages, States
  <1>2. RegistrySound
    BY DEF RegistrySound
  <1>3. FollowersShareKey /\ NobodyStranded
    BY DEF FollowersShareKey, NobodyStranded
  <1> QED
    BY <1>1, <1>2, <1>3 DEF IInv

(* Every step of join_or_lead, finish, Drop and wait has types.             *)
LEMMA TypeStep == IInv /\ [Next]_flightVars => TypeOK'
  <1> SUFFICES ASSUME IInv, [Next]_flightVars PROVE TypeOK'
    OBVIOUS
  <1> USE HashAssumption, NoFlightAssumption
  <1>u. CASE UNCHANGED flightVars
    BY <1>u DEF IInv, TypeOK, flightVars
  <1>n. ASSUME NEW c \in Callers,
               \/ Start(c) \/ Follow(c) \/ LeadPrivate(c) \/ LeadRegistered(c)
               \/ Handover(c) \/ Finish(c) \/ Publish(c) \/ Drop(c) \/ Abandon(c)
               \/ Wake(c) \/ Leave(c) \/ Release(c)
        PROVE  TypeOK'
    <2> USE DEF IInv, TypeOK, Stages, States
    <2>1. CASE Start(c)
      BY <2>1 DEF Start
    <2>2. CASE Follow(c)
      BY <2>2 DEF Follow
    <2>3. CASE LeadPrivate(c)
      BY <2>3 DEF LeadPrivate, Idle
    <2>4. CASE LeadRegistered(c)
      BY <2>4 DEF LeadRegistered, Idle
    <2>5. CASE Handover(c)
      BY <2>5 DEF Handover
    <2>6. CASE Finish(c)
      BY <2>6 DEF Finish, Unregistered
    <2>7. CASE Publish(c)
      BY <2>7 DEF Publish
    <2>8. CASE Drop(c)
      BY <2>8 DEF Drop, Unregistered
    <2>9. CASE Abandon(c)
      BY <2>9 DEF Abandon
    <2>10. CASE Wake(c) \/ Leave(c)
      BY <2>10 DEF Wake, Leave, Unsubscribe
    <2>11. CASE Release(c)
      BY <2>11 DEF Release
    <2> QED
      BY <1>n, <2>1, <2>2, <2>3, <2>4, <2>5, <2>6, <2>7, <2>8, <2>9, <2>10, <2>11
  <1> QED
    BY <1>u, <1>n DEF Next

(* finish and Drop remove exactly the registration of the guard they        *)
(* consume; only join_or_lead adds one.                                     *)
LEMMA RegistryStep == IInv /\ [Next]_flightVars => RegistrySound'
  <1> SUFFICES ASSUME IInv, [Next]_flightVars PROVE RegistrySound'
    OBVIOUS
  <1> USE HashAssumption, NoFlightAssumption
  <1>u. CASE UNCHANGED flightVars
    BY <1>u DEF IInv, RegistrySound, flightVars
  <1>n. ASSUME NEW c \in Callers,
               \/ Start(c) \/ Follow(c) \/ LeadPrivate(c) \/ LeadRegistered(c)
               \/ Handover(c) \/ Finish(c) \/ Publish(c) \/ Drop(c) \/ Abandon(c)
               \/ Wake(c) \/ Leave(c) \/ Release(c)
        PROVE  RegistrySound'
    <2> USE DEF IInv, TypeOK, RegistrySound
    <2>1. CASE Start(c)
      BY <2>1 DEF Start, Idle
    <2>2. CASE Follow(c) \/ Handover(c) \/ Wake(c) \/ Leave(c)
      BY <2>2 DEF Follow, Handover, Wake, Leave, Unsubscribe
    <2>3. CASE LeadPrivate(c)
      BY <2>3 DEF LeadPrivate, Idle
    <2>4. CASE LeadRegistered(c)
      BY <2>4 DEF LeadRegistered, Idle
    <2>5. CASE Finish(c)
      BY <2>5 DEF Finish, Unregistered
    <2>6. CASE Drop(c)
      BY <2>6 DEF Drop, Unregistered
    <2>7. CASE Publish(c) \/ Abandon(c)
      BY <2>7 DEF Publish, Abandon
    <2>8. CASE Release(c)
      BY <2>8 DEF Release
    <2> QED
      BY <1>n, <2>1, <2>2, <2>3, <2>4, <2>5, <2>6, <2>7, <2>8
  <1> QED
    BY <1>u, <1>n DEF Next

(* A followed flight keeps its key, is not released while it has receivers, *)
(* and becomes Done or Abandoned before its guard is gone.                  *)
LEMMA FollowersStep ==
  IInv /\ [Next]_flightVars => FollowersShareKey' /\ NobodyStranded'
  <1> SUFFICES ASSUME IInv, [Next]_flightVars
               PROVE  FollowersShareKey' /\ NobodyStranded'
    OBVIOUS
  <1> USE HashAssumption, NoFlightAssumption
  <1>u. CASE UNCHANGED flightVars
    BY <1>u DEF IInv, FollowersShareKey, NobodyStranded, flightVars
  <1>n. ASSUME NEW c \in Callers,
               \/ Start(c) \/ Follow(c) \/ LeadPrivate(c) \/ LeadRegistered(c)
               \/ Handover(c) \/ Finish(c) \/ Publish(c) \/ Drop(c) \/ Abandon(c)
               \/ Wake(c) \/ Leave(c) \/ Release(c)
        PROVE  FollowersShareKey' /\ NobodyStranded'
    <2> USE DEF IInv, TypeOK, FollowersShareKey, NobodyStranded
    <2>1. CASE Start(c)
      BY <2>1 DEF Start, Idle
    <2>2. CASE Follow(c)
      BY <2>2 DEF Follow, RegistrySound
    <2>3. CASE LeadPrivate(c) \/ LeadRegistered(c)
      BY <2>3 DEF LeadPrivate, LeadRegistered, Idle
    <2>4. CASE Handover(c)
      BY <2>4 DEF Handover
    <2>5. CASE Finish(c) \/ Drop(c)
      BY <2>5 DEF Finish, Drop
    <2>6. CASE Publish(c)
      BY <2>6 DEF Publish, Receivers
    <2>7. CASE Abandon(c)
      BY <2>7 DEF Abandon
    <2>8. CASE Wake(c) \/ Leave(c)
      BY <2>8 DEF Wake, Leave, Unsubscribe
    <2>9. CASE Release(c)
      BY <2>9 DEF Release, Receivers
    <2> QED
      BY <1>n, <2>1, <2>2, <2>3, <2>4, <2>5, <2>6, <2>7, <2>8, <2>9
  <1> QED
    BY <1>u, <1>n DEF Next

(* The inductive invariant holds in every reachable state.                  *)
THEOREM Invariance == Spec => []IInv
  <1>1. IInv /\ [Next]_flightVars => IInv'
    BY TypeStep, RegistryStep, FollowersStep DEF IInv
  <1> QED
    BY InitIInv, <1>1, PTL DEF Spec

-----------------------------------------------------------------------------
(* Coalescing is type-correct, and a channel is Pending until its guard is  *)
(* gone.                                                                    *)
THEOREM TypeCorrect == Spec => []TypeOK
  BY Invariance, PTL DEF IInv

(* The registry holds exactly the led flights that registered, whatever the *)
(* interleaving of join_or_lead, finish and Drop.                           *)
THEOREM RegistrySafety == Spec => []RegistrySound
  BY Invariance, PTL DEF IInv

(* At most one caller per key holds a registered flight.                    *)
THEOREM SingleLeader == Spec => []OneRegisteredLeader
  <1>1. IInv => OneRegisteredLeader
    BY DEF IInv, RegistrySound, OneRegisteredLeader
  <1> QED
    BY Invariance, <1>1, PTL

(* A follower is never handed the outcome of another key.                   *)
THEOREM NoCrossKeyOutcome == Spec => []FollowersShareKey
  BY Invariance, PTL DEF IInv

(* No follower waits on a flight that nobody will publish.                  *)
THEOREM NoStranding == Spec => []NobodyStranded
  BY Invariance, PTL DEF IInv

(* The receiver count that finish reads after unregistering is final.       *)
THEOREM FinalCount == Spec => CountIsFinal
  <1> DEFINE Final == \A f \in Callers : stage[f] \notin {"absent", "led"} =>
                        \A c \in Callers : following'[c] = f => following[c] = f
  <1>1. IInv /\ [Next]_flightVars => [Final]_flightVars
    <2> SUFFICES ASSUME IInv, NEW d \in Callers,
                        \/ Start(d) \/ Follow(d) \/ LeadPrivate(d) \/ LeadRegistered(d)
                        \/ Handover(d) \/ Finish(d) \/ Publish(d) \/ Drop(d) \/ Abandon(d)
                        \/ Wake(d) \/ Leave(d) \/ Release(d),
                        NEW f \in Callers, stage[f] \notin {"absent", "led"},
                        NEW c \in Callers, following'[c] = f
                 PROVE  following[c] = f
      BY DEF Next
    <2> USE HashAssumption, NoFlightAssumption DEF IInv, TypeOK
    <2>1. CASE Follow(d)
      BY <2>1 DEF Follow, RegistrySound
    <2>2. CASE Handover(d)
      BY <2>2 DEF Handover
    <2>3. CASE Wake(d) \/ Leave(d)
      BY <2>3 DEF Wake, Leave, Unsubscribe
    <2> QED
      BY <2>1, <2>2, <2>3 DEF Start, LeadPrivate, LeadRegistered, Finish, Publish,
         Drop, Abandon, Release
  <1> QED
    BY Invariance, <1>1, PTL DEF Spec, CountIsFinal

=============================================================================
