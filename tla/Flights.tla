------------------------------- MODULE Flights -------------------------------
(***************************************************************************)
(* In-flight query coalescing (cache/flight.rs).                            *)
(*                                                                         *)
(* A flight is the watch channel behind one LeaderGuard.  A caller leads at *)
(* most one flight at a time, so a flight is named by the caller that       *)
(* created it: "flight f" is the flight whose guard caller f obtained.      *)
(* Every lock of a flight shard covers one map operation, so joining,       *)
(* unregistering and publishing are separate atomic steps and other         *)
(* callers run between them.                                                *)
(***************************************************************************)
EXTENDS Naturals, FiniteSets

CONSTANTS
    Callers,    \* concurrent resolve() futures and background refresh tasks
    Keys,       \* canonical cache keys (KeyBuf)
    Hashes,     \* 64-bit keyed hashes
    HashOf,     \* Flights::hash: distinct keys may collide
    NoFlight    \* "follows nothing" / "hash not registered"

ASSUME HashAssumption == HashOf \in [Keys -> Hashes]
ASSUME NoFlightAssumption == NoFlight \notin Callers

VARIABLES
    key,        \* the key each caller resolves
    registry,   \* the sharded HashMap<u64, Registered>
    registered, \* LeaderGuard.registered
    stage,      \* where the guard of a flight is in its life
    state,      \* State inside the watch channel
    following   \* the flight whose Receiver a caller holds

flightVars == <<key, registry, registered, stage, state, following>>

-----------------------------------------------------------------------------
(* "led": the guard is alive; "finishing" and "dropping": unregistered but  *)
(* not yet published (between the two halves of finish and of Drop);        *)
(* "closed": the sender is gone.                                            *)
Stages == {"absent", "led", "finishing", "dropping", "closed"}

States == {"Pending", "Done", "Abandoned"}

Receivers(f) == {c \in Callers : following[c] = f}

Idle(c) == stage[c] = "absent" /\ following[c] = NoFlight

Init ==
    /\ key \in [Callers -> Keys]
    /\ registry = [h \in Hashes |-> NoFlight]
    /\ registered = [c \in Callers |-> FALSE]
    /\ stage = [c \in Callers |-> "absent"]
    /\ state = [c \in Callers |-> "Pending"]
    /\ following = [c \in Callers |-> NoFlight]

-----------------------------------------------------------------------------
(* join_or_lead: its three arms, each under the shard lock.                 *)

(* Faulty variant: the arm tests the hash and not the key.                  *)
FollowByHash(c) ==
    /\ Idle(c)
    /\ registry[HashOf[key[c]]] # NoFlight
    /\ following' = [following EXCEPT ![c] = registry[HashOf[key[c]]]]
    /\ UNCHANGED <<key, registry, registered, stage, state>>

(* Some(registered) with the caller's key: subscribe to that flight.        *)
Follow(c) ==
    LET f == registry[HashOf[key[c]]] IN
    /\ Idle(c)
    /\ f # NoFlight
    /\ key[f] = key[c]
    /\ following' = [following EXCEPT ![c] = f]
    /\ UNCHANGED <<key, registry, registered, stage, state>>

(* Some(registered) with another key: a private flight nobody can join.     *)
LeadPrivate(c) ==
    LET f == registry[HashOf[key[c]]] IN
    /\ Idle(c)
    /\ f # NoFlight
    /\ key[f] # key[c]
    /\ stage' = [stage EXCEPT ![c] = "led"]
    /\ registered' = [registered EXCEPT ![c] = FALSE]
    /\ UNCHANGED <<key, registry, state, following>>

(* None: register a new flight.                                             *)
LeadRegistered(c) ==
    /\ Idle(c)
    /\ registry[HashOf[key[c]]] = NoFlight
    /\ registry' = [registry EXCEPT ![HashOf[key[c]]] = c]
    /\ stage' = [stage EXCEPT ![c] = "led"]
    /\ registered' = [registered EXCEPT ![c] = TRUE]
    /\ UNCHANGED <<key, state, following>>

(* LeaderGuard::follower, when the leader hands its guard to a background   *)
(* task and waits like everyone else.                                       *)
Handover(c) ==
    /\ stage[c] = "led"
    /\ following[c] = NoFlight
    /\ following' = [following EXCEPT ![c] = c]
    /\ UNCHANGED <<key, registry, registered, stage, state>>

-----------------------------------------------------------------------------
(* Faulty variant: whatever is registered under the hash is removed.        *)
UnregisteredByHash(f) == [registry EXCEPT ![HashOf[key[f]]] = NoFlight]

(* Flights::unregister as finish and Drop call it: only a registered flight *)
(* unregisters, and it removes the map entry only if that entry is its own. *)
Unregistered(f) ==
    IF registered[f] /\ registry[HashOf[key[f]]] = f
    THEN [registry EXCEPT ![HashOf[key[f]]] = NoFlight]
    ELSE registry

(* Faulty variant: the registration outlives the guard.                     *)
FinishRegistered(f) ==
    /\ stage[f] = "led"
    /\ stage' = [stage EXCEPT ![f] = "finishing"]
    /\ UNCHANGED <<key, registry, registered, state, following>>

(* finish, first half.                                                      *)
Finish(f) ==
    /\ stage[f] = "led"
    /\ stage' = [stage EXCEPT ![f] = "finishing"]
    /\ registry' = Unregistered(f)
    /\ UNCHANGED <<key, registered, state, following>>

(* finish, second half: the outcome is published only if somebody listens;  *)
(* then the guard, and with it the sender, is gone.                         *)
Publish(f) ==
    /\ stage[f] = "finishing"
    /\ stage' = [stage EXCEPT ![f] = "closed"]
    /\ state' = [state EXCEPT ![f] = IF Receivers(f) # {} THEN "Done" ELSE @]
    /\ UNCHANGED <<key, registry, registered, following>>

(* Drop for LeaderGuard (a cancelled leader, an aborted task), first half.  *)
Drop(f) ==
    /\ stage[f] = "led"
    /\ stage' = [stage EXCEPT ![f] = "dropping"]
    /\ registry' = Unregistered(f)
    /\ UNCHANGED <<key, registered, state, following>>

(* Faulty variant: the guard unregisters but tells nobody.                  *)
AbandonSilently(f) ==
    /\ stage[f] = "dropping"
    /\ UNCHANGED flightVars

(* Drop, second half.                                                       *)
Abandon(f) ==
    /\ stage[f] = "dropping"
    /\ stage' = [stage EXCEPT ![f] = "closed"]
    /\ state' = [state EXCEPT ![f] = "Abandoned"]
    /\ UNCHANGED <<key, registry, registered, following>>

-----------------------------------------------------------------------------
(* Follower::wait returns once the state is not Pending, or the sender has  *)
(* vanished (wait_for's Err, read as an abandonment).                       *)
Woken(c) ==
    /\ following[c] # NoFlight
    /\ state[following[c]] # "Pending" \/ stage[following[c]] = "closed"

(* The Follower is consumed by wait, or dropped with a cancelled future or  *)
(* by the serve-stale client timeout: either way the receiver goes away.    *)
Unsubscribe(c) ==
    /\ following[c] # NoFlight
    /\ following' = [following EXCEPT ![c] = NoFlight]
    /\ UNCHANGED <<key, registry, registered, stage, state>>

Wake(c) == Woken(c) /\ Unsubscribe(c)

Leave(c) == ~Woken(c) /\ Unsubscribe(c)

(* The last Arc of a closed flight is released.                             *)
Release(f) ==
    /\ stage[f] = "closed"
    /\ Receivers(f) = {}
    /\ stage' = [stage EXCEPT ![f] = "absent"]
    /\ state' = [state EXCEPT ![f] = "Pending"]
    /\ registered' = [registered EXCEPT ![f] = FALSE]
    /\ UNCHANGED <<key, registry, following>>

(* A caller with no flight takes up a query for another key.                *)
Start(c) ==
    /\ Idle(c)
    /\ \E k \in Keys \ {key[c]} : key' = [key EXCEPT ![c] = k]
    /\ UNCHANGED <<registry, registered, stage, state, following>>

Next ==
    \E c \in Callers :
        \/ Start(c) \/ Follow(c) \/ LeadPrivate(c) \/ LeadRegistered(c)
        \/ Handover(c) \/ Finish(c) \/ Publish(c) \/ Drop(c) \/ Abandon(c)
        \/ Wake(c) \/ Leave(c) \/ Release(c)

(* An upstream call ends (every backend has a timeout) or its future is     *)
(* dropped, so a guard is eventually finished or dropped; both run to their *)
(* end without awaiting, and tokio polls a woken follower.                  *)
Fairness ==
    \A c \in Callers :
        /\ WF_flightVars(Finish(c) \/ Drop(c))
        /\ WF_flightVars(Publish(c))
        /\ WF_flightVars(Abandon(c))
        /\ WF_flightVars(Wake(c))

Spec == Init /\ [][Next]_flightVars

FairSpec == Spec /\ Fairness

-----------------------------------------------------------------------------
(* Types; a channel stays Pending until its guard is gone.                  *)
TypeOK ==
    /\ key \in [Callers -> Keys]
    /\ registry \in [Hashes -> Callers \cup {NoFlight}]
    /\ registered \in [Callers -> BOOLEAN]
    /\ stage \in [Callers -> Stages]
    /\ state \in [Callers -> States]
    /\ following \in [Callers -> Callers \cup {NoFlight}]
    /\ \A f \in Callers : stage[f] # "closed" => state[f] = "Pending"

(* The registry holds exactly the led flights that registered themselves,   *)
(* each under its own hash: finish and Drop of one guard never remove       *)
(* another's registration, and no registration outlives its guard (it would *)
(* make every later query for the key follow a dead flight).                *)
RegistrySound ==
    /\ \A h \in Hashes : registry[h] # NoFlight =>
            /\ stage[registry[h]] = "led"
            /\ registered[registry[h]]
            /\ HashOf[key[registry[h]]] = h
    /\ \A f \in Callers : stage[f] = "led" /\ registered[f] =>
            registry[HashOf[key[f]]] = f

(* join_or_lead lets one caller per key go upstream: two led flights of the *)
(* same key are never both registered, whatever finishes, is dropped or     *)
(* collides in between.                                                     *)
OneRegisteredLeader ==
    \A f, g \in Callers :
        /\ stage[f] = "led" /\ registered[f]
        /\ stage[g] = "led" /\ registered[g]
        /\ key[f] = key[g]
        => f = g

(* "Two different keys whose 64-bit hashes collide never share a flight":   *)
(* a follower is only ever handed the outcome of its own key, also when its *)
(* leader's slot has moved on.                                              *)
FollowersShareKey ==
    \A c \in Callers : following[c] # NoFlight => key[following[c]] = key[c]

(* "a cancelled caller never strands the others": a follower waits on a     *)
(* flight whose guard is still there to publish, or on a published one; the *)
(* sender never vanishes under it, so wait's Err arm is never taken.        *)
NobodyStranded ==
    \A c \in Callers : following[c] # NoFlight =>
        LET f == following[c] IN
        /\ stage[f] # "absent"
        /\ state[f] = "Pending" => stage[f] \in {"led", "finishing", "dropping"}

(* "No new follower can join now, so the count is final": from the moment a *)
(* guard has unregistered, the set of receivers that finish counts can only *)
(* shrink.                                                                  *)
CountIsFinal ==
    [][\A f \in Callers : stage[f] \notin {"absent", "led"} =>
            \A c \in Callers : following'[c] = f => following[c] = f]_flightVars

(* Every follower returns: with the leader's outcome, or to go round again. *)
FollowersReturn ==
    \A c \in Callers : following[c] # NoFlight ~> following[c] = NoFlight

=============================================================================
