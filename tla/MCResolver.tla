----------------------------- MODULE MCResolver ------------------------------
(* Queries for one key, or for two keys whose hashes collide; the            *)
(* configurations choose the cache policies.                                 *)
EXTENDS Resolver, TLC

CONSTANTS q1, q2, q3, k1, k2, h

OneKey == [q \in Queries |-> k1]

(* q3 asks for a key of its own.                                             *)
TwoKeys == [q \in Queries |-> IF q = q3 THEN k2 ELSE k1]

OneHash == [k \in Keys |-> h]

QuerySymmetry == Permutations(Queries)

=============================================================================
