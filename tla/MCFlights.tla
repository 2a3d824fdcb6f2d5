------------------------------ MODULE MCFlights ------------------------------
(* Three callers, three keys of which two collide.                           *)
EXTENDS Flights

CONSTANTS k1, k2, h1, h2

(* k1 and k2 share a hash, any other key has a hash of its own.              *)
MCHash == [k \in Keys |-> IF k \in {k1, k2} THEN h1 ELSE h2]

=============================================================================
