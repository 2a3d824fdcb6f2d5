------------------------------- MODULE MCPool -------------------------------
(* Small instances of Pool.                                                 *)
EXTENDS Pool, TLC

(* Callers, connections and connects are interchangeable.                   *)
Renamings == Permutations(Callers) \cup Permutations(Conns) \cup Permutations(Attempts)

=============================================================================
