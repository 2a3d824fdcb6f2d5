------------------------------ MODULE LossyMap -------------------------------
(***************************************************************************)
(* What the answer store promises its callers: under every key it holds     *)
(* nothing or the last entry that was stored for that very key, and it may  *)
(* lose any entry at any time.                                              *)
(***************************************************************************)
CONSTANTS
    Keys,
    ValuesOf,   \* the entries that answer each key
    Nothing

VARIABLE stored

Init == stored = [k \in Keys |-> Nothing]

(* Every key in `ks` keeps its entry or loses it.                           *)
KeepsOrLoses(ks) == \A j \in ks : stored'[j] \in {stored[j], Nothing}

Put(k) ==
    /\ DOMAIN stored' = Keys
    /\ stored'[k] \in ValuesOf[k] \cup {Nothing}
    /\ KeepsOrLoses(Keys \ {k})

Lose ==
    /\ DOMAIN stored' = Keys
    /\ KeepsOrLoses(Keys)

Next == Lose \/ \E k \in Keys : Put(k)

Spec == Init /\ [][Next]_stored

=============================================================================
