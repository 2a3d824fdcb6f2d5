---------------------------- MODULE NameDecoder ----------------------------
(* The loop of decode_name (message.rs) as it runs, one turn to a step.     *)
EXTENDS Codec

CONSTANT Buffers    \* the buffers a name is decoded from

VARIABLES
    buf,
    name            \* the local variables of decode_name, and its outcome

vars == <<buf, name>>

Init ==
    /\ buf \in Buffers
    /\ name \in {NameStart(pos) : pos \in 0 .. Len(buf) - 1}

Turn ==
    /\ name.status = "running"
    /\ name' = NameStep(buf, name)
    /\ UNCHANGED buf

Next == Turn

(* The loop awaits nothing, so its turns follow each other.                 *)
Spec == Init /\ [][Next]_vars /\ WF_vars(Next)

-----------------------------------------------------------------------------
(* decode_name returns, with a name or an error, whatever the buffer: its   *)
(* comment says that pointers to strictly earlier offsets reject loops and  *)
(* bound the decode.                                                        *)
DecodeEnds == <>(name.status # "running")

=============================================================================
