------------------------------ MODULE Backends ------------------------------
(* The backends that reuse connections: the pipelined one over TCP and TLS, *)
(* the HTTP/1.1 and HTTP/2 one, and the two over QUIC.  A backend is one of *)
(* them for its whole life.                                                 *)
EXTENDS Stream, Doh, Quic

vars == <<streamVars, dohVars, quicVars>>

Init ==
    /\ StreamInit /\ DohInit /\ QuicInit
    /\ protocol \in {"stream", "https", "doq", "h3"}

Next ==
    \/ protocol = "stream" /\ StreamNext /\ UNCHANGED <<dohVars, quicVars>>
    \/ protocol = "https" /\ DohNext /\ UNCHANGED <<streamVars, quicVars>>
    \/ protocol \in {"doq", "h3"} /\ QuicNext /\ UNCHANGED <<streamVars, dohVars>>

Spec == Init /\ [][Next]_vars

(* Over HTTP and QUIC no query is sent a third time, no update twice, and   *)
(* nothing again unless it failed on a connection that had answered, and    *)
(* that connection is gone or speaks HTTP/2, where one stream may fail:     *)
(* what DohPool::resolve, DoqPool::query and retry_allowed each do.         *)
SentAgainIfStale == DohSentAgainIfStale /\ QuicSentAgainIfStale

=============================================================================
