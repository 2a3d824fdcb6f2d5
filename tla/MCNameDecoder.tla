--------------------------- MODULE MCNameDecoder ---------------------------
(* Names decoded at every offset of every buffer of at most four octets:    *)
(* ends of names, labels of one octet and pointers to the first offsets.    *)
EXTENDS NameDecoder

MCBuffers == UNION {[1 .. n -> {0, 1, 3 * Quarter}] : n \in 1 .. 4}

=============================================================================
