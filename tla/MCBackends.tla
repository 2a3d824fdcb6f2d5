----------------------------- MODULE MCBackends -----------------------------
(* A small instance of Backends; the codec they all use is checked with it. *)
EXTENDS Backends, CodecChecks

CONSTANTS q1, q2, q3

(* The fourth call, with which more late answers than the allowance can     *)
(* grow to are possible, is only followed on a single connection.           *)
StormOnOneConnection == calls > 3 => pooled[2] = "new"

=============================================================================
