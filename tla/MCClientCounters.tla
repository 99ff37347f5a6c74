--------------------------- MODULE MCClientCounters ---------------------------
(* A small instance of ClientCounters for TLC. *)
EXTENDS ClientCounters

CONSTANTS c1, c2, c3
=============================================================================
