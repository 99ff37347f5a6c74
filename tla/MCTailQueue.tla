----------------------------- MODULE MCTailQueue -----------------------------
(* A small instance of TailQueue for TLC. *)
EXTENDS TailQueue

CONSTANTS e1, e2, e3
=============================================================================
