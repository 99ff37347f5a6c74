------------------------------ MODULE MCLogQueue ------------------------------
(* A small instance of LogQueue for TLC. *)
EXTENDS LogQueue
=============================================================================
