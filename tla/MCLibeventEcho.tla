--------------------------- MODULE MCLibeventEcho ---------------------------
(* Small instances of LibeventEcho for TLC. *)
EXTENDS LibeventEcho, TLC

CONSTANTS c1, c2

\* The clients are interchangeable in the safety runs.
ConnSymmetry == Permutations(Conn)
=============================================================================
