----------------------------- MODULE MCEpollPool -----------------------------
(* Small instances of EpollPool for TLC. *)
EXTENDS EpollPool, TLC

CONSTANTS c1, c2, c3

\* The clients are interchangeable in the safety runs.
ConnSymmetry == Permutations(Conn)
=============================================================================
