---------------------------- MODULE MCReadSocket ----------------------------
(* ReadSocket for TLC: all its constants are given in the configurations.  *)
EXTENDS ReadSocket
=============================================================================
