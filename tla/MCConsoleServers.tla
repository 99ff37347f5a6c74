--------------------------- MODULE MCConsoleServers ---------------------------
(* A small instance of ConsoleServers for TLC. *)
EXTENDS ConsoleServers
=============================================================================
