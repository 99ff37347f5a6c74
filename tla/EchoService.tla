----------------------------- MODULE EchoService -----------------------------
(***************************************************************************)
(* What an echo server owes its clients, whatever event library it is      *)
(* written with.  The detailed modules are shown to implement it.          *)
(*                                                                         *)
(* A client arrives, asks (sends a unit of data), and leaves.  The server  *)
(* admits a connection once, answers at most what was asked, and releases  *)
(* a connection only after its client has left; a released connection is   *)
(* never admitted again.                                                   *)
(***************************************************************************)
EXTENDS Naturals

CONSTANTS
  Conn,                    \* the connections clients may open
  Units                    \* how many units one send or one write may carry

VARIABLES
  client,                  \* [Conn -> "absent" | "present" | "left"]
  server,                  \* [Conn -> "none" | "held" | "released"]
  asked,                   \* units of data the client has sent
  answered                 \* units of data the server has sent back

vars == <<client, server, asked, answered>>

Init ==
  /\ client   = [c \in Conn |-> "absent"]
  /\ server   = [c \in Conn |-> "none"]
  /\ asked    = [c \in Conn |-> 0]
  /\ answered = [c \in Conn |-> 0]

Arrive(c) ==
  /\ client[c] = "absent"
  /\ client' = [client EXCEPT ![c] = "present"]
  /\ UNCHANGED <<server, asked, answered>>

Leave(c) ==
  /\ client[c] = "present"
  /\ client' = [client EXCEPT ![c] = "left"]
  /\ UNCHANGED <<server, asked, answered>>

Ask(c, k) ==
  /\ client[c] = "present"
  /\ asked' = [asked EXCEPT ![c] = @ + k]
  /\ UNCHANGED <<client, server, answered>>

Admit(c) ==
  /\ client[c] # "absent"
  /\ server[c] = "none"
  /\ server' = [server EXCEPT ![c] = "held"]
  /\ UNCHANGED <<client, asked, answered>>

\* Answers never run ahead of what was asked.
Answer(c, k) ==
  /\ server[c] = "held"
  /\ answered[c] + k <= asked[c]
  /\ answered' = [answered EXCEPT ![c] = @ + k]
  /\ UNCHANGED <<client, server, asked>>

\* A client that is still there is never dropped.
Release(c) ==
  /\ server[c] = "held"
  /\ client[c] = "left"
  /\ server' = [server EXCEPT ![c] = "released"]
  /\ UNCHANGED <<client, asked, answered>>

Next ==
  \E c \in Conn :
    \/ Arrive(c) \/ Leave(c) \/ Admit(c) \/ Release(c)
    \/ \E k \in Units : Ask(c, k) \/ Answer(c, k)

Spec == Init /\ [][Next]_vars
=============================================================================
