------------------------------- MODULE EventLoop -------------------------------
(***************************************************************************)
(* The two servers that do all their work in one event loop: epoll_svr.c   *)
(* ("single") and the server with a GUI of EpollServer ("gui"), whose read *)
(* thread is joined as soon as it is created.  Both register an            *)
(* edge-triggered listener and accept one connection per event.            *)
(*                                                                         *)
(* Connections stand for descriptors and are numbered as they arrive.  A   *)
(* client's message arrives whole, but it need not have the length the     *)
(* server reads: "single" reads and echoes 80 bytes and closes the         *)
(* connection, "gui" reads and echoes 1024 and leaves the rest of a longer *)
(* message unread.  What the receive loop does to its buffer while it      *)
(* spins is ReadSocket's subject.                                          *)
(*                                                                         *)
(* Case 1 never concerns the listener, which reports neither HUP nor ERR.  *)
(* What gets past it is taken to pass the assertion on EPOLLIN: it never   *)
(* fails (AssertNeverFails of EventLoopProofs).                            *)
(***************************************************************************)
EXTENDS Integers, Sequences, FiniteSets

CONSTANTS
  Conn,            \* the connections clients may open
  NoConn,          \* "no connection"
  Kinds,           \* the programs to model, out of {"single", "gui"}
  MsgLens,         \* lengths of a client's messages, in bytes
  NumMessages,     \* messages a client sends before it leaves
  MaxOpen,         \* descriptors the process has for clients
  QueueLen,        \* EPOLL_QUEUE_LEN
  MaxSkipped       \* bound: connections whose read thread is not created

ASSUME LoopAssumption ==
  /\ Conn \subseteq Nat /\ NoConn \notin Conn /\ Kinds \subseteq {"single", "gui"}
  /\ MsgLens \subseteq Nat \ {0} /\ NumMessages \in Nat /\ MaxOpen \in Nat \ {0}
  /\ QueueLen \in Nat \ {0} /\ MaxSkipped \in Nat

VARIABLES
  kind, msgLen,    \* the program and the length of all messages
  phase,           \* "starting", "running" or "exited"
  sock,            \* the server's end of each TCP connection
  sent, recvd, echoed,   \* bytes sent, taken by recv, received back
  backlog,         \* connections waiting for accept
  edge,            \* the listener is on the ready list
  open,            \* connections with a descriptor
  ready,           \* connections on the ready list
  lpc, cur,        \* the loop: "wait", "next" or "spin" in recv on cur
  batch, accepts,  \* events still to handle; one of them is the listener's
  numClients,      \* "gui": the number of clients
  display,         \* "gui": there is a thread that displays it
  shown,           \* "gui": the number last displayed
  missed,          \* history: arrivals no event of the listener stands for
  errors,          \* history: connections closed by Case 1
  skipped          \* history: "gui": connections one of whose events was not read

conns == <<sock, sent, recvd, echoed>>
epoll == <<backlog, edge, missed, ready>>
loop  == <<lpc, cur, batch, accepts>>
count == <<numClients, display, shown, errors, skipped>>
vars  == <<kind, msgLen, phase, conns, epoll, open, loop, count>>

-----------------------------------------------------------------------------
(* Sockets and epoll.                                                      *)

Gone(c)   == sock[c] \in {"fin", "reset"}
Unread(c) == sent[c] - recvd[c]
Waiting   == {backlog[i] : i \in DOMAIN backlog}

BUFLEN == IF kind = "single" THEN 80 ELSE 1024

\* event.events, edge-triggered.
Registered == {"IN", "ERR", "HUP"} \cup (IF kind = "gui" THEN {"RDHUP"} ELSE {})

Readiness(c) ==
  ( (IF Unread(c) > 0 \/ Gone(c) THEN {"IN"} ELSE {})
    \cup (IF Gone(c) THEN {"RDHUP"} ELSE {})
    \cup (IF sock[c] = "reset" THEN {"ERR", "HUP"} ELSE {}) )
  \cap Registered

Woken(c) == ready \cup (open \cap {c})

-----------------------------------------------------------------------------
(* Clients, while the server runs: connect, then send a message and wait   *)
(* for all of its echo; close after the last one, or die at any time.      *)

Connect(c) ==
  /\ phase = "running" /\ sock[c] = "none" /\ \A d \in Conn : d < c => sock[d] # "none"
  /\ sock' = [sock EXCEPT ![c] = "established"]
  /\ backlog' = Append(backlog, c)
  /\ edge' = TRUE
  /\ missed' = IF edge THEN missed + 1 ELSE missed
  /\ UNCHANGED <<kind, msgLen, phase, sent, recvd, echoed, ready, open, loop, count>>

SendMessage(c) ==
  /\ phase = "running" /\ sock[c] = "established"
  /\ sent[c] = echoed[c] /\ sent[c] < NumMessages * msgLen
  /\ sent' = [sent EXCEPT ![c] = @ + msgLen]
  /\ ready' = Woken(c)
  /\ UNCHANGED <<kind, msgLen, phase, sock, recvd, echoed, backlog, edge, missed, open, loop, count>>

Leave(c, s) ==
  /\ phase = "running" /\ sock[c] = "established"
  /\ sock' = [sock EXCEPT ![c] = s]
  /\ ready' = Woken(c)
  /\ UNCHANGED <<kind, msgLen, phase, sent, recvd, echoed, backlog, edge, missed, open, loop, count>>

ClientStep(c) ==
  SendMessage(c) \/ (sent[c] = echoed[c] /\ sent[c] = NumMessages * msgLen /\ Leave(c, "fin"))
Kill(c) == \E s \in {"fin", "reset"} : Leave(c, s)

-----------------------------------------------------------------------------
(* The process.                                                            *)

\* "gui" starts the thread of UpdateConsole, and goes on without it when it is not
\* created; any call of socket, bind, listen, epoll_create may fail (SystemFatal).
Start ==
  /\ phase = "starting"
  /\ phase' \in {"running", "exited"}
  /\ display' \in IF kind = "gui" THEN BOOLEAN ELSE {FALSE}
  /\ UNCHANGED <<kind, msgLen, conns, epoll, open, loop, numClients, shown, errors, skipped>>

\* SIGINT comes (close_fd), a system call fails (SystemFatal), or "Start Server"
\* is chosen again: the second StartServer fails to bind the port.
Exit ==
  /\ phase = "running"
  /\ phase' = "exited"
  /\ UNCHANGED <<kind, msgLen, conns, epoll, open, loop, count>>

\* epoll_wait returns at most QueueLen of the events, the listener's among them or
\* not; the others stay on the ready list.
EpollWait ==
  LET live == {c \in ready : Readiness(c) # {}} IN
  /\ phase = "running" /\ lpc = "wait"
  /\ accepts' \in {FALSE, edge} /\ edge' = (edge /\ ~accepts')
  /\ \E B \in SUBSET live :
       LET length == Cardinality(B) + (IF accepts' THEN 1 ELSE 0) IN
       /\ length \in 1 .. QueueLen
       /\ length < QueueLen => B = live /\ accepts' = edge
       /\ batch' = [c \in Conn |-> IF c \in B THEN Readiness(c) ELSE {}]
       /\ ready' = live \ B
  /\ lpc' = "next"
  /\ UNCHANGED <<kind, msgLen, phase, conns, backlog, missed, open, cur, count>>

\* Mutant: accept is called for the rest of a burst too.
AcceptTwice ==
  LET new == {backlog[i] : i \in DOMAIN backlog \cap {1, 2}} IN
  /\ phase = "running" /\ lpc = "next" /\ accepts
  /\ Cardinality(open) < MaxOpen
  /\ open' = open \cup new
  /\ ready' = ready \cup {c \in new : Readiness(c) # {}}
  /\ backlog' = SubSeq(backlog, 1 + Cardinality(new), Len(backlog))
  /\ numClients' = IF kind = "gui" THEN numClients + Cardinality(new) ELSE 0
  /\ accepts' = FALSE
  /\ UNCHANGED <<kind, msgLen, phase, conns, edge, missed, lpc, cur, batch, display, shown, errors, skipped>>

\* Case 2: accept fails when no descriptor is free, or the new connection is
\* registered, which polls it once, and counted in.
Accept ==
  /\ phase = "running" /\ lpc = "next" /\ accepts
  /\ \/ /\ Cardinality(open) = MaxOpen
        /\ missed' = missed + 1
        /\ UNCHANGED <<open, ready, backlog, numClients>>
     \/ /\ Cardinality(open) < MaxOpen
        /\ LET c == Head(backlog) IN
             /\ open' = open \cup {c}
             /\ ready' = IF Readiness(c) = {} THEN ready ELSE ready \cup {c}
        /\ backlog' = Tail(backlog)
        /\ numClients' = IF kind = "gui" THEN numClients + 1 ELSE 0
        /\ UNCHANGED missed
  /\ accepts' = FALSE
  /\ UNCHANGED <<kind, msgLen, phase, conns, edge, lpc, cur, batch, display, shown, errors, skipped>>

EndOfBatch ==
  /\ phase = "running" /\ lpc = "next" /\ ~accepts /\ \A c \in Conn : batch[c] = {}
  /\ lpc' = "wait"
  /\ UNCHANGED <<kind, msgLen, phase, conns, epoll, open, cur, batch, accepts, count>>

Error(c)  == phase = "running" /\ lpc = "next" /\ batch[c] \cap {"ERR", "HUP"} # {}
Read(c)   == phase = "running" /\ lpc = "next" /\ batch[c] # {} /\ ~Error(c)
Handled(c) == batch' = [batch EXCEPT ![c] = {}]
Closed(c) == open' = open \ {c} /\ ready' = Woken(c) \ {c}

\* Case 1: the connection is closed, and not counted out.
ErrorClose(c) ==
  /\ Error(c) /\ Closed(c) /\ Handled(c)
  /\ errors' = errors + 1
  /\ UNCHANGED <<kind, msgLen, phase, conns, backlog, edge, missed, lpc, cur, accepts, numClients, display,
                 shown, skipped>>

\* Case 3 of "single", and ClearSocket: one call of recv has returned BUFLEN
\* bytes, which are sent back, and the connection is closed whatever else is
\* unread in it.
ClearSocketSingle(c) ==
  /\ kind = "single" /\ Read(c) /\ Unread(c) >= BUFLEN
  /\ recvd' = [recvd EXCEPT ![c] = @ + BUFLEN]
  /\ echoed' = IF Gone(c) THEN echoed ELSE [echoed EXCEPT ![c] = @ + BUFLEN]
  /\ Closed(c) /\ Handled(c)
  /\ UNCHANGED <<kind, msgLen, phase, sock, sent, backlog, edge, missed, lpc, cur, accepts, count>>

\* Mutant: the hang-up is not counted out.
DisconnectUncounted(c) ==
  IF "RDHUP" \in batch[c]
  THEN Closed(c) /\ UNCHANGED numClients
  ELSE ready' = (IF sock' = sock THEN ready ELSE Woken(c)) /\ UNCHANGED <<open, numClients>>

\* Mutant: a closed connection is left in the descriptor table.
DisconnectNotClosed(c) ==
  ready' = (IF sock' = sock THEN ready ELSE Woken(c)) /\ UNCHANGED <<open, numClients>>

\* The disconnect case of "gui", after the read; the send may have been answered
\* by a reset, which is an arrival.
Disconnect(c) ==
  IF "RDHUP" \in batch[c]
  THEN Closed(c) /\ numClients' = numClients - 1
  ELSE ready' = (IF sock' = sock THEN ready ELSE Woken(c)) /\ UNCHANGED <<open, numClients>>

\* ClearSocket of "gui" in its thread: BUFLEN bytes are read and sent back, and what
\* is behind them stays unread; at the end of the stream, or on an error, nothing is.
ClearSocketGui(c) ==
  LET n == IF Unread(c) >= BUFLEN THEN BUFLEN ELSE 0 IN
  /\ kind = "gui" /\ Read(c) /\ (n > 0 \/ (Unread(c) = 0 /\ Gone(c)))
  /\ recvd' = [recvd EXCEPT ![c] = @ + n]
  /\ echoed' = IF Gone(c) THEN echoed ELSE [echoed EXCEPT ![c] = @ + n]
  /\ sock' = IF Gone(c) /\ n > 0 THEN [sock EXCEPT ![c] = "reset"] ELSE sock
  /\ Disconnect(c) /\ Handled(c)
  /\ UNCHANGED <<kind, msgLen, phase, sent, backlog, edge, missed, lpc, cur, accepts, display, shown,
                 errors, skipped>>

\* pthread_create fails, and its result is not checked: nothing is read.  The join
\* of a thread that was joined before, or never was, is undefined: it returns, or
\* the process dies of it.
ReadThreadFails(c) ==
  /\ kind = "gui" /\ Read(c)
  /\ skipped' = skipped \cup {c} /\ Cardinality(skipped') <= MaxSkipped
  /\ phase' \in {"running", "exited"}
  /\ UNCHANGED conns /\ Disconnect(c) /\ Handled(c)
  /\ UNCHANGED <<kind, msgLen, backlog, edge, missed, lpc, cur, accepts, display, shown, errors>>

\* Mutant: the end of the stream does not end the loop in "gui" either.
ClearSocketShortOnly(c) ==
  /\ Read(c) /\ Unread(c) < BUFLEN
  /\ recvd' = [recvd EXCEPT ![c] = sent[c]]
  /\ lpc' = "spin" /\ cur' = c
  /\ UNCHANGED <<kind, msgLen, phase, sock, sent, echoed, epoll, open, batch, accepts, count>>

\* Fewer than BUFLEN bytes: the loop calls recv again, and again.
ClearSocketShort(c) ==
  /\ Read(c) /\ Unread(c) < BUFLEN
  /\ kind = "single" \/ Unread(c) > 0 \/ ~Gone(c)
  /\ recvd' = [recvd EXCEPT ![c] = sent[c]]
  /\ lpc' = "spin" /\ cur' = c
  /\ UNCHANGED <<kind, msgLen, phase, sock, sent, echoed, epoll, open, batch, accepts, count>>

\* "gui" leaves the loop when recv returns 0 or fails; "single" never does.
SpinEnds ==
  /\ phase = "running" /\ lpc = "spin" /\ kind = "gui" /\ Gone(cur)
  /\ lpc' = "next" /\ cur' = NoConn
  /\ UNCHANGED conns /\ Disconnect(cur) /\ Handled(cur)
  /\ UNCHANGED <<kind, msgLen, phase, backlog, edge, missed, accepts, display, shown, errors, skipped>>

LoopStep ==
  \/ EpollWait \/ Accept \/ EndOfBatch \/ SpinEnds
  \/ \E c \in Conn : \/ ErrorClose(c) \/ ClearSocketSingle(c) \/ ClearSocketGui(c)
                     \/ ClearSocketShort(c) \/ ReadThreadFails(c)

\* UpdateGui, called every second by the thread of UpdateConsole.
UpdateGui ==
  /\ phase = "running" /\ display /\ shown # numClients
  /\ shown' = numClients
  /\ UNCHANGED <<kind, msgLen, phase, conns, epoll, open, loop, numClients, display, errors, skipped>>

-----------------------------------------------------------------------------
Init ==
  /\ kind \in Kinds /\ msgLen \in MsgLens /\ phase = "starting"
  /\ sock = [c \in Conn |-> "none"]
  /\ sent = [c \in Conn |-> 0] /\ recvd = sent /\ echoed = sent
  /\ backlog = <<>> /\ edge = FALSE /\ missed = 0 /\ ready = {} /\ open = {}
  /\ lpc = "wait" /\ cur = NoConn /\ batch = [c \in Conn |-> {}] /\ accepts = FALSE
  /\ numClients = 0 /\ display = FALSE /\ shown = 0 /\ errors = 0 /\ skipped = {}

\* The loop sleeps or spins, or the process has exited: nothing need happen.
Rest ==
  /\ phase = "exited" \/ lpc = "spin"
     \/ (lpc = "wait" /\ ~edge /\ \A c \in ready : Readiness(c) = {})
  /\ UNCHANGED vars

Next ==
  \/ \E c \in Conn : Connect(c) \/ ClientStep(c) \/ Kill(c)
  \/ Start \/ Exit \/ LoopStep \/ UpdateGui \/ Rest

Spec == Init /\ [][Next]_vars

\* The loop, the display and the clients keep running; no client need come, none
\* need die, and the process need not exit.
FairSpec ==
  /\ Spec /\ WF_vars(LoopStep) /\ WF_vars(UpdateGui)
  /\ \A c \in Conn : WF_vars(ClientStep(c))

-----------------------------------------------------------------------------
(* Properties.                                                             *)

\* One accept per edge: every arrival that met a pending edge, and every accept
\* that failed, leaves one more client waiting for good.
BacklogStranded ==
  Len(backlog) = missed + (IF edge THEN 1 ELSE 0) + (IF accepts THEN 1 ELSE 0)

\* The only thread spins in recv, and no other client is served, only for a
\* client that left without a message ("single"), for one whose message was
\* shorter than BUFLEN, or for the rest of a longer message, which "gui" reads when
\* its client has left, and which ends at once: in "gui" a client that left cannot
\* hold it up.
SpinHasCause ==
  lpc = "spin" =>
    \/ kind = "single" /\ Gone(cur) /\ sent[cur] = echoed[cur]
    \/ msgLen < BUFLEN /\ sent[cur] > echoed[cur]
    \/ kind = "gui" /\ msgLen > BUFLEN /\ Gone(cur) /\ sent[cur] > echoed[cur]

\* "gui" has read BUFLEN bytes of a longer message, and the rest is no new event.
RestUnread(c) == kind = "gui" /\ msgLen > BUFLEN /\ recvd[c] >= BUFLEN

\* The client waits for the echo of what no event stands for any more.
Forgotten(c) ==
  /\ sock[c] = "established" /\ sent[c] > echoed[c]
  /\ c \in skipped \/ RestUnread(c)

\* Every client that connects is taken from the backlog and its connection is
\* closed in the end (by "single" after one echo, by "gui" when the client has
\* left), unless an edge was missed, the client waits for the echo of what "gui"
\* left unread, the loop spins or the process exits.
EventuallyServed ==
  <>[] \/ \A c \in Conn :
            sock[c] # "none" => c \notin Waiting /\ (c \in open => Forgotten(c))
       \/ missed > 0 \/ lpc = "spin" \/ phase = "exited"

\* The number displayed, if any, comes to rest at the number of open connections
\* and of those Case 1 closed without counting them out.
EventuallyShown ==
  <>[](display => shown = Cardinality(open) + errors \/ phase = "exited")

\* A client whose connection was accepted displays its echo ("This client
\* application can be used to test the aaccompanying epoll server: epoll_svr.c",
\* multi-process-client.c:27).
EventuallyDisplayed ==
  \A c \in Conn :
    c \in open /\ sent[c] > echoed[c] ~> sent[c] = echoed[c] \/ Gone(c) \/ phase = "exited"
=============================================================================
