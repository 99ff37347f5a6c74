---------------------------- MODULE ConsoleServers ----------------------------
(***************************************************************************)
(* The two epoll servers with a console: EpollServer_NoGUI ("nogui") and   *)
(* QTServer_Console ("qt"), an accept thread and a pool of workers each.   *)
(* The listener of "nogui" is level-triggered; that of "qt" is             *)
(* edge-triggered although the code accepts one connection per event.      *)
(*                                                                         *)
(* Connections stand for descriptors (their reuse is EpollPool's subject), *)
(* are numbered as they arrive, and messages are whole.  The numbers of    *)
(* clients that the threads count and the console prints touch nothing     *)
(* else: they are ClientCounters.  A listening socket never reports HUP or *)
(* ERR, so Case 1 of acceptConnections is not an action.  A thread that    *)
(* pthread_create could not create stands at "none" for good: nobody looks *)
(* at the result of the call.                                              *)
(***************************************************************************)
EXTENDS Integers, Sequences, FiniteSets

CONSTANTS
  Conn,            \* the connections clients may open
  NoConn,          \* "no connection"
  NumWorkers,      \* NUM_WORKERS
  MaxOpen,         \* descriptors the process has for clients
  NumMessages      \* messages a client sends before it leaves

ASSUME ConsoleAssumption ==
  /\ Conn \subseteq Nat /\ NoConn \notin Conn
  /\ NumWorkers \in Nat \ {0} /\ MaxOpen \in Nat \ {0} /\ NumMessages \in Nat

Worker   == 0 .. NumWorkers - 1
NoWorker == -1

VARIABLES
  kind,            \* which of the two programs
  phase,           \* "starting", "running" or "exited"
  sock,            \* the server's end of each TCP connection
  sent, recvd, echoed,       \* messages of each connection
  backlog,         \* connections waiting for accept
  edge,            \* the edge-triggered listener is on its ready list
  owner,           \* the worker whose epoll instance has the connection
  ready,           \* each worker's ready list
  apc,             \* where the accept thread stands
  wpc, batch, cur, \* the workers: place, events left, connection to close
  missed           \* history: arrivals no event of the listener stands for

conns    == <<sock, sent, recvd, echoed>>
listener == <<backlog, edge, missed>>
workers  == <<wpc, batch, cur>>
vars     == <<kind, phase, conns, listener, owner, ready, apc, workers>>

-----------------------------------------------------------------------------
(* Sockets and epoll.                                                      *)

Gone(c)   == sock[c] \in {"fin", "reset", "broken"}
Unread(c) == sent[c] > recvd[c]
Open      == {c \in Conn : owner[c] # NoWorker}
Waiting   == {backlog[i] : i \in DOMAIN backlog}

\* Mutant: the registration forgets EPOLLIN.
RegisteredWithoutIn == {"ERR", "HUP", "RDHUP"}

\* worker_event[i].events, edge-triggered.
Registered == {"IN", "ERR", "HUP", "RDHUP"}

Readiness(c) ==
  ( (IF Unread(c) \/ Gone(c) THEN {"IN"} ELSE {})
    \cup (IF Gone(c) THEN {"RDHUP"} ELSE {})
    \cup (IF sock[c] \in {"reset", "broken"} THEN {"ERR", "HUP"} ELSE {}) )
  \cap (Registered \cup {"ERR", "HUP"})

\* An arrival on c puts it on the ready list of the worker that has it.
Woken(c) == [w \in Worker |-> IF owner[c] = w THEN ready[w] \cup {c} ELSE ready[w]]

-----------------------------------------------------------------------------
(* Clients, while the server runs.  One that finds the edge already        *)
(* pending leaves no trace on an edge-triggered listener.                  *)

Connect(c) ==
  /\ phase = "running" /\ sock[c] = "none" /\ \A d \in Conn : d < c => sock[d] # "none"
  /\ sock' = [sock EXCEPT ![c] = "established"]
  /\ backlog' = Append(backlog, c)
  /\ edge' = TRUE
  /\ missed' = IF kind = "qt" /\ edge THEN missed + 1 ELSE missed
  /\ UNCHANGED <<kind, phase, sent, recvd, echoed, owner, ready, apc, workers>>

SendMessage(c) ==
  /\ phase = "running" /\ sock[c] = "established"
  /\ sent[c] = echoed[c] /\ sent[c] < NumMessages
  /\ sent' = [sent EXCEPT ![c] = @ + 1]
  /\ ready' = Woken(c)
  /\ UNCHANGED <<kind, phase, sock, recvd, echoed, listener, owner, apc, workers>>

\* close after the last echo, or the death of the client at any time.
Leave(c, s) ==
  /\ phase = "running" /\ sock[c] = "established"
  /\ sock' = [sock EXCEPT ![c] = s]
  /\ ready' = Woken(c)
  /\ UNCHANGED <<kind, phase, sent, recvd, echoed, listener, owner, apc, workers>>

ClientStep(c) ==
  SendMessage(c) \/ (sent[c] = echoed[c] /\ sent[c] = NumMessages /\ Leave(c, "fin"))
Kill(c) == \E s \in {"fin", "reset"} : Leave(c, s)

-----------------------------------------------------------------------------
(* Start-up and failing system calls.                                      *)

\* socket, bind, listen or the creation of an epoll instance fails (SystemFatal),
\* or the threads are created, those that can be.
Start ==
  /\ phase = "starting"
  /\ \/ phase' = "exited" /\ UNCHANGED <<apc, wpc>>
     \/ /\ phase' = "running"
        /\ apc' \in {"wait", "none"} /\ wpc' \in [Worker -> {"wait", "none"}]
  /\ UNCHANGED <<kind, conns, listener, owner, ready, batch, cur>>

\* epoll_wait, fcntl or EPOLL_CTL_ADD returns -1 in some thread: exit(-1).  The main
\* thread, which joins the workers in order, dies of joining a first one that was
\* never created, or goes on to the next, and ends the process when all are joined.
Fails ==
  /\ phase = "running"
  /\ apc \in {"wait", "accept"} \/ wpc[0] = "none" \/ \E w \in Worker : wpc[w] = "wait"
  /\ phase' = "exited"
  /\ UNCHANGED <<kind, conns, listener, owner, ready, apc, workers>>

-----------------------------------------------------------------------------
(* The accept thread.                                                      *)

\* Mutant: the listener of both servers is edge-triggered.
ListenerEdge == edge

\* What makes epoll_wait report the listener.
ListenerReady == IF kind = "qt" THEN edge ELSE backlog # <<>>

AcceptWait ==
  /\ phase = "running" /\ apc = "wait" /\ ListenerReady
  /\ apc' = "accept" /\ edge' = FALSE
  /\ UNCHANGED <<kind, phase, conns, backlog, missed, owner, ready, workers>>

\* accept fails when no descriptor is free (perror, continue).
AcceptFails ==
  /\ phase = "running" /\ apc = "accept" /\ Cardinality(Open) = MaxOpen
  /\ apc' = "wait" /\ missed' = IF kind = "qt" THEN missed + 1 ELSE missed
  /\ UNCHANGED <<kind, phase, conns, backlog, edge, owner, ready, workers>>

\* Mutant: accept is called for the rest of a burst too.
AcceptTwice ==
  /\ phase = "running" /\ apc = "accept" /\ Cardinality(Open) < MaxOpen
  /\ \E n \in Worker :
       LET new == {backlog[i] : i \in DOMAIN backlog \cap {1, 2}} IN
       /\ owner' = [c \in Conn |-> IF c \in new THEN n ELSE owner[c]]
       /\ ready' = [ready EXCEPT ![n] = @ \cup {c \in new : Readiness(c) # {}}]
       /\ backlog' = SubSeq(backlog, 1 + Cardinality(new), Len(backlog))
  /\ apc' = "wait"
  /\ UNCHANGED <<kind, phase, conns, edge, missed, workers>>

\* The new connection goes to a worker drawn by rand; ADD polls it once.
Accept ==
  /\ phase = "running" /\ apc = "accept" /\ Cardinality(Open) < MaxOpen
  /\ \E n \in Worker :
       LET c == Head(backlog) IN
       /\ owner' = [owner EXCEPT ![c] = n]
       /\ ready' = IF Readiness(c) = {} THEN ready ELSE [ready EXCEPT ![n] = @ \cup {c}]
  /\ backlog' = Tail(backlog)
  /\ apc' = "wait"
  /\ UNCHANGED <<kind, phase, conns, edge, missed, workers>>

AcceptorStep == AcceptWait \/ AcceptFails \/ Accept

-----------------------------------------------------------------------------
(* The workers.                                                            *)

Pending(w) == {c \in Conn : batch[w][c] # {}}

WorkerWait(w) ==
  /\ phase = "running" /\ wpc[w] = "wait" /\ \E c \in ready[w] : Readiness(c) # {}
  /\ batch' = [batch EXCEPT ![w] = [c \in Conn |-> IF c \in ready[w] THEN Readiness(c) ELSE {}]]
  /\ ready' = [ready EXCEPT ![w] = {}]
  /\ wpc' = [wpc EXCEPT ![w] = "next"]
  /\ UNCHANGED <<kind, phase, conns, listener, owner, apc, cur>>

EndOfBatch(w) ==
  /\ phase = "running" /\ wpc[w] = "next" /\ Pending(w) = {}
  /\ wpc' = [wpc EXCEPT ![w] = "wait"]
  /\ UNCHANGED <<kind, phase, conns, listener, owner, ready, apc, batch, cur>>

Error(w, c) == batch[w][c] \cap {"HUP", "ERR"} # {}

\* Mutant: the connection is closed after its first echo.
ClosesAlways(w, c) == TRUE

\* Case 1, or Case 3 once the socket has been read.
Closes(w, c) == Error(w, c) \/ "RDHUP" \in batch[w][c]

\* One turn of the loop over the events, up to the close: Case 1, or the
\* assertion on EPOLLIN (commented out in "qt") and Case 2 with readSocket, and
\* Case 3.  readSocket calls recv once; nothing is sent at the end of the stream
\* or on an error, buf is sent otherwise, EAGAIN included.  A send to a closed
\* peer is answered by a reset, one after that reset raises SIGPIPE.
Handle(w) ==
  \E c \in Pending(w) :
    LET reads == ~Error(w, c) /\ "IN" \in batch[w][c]
        sends == reads /\ (Unread(c) \/ ~Gone(c))
    IN
    /\ phase = "running" /\ wpc[w] = "next"
    /\ recvd' = IF reads /\ Unread(c) THEN [recvd EXCEPT ![c] = @ + 1] ELSE recvd
    /\ echoed' = IF sends /\ ~Gone(c) THEN [echoed EXCEPT ![c] = @ + 1] ELSE echoed
    /\ sock' = IF sends /\ sock[c] = "fin" THEN [sock EXCEPT ![c] = "broken"] ELSE sock
    /\ ready' = IF sends /\ sock[c] = "fin" THEN Woken(c) ELSE ready
    /\ phase' = IF sends /\ sock[c] = "broken" THEN "exited" ELSE phase
    /\ batch' = [batch EXCEPT ![w][c] = {}]
    /\ cur' = IF Closes(w, c) THEN [cur EXCEPT ![w] = c] ELSE cur
    /\ wpc' = [wpc EXCEPT ![w] = IF kind = "nogui" /\ ~Error(w, c) /\ ~reads THEN "abort"
                                ELSE IF Closes(w, c) THEN "close" ELSE "next"]
    /\ UNCHANGED <<kind, sent, listener, owner, apc>>

\* close(fd) takes the connection out of the epoll instance.
Close(w) ==
  /\ phase = "running" /\ wpc[w] = "close"
  /\ owner' = [owner EXCEPT ![cur[w]] = NoWorker]
  /\ ready' = [ready EXCEPT ![w] = @ \ {cur[w]}]
  /\ wpc' = [wpc EXCEPT ![w] = "next"] /\ cur' = [cur EXCEPT ![w] = NoConn]
  /\ UNCHANGED <<kind, phase, conns, listener, apc, batch>>

WorkerStep(w) == WorkerWait(w) \/ EndOfBatch(w) \/ Handle(w) \/ Close(w)

-----------------------------------------------------------------------------
\* The constructor: nothing is open yet.
Init ==
  /\ kind \in {"nogui", "qt"} /\ phase = "starting"
  /\ sock = [c \in Conn |-> "none"]
  /\ sent = [c \in Conn |-> 0] /\ recvd = sent /\ echoed = sent
  /\ backlog = <<>> /\ edge = FALSE /\ missed = 0
  /\ owner = [c \in Conn |-> NoWorker] /\ ready = [w \in Worker |-> {}]
  /\ apc = "wait" /\ wpc = [w \in Worker |-> "wait"]
  /\ batch = [w \in Worker |-> [c \in Conn |-> {}]] /\ cur = [w \in Worker |-> NoConn]

\* The connections of a worker that was never created.
Orphans == {c \in Open : wpc[owner[c]] = "none"}

\* Every client that came has gone and is closed, or nobody will ever close it; or
\* the process has exited.
Rest ==
  /\ \/ phase = "exited"
     \/ /\ \A c \in Conn : Gone(c)
        /\ Open = Orphans /\ (apc = "none" \/ (apc = "wait" /\ ~ListenerReady))
        /\ \A w \in Worker : wpc[w] \in {"wait", "none"}
  /\ UNCHANGED vars

Next ==
  \/ \E c \in Conn : Connect(c) \/ ClientStep(c) \/ Kill(c)
  \/ Start \/ Fails
  \/ AcceptorStep
  \/ \E w \in Worker : WorkerStep(w)
  \/ Rest

Spec == Init /\ [][Next]_vars

\* Every thread and client process keeps being scheduled; no client need come,
\* none need die and no call need fail.
Fairness ==
  /\ WF_vars(AcceptorStep)
  /\ \A w \in Worker : WF_vars(WorkerStep(w))
  /\ \A c \in Conn : WF_vars(ClientStep(c))

FairSpec == Spec /\ Fairness

-----------------------------------------------------------------------------
(* Properties.                                                             *)

\* Types of the variables.  No place is "abort": the assertion on EPOLLIN in
\* worker of "nogui" holds for every event that is neither error nor hang-up.
TypeOK ==
  /\ kind \in {"nogui", "qt"} /\ phase \in {"starting", "running", "exited"}
  /\ sock \in [Conn -> {"none", "established", "fin", "reset", "broken"}]
  /\ sent \in [Conn -> Nat] /\ recvd \in [Conn -> Nat] /\ echoed \in [Conn -> Nat]
  /\ backlog \in Seq(Conn) /\ edge \in BOOLEAN /\ missed \in Nat
  /\ owner \in [Conn -> Worker \cup {NoWorker}] /\ ready \in [Worker -> SUBSET Conn]
  /\ apc \in {"none", "wait", "accept"} /\ wpc \in [Worker -> {"none", "wait", "next", "close"}]
  /\ batch \in [Worker -> [Conn -> SUBSET {"IN", "ERR", "HUP", "RDHUP"}]]
  /\ cur \in [Worker -> Conn \cup {NoConn}]

\* An edge-triggered listener with one accept per event: every arrival that met
\* a pending edge, and every accept that failed, leaves one more client waiting
\* for good; the backlog is never shorter than that again, nor longer but for
\* the edge still to be handled.
BacklogStranded ==
  kind = "qt" =>
    Len(backlog) = missed + (IF edge THEN 1 ELSE 0) + (IF apc = "accept" THEN 1 ELSE 0)

\* Every client that connects is served in the end: its connection is accepted,
\* its messages are echoed until it leaves, and then it is closed; unless the
\* process exits, the edge-triggered listener has missed a connection, nobody
\* accepts, the connection was given to a worker that was never created, or such
\* connections hold all descriptors.
EventuallyServed ==
  <>[] \/ phase = "exited" \/ (kind = "qt" /\ missed > 0)
       \/ \A c \in Conn : \/ sock[c] = "none" \/ (Gone(c) /\ c \notin Waiting \cup Open)
                          \/ c \in Orphans
                          \/ c \in Waiting /\ (apc = "none" \/ Cardinality(Orphans) = MaxOpen)

-----------------------------------------------------------------------------
(* Both servers implement the echo service.                                *)

clientView ==
  [c \in Conn |-> CASE sock[c] = "none"        -> "absent"
                    [] sock[c] = "established" -> "present"
                    [] OTHER                   -> "left"]
serverView ==
  [c \in Conn |-> CASE sock[c] = "none" \/ c \in Waiting -> "none"
                    [] c \in Open                        -> "held"
                    [] OTHER                             -> "released"]

Echo == INSTANCE EchoService WITH
          Units <- {1}, client <- clientView, server <- serverView,
          asked <- sent, answered <- echoed

\* A connection is admitted once, closed only when its client has left, and
\* never answered more than it asked.
EchoSpec == Echo!Spec
=============================================================================
