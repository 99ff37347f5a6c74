---------------------------- MODULE LibeventEcho ----------------------------
(***************************************************************************)
(* The libevent echo server (Libevent_server/libevent_echosrv2.c; the same *)
(* callbacks are the class of server.cpp): one thread runs libevent's loop *)
(* and the callbacks on_accept, on_read and on_write.  What is read goes   *)
(* on a per-client queue of buffers and is written when libevent reports   *)
(* the socket writable.                                                    *)
(*                                                                         *)
(* Data is counted in units of the client's byte stream; a buffer is the   *)
(* interval of the stream it still has to write, so that order and         *)
(* completeness of the echo can be told.  A message reaches the server     *)
(* whole, or in pieces when Fragments holds.  When setnonblock fails for a *)
(* new client, its socket stays in blocking mode, and the callback and     *)
(* with it the loop waits inside write for room.  A blocking read never    *)
(* waits: what on_read was polled for is still there.                      *)
(***************************************************************************)
EXTENDS Integers, Sequences, FiniteSets

CONSTANTS
  Conn,            \* the connections clients may open
  NoConn,          \* "no connection"
  BufLen,          \* BUFLEN, units one read asks for
  MsgLen,          \* units in a client's message
  NumMessages,     \* messages each client sends
  Room,            \* units the socket buffers towards a client hold
  MaxOpen,         \* descriptors the process may have open for clients
  Fragments,       \* BOOLEAN: messages may arrive in pieces
  MaxFaults        \* bound on the failing calls of a behaviour

ASSUME LibeventAssumption ==
  /\ NoConn \notin Conn
  /\ BufLen \in Nat \ {0} /\ MsgLen \in Nat \ {0} /\ Room \in Nat \ {0}
  /\ NumMessages \in Nat /\ MaxOpen \in Nat /\ MaxFaults \in Nat
  /\ Fragments \in BOOLEAN

VARIABLES
  \* clients, and the server's end of each connection
  sock,            \* [Conn -> SockState]
  sent,            \* units the client has sent
  arrived,         \* units in, or taken from, the server's receive buffer
  recvd,           \* units read by on_read
  written,         \* units accepted by write
  taken,           \* units of the echo the client has received
  cut,             \* clients an echo has reached in pieces
  \* the listen queue (its order does not matter here)
  waiting,
  \* struct client
  client,          \* [Conn -> "none" | "live" | "freed"]
  writeq,          \* buffers still to write: from bufferq->offset to bufferq->len
  evWrite,         \* ev_write has been added
  blocking,        \* clients whose socket is in blocking mode
  \* libevent's loop
  active,          \* callbacks this iteration still has to run, by connection
  acceptActive,    \* on_accept is one of them
  turn,            \* the connection whose write callback follows its read callback
  \* the process
  phase,           \* "starting", "running" or "exited"
  faults

conns   == <<sock, sent, arrived, recvd, written, taken, cut>>
objects == <<client, writeq, evWrite, blocking>>
loop    == <<active, acceptActive, turn>>
process == <<phase, faults>>
vars    == <<conns, waiting, objects, loop, process>>

-----------------------------------------------------------------------------
(* Sockets.                                                                *)

\* "broken" is a reset that arrived after the peer's FIN: write then raises
\* SIGPIPE.  After a plain "reset" write returns ECONNRESET.
SockState == {"none", "established", "fin", "reset", "broken"}
Gone(c)   == sock[c] \in {"fin", "reset", "broken"}
Unread(c) == arrived[c] - recvd[c]
Space(c)  == Room - (written[c] - taken[c])

Readable(c) == Unread(c) > 0 \/ Gone(c)
Writable(c) == Space(c) > 0 \/ sock[c] \in {"reset", "broken"}

Least(a, b) == IF a <= b THEN a ELSE b

-----------------------------------------------------------------------------
(* The clients and the network.                                            *)

Connect(c) ==
  /\ phase = "running" /\ sock[c] = "none"
  /\ sock' = [sock EXCEPT ![c] = "established"]
  /\ waiting' = waiting \cup {c}
  /\ UNCHANGED <<sent, arrived, recvd, written, taken, cut, objects, loop, process>>

\* Mutant: a client does not wait for its echoes.
SendAhead(c) ==
  /\ sock[c] = "established" /\ sent[c] < NumMessages * MsgLen
  /\ sent' = [sent EXCEPT ![c] = @ + MsgLen]
  /\ arrived' = IF Fragments THEN arrived ELSE [arrived EXCEPT ![c] = sent'[c]]
  /\ UNCHANGED <<sock, recvd, written, taken, cut, waiting, objects, loop, process>>

\* A client sends its next message when it has the whole echo of the last, which one
\* call of recv returned: after a piece it never leaves its loop (multi-process-client.c).
SendMessage(c) ==
  /\ sock[c] = "established" /\ c \notin cut
  /\ taken[c] = sent[c] /\ sent[c] < NumMessages * MsgLen
  /\ sent' = [sent EXCEPT ![c] = @ + MsgLen]
  /\ arrived' = IF Fragments THEN arrived ELSE [arrived EXCEPT ![c] = sent'[c]]
  /\ UNCHANGED <<sock, recvd, written, taken, cut, waiting, objects, loop, process>>

\* The next piece of a message arrives.
Deliver(c) ==
  /\ sock[c] = "established"
  /\ \E n \in arrived[c] + 1 .. sent[c] : arrived' = [arrived EXCEPT ![c] = n]
  /\ UNCHANGED <<sock, sent, recvd, written, taken, cut, waiting, objects, loop, process>>

TakeEcho(c) ==
  /\ sock[c] = "established" /\ taken[c] < written[c]
  /\ taken' = [taken EXCEPT ![c] = written[c]]
  /\ cut' = IF written[c] - taken[c] < MsgLen THEN cut \cup {c} ELSE cut
  /\ UNCHANGED <<sock, sent, arrived, recvd, written, waiting, objects, loop, process>>

CloseSocket(c) ==
  /\ sock[c] = "established" /\ c \notin cut
  /\ taken[c] = sent[c] /\ sent[c] = NumMessages * MsgLen
  /\ sock' = [sock EXCEPT ![c] = "fin"]
  /\ UNCHANGED <<sent, arrived, recvd, written, taken, cut, waiting, objects, loop, process>>

\* A client process that dies early: FIN after all it has sent, or RST when an
\* echo was left unread or the connection is aborted.
Kill(c) ==
  /\ sock[c] = "established"
  /\ \/ /\ sock' = [sock EXCEPT ![c] = "fin"]
        /\ arrived' = [arrived EXCEPT ![c] = sent[c]]
     \/ /\ sock' = [sock EXCEPT ![c] = "reset"]
        /\ UNCHANGED arrived
  /\ UNCHANGED <<sent, recvd, written, taken, cut, waiting, objects, loop, process>>

-----------------------------------------------------------------------------
(* libevent's loop.  event_dispatch polls, then runs the callback of every *)
(* ready event before it polls again: the connections in any order, on_read *)
(* before on_write.                                                        *)

Idle == ~acceptActive /\ turn = NoConn /\ \A c \in Conn : active[c] = {}

ReadyEvents(c) ==
  IF client[c] # "live" THEN {}
  ELSE (IF Readable(c) THEN {"read"} ELSE {})
       \cup (IF evWrite[c] /\ Writable(c) THEN {"write"} ELSE {})

Poll ==
  /\ phase = "running" /\ Idle
  /\ waiting # {} \/ \E c \in Conn : ReadyEvents(c) # {}
  /\ acceptActive' = (waiting # {})
  /\ active' = [c \in Conn |-> ReadyEvents(c)]
  /\ UNCHANGED <<turn, conns, waiting, objects, process>>

\* The callbacks that may run next.
ReadNext(c)  == phase = "running" /\ turn = NoConn /\ "read" \in active[c]
WriteNext(c) == /\ phase = "running" /\ "write" \in active[c]
                /\ turn = c \/ (turn = NoConn /\ "read" \notin active[c])

\* The callback waits inside write.
Writing(c) == phase = "running" /\ turn = c /\ "write" \notin active[c]

\* A read event is persistent; it is taken off the list of active events.
AfterRead(c) ==
  /\ active' = [active EXCEPT ![c] = @ \ {"read"}]
  /\ turn' = IF "write" \in active[c] THEN c ELSE NoConn
  /\ UNCHANGED acceptActive

\* A write event is not persistent: libevent removes it before the callback.
AfterWrite(c) ==
  /\ active' = [active EXCEPT ![c] = @ \ {"write"}]
  /\ turn' = NoConn
  /\ UNCHANGED acceptActive

-----------------------------------------------------------------------------
(* The callbacks.                                                          *)

Open == {c \in Conn : client[c] = "live"}

\* on_accept: one connection, or a warning when no descriptor is free.  When
\* setnonblock fails there is a warning, too, and the socket is used as it is.
OnAccept ==
  /\ phase = "running" /\ acceptActive /\ turn = NoConn
  /\ acceptActive' = FALSE
  /\ \/ /\ Cardinality(Open) < MaxOpen
        /\ \E c \in waiting :
             /\ waiting' = waiting \ {c}
             /\ client' = [client EXCEPT ![c] = "live"]
             /\ writeq' = [writeq EXCEPT ![c] = <<>>]
             /\ \/ UNCHANGED <<blocking, faults>>
                \/ /\ faults < MaxFaults /\ faults' = faults + 1
                   /\ blocking' = blocking \cup {c}
        /\ UNCHANGED evWrite
     \/ /\ Cardinality(Open) >= MaxOpen
        /\ UNCHANGED <<waiting, objects, faults>>
  /\ UNCHANGED <<active, turn, conns, phase>>

\* Mutant: the end of the stream is queued like data.
OnReadAny(c) ==
  LET len == Least(BufLen, Unread(c)) IN
  /\ ReadNext(c) /\ client[c] = "live"
  /\ recvd' = [recvd EXCEPT ![c] = @ + len]
  /\ writeq' = [writeq EXCEPT ![c] = Append(@, [from |-> recvd[c], to |-> recvd[c] + len])]
  /\ evWrite' = [evWrite EXCEPT ![c] = TRUE]
  /\ AfterRead(c)
  /\ UNCHANGED <<sock, sent, arrived, written, taken, cut, waiting, client, blocking, process>>

\* Mutant: the buffer goes to the head of the write queue.
OnReadDataAtHead(c) ==
  LET len == Least(BufLen, Unread(c)) IN
  /\ ReadNext(c) /\ client[c] = "live" /\ Unread(c) > 0
  /\ recvd' = [recvd EXCEPT ![c] = @ + len]
  /\ writeq' = [writeq EXCEPT ![c] = <<[from |-> recvd[c], to |-> recvd[c] + len]>> \o @]
  /\ evWrite' = [evWrite EXCEPT ![c] = TRUE]
  /\ AfterRead(c)
  /\ UNCHANGED <<sock, sent, arrived, written, taken, cut, waiting, client, blocking, process>>

\* on_read with data: the buffer goes to the tail of the write queue and the
\* write event is added.
OnReadData(c) ==
  LET len == Least(BufLen, Unread(c)) IN
  /\ ReadNext(c) /\ client[c] = "live" /\ Unread(c) > 0
  /\ recvd' = [recvd EXCEPT ![c] = @ + len]
  /\ writeq' = [writeq EXCEPT ![c] = Append(@, [from |-> recvd[c], to |-> recvd[c] + len])]
  /\ evWrite' = [evWrite EXCEPT ![c] = TRUE]
  /\ AfterRead(c)
  /\ UNCHANGED <<sock, sent, arrived, written, taken, cut, waiting, client, blocking, process>>

\* Mutant: a read shorter than the buffer is taken for the end.
OnReadShort(c) ==
  /\ ReadNext(c) /\ client[c] = "live" /\ Unread(c) < BufLen
  /\ client' = [client EXCEPT ![c] = "freed"]
  /\ AfterRead(c)
  /\ UNCHANGED <<conns, waiting, writeq, evWrite, blocking, process>>

\* Mutant: only a negative result is taken for the end.
OnReadError(c) ==
  /\ ReadNext(c) /\ client[c] = "live" /\ Unread(c) = 0 /\ sock[c] = "reset"
  /\ client' = [client EXCEPT ![c] = "freed"]
  /\ AfterRead(c)
  /\ UNCHANGED <<conns, waiting, writeq, evWrite, blocking, process>>

\* on_read with 0 or -1: close, event_del of the read event only, and free.  The
\* queue and a write event that was added stay behind.
OnReadEnd(c) ==
  /\ ReadNext(c) /\ client[c] = "live" /\ Unread(c) = 0
  /\ client' = [client EXCEPT ![c] = "freed"]
  /\ AfterRead(c)
  /\ UNCHANGED <<conns, waiting, writeq, evWrite, blocking, process>>

\* Units of the first buffer still to write.
Left(c) == IF writeq[c] = <<>> THEN 0 ELSE Head(writeq[c]).to - Head(writeq[c]).from

\* A write to a client that has closed is answered by a reset.
Sends(c, k) ==
  /\ sock[c] \in {"established", "fin"} /\ k <= Space(c)
  /\ written' = [written EXCEPT ![c] = @ + k]
  /\ sock' = IF sock[c] = "fin" /\ k > 0 THEN [sock EXCEPT ![c] = "broken"] ELSE sock
  /\ UNCHANGED <<sent, arrived, recvd, taken, cut, waiting, client, blocking, process>>

\* The rest of the first buffer, which is freed, or k units of it.
SendsAll(c)     == Sends(c, Left(c)) /\ writeq' = [writeq EXCEPT ![c] = IF @ = <<>> THEN @ ELSE Tail(@)]
SendsPart(c, k) == Sends(c, k) /\ writeq' = [writeq EXCEPT ![c][1].from = @ + k]

\* Mutant: the event is added again although the buffer was the last.
OnWriteAllAndAdd(c) ==
  /\ WriteNext(c) /\ client[c] = "live"
  /\ SendsAll(c)
  /\ evWrite' = [evWrite EXCEPT ![c] = TRUE]
  /\ AfterWrite(c)

\* on_write, nothing queued or the first buffer written whole: the event is not
\* added again.
OnWriteAll(c) ==
  /\ WriteNext(c) /\ client[c] = "live"
  /\ SendsAll(c)
  /\ evWrite' = [evWrite EXCEPT ![c] = FALSE]
  /\ AfterWrite(c)

\* Mutant: the event is not added again.
OnWritePartOnce(c) ==
  /\ WriteNext(c) /\ client[c] = "live" /\ c \notin blocking
  /\ \E k \in 1 .. Left(c) - 1 : SendsPart(c, k)
  /\ evWrite' = [evWrite EXCEPT ![c] = FALSE]
  /\ AfterWrite(c)

\* on_write, part of the buffer written, as much as the kernel took: its offset
\* moves on and the event is added again.
OnWritePart(c) ==
  /\ WriteNext(c) /\ client[c] = "live" /\ c \notin blocking
  /\ \E k \in 1 .. Left(c) - 1 : SendsPart(c, k)
  /\ evWrite' = [evWrite EXCEPT ![c] = TRUE]
  /\ AfterWrite(c)

\* on_write in blocking mode: write takes what there is room for and waits with the
\* rest.
OnWriteBlocks(c) ==
  /\ WriteNext(c) /\ client[c] = "live" /\ c \in blocking
  /\ \E k \in 1 .. Left(c) - 1 : SendsPart(c, k)
  /\ evWrite' = [evWrite EXCEPT ![c] = FALSE]
  /\ active' = [active EXCEPT ![c] = @ \ {"write"}] /\ turn' = c
  /\ UNCHANGED acceptActive

\* Room has come: write takes more, and returns when it has taken all.
OnWriteResumes(c) ==
  /\ Writing(c) /\ writeq[c] # <<>>
  /\ \/ SendsAll(c) /\ turn' = NoConn
     \/ (\E k \in 1 .. Left(c) - 1 : SendsPart(c, k)) /\ UNCHANGED turn
  /\ UNCHANGED <<evWrite, active, acceptActive>>

\* The client has gone, and a reset ends the write: it returns the part it took.
OnWriteReturns(c) ==
  /\ Writing(c) /\ writeq[c] # <<>>
  /\ sock[c] \in {"reset", "broken"} \/ (sock[c] = "fin" /\ taken[c] < written[c])
  /\ sock' = IF sock[c] = "fin" THEN [sock EXCEPT ![c] = "broken"] ELSE sock
  /\ evWrite' = [evWrite EXCEPT ![c] = TRUE] /\ turn' = NoConn
  /\ UNCHANGED <<sent, arrived, recvd, written, taken, cut, waiting, client, writeq, blocking>>
  /\ UNCHANGED <<active, acceptActive, process>>

\* on_write on a connection that was reset: err(1) after ECONNRESET, SIGPIPE
\* after a reset that followed the FIN.
OnWriteFatal(c) ==
  /\ WriteNext(c) /\ client[c] = "live" /\ writeq[c] # <<>>
  /\ sock[c] \in {"reset", "broken"}
  /\ phase' = "exited"
  /\ evWrite' = [evWrite EXCEPT ![c] = FALSE]
  /\ AfterWrite(c)
  /\ UNCHANGED <<conns, waiting, client, writeq, blocking, faults>>

\* on_write when write fails with EAGAIN: the event is added again.
OnWriteAgain(c) ==
  /\ WriteNext(c) /\ client[c] = "live" /\ writeq[c] # <<>> /\ c \notin blocking
  /\ faults < MaxFaults
  /\ faults' = faults + 1
  /\ evWrite' = [evWrite EXCEPT ![c] = TRUE]
  /\ AfterWrite(c)
  /\ UNCHANGED <<conns, waiting, client, writeq, blocking, phase>>

\* The write event of a freed client fires: undefined.  The process dies, or the
\* callback finds an empty queue and returns.  The event is in this iteration,
\* or fires later, when the descriptor has been reused.
OnWriteFreed(c) ==
  /\ phase = "running" /\ client[c] = "freed" /\ evWrite[c]
  /\ WriteNext(c) \/ ("write" \notin active[c] /\ turn = NoConn)
  /\ phase' \in {"running", "exited"}
  /\ evWrite' = [evWrite EXCEPT ![c] = FALSE]
  /\ AfterWrite(c)
  /\ UNCHANGED <<conns, waiting, client, writeq, blocking, faults>>

\* malloc or calloc fails in on_accept or on_read: err(1).
OutOfMemory ==
  /\ phase = "running" /\ faults < MaxFaults
  /\ acceptActive \/ \E c \in Conn : ReadNext(c)
  /\ faults' = faults + 1
  /\ phase' = "exited"
  /\ UNCHANGED <<conns, waiting, objects, loop>>

\* event_init, socket, bind, listen and the accept event: any of them may fail,
\* err(1).
Start ==
  /\ phase = "starting"
  /\ phase' \in {"running", "exited"}
  /\ UNCHANGED <<conns, waiting, objects, loop, faults>>

Callback(c) ==
  \/ OnReadData(c) \/ OnReadEnd(c)
  \/ OnWriteAll(c) \/ OnWritePart(c) \/ OnWriteFatal(c) \/ OnWriteAgain(c)
  \/ OnWriteBlocks(c) \/ OnWriteResumes(c) \/ OnWriteReturns(c) \/ OnWriteFreed(c)

LoopStep == Poll \/ OnAccept \/ \E c \in Conn : Callback(c)

-----------------------------------------------------------------------------
Init ==
  /\ sock    = [c \in Conn |-> "none"]
  /\ sent    = [c \in Conn |-> 0]
  /\ arrived = [c \in Conn |-> 0]
  /\ recvd   = [c \in Conn |-> 0]
  /\ written = [c \in Conn |-> 0]
  /\ taken   = [c \in Conn |-> 0]
  /\ cut     = {} /\ waiting = {} /\ blocking = {}
  /\ client  = [c \in Conn |-> "none"]
  /\ writeq  = [c \in Conn |-> <<>>]
  /\ evWrite = [c \in Conn |-> FALSE]
  /\ active  = [c \in Conn |-> {}]
  /\ acceptActive = FALSE /\ turn = NoConn
  /\ phase = "starting" /\ faults = 0

ClientStep(c) == SendMessage(c) \/ Deliver(c) \/ TakeEcho(c) \/ CloseSocket(c)

\* All clients have come and gone, or the process has exited.
Rest ==
  /\ phase = "exited" \/ (Idle /\ \A c \in Conn : Gone(c) /\ client[c] = "freed")
  /\ UNCHANGED vars

Next ==
  \/ \E c \in Conn : Connect(c) \/ ClientStep(c) \/ Kill(c)
  \/ Start \/ LoopStep \/ OutOfMemory \/ Rest

Spec == Init /\ [][Next]_vars

\* The loop and the clients keep running; nothing makes a client connect or die,
\* or an allocation fail.
Fairness == WF_vars(LoopStep) /\ \A c \in Conn : WF_vars(ClientStep(c))

FairSpec == Spec /\ Fairness
-----------------------------------------------------------------------------
(* Properties.                                                             *)

Buffer == [from : Nat, to : Nat]

\* Types of the variables; a buffer holds between one unit and BUFLEN.
TypeOK ==
  /\ sock \in [Conn -> SockState]
  /\ sent \in [Conn -> Nat] /\ arrived \in [Conn -> Nat] /\ recvd \in [Conn -> Nat]
  /\ written \in [Conn -> Nat] /\ taken \in [Conn -> Nat]
  /\ cut \in SUBSET Conn /\ waiting \in SUBSET Conn /\ blocking \in SUBSET Conn
  /\ client \in [Conn -> {"none", "live", "freed"}]
  /\ writeq \in [Conn -> Seq(Buffer)]
  /\ \A c \in Conn : \A i \in DOMAIN writeq[c] :
       writeq[c][i].to - writeq[c][i].from \in 1 .. BufLen
  /\ evWrite \in [Conn -> BOOLEAN]
  /\ active \in [Conn -> SUBSET {"read", "write"}]
  /\ acceptActive \in BOOLEAN /\ turn \in Conn \cup {NoConn}
  /\ phase \in {"starting", "running", "exited"} /\ faults \in Nat

\* The write queue is what the client has sent, has been read and has not been
\* written: its buffers follow one another in the stream without gap, overlap or
\* exchange, whatever was written in parts (bufferq->offset, TAILQ_INSERT_TAIL).
QueueIsUnechoed ==
  \A c \in Conn :
    LET q == writeq[c] IN
    /\ q = <<>> => written[c] = recvd[c]
    /\ q # <<>> => q[1].from = written[c] /\ q[Len(q)].to = recvd[c]
    /\ \A i \in 1 .. Len(q) - 1 : q[i].to = q[i + 1].from

\* "We probably should never see an empty write queue" (libevent_echosrv2.c:188):
\* on_write runs only with a buffer to write.
NeverEmptyQueue ==
  \A c \in Conn :
    /\ "write" \in active[c] => evWrite[c]
    /\ evWrite[c] => writeq[c] # <<>>

\* When messages arrive whole and fit the buffer of a read, a client that waits
\* for its echo never has two buffers queued, and a queued one has its write event
\* or is being written.
EchoScheduled ==
  ~Fragments /\ MsgLen <= BufLen /\ phase = "running" =>
    \A c \in Conn : client[c] = "live" =>
      Len(writeq[c]) <= 1 /\ (writeq[c] # <<>> => evWrite[c] \/ Writing(c))

\* "remove the event and free the client structure" (libevent_echosrv2.c:151): no
\* event of a freed client is left with libevent.
NoFreedEvent == \A c \in Conn : client[c] = "freed" => ~evWrite[c]

\* Every descriptor is held by a client that an echo has reached in pieces: it never
\* leaves its receive loop, and c is not accepted.
Stalled(c) == c \in waiting /\ Cardinality(Open \cap cut) >= MaxOpen

\* What a client sends is written back in the end, unless the client goes away, cut
\* clients hold all descriptors or the process exits: the queue is kept "until we are
\* told by libevent that we can write" (libevent_echosrv2.c:66).
EventuallyEchoed ==
  \A c \in Conn :
    sent[c] > written[c] ~> sent[c] = written[c] \/ Gone(c) \/ Stalled(c) \/ phase = "exited"

\* A connection whose client has gone is closed and its structure freed in the end, with
\* the same exceptions.
EventuallyFreed ==
  \A c \in Conn : Gone(c) ~> client[c] = "freed" \/ Stalled(c) \/ phase = "exited"

-----------------------------------------------------------------------------
(* The server implements the echo service.                                 *)

clientView ==
  [c \in Conn |-> CASE sock[c] = "none"        -> "absent"
                    [] sock[c] = "established" -> "present"
                    [] OTHER                   -> "left"]
serverView ==
  [c \in Conn |-> CASE client[c] = "none" -> "none"
                    [] client[c] = "live" -> "held"
                    [] OTHER              -> "released"]

Echo == INSTANCE EchoService WITH
          Units <- {MsgLen} \cup 0 .. BufLen, client <- clientView,
          server <- serverView, asked <- sent, answered <- written

\* on_accept, on_read and on_write together: a client is admitted once, freed only
\* when it has left, and written no more than it has sent.
EchoSpec == Echo!Spec
=============================================================================
