------------------------------ MODULE ReadSocket ------------------------------
(***************************************************************************)
(* One connection byte by byte: the message loop of multi-process-client.c *)
(* against the receive loops of three servers,                             *)
(*   "final"   readSocket of EpollServer_Final/Server.cpp,                 *)
(*   "gui"     ClearSocket of EpollServer/Epoll_Sever/server.cpp,          *)
(*   "nogui"   readSocket of EpollServer_NoGUI/server.cpp (the Qt console  *)
(*             server has the same one).                                   *)
(*                                                                         *)
(* A byte is the number of its place in the client's stream; 0 stands for  *)
(* what the buffer held before.  TCP keeps bytes in order but may deliver  *)
(* a message in pieces: split says on which of the two streams it does.     *)
(* EpollPool has whole messages only; this module says what that leaves    *)
(* out.                                                                    *)
(***************************************************************************)
EXTENDS Integers, Sequences

CONSTANTS
  Kinds,           \* the servers looked at
  BufLen,          \* BUFLEN, the length of every message
  NumMessages,     \* NUM_MESSAGES
  Splits,          \* the networks looked at: which streams come in pieces
  MaxSlip          \* how far before the buffer the model follows bp

ASSUME ReadSocketAssumption ==
  /\ Kinds \subseteq {"final", "gui", "nogui"}
  /\ BufLen \in Nat \ {0} /\ NumMessages \in Nat /\ MaxSlip \in Nat \ {0}
  /\ Splits \subseteq SUBSET {"requests", "replies"}

Cell  == 0 .. BufLen - 1
Blank == [i \in Cell |-> 0]

VARIABLES
  kind, split,     \* the server and the network of this behaviour
  sock,            \* the connection as the client leaves it
  held,            \* the server has the connection open
  sent, arrived, recvd,        \* bytes of the request stream
  reply, delivered, taken,     \* bytes the server sent, and how many got where
  edge,            \* the descriptor is on the epoll instance's ready list
  wpc,             \* where the worker stands
  hup,             \* the event in hand carries EPOLLRDHUP
  off, left, buf,  \* bp - buf, bytes_to_read, and the buffer
  cpc,             \* where the client stands
  coff, cleft, rbuf,           \* the same three of the client
  running

session == <<kind, split>>
stream == <<sent, arrived, recvd>>
back   == <<reply, delivered, taken>>
server == <<held, wpc, hup, off, left, buf>>
client == <<cpc, coff, cleft, rbuf>>
vars   == <<session, sock, stream, back, edge, server, client, running>>

-----------------------------------------------------------------------------
(* The client.                                                             *)

\* send, then the pointer and the count for the echo are set.
SendMessage ==
  /\ sock = "open" /\ cpc = "send" /\ sent < NumMessages * BufLen
  /\ sent' = sent + BufLen
  /\ arrived' = IF "requests" \in split THEN arrived ELSE sent'
  /\ edge' = (edge \/ "requests" \notin split)
  /\ cpc' = "recv" /\ coff' = 0 /\ cleft' = BufLen
  /\ UNCHANGED <<session, sock, recvd, back, server, rbuf, running>>

Least(a, b) == IF a <= b THEN a ELSE b

\* recv into a buffer at place o: what the n bytes of stream s from t on leave there.
Filled(b, o, s, t, n) ==
  [i \in Cell |-> IF o <= i /\ i < o + n THEN s[t + i - o + 1] ELSE b[i]]

\* recv on the blocking socket; the loop goes on until one call returns BUFLEN
\* bytes.  With nothing to come the call blocks, and once the server has closed
\* the loop spins: neither is a step.
ReceiveEcho ==
  LET n == Least(cleft, delivered - taken) IN
  /\ sock = "open" /\ cpc = "recv" /\ n > 0
  /\ rbuf' = Filled(rbuf, coff, reply, taken, n)
  /\ taken' = taken + n
  /\ \/ n >= BufLen /\ cpc' = "send" /\ UNCHANGED <<coff, cleft>>
     \/ n < BufLen /\ coff' = coff + n /\ cleft' = cleft - n /\ UNCHANGED cpc
  /\ UNCHANGED <<session, sock, stream, reply, delivered, edge, server, running>>

CloseSocket ==
  /\ sock = "open" /\ cpc = "send" /\ sent = NumMessages * BufLen
  /\ sock' = "fin" /\ edge' = TRUE
  /\ UNCHANGED <<session, stream, back, server, client, running>>

\* The client process dies: FIN after all it has sent, or a reset.
Kill ==
  /\ sock = "open"
  /\ \/ sock' = "fin" /\ arrived' = sent
     \/ sock' = "reset" /\ UNCHANGED arrived
  /\ edge' = TRUE
  /\ UNCHANGED <<session, sent, recvd, back, server, client, running>>

\* TCP segmentation.
DeliverRequest ==
  /\ sock = "open"
  /\ \E n \in arrived + 1 .. sent : arrived' = n
  /\ edge' = TRUE
  /\ UNCHANGED <<session, sock, sent, recvd, back, server, client, running>>

DeliverReply ==
  /\ sock = "open"
  /\ \E n \in delivered + 1 .. Len(reply) : delivered' = n
  /\ UNCHANGED <<session, sock, stream, reply, taken, edge, server, client, running>>

-----------------------------------------------------------------------------
(* The server's worker.                                                    *)

Available == arrived - recvd

\* epoll_wait: a reset is Case 1, anything else calls the read function, whose
\* buffer and pointer are new; an edge with nothing behind it is not reported.
Wake ==
  /\ running /\ held /\ wpc = "wait" /\ edge
  /\ edge' = FALSE
  /\ wpc' = CASE sock = "reset"                    -> "close"
              [] sock = "fin" \/ (sock = "open" /\ Available > 0) -> "recv"
              [] sock = "open" /\ Available = 0    -> "wait"
  /\ hup' = (sock = "fin")
  /\ off' = 0 /\ left' = BufLen /\ buf' = Blank
  /\ UNCHANGED <<session, held, sock, stream, back, client, running>>

\* What recv(fd, bp, bytes_to_read, 0) may say, on a non-blocking socket.
Data   == Least(left, Available)
Eof    == (left = 0 /\ Available > 0) \/ (Available = 0 /\ sock = "fin")
Failed == Available = 0 /\ sock = "reset"
Again  == Available = 0 /\ sock = "open"

\* n bytes are received at bp.  Outside the buffer the outcome is undefined: the
\* process may die.
Received(n) ==
  /\ recvd' = recvd + n
  /\ buf' = Filled(buf, off, [i \in 1 .. arrived |-> i], recvd, n)
  /\ running' = TRUE \/ (off < 0 /\ running' = FALSE)

InRecv == running /\ wpc = "recv"

\* Mutant: the loop's condition lets a whole message through.
RecvWholeAsPart ==
  /\ InRecv /\ kind # "nogui" /\ Data >= BufLen
  /\ Received(Data)
  /\ off' = off + Data /\ left' = left - Data
  /\ UNCHANGED <<session, sock, sent, arrived, back, edge, held, wpc, hup, client>>

\* The loop condition of both loops fails: a whole message in one call.
RecvWhole ==
  /\ InRecv /\ kind # "nogui" /\ Data >= BufLen
  /\ Received(Data)
  /\ wpc' = "send"
  /\ UNCHANGED <<session, sock, sent, arrived, back, edge, held, hup, off, left, client>>

\* strchr(bp, EOF) from the new bp: the bytes of a message are not EOF, a byte the
\* memset has cleared ends the search, and outside the buffer anything may be found.
MayFindEof(b, o) == o < 0 \/ \A i \in Cell : i >= o => b[i] # 0

\* The body of final's loop: bp and bytes_to_read move by n, and the search for
\* EOF decides whether it goes on.
FinalPart ==
  /\ InRecv /\ kind = "final" /\ Data > 0 /\ Data < BufLen
  /\ Received(Data)
  /\ off' = off + Data /\ left' = left - Data
  /\ wpc' = "recv" \/ (MayFindEof(buf', off') /\ wpc' = "send")
  /\ UNCHANGED <<session, sock, sent, arrived, back, edge, held, hup, client>>

\* The same with n = -1 and EAGAIN: bp moves back.  A search that starts before the
\* buffer may find anything or read where no memory is; it cannot go on for ever,
\* and the model makes it end at -MaxSlip.
FinalAgain ==
  /\ InRecv /\ kind = "final" /\ Again
  /\ off' = off - 1 /\ left' = left + 1
  /\ \/ off' > -MaxSlip /\ UNCHANGED <<wpc, running>>
     \/ MayFindEof(buf, off') /\ wpc' = "send" /\ UNCHANGED running
     \/ off' < 0 /\ running' = FALSE /\ UNCHANGED wpc
  /\ UNCHANGED <<session, sock, stream, back, edge, held, hup, buf, client>>

\* The body of gui's loop.
GuiPart ==
  /\ InRecv /\ kind = "gui" /\ Data > 0 /\ Data < BufLen
  /\ Received(Data)
  /\ off' = off + Data /\ left' = left - Data
  /\ UNCHANGED <<session, sock, sent, arrived, back, edge, held, wpc, hup, client>>

\* gui does not look at its buffer: bp moves back for as long as nothing comes.  At
\* -MaxSlip the model has it spin in place.
GuiAgain ==
  /\ InRecv /\ kind = "gui" /\ Again /\ off > -MaxSlip
  /\ off' = off - 1 /\ left' = left + 1
  /\ UNCHANGED <<session, sock, stream, back, edge, held, wpc, hup, buf, client, running>>

\* Mutant: the end of the stream is not told from data.
NoGuiRecvUnchecked ==
  /\ InRecv /\ kind = "nogui" /\ (Data > 0 \/ Again \/ Eof)
  /\ Received(Data)
  /\ wpc' = "send"
  /\ UNCHANGED <<session, sock, sent, arrived, back, edge, held, hup, off, left, client>>

\* nogui calls recv once and sends its buffer, after EAGAIN too.
NoGuiRecv ==
  /\ InRecv /\ kind = "nogui" /\ (Data > 0 \/ Again)
  /\ Received(Data)
  /\ wpc' = "send"
  /\ UNCHANGED <<session, sock, sent, arrived, back, edge, held, hup, off, left, client>>

\* Case 3 after the read function: EPOLLRDHUP closes the connection.
Return == wpc' = IF hup THEN "close" ELSE "wait"

\* Mutant: the loop does not look for 0, as in epoll_svr.c.
RecvErrorOnly ==
  /\ InRecv /\ Failed
  /\ Return
  /\ UNCHANGED <<session, sock, stream, back, edge, held, hup, off, left, buf, client, running>>

\* recv says 0, or an error that is not EAGAIN: the read function returns.
RecvEnd ==
  /\ InRecv /\ (Eof \/ Failed)
  /\ Return
  /\ UNCHANGED <<session, sock, stream, back, edge, held, hup, off, left, buf, client, running>>

\* Mutant: the buffer is sent once in the loop and once after it.
SendTwice ==
  /\ running /\ wpc = "send"
  /\ reply' = reply \o [i \in 1 .. 2 * BufLen |-> buf[(i - 1) % BufLen]]
  /\ delivered' = IF "replies" \in split THEN delivered ELSE Len(reply')
  /\ sock' = IF sock = "fin" THEN "reset" ELSE sock
  /\ edge' = (edge \/ sock = "fin")
  /\ Return
  /\ UNCHANGED <<session, stream, taken, held, hup, off, left, buf, client, running>>

\* send(fd, buf, BUFLEN, 0): the whole buffer, whatever was received.  A client
\* that has closed answers with a reset.
Send ==
  /\ running /\ wpc = "send"
  /\ reply' = reply \o [i \in 1 .. BufLen |-> buf[i - 1]]
  /\ delivered' = IF "replies" \in split THEN delivered ELSE Len(reply')
  /\ sock' = IF sock = "fin" THEN "reset" ELSE sock
  /\ edge' = (edge \/ sock = "fin")
  /\ Return
  /\ UNCHANGED <<session, stream, taken, held, hup, off, left, buf, client, running>>

Close ==
  /\ running /\ wpc = "close"
  /\ held' = FALSE /\ wpc' = "wait"
  /\ UNCHANGED <<session, sock, stream, back, edge, hup, off, left, buf, client, running>>

-----------------------------------------------------------------------------
Init ==
  /\ kind \in Kinds /\ split \in Splits
  /\ sock = "open" /\ held = TRUE /\ edge = FALSE
  /\ sent = 0 /\ arrived = 0 /\ recvd = 0
  /\ reply = <<>> /\ delivered = 0 /\ taken = 0
  /\ wpc = "wait" /\ hup = FALSE /\ off = 0 /\ left = BufLen /\ buf = Blank
  /\ cpc = "send" /\ coff = 0 /\ cleft = BufLen /\ rbuf = Blank
  /\ running = TRUE

ServerStep ==
  \/ Wake \/ RecvWhole \/ FinalPart \/ FinalAgain \/ GuiPart \/ GuiAgain
  \/ NoGuiRecv \/ RecvEnd \/ Send \/ Close

ClientStep == SendMessage \/ ReceiveEcho \/ CloseSocket
Network    == DeliverRequest \/ DeliverReply

\* The connection is over, or the process is.
Rest == (~held \/ ~running) /\ UNCHANGED vars

Next == ServerStep \/ ClientStep \/ Network \/ Kill \/ Rest

Spec == Init /\ [][Next]_vars

\* The worker and the client are scheduled, and TCP delivers what it has taken.
Fairness ==
  /\ WF_vars(ServerStep) /\ WF_vars(ClientStep)
  /\ WF_vars(DeliverRequest) /\ WF_vars(DeliverReply)

FairSpec == Spec /\ Fairness
-----------------------------------------------------------------------------
(* Properties.                                                             *)

\* "The date string is then sent to the server and the response (echo) back from
\* the server is displayed" (multi-process-client.c:25-26): what the client shows is
\* the message it has just sent, byte for byte.
DisplayedIsEcho ==
  cpc = "send" /\ sent > 0 => \A i \in Cell : rbuf[i] = sent - BufLen + i + 1

\* While requests arrive whole what is displayed is the echo, however the replies come.
WholeIsEchoed == "requests" \notin split => DisplayedIsEcho

\* While requests and replies arrive whole every message's echo is displayed.
WholeIsDisplayed ==
  split = {} /\ cpc = "recv" ~> cpc = "send" \/ sock # "open" \/ ~running

\* Whatever pieces a message came in, the worker gets out of the read function and
\* closes the connection once the client has gone.
WorkerReleased == sock # "open" ~> ~held \/ ~running

-----------------------------------------------------------------------------
(* With whole messages each read function is one receive and one echo.     *)

Echo == INSTANCE EchoService WITH
          Conn <- {1}, Units <- {BufLen},
          client <- [c \in {1} |-> IF sock = "open" THEN "present" ELSE "left"],
          server <- [c \in {1} |-> IF held THEN "held" ELSE "released"],
          asked <- [c \in {1} |-> sent],
          answered <- [c \in {1} |-> Len(reply)]

\* The steps of a session whose requests arrive whole are those of the abstract
\* service: no byte is sent back that was not asked for, and the connection is
\* closed only after its client left.
EchoSteps == [][ "requests" \notin split => Echo!Next ]_(Echo!vars)
=============================================================================
