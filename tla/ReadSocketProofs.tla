-------------------------- MODULE ReadSocketProofs --------------------------
(***************************************************************************)
(* Proofs about the sessions of ReadSocket whose requests arrive whole,    *)
(* for any BUFLEN and any number of messages: every receive loop then      *)
(* takes the message in one call and sends back what it took, and the      *)
(* client displays it, however the network cuts the replies.               *)
(***************************************************************************)
EXTENDS ReadSocket, SequenceTheorems, TLAPS

Whole == "requests" \notin split

-----------------------------------------------------------------------------
(* The inductive invariant.                                                *)

TypeInv ==
  /\ sock \in {"open", "fin", "reset"} /\ held \in BOOLEAN
  /\ wpc \in {"wait", "recv", "send", "close"} /\ cpc \in {"send", "recv"}
  /\ sent \in Nat /\ recvd \in Nat /\ delivered \in Nat /\ taken \in Nat
  /\ coff \in Nat /\ cleft \in Nat
  /\ reply \in Seq(Nat)

\* The server reads whole messages at the start of its buffer: it has echoed what it
\* has read, but for the message it is about to send, and is at most one behind.
ServerInv ==
  /\ running /\ arrived = sent /\ off = 0 /\ left = BufLen
  /\ sent = recvd \/ sent = recvd + BufLen
  /\ recvd = Len(reply) + (IF wpc = "send" THEN BufLen ELSE 0)
  /\ wpc # "wait" => held
  /\ wpc = "recv" => Available > 0 \/ sock # "open"
  /\ wpc = "close" \/ hup => sock # "open"

\* A byte sent back, and one about to be, is its own number in the request stream.
BytesInv ==
  /\ \A k \in 1 .. Len(reply) : reply[k] = k
  /\ wpc = "send" => \A i \in Cell : buf[i] = Len(reply) + i + 1

\* The client has taken every earlier echo and coff bytes of the one it waits for.
ClientInv ==
  /\ taken <= delivered /\ delivered <= Len(reply)
  /\ cpc = "send" => taken = sent
  /\ cpc = "recv" => cleft = BufLen - coff /\ taken = sent - BufLen + coff
  /\ DisplayedIsEcho

WholeInv == TypeInv /\ ServerInv /\ BytesInv /\ ClientInv

-----------------------------------------------------------------------------
LEMMA InitWhole ==
  ASSUME Init
  PROVE  WholeInv
<1>1. TypeInv
  BY ReadSocketAssumption DEF Init, TypeInv
<1>2. ServerInv
  BY ReadSocketAssumption DEF Init, ServerInv, Available
<1>3. BytesInv /\ ClientInv
  BY DEF Init, BytesInv, ClientInv, DisplayedIsEcho
<1> QED BY <1>1, <1>2, <1>3 DEF WholeInv

\* What one call of recv returns: a whole message, or none.
LEMMA WholeOrNone ==
  ASSUME WholeInv
  PROVE  /\ BufLen \in Nat \ {0}
         /\ Data = Available /\ Available \in {0, BufLen}
         /\ Eof => Available = 0
<1>1. BufLen \in Nat \ {0}
  BY ReadSocketAssumption
<1>2. /\ sent \in Nat /\ recvd \in Nat /\ arrived = sent /\ left = BufLen
      /\ sent = recvd \/ sent = recvd + BufLen
  BY DEF WholeInv, TypeInv, ServerInv
<1>3. Available = 0 \/ Available = BufLen
  BY <1>1, <1>2 DEF Available
<1>4. Data = Available
  BY <1>1, <1>2, <1>3 DEF Data, Least
<1>5. Eof => Available = 0
  BY <1>1, <1>2 DEF Eof
<1> QED BY <1>1, <1>3, <1>4, <1>5

\* The client's steps.
LEMMA ClientWhole ==
  ASSUME WholeInv, Whole, ClientStep
  PROVE  WholeInv'
<1>0. BufLen \in Nat \ {0}
  BY WholeOrNone
<1> USE DEF WholeInv
<1>1. CASE SendMessage
  <2>1. sent = taken /\ taken <= delivered /\ delivered <= Len(reply) /\ Len(reply) \in Nat
    BY <1>1 DEF SendMessage, ClientInv, TypeInv
  <2>2. wpc # "send" /\ sent = recvd
    BY <1>0, <2>1 DEF ServerInv, TypeInv
  <2>3. TypeInv'
    BY <1>0, <1>1 DEF SendMessage, TypeInv, back, server
  <2>4. ServerInv'
    BY <1>0, <1>1, <2>2 DEF SendMessage, ServerInv, TypeInv, Available, back, server, Whole
  <2>5. BytesInv'
    BY <1>1 DEF SendMessage, BytesInv, back, server
  <2>6. ClientInv'
    BY <1>0, <1>1, <2>1 DEF SendMessage, ClientInv, DisplayedIsEcho, TypeInv, back, server
  <2> QED BY <2>3, <2>4, <2>5, <2>6
<1>2. CASE ReceiveEcho
  <2> DEFINE n == Least(cleft, delivered - taken)
  <2>1. n \in Nat /\ n > 0 /\ n <= cleft /\ taken + n <= delivered
    BY <1>2 DEF ReceiveEcho, ClientInv, TypeInv, Least
  <2>2. rbuf' = Filled(rbuf, coff, reply, taken, n) /\ taken' = taken + n
    BY <1>2 DEF ReceiveEcho
  <2>3. \/ n >= BufLen /\ cpc' = "send" /\ UNCHANGED <<coff, cleft>>
        \/ n < BufLen /\ coff' = coff + n /\ cleft' = cleft - n /\ UNCHANGED cpc
    BY <1>2 DEF ReceiveEcho
  <2>4. /\ cpc = "recv"
        /\ UNCHANGED <<sock, sent, arrived, recvd, reply, delivered, held, wpc, hup, off, left, buf, running>>
    BY <1>2 DEF ReceiveEcho, stream, server
  <2> HIDE DEF n
  <2>5. TypeInv'
    BY <1>0, <2>1, <2>2, <2>3, <2>4 DEF TypeInv
  <2>6. ServerInv' /\ BytesInv'
    BY <2>4 DEF ServerInv, BytesInv, Available
  <2>7. CASE n >= BufLen
    <3>1. coff = 0 /\ n = BufLen /\ taken = sent - BufLen /\ sent \in Nat
      BY <1>0, <2>1, <2>4, <2>7 DEF ClientInv, TypeInv
    <3>2. cpc' = "send"
      BY <1>0, <2>1, <2>3, <2>7
    <3>3. \A i \in Cell : rbuf'[i] = reply[taken + i + 1]
      BY <1>0, <2>2, <3>1 DEF Filled, Cell
    <3>4. \A i \in Cell : i \in Int /\ taken + i + 1 \in 1 .. Len(reply)
      BY <1>0, <2>1, <3>1 DEF Cell, ClientInv, TypeInv
    <3>5. \A i \in Cell : rbuf'[i] = sent - BufLen + i + 1
      BY <3>1, <3>3, <3>4 DEF BytesInv
    <3>6. taken' = sent' /\ taken' <= delivered'
      BY <1>0, <2>1, <2>2, <2>4, <3>1 DEF TypeInv
    <3>7. DisplayedIsEcho'
      BY <2>4, <3>5 DEF DisplayedIsEcho
    <3>8. ClientInv'
      BY <2>4, <3>2, <3>6, <3>7 DEF ClientInv
    <3> QED BY <2>5, <2>6, <3>8
  <2>8. CASE n < BufLen
    <3>1. cpc' = "recv" /\ coff' = coff + n /\ cleft' = cleft - n
      BY <1>0, <2>1, <2>3, <2>4, <2>8
    <3>2. cleft = BufLen - coff /\ taken = sent - BufLen + coff
      BY <2>4 DEF ClientInv
    <3>3. taken' = sent' - BufLen + coff' /\ cleft' = BufLen - coff' /\ taken' <= delivered'
      BY <1>0, <2>1, <2>2, <2>4, <3>1, <3>2 DEF TypeInv
    <3>4. ClientInv'
      BY <2>4, <3>1, <3>3 DEF ClientInv, DisplayedIsEcho
    <3> QED BY <2>5, <2>6, <3>4
  <2> QED BY <1>0, <2>1, <2>5, <2>6, <2>7, <2>8
<1>3. CASE CloseSocket
  <2>1. sock' = "fin" /\ UNCHANGED <<stream, back, server, client, running>>
    BY <1>3 DEF CloseSocket
  <2> QED BY <2>1 DEF TypeInv, ServerInv, BytesInv, ClientInv, DisplayedIsEcho, Available,
                     stream, back, server, client
<1> QED BY <1>1, <1>2, <1>3 DEF ClientStep

\* The network's steps, and the client's death.
LEMMA NetworkWhole ==
  ASSUME WholeInv, Network \/ Kill
  PROVE  WholeInv'
<1> USE DEF WholeInv
<1>1. CASE DeliverRequest
  BY <1>1 DEF DeliverRequest, TypeInv, ServerInv
<1>2. CASE DeliverReply
  <2>1. /\ delivered' \in delivered + 1 .. Len(reply)
        /\ UNCHANGED <<sock, stream, reply, taken, server, client, running>>
    BY <1>2 DEF DeliverReply
  <2>2. delivered' \in Nat /\ delivered <= delivered' /\ delivered' <= Len(reply)
    BY <2>1 DEF TypeInv
  <2> QED BY <2>1, <2>2 DEF TypeInv, ServerInv, BytesInv, ClientInv, DisplayedIsEcho, Available,
                     stream, server, client
<1>3. CASE Kill
  <2>1. /\ sock' \in {"fin", "reset"} /\ arrived' = sent
        /\ UNCHANGED <<sent, recvd, back, server, client, running>>
    BY <1>3 DEF Kill, ServerInv
  <2> QED BY <2>1 DEF TypeInv, ServerInv, BytesInv, ClientInv, DisplayedIsEcho, Available,
                     back, server, client
<1> QED BY <1>1, <1>2, <1>3 DEF Network

\* What a step that reads nothing and sends nothing keeps.
LEMMA IdleWhole ==
  ASSUME WholeInv, UNCHANGED <<sock, stream, back, client, running, off, left>>,
         wpc # "send", wpc' \in {"wait", "recv", "close"}, held' \in BOOLEAN,
         wpc' # "wait" => held',
         wpc' = "recv" => Available > 0 \/ sock # "open",
         wpc' = "close" \/ hup' => sock # "open"
  PROVE  WholeInv'
<1>1. TypeInv'
  BY DEF WholeInv, TypeInv, stream, back, client
<1>2. ServerInv'
  BY DEF WholeInv, ServerInv, Available, stream, back
<1>3. BytesInv'
  BY DEF WholeInv, BytesInv, back
<1>4. ClientInv'
  BY DEF WholeInv, ClientInv, DisplayedIsEcho, stream, back, client
<1> QED BY <1>1, <1>2, <1>3, <1>4 DEF WholeInv

\* The receive of a whole message at the start of the buffer.
LEMMA ReceivedWhole ==
  ASSUME WholeInv, InRecv, Data > 0, Received(Data), wpc' = "send",
         UNCHANGED <<sock, sent, arrived, back, held, hup, off, left, client>>
  PROVE  WholeInv'
<1>1. BufLen \in Nat \ {0} /\ Data = BufLen /\ arrived = recvd + BufLen /\ wpc = "recv"
  BY WholeOrNone DEF WholeInv, ServerInv, TypeInv, Available, InRecv
<1>2. /\ recvd' = recvd + BufLen /\ running' /\ recvd = Len(reply)
      /\ buf' = Filled(buf, 0, [i \in 1 .. arrived |-> i], recvd, BufLen)
  BY <1>1 DEF Received, WholeInv, ServerInv, TypeInv
<1>3. TypeInv'
  BY <1>1, <1>2 DEF WholeInv, TypeInv, back, client
<1>4. ServerInv'
  BY <1>1, <1>2, <1>3 DEF WholeInv, TypeInv, ServerInv, Available, InRecv, back
<1>5. BytesInv'
  <2>1. \A i \in Cell : /\ i \in Int /\ 0 <= i /\ i < 0 + BufLen
                        /\ recvd + i - 0 + 1 \in 1 .. arrived
    BY <1>1 DEF Cell, WholeInv, TypeInv
  <2>2. \A i \in Cell : buf'[i] = recvd + i - 0 + 1
    BY <1>2, <2>1 DEF Filled
  <2>3. \A i \in Cell : buf'[i] = Len(reply) + i + 1
    BY <1>2, <2>1, <2>2 DEF WholeInv, TypeInv
  <2> QED BY <2>3 DEF WholeInv, BytesInv, back
<1>6. ClientInv'
  BY DEF WholeInv, ClientInv, DisplayedIsEcho, back, client
<1> QED BY <1>3, <1>4, <1>5, <1>6 DEF WholeInv

\* The whole buffer goes back.
LEMMA SendWhole ==
  ASSUME WholeInv, Send
  PROVE  WholeInv'
<1> DEFINE echo == [i \in 1 .. BufLen |-> buf[i - 1]]
<1>1. BufLen \in Nat \ {0} /\ wpc = "send" /\ reply \in Seq(Nat) /\ Len(reply) \in Nat
  BY WholeOrNone DEF Send, WholeInv, TypeInv
<1>2. /\ reply' = reply \o echo /\ wpc' = (IF hup THEN "close" ELSE "wait")
      /\ delivered' = (IF "replies" \in split THEN delivered ELSE Len(reply'))
      /\ sock' = (IF sock = "fin" THEN "reset" ELSE sock)
      /\ UNCHANGED <<stream, taken, held, hup, off, left, client, running>>
  BY DEF Send, Return
<1>3. \A i \in 1 .. BufLen : i \in Int /\ i - 1 \in Cell /\ buf[i - 1] = Len(reply) + i
  BY <1>1 DEF WholeInv, BytesInv, Cell
<1>4. echo \in Seq(Nat) /\ Len(echo) = BufLen /\ \A i \in 1 .. BufLen : echo[i] = Len(reply) + i
  BY <1>1, <1>3
<1> HIDE DEF echo
<1>5. /\ reply' \in Seq(Nat) /\ Len(reply') = Len(reply) + BufLen
      /\ \A k \in 1 .. Len(reply) + BufLen :
           reply'[k] = IF k <= Len(reply) THEN reply[k] ELSE echo[k - Len(reply)]
  BY <1>1, <1>2, <1>4, ConcatProperties
<1>6. delivered' \in Nat /\ delivered <= delivered' /\ delivered' <= Len(reply')
  BY <1>1, <1>2, <1>5 DEF WholeInv, TypeInv, ClientInv
<1>7. TypeInv'
  BY <1>2, <1>5, <1>6 DEF WholeInv, TypeInv, stream, client
<1>8. ServerInv'
  BY <1>1, <1>2, <1>5 DEF WholeInv, TypeInv, ServerInv, Available, stream
<1>9. BytesInv'
  <2>1. \A k \in 1 .. Len(reply) + BufLen : reply'[k] = k
    <3> TAKE k \in 1 .. Len(reply) + BufLen
    <3>2. CASE k <= Len(reply)
      <4>1. k \in 1 .. Len(reply)
        BY <1>1, <3>2
      <4>2. reply[k] = k
        BY <4>1 DEF WholeInv, BytesInv
      <4>3. reply'[k] = reply[k]
        BY <1>5, <3>2
      <4> QED BY <4>2, <4>3
    <3>3. CASE k > Len(reply)
      <4>1. k - Len(reply) \in 1 .. BufLen /\ k \in Int
        BY <1>1, <3>3
      <4>2. echo[k - Len(reply)] = Len(reply) + (k - Len(reply))
        BY <1>4, <4>1
      <4>3. reply'[k] = echo[k - Len(reply)]
        BY <1>1, <1>5, <3>3, <4>1
      <4> QED BY <1>1, <4>1, <4>2, <4>3
    <3> QED BY <1>1, <3>2, <3>3
  <2> QED BY <1>2, <1>5, <2>1 DEF BytesInv
<1>10. ClientInv'
  BY <1>1, <1>2, <1>5, <1>6 DEF WholeInv, TypeInv, ClientInv, DisplayedIsEcho, stream, client
<1> QED BY <1>7, <1>8, <1>9, <1>10 DEF WholeInv

\* The server's steps: with whole messages the loops' other turns are not taken.
LEMMA ServerWhole ==
  ASSUME WholeInv, ServerStep
  PROVE  WholeInv'
<1>0. /\ BufLen \in Nat \ {0} /\ Data = Available /\ Available \in {0, BufLen}
      /\ wpc = "recv" => Available > 0 \/ sock # "open"
      /\ sock \in {"open", "fin", "reset"} /\ held \in BOOLEAN /\ Available \in Int
      /\ off = 0 /\ left = BufLen
  BY WholeOrNone DEF WholeInv, ServerInv, TypeInv
<1>1. CASE Wake
  <2>1. /\ wpc = "wait" /\ held /\ off' = off /\ left' = left
        /\ UNCHANGED <<held, sock, stream, back, client, running>> /\ hup' = (sock = "fin")
    BY <1>0, <1>1 DEF Wake
  <2>2. \/ sock = "reset" /\ wpc' = "close"
        \/ (sock = "fin" \/ Available > 0) /\ wpc' = "recv"
        \/ wpc' = "wait"
    BY <1>0, <1>1 DEF Wake
  <2> QED BY <2>1, <2>2, IdleWhole
<1>2. CASE RecvWhole
  BY <1>0, <1>2, ReceivedWhole DEF RecvWhole
<1>3. CASE NoGuiRecv
  BY <1>0, <1>3, ReceivedWhole DEF NoGuiRecv, Again, InRecv
<1>4. ~FinalPart /\ ~FinalAgain /\ ~GuiPart /\ ~GuiAgain
  BY <1>0 DEF FinalPart, FinalAgain, GuiPart, GuiAgain, Again, InRecv
<1>5. CASE RecvEnd
  BY <1>0, <1>5, IdleWhole DEF RecvEnd, Return, InRecv, WholeInv, ServerInv
<1>6. CASE Close
  BY <1>0, <1>6, IdleWhole DEF Close, WholeInv, ServerInv
<1> QED BY <1>1, <1>2, <1>3, <1>4, <1>5, <1>6, SendWhole DEF ServerStep

LEMMA NextWhole ==
  ASSUME Whole => WholeInv, [Next]_vars
  PROVE  (Whole => WholeInv)'
<1>1. Whole' = Whole
  BY DEF Whole, Next, ServerStep, ClientStep, Network, Wake, RecvWhole, FinalPart, FinalAgain,
         GuiPart, GuiAgain, NoGuiRecv, RecvEnd, Send, Close, SendMessage, ReceiveEcho,
         CloseSocket, DeliverRequest, DeliverReply, Kill, Rest, vars, session
<1> SUFFICES ASSUME Whole, WholeInv PROVE WholeInv'
  BY <1>1
<1>2. CASE UNCHANGED vars
  BY <1>2 DEF vars, stream, back, server, client, WholeInv, TypeInv, ServerInv, BytesInv,
              ClientInv, DisplayedIsEcho, Available
<1> QED BY <1>2, ClientWhole, NetworkWhole, ServerWhole DEF Next, Rest

LEMMA AlwaysWhole == Spec => [](Whole => WholeInv)
<1>1. Init => (Whole => WholeInv)
  BY InitWhole
<1>2. (Whole => WholeInv) /\ [Next]_vars => (Whole => WholeInv)'
  BY NextWhole
<1> QED BY <1>1, <1>2, PTL DEF Spec

\* While requests arrive whole the client of multi-process-client.c displays, byte
\* for byte, the message it has just sent, whichever of the three receive loops answers.
THEOREM EchoIsDisplayed == Spec => []WholeIsEchoed
<1>1. (Whole => WholeInv) => WholeIsEchoed
  BY DEF Whole, WholeInv, ClientInv, WholeIsEchoed
<1> QED BY <1>1, AlwaysWhole, PTL

-----------------------------------------------------------------------------
(* The steps of EchoService.                                               *)

Hidden == UNCHANGED <<sock, held, sent, reply>>

LEMMA ClientEcho ==
  ASSUME WholeInv, Whole, ClientStep \/ Network \/ Kill
  PROVE  [Echo!Next]_(Echo!vars)
<1>1. CASE SendMessage
  <2>1. sent' = sent + BufLen /\ sock = "open" /\ UNCHANGED <<sock, held, reply>>
    BY <1>1 DEF SendMessage, back, server
  <2>2. Echo!Ask(1, BufLen)
    BY <2>1 DEF Echo!Ask
  <2> QED BY <2>2 DEF Echo!Next
<1>2. CASE CloseSocket \/ Kill
  <2>1. sock = "open" /\ sock' # "open" /\ UNCHANGED <<held, sent, reply>>
    BY <1>2 DEF CloseSocket, Kill, stream, back, server
  <2>2. Echo!Leave(1)
    BY <2>1 DEF Echo!Leave
  <2> QED BY <2>2 DEF Echo!Next
<1>3. CASE ReceiveEcho \/ Network
  <2>1. Hidden
    BY <1>3 DEF Hidden, ReceiveEcho, Network, DeliverRequest, DeliverReply, stream,
                back, server
  <2> QED BY <2>1 DEF Hidden, Echo!vars
<1> QED BY <1>1, <1>2, <1>3 DEF ClientStep

LEMMA ServerEcho ==
  ASSUME WholeInv, ServerStep
  PROVE  [Echo!Next]_(Echo!vars)
<1>0. /\ wpc = "send" => Len(reply) + BufLen <= sent
      /\ wpc # "wait" => held
      /\ wpc = "close" => sock # "open"
      /\ BufLen \in Nat \ {0} /\ sent \in Nat /\ Len(reply) \in Nat /\ reply \in Seq(Nat)
  BY WholeOrNone DEF WholeInv, ServerInv, TypeInv
<1>1. CASE Send
  <2> DEFINE echo == [i \in 1 .. BufLen |-> buf[i - 1]]
  <2>1. /\ wpc = "send" /\ reply' = reply \o echo /\ UNCHANGED <<held, sent>>
        /\ (sock = "open") = (sock' = "open")
    BY <1>1 DEF Send, stream
  <2>2. Len(reply') = Len(reply) + BufLen
    <3>1. \A i \in 1 .. BufLen : buf[i - 1] \in Nat
      BY <1>0, <2>1 DEF WholeInv, BytesInv, Cell
    <3>2. echo \in Seq(Nat) /\ Len(echo) = BufLen
      BY <1>0, <3>1
    <3> HIDE DEF echo
    <3> QED BY <1>0, <2>1, <3>2, ConcatProperties
  <2>3. Echo!Answer(1, BufLen)
    BY <1>0, <2>1, <2>2 DEF Echo!Answer
  <2> QED BY <2>3 DEF Echo!Next
<1>2. CASE Close
  <2>1. wpc = "close" /\ held' = FALSE /\ UNCHANGED <<sock, sent, reply>>
    BY <1>2 DEF Close, stream, back
  <2>2. Echo!Release(1)
    BY <1>0, <2>1 DEF Echo!Release
  <2> QED BY <2>2 DEF Echo!Next
<1>3. CASE ~Send /\ ~Close
  <2>1. Hidden
    BY <1>3 DEF Hidden, ServerStep, Wake, RecvWhole, FinalPart, FinalAgain, GuiPart, GuiAgain,
                NoGuiRecv, RecvEnd, stream, back
  <2> QED BY <2>1 DEF Hidden, Echo!vars
<1> QED BY <1>1, <1>2, <1>3

\* While requests arrive whole each step of client, network and worker is one of the
\* abstract echo service or invisible to it: readSocket and ClearSocket answer no byte
\* that was not asked for, and the worker drops no client that is still there.
THEOREM SessionsEcho == Spec => EchoSteps
<1>1. (Whole => WholeInv) /\ [Next]_vars => [Whole => Echo!Next]_(Echo!vars)
  <2> SUFFICES ASSUME Whole, WholeInv, [Next]_vars
               PROVE  [Echo!Next]_(Echo!vars)
    OBVIOUS
  <2>1. CASE UNCHANGED vars
    BY <2>1 DEF vars, stream, back, server, Echo!vars
  <2> QED BY <2>1, ClientEcho, ServerEcho DEF Next, Rest
<1> QED BY <1>1, AlwaysWhole, PTL DEF Spec, EchoSteps, Whole
=============================================================================
