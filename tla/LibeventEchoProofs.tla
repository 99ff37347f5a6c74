-------------------------- MODULE LibeventEchoProofs --------------------------
(***************************************************************************)
(* Proofs about LibeventEcho, for any number of connections and any sizes  *)
(* of messages, reads, socket buffers and descriptor tables.               *)
(***************************************************************************)
EXTENDS LibeventEcho, SequenceTheorems, TLAPS

-----------------------------------------------------------------------------
(* The inductive invariant.                                                *)

\* How far each party is in a client's stream.
InOrder(c) ==
  /\ taken[c] <= written[c] /\ written[c] <= recvd[c]
  /\ recvd[c] <= arrived[c] /\ arrived[c] <= sent[c]

StreamInv == \A c \in Conn : InOrder(c)

\* The buffers of q follow one another from w to r; none ends after r, which says
\* of each what the chain implies of it.
IsChain(q, w, r) ==
  /\ q = <<>> => w = r
  /\ q # <<>> => q[1].from = w /\ q[Len(q)].to = r
  /\ \A i \in 1 .. Len(q) - 1 : q[i].to = q[i + 1].from
  /\ \A i \in DOMAIN q : q[i].to <= r

Sized(q) == \A i \in DOMAIN q : q[i].to - q[i].from \in 1 .. BufLen

\* A connection is accepted once, by a structure with an empty queue.
Place(c) ==
  /\ c \in waiting => sock[c] # "none" /\ client[c] = "none"
  /\ sock[c] = "none" => client[c] = "none"
  /\ client[c] = "none" => writeq[c] = <<>> /\ ~evWrite[c]

\* What the callbacks still to run were polled for is still so.
Polled(c) ==
  /\ "read" \in active[c] => Readable(c)
  /\ "write" \in active[c] => evWrite[c]
  /\ evWrite[c] => writeq[c] # <<>>

\* The loop waits inside write only for a live client with a buffer, whose write event
\* libevent has removed.
InWrite(c) == turn = c /\ "write" \notin active[c]
Inside(c)  == InWrite(c) => client[c] = "live" /\ writeq[c] # <<>> /\ ~evWrite[c]

\* A message that arrived whole and fits a read is read at once: the client is in
\* step with the server, or its last message is all there is to read.
InStep(c) ==
  /\ recvd[c] = sent[c] \/ (sent[c] = recvd[c] + MsgLen /\ taken[c] = recvd[c])
  /\ Len(writeq[c]) <= 1
  /\ phase # "exited" /\ client[c] = "live" /\ writeq[c] # <<>> => evWrite[c] \/ InWrite(c)

Whole(c) == ~Fragments => arrived[c] = sent[c] /\ (MsgLen <= BufLen => InStep(c))

ConnInv(c) ==
  /\ InOrder(c) /\ IsChain(writeq[c], written[c], recvd[c])
  /\ Place(c) /\ Polled(c) /\ Inside(c) /\ Whole(c)

LibeventInv == TypeOK /\ \A c \in Conn : ConnInv(c)

\* TypeOK for one connection.
ConnType(c) ==
  /\ sock[c] \in SockState /\ client[c] \in {"none", "live", "freed"}
  /\ sent[c] \in Nat /\ arrived[c] \in Nat /\ recvd[c] \in Nat
  /\ written[c] \in Nat /\ taken[c] \in Nat
  /\ writeq[c] \in Seq(Buffer) /\ Sized(writeq[c])
  /\ evWrite[c] \in BOOLEAN /\ active[c] \in SUBSET {"read", "write"}

LEMMA ConnTyped ==
  ASSUME TypeOK, NEW c \in Conn
  PROVE  ConnType(c)
<1>1. /\ sent[c] \in Nat /\ arrived[c] \in Nat /\ recvd[c] \in Nat
      /\ written[c] \in Nat /\ taken[c] \in Nat
      /\ sock[c] \in SockState /\ client[c] \in {"none", "live", "freed"}
  BY DEF TypeOK
<1>2. writeq[c] \in Seq(Buffer) /\ Sized(writeq[c])
  BY DEF TypeOK, Sized
<1>3. evWrite[c] \in BOOLEAN /\ active[c] \in SUBSET {"read", "write"}
  BY Zenon DEF TypeOK
<1> QED BY <1>1, <1>2, <1>3 DEF ConnType

LEMMA InitLibevent == Init => LibeventInv
<1> SUFFICES ASSUME Init PROVE LibeventInv
  OBVIOUS
<1>1. TypeOK
  <2>1. /\ sock = [c \in Conn |-> "none"] /\ sent = [c \in Conn |-> 0]
        /\ arrived = [c \in Conn |-> 0] /\ recvd = [c \in Conn |-> 0]
        /\ written = [c \in Conn |-> 0] /\ taken = [c \in Conn |-> 0]
        /\ waiting = {} /\ cut = {} /\ blocking = {} /\ client = [c \in Conn |-> "none"]
        /\ writeq = [c \in Conn |-> <<>>] /\ active = [c \in Conn |-> {}]
        /\ turn = NoConn /\ phase = "starting" /\ faults = 0
    BY DEF Init
  <2>2. evWrite \in [Conn -> BOOLEAN] /\ acceptActive \in BOOLEAN
    BY DEF Init
  <2>3. \A c \in Conn : writeq[c] \in Seq(Buffer) /\ DOMAIN writeq[c] = {}
    BY <2>1
  <2>4. writeq \in [Conn -> Seq(Buffer)]
    BY <2>1, <2>3
  <2> QED BY <2>1, <2>2, <2>3, <2>4 DEF TypeOK, SockState
<1>2. ASSUME NEW c \in Conn
      PROVE  ConnInv(c)
  BY LibeventAssumption DEF Init, ConnInv, InOrder, IsChain, Place, Polled, Inside, InWrite, Whole, InStep
<1> QED BY <1>1, <1>2 DEF LibeventInv

-----------------------------------------------------------------------------
(* Lemmas about the write queue.                                           *)

\* TAILQ_INSERT_TAIL of the next n units read.
LEMMA ChainAppend ==
  ASSUME NEW q \in Seq(Buffer), NEW w \in Nat, NEW r \in Nat, NEW n \in 1 .. BufLen,
         IsChain(q, w, r), Sized(q)
  PROVE  LET p == Append(q, [from |-> r, to |-> r + n]) IN
         /\ p \in Seq(Buffer) /\ p # <<>> /\ Len(p) = Len(q) + 1
         /\ IsChain(p, w, r + n) /\ Sized(p)
<1> DEFINE b == [from |-> r, to |-> r + n]
           p == Append(q, b)
<1>0. BufLen \in Nat /\ n \in Nat /\ n >= 1
  BY LibeventAssumption
<1>1. b \in Buffer /\ b.from = r /\ b.to = r + n
  BY <1>0 DEF Buffer
<1> HIDE DEF b
<1>2. /\ p \in Seq(Buffer) /\ p # <<>> /\ Len(p) = Len(q) + 1 /\ Len(q) \in Nat
      /\ DOMAIN p = 1 .. Len(q) + 1 /\ DOMAIN q = 1 .. Len(q)
      /\ p[Len(q) + 1] = b /\ \A i \in 1 .. Len(q) : p[i] = q[i]
  BY <1>1
<1> HIDE DEF p
<1>3. Sized(p)
  <2> SUFFICES ASSUME NEW i \in 1 .. Len(q) + 1 PROVE p[i].to - p[i].from \in 1 .. BufLen
    BY <1>2 DEF Sized
  <2>1. CASE i = Len(q) + 1
    <3>1. p[i].to - p[i].from = (r + n) - r
      BY <1>1, <1>2, <2>1
    <3> QED BY <1>0, <3>1
  <2>2. CASE i # Len(q) + 1
    <3>1. i \in DOMAIN q /\ p[i] = q[i]
      BY <1>2, <2>2
    <3> QED BY <3>1 DEF Sized
  <2> QED BY <2>1, <2>2
<1>4. p[1].from = w /\ p[Len(p)].to = r + n
  <2>1. CASE q = <<>>
    BY <1>1, <1>2, <2>1 DEF IsChain
  <2>2. CASE q # <<>>
    <3>1. Len(q) >= 1
      BY <1>2, <2>2
    <3> QED BY <1>1, <1>2, <2>2, <3>1 DEF IsChain
  <2> QED BY <2>1, <2>2
<1>5. ASSUME NEW i \in 1 .. Len(q)
      PROVE  p[i].to = p[i + 1].from
  <2>1. CASE i = Len(q)
    <3>1. q # <<>> /\ p[i] = q[Len(q)] /\ p[i + 1] = b
      BY <1>2, <2>1
    <3> QED BY <1>1, <3>1 DEF IsChain
  <2>2. CASE i # Len(q)
    <3>1. i \in 1 .. Len(q) - 1
      <4>1. Len(q) \in Nat
        BY <1>2
      <4> QED BY <2>2, <4>1
    <3>2. i \in 1 .. Len(q) /\ i + 1 \in 1 .. Len(q)
      BY <1>2, <3>1
    <3>3. p[i] = q[i] /\ p[i + 1] = q[i + 1]
      BY <1>2, <3>2
    <3> QED BY <3>1, <3>3 DEF IsChain
  <2> QED BY <2>1, <2>2
<1>6. ASSUME NEW i \in DOMAIN p
      PROVE  p[i].to <= r + n
  <2>1. CASE i = Len(q) + 1
    BY <1>0, <1>1, <1>2, <2>1
  <2>2. CASE i # Len(q) + 1
    <3>1. i \in DOMAIN q /\ p[i] = q[i] /\ q[i] \in Buffer
      BY <1>2, <2>2
    <3>2. q[i].to <= r /\ q[i].to \in Nat
      BY <3>1 DEF IsChain, Buffer
    <3> QED BY <1>0, <3>1, <3>2
  <2> QED BY <2>1, <2>2
<1>7. Len(p) - 1 = Len(q)
  BY <1>2
<1>8. IsChain(p, w, r + n)
  BY <1>2, <1>4, <1>5, <1>6, <1>7 DEF IsChain
<1> QED BY <1>2, <1>3, <1>8 DEF p, b

\* The first buffer is what is written next.
LEMMA ChainHead ==
  ASSUME NEW q \in Seq(Buffer), NEW w \in Nat, NEW r \in Nat, q # <<>>,
         IsChain(q, w, r), Sized(q)
  PROVE  /\ Head(q) = q[1] /\ q[1] \in Buffer /\ Len(q) \in Nat /\ Len(q) >= 1
         /\ Head(q).from = w /\ Head(q).to \in Nat /\ Head(q).to <= r
         /\ Head(q).to - Head(q).from \in 1 .. BufLen
<1>1. Len(q) \in Nat /\ Len(q) >= 1 /\ DOMAIN q = 1 .. Len(q) /\ Head(q) = q[1]
  OBVIOUS
<1>2. 1 \in DOMAIN q /\ q[1] \in Buffer
  BY <1>1
<1> QED BY <1>1, <1>2 DEF IsChain, Sized, Buffer

\* TAILQ_REMOVE of the first buffer once it is written.
LEMMA ChainTail ==
  ASSUME NEW q \in Seq(Buffer), NEW w \in Nat, NEW r \in Nat, q # <<>>,
         IsChain(q, w, r), Sized(q)
  PROVE  /\ Tail(q) \in Seq(Buffer) /\ Len(Tail(q)) = Len(q) - 1
         /\ IsChain(Tail(q), Head(q).to, r) /\ Sized(Tail(q))
<1> DEFINE p == Tail(q)
           n == Len(q)
<1>1. /\ p \in Seq(Buffer) /\ n \in Nat /\ n >= 1 /\ Len(p) = n - 1
      /\ DOMAIN q = 1 .. n /\ DOMAIN p = 1 .. n - 1
      /\ \A i \in 1 .. n - 1 : p[i] = q[i + 1]
  OBVIOUS
<1>2. Head(q) = q[1]
  OBVIOUS
<1> HIDE DEF p
<1>3. ASSUME NEW i \in DOMAIN p
      PROVE  i + 1 \in DOMAIN q /\ p[i] = q[i + 1]
  BY <1>1
<1>4. Sized(p) /\ \A i \in DOMAIN p : p[i].to <= r
  BY <1>3 DEF Sized, IsChain
<1>5. p = <<>> => Head(q).to = r
  <2>1. p = <<>> => n = 1
    BY <1>1
  <2> QED BY <1>2, <2>1 DEF IsChain
<1>6. p # <<>> => p[1].from = Head(q).to /\ p[Len(p)].to = r
  <2> SUFFICES ASSUME p # <<>> PROVE p[1].from = Head(q).to /\ p[Len(p)].to = r
    OBVIOUS
  <2>1. n - 1 >= 1
    BY <1>1
  <2>2. 1 \in 1 .. n - 1 /\ p[1] = q[1 + 1] /\ p[Len(p)] = q[n - 1 + 1]
    BY <1>1, <2>1
  <2>3. n - 1 + 1 = n
    BY <1>1
  <2>4. q[1].to = q[1 + 1].from
    BY <2>2 DEF IsChain
  <2> QED BY <1>2, <2>2, <2>3, <2>4 DEF IsChain
<1>7. ASSUME NEW i \in 1 .. Len(p) - 1
      PROVE  p[i].to = p[i + 1].from
  <2>1. i \in 1 .. n - 1 /\ i + 1 \in 1 .. n - 1
    BY <1>1
  <2> QED BY <1>1, <2>1 DEF IsChain
<1> QED BY <1>1, <1>4, <1>5, <1>6, <1>7 DEF IsChain, p

\* bufferq->offset moves on by the k units written of the first buffer.
LEMMA ChainPart ==
  ASSUME NEW q \in Seq(Buffer), NEW w \in Nat, NEW r \in Nat, q # <<>>,
         IsChain(q, w, r), Sized(q),
         NEW k \in Nat \ {0}, Head(q).to - Head(q).from > k
  PROVE  LET p == [q EXCEPT ![1].from = @ + k] IN
         /\ p \in Seq(Buffer) /\ p # <<>> /\ Len(p) = Len(q)
         /\ IsChain(p, w + k, r) /\ Sized(p)
<1> DEFINE b == [q[1] EXCEPT !.from = @ + k]
           p == [q EXCEPT ![1].from = @ + k]
           n == Len(q)
<1>1. /\ n \in Nat /\ n >= 1 /\ DOMAIN q = 1 .. n /\ q[1] \in Buffer /\ Head(q) = q[1]
      /\ q[1].from = w /\ q[1].to \in Nat /\ q[1].to <= r /\ q[1].to - w \in 1 .. BufLen
  BY ChainHead
<1>2. b \in Buffer /\ b.from = w + k /\ b.to = q[1].to
  BY <1>1 DEF Buffer
<1>3. /\ DOMAIN p = 1 .. n /\ p[1] = b /\ \A i \in 2 .. n : p[i] = q[i]
  BY <1>1
<1>4. p \in Seq(Buffer) /\ Len(p) = n
  <2>1. \A i \in 1 .. n : p[i] \in Buffer
    BY <1>1, <1>2, <1>3
  <2>2. p = [i \in 1 .. n |-> p[i]]
    BY <1>3
  <2>3. p \in [1 .. n -> Buffer]
    BY <2>1, <2>2
  <2> QED BY <1>1, <2>3
<1> HIDE DEF p, b
<1>5. p # <<>>
  BY <1>1, <1>4
<1>6. Sized(p)
  <2>1. b.to - b.from \in 1 .. BufLen
    BY <1>1, <1>2, LibeventAssumption
  <2> QED BY <1>1, <1>3, <2>1 DEF Sized
<1>7. p[Len(p)].to = r
  BY <1>1, <1>2, <1>3, <1>4 DEF IsChain
<1>8. ASSUME NEW i \in 1 .. Len(p) - 1
      PROVE  p[i].to = p[i + 1].from
  BY <1>1, <1>2, <1>3, <1>4 DEF IsChain
<1>9. ASSUME NEW i \in DOMAIN p
      PROVE  p[i].to <= r
  BY <1>1, <1>2, <1>3 DEF IsChain
<1> QED BY <1>2, <1>3, <1>4, <1>5, <1>6, <1>7, <1>8, <1>9 DEF IsChain, p

-----------------------------------------------------------------------------
(* A step is about one connection.                                         *)

Shaped ==
  /\ sock = [d \in Conn |-> sock[d]] /\ client = [d \in Conn |-> client[d]]
  /\ sent = [d \in Conn |-> sent[d]] /\ arrived = [d \in Conn |-> arrived[d]]
  /\ recvd = [d \in Conn |-> recvd[d]] /\ written = [d \in Conn |-> written[d]]
  /\ taken = [d \in Conn |-> taken[d]] /\ writeq = [d \in Conn |-> writeq[d]]
  /\ evWrite = [d \in Conn |-> evWrite[d]] /\ active = [d \in Conn |-> active[d]]

LEMMA TypedIsShaped == TypeOK => Shaped
<1> SUFFICES ASSUME TypeOK PROVE Shaped
  OBVIOUS
<1>1. /\ sock = [d \in Conn |-> sock[d]] /\ client = [d \in Conn |-> client[d]]
      /\ sent = [d \in Conn |-> sent[d]] /\ arrived = [d \in Conn |-> arrived[d]]
      /\ recvd = [d \in Conn |-> recvd[d]] /\ written = [d \in Conn |-> written[d]]
      /\ taken = [d \in Conn |-> taken[d]] /\ writeq = [d \in Conn |-> writeq[d]]
  BY DEF TypeOK
<1>2. evWrite = [d \in Conn |-> evWrite[d]] /\ active = [d \in Conn |-> active[d]]
  BY DEF TypeOK
<1> QED BY <1>1, <1>2 DEF Shaped

\* Nothing of connection d moves.
Same(d) ==
  /\ sock'[d] = sock[d] /\ client'[d] = client[d]
  /\ sent'[d] = sent[d] /\ arrived'[d] = arrived[d] /\ recvd'[d] = recvd[d]
  /\ written'[d] = written[d] /\ taken'[d] = taken[d]
  /\ writeq'[d] = writeq[d] /\ evWrite'[d] = evWrite[d] /\ active'[d] = active[d]
  /\ d \in waiting' <=> d \in waiting
  /\ InWrite(d)' <=> InWrite(d)

\* What is not about connections.
LoopType ==
  /\ waiting \in SUBSET Conn /\ cut \in SUBSET Conn /\ blocking \in SUBSET Conn
  /\ acceptActive \in BOOLEAN /\ turn \in Conn \cup {NoConn}
  /\ phase \in {"starting", "running", "exited"} /\ faults \in Nat

LEMMA SameKeeps ==
  ASSUME NEW d \in Conn, ConnType(d), ConnInv(d), Same(d), phase = "exited" => phase' = "exited"
  PROVE  ConnType(d)' /\ ConnInv(d)'
<1>1. ConnType(d)'
  BY DEF Same, ConnType, Sized
<1>2. IsChain(writeq'[d], written'[d], recvd'[d])
  BY DEF Same, ConnInv
<1>3. InOrder(d)' /\ Place(d)'
  BY DEF Same, ConnInv, InOrder, Place
<1>4. Polled(d)'
  BY DEF Same, ConnInv, Polled, Readable, Unread, Gone
<1>5. Whole(d)'
  BY DEF Same, ConnInv, Whole, InStep
<1>6. Inside(d)'
  BY DEF Same, ConnInv, Inside
<1> QED BY <1>1, <1>2, <1>3, <1>4, <1>5, <1>6 DEF ConnInv

LEMMA OneMoves ==
  ASSUME LibeventInv, NEW c \in Conn, Shaped', LoopType',
         phase = "exited" => phase' = "exited",
         \A d \in Conn \ {c} : Same(d), ConnType(c)', ConnInv(c)'
  PROVE  LibeventInv'
<1>1. ASSUME NEW d \in Conn
      PROVE  ConnType(d)' /\ ConnInv(d)'
  <2>1. CASE d = c
    BY <2>1
  <2>2. CASE d # c
    BY <2>2, ConnTyped, SameKeeps DEF LibeventInv
  <2> QED BY <2>1, <2>2
<1>2. /\ sock' \in [Conn -> SockState] /\ client' \in [Conn -> {"none", "live", "freed"}]
      /\ sent' \in [Conn -> Nat] /\ arrived' \in [Conn -> Nat] /\ recvd' \in [Conn -> Nat]
      /\ written' \in [Conn -> Nat] /\ taken' \in [Conn -> Nat]
  BY <1>1 DEF ConnType, Shaped
<1>3. /\ writeq' \in [Conn -> Seq(Buffer)]
      /\ \A d \in Conn : \A i \in DOMAIN writeq'[d] :
           writeq'[d][i].to - writeq'[d][i].from \in 1 .. BufLen
  BY <1>1 DEF ConnType, Shaped, Sized
<1>4. evWrite' \in [Conn -> BOOLEAN] /\ active' \in [Conn -> SUBSET {"read", "write"}]
  <2>1. \A d \in Conn : evWrite'[d] \in BOOLEAN /\ active'[d] \in SUBSET {"read", "write"}
    BY <1>1 DEF ConnType
  <2>2. evWrite' = [d \in Conn |-> evWrite'[d]] /\ active' = [d \in Conn |-> active'[d]]
    BY DEF Shaped
  <2> QED BY <2>1, <2>2, Zenon
<1>5. TypeOK'
  BY <1>2, <1>3, <1>4 DEF TypeOK, LoopType
<1> QED BY <1>1, <1>5 DEF LibeventInv

\* What an action about c may touch.
Frame(c) ==
  /\ Shaped' /\ LoopType' /\ \A d \in Conn \ {c} : Same(d)
  /\ phase = "exited" => phase' = "exited"

LEMMA ClientFrame ==
  ASSUME TypeOK, NEW c \in Conn, Connect(c) \/ ClientStep(c) \/ Kill(c)
  PROVE  Frame(c)
<1>0. Shaped /\ LoopType
  BY TypedIsShaped DEF TypeOK, LoopType
<1>1. UNCHANGED <<recvd, written, client, writeq, evWrite, blocking, active, acceptActive, turn,
                  phase, faults>>
  BY DEF Connect, ClientStep, SendMessage, Deliver, TakeEcho, CloseSocket, Kill, objects, loop, process
<1>2. waiting' \in SUBSET Conn /\ \A d \in Conn \ {c} : d \in waiting' <=> d \in waiting
  BY <1>0 DEF Connect, ClientStep, SendMessage, Deliver, TakeEcho, CloseSocket, Kill, LoopType
<1>3. /\ sock' = [d \in Conn |-> sock'[d]] /\ \A d \in Conn \ {c} : sock'[d] = sock[d]
      /\ taken' = [d \in Conn |-> taken'[d]] /\ \A d \in Conn \ {c} : taken'[d] = taken[d]
      /\ sent' = [d \in Conn |-> sent'[d]] /\ \A d \in Conn \ {c} : sent'[d] = sent[d]
  BY DEF TypeOK, Connect, ClientStep, SendMessage, Deliver, TakeEcho, CloseSocket, Kill
<1>4. arrived' = [d \in Conn |-> arrived'[d]] /\ \A d \in Conn \ {c} : arrived'[d] = arrived[d]
  <2>1. arrived \in [Conn -> Nat]
    BY DEF TypeOK
  <2>2. arrived' = arrived \/ \E n : arrived' = [arrived EXCEPT ![c] = n]
    BY DEF Connect, ClientStep, SendMessage, Deliver, TakeEcho, CloseSocket, Kill
  <2> QED BY <2>1, <2>2
<1>5. Shaped'
  BY <1>0, <1>1, <1>3, <1>4 DEF Shaped
<1>6. LoopType'
  <2>1. cut' \in SUBSET Conn
    BY <1>0 DEF Connect, ClientStep, SendMessage, Deliver, TakeEcho, CloseSocket, Kill, LoopType
  <2> QED BY <1>0, <1>1, <1>2, <2>1 DEF LoopType
<1>7. \A d \in Conn \ {c} : Same(d)
  BY <1>1, <1>2, <1>3, <1>4 DEF Same, InWrite
<1> QED BY <1>1, <1>5, <1>6, <1>7 DEF Frame

LEMMA CallbackFrame ==
  ASSUME TypeOK, NEW c \in Conn, Callback(c)
  PROVE  Frame(c)
<1>0. Shaped /\ LoopType
  BY TypedIsShaped DEF TypeOK, LoopType
<1> USE DEF Callback, OnReadData, OnReadEnd, OnWriteAll, OnWritePart, OnWriteFatal, OnWriteAgain,
            OnWriteFreed, OnWriteBlocks, OnWriteResumes, OnWriteReturns, SendsAll, SendsPart, Sends
<1>1. UNCHANGED <<sent, arrived, taken, waiting, cut, blocking>>
  BY DEF conns
<1>2. /\ acceptActive' = acceptActive /\ turn \in {c, NoConn} /\ turn' \in {c, NoConn}
      /\ active' = active \/ \E S : active' = [active EXCEPT ![c] = @ \ S]
  BY DEF AfterRead, AfterWrite, ReadNext, WriteNext, Writing
<1>3. /\ phase' \in {phase, "running", "exited"} /\ (phase = "exited" => phase' = "exited")
      /\ faults' \in {faults, faults + 1}
  BY DEF ReadNext, WriteNext, Writing, process
<1>4. sock' = sock \/ \E x : sock' = [sock EXCEPT ![c] = x]
  BY DEF conns
<1>5. recvd' = recvd \/ \E x : recvd' = [recvd EXCEPT ![c] = x]
  BY DEF conns
<1>6. written' = written \/ \E x : written' = [written EXCEPT ![c] = x]
  BY DEF conns
<1>7. client' = client \/ \E x : client' = [client EXCEPT ![c] = x]
  OBVIOUS
<1>8. evWrite' = evWrite \/ \E x : evWrite' = [evWrite EXCEPT ![c] = x]
  OBVIOUS
<1>9. writeq' = writeq \/ \E x : writeq' = [writeq EXCEPT ![c] = x]
  OBVIOUS
<1>10. Shaped'
  BY <1>0, <1>1, <1>2, <1>4, <1>5, <1>6, <1>7, <1>8, <1>9 DEF Shaped
<1>11. LoopType'
  <2>1. acceptActive' \in BOOLEAN
    BY <1>0, <1>2, Zenon DEF LoopType
  <2> QED BY <1>0, <1>1, <1>2, <1>3, <2>1 DEF LoopType
<1>12. \A d \in Conn \ {c} : Same(d)
  <2>1. \A d \in Conn \ {c} : ~InWrite(d) /\ ~InWrite(d)'
    BY <1>2, LibeventAssumption DEF InWrite
  <2> QED BY <1>0, <1>1, <1>2, <1>4, <1>5, <1>6, <1>7, <1>8, <1>9, <2>1 DEF Shaped, Same
<1> QED BY <1>3, <1>10, <1>11, <1>12 DEF Frame

-----------------------------------------------------------------------------
(* The clients.                                                            *)

LEMMA ConnectInv ==
  ASSUME LibeventInv, NEW c \in Conn, Connect(c)
  PROVE  LibeventInv'
<1>0. TypeOK /\ ConnType(c) /\ ConnInv(c) /\ Frame(c)
  BY ConnTyped, ClientFrame DEF LibeventInv
<1>1. /\ sock[c] = "none" /\ sock'[c] = "established"
      /\ UNCHANGED <<sent, arrived, recvd, written, taken, client, writeq, evWrite, active, turn, phase>>
  BY <1>0 DEF Connect, TypeOK, objects, loop, process
<1>2. ConnType(c)'
  BY <1>0, <1>1 DEF ConnType, SockState, Sized
<1>3. InOrder(c)' /\ Place(c)' /\ Polled(c)' /\ Inside(c)' /\ Whole(c)'
  BY <1>0, <1>1
     DEF ConnInv, InOrder, Place, Polled, Inside, InWrite, Whole, InStep, Readable, Unread, Gone
<1>4. ConnInv(c)'
  BY <1>0, <1>1, <1>3 DEF ConnInv
<1> QED BY <1>0, <1>2, <1>4, OneMoves DEF Frame

\* A message, or the next piece of one.
LEMMA SendInv ==
  ASSUME LibeventInv, NEW c \in Conn, SendMessage(c) \/ Deliver(c)
  PROVE  LibeventInv'
<1>0. TypeOK /\ ConnType(c) /\ ConnInv(c) /\ Frame(c)
  BY ConnTyped, ClientFrame DEF LibeventInv, ClientStep
<1>a. /\ sent[c] \in Nat /\ arrived[c] \in Nat /\ recvd[c] \in Nat /\ written[c] \in Nat /\ taken[c] \in Nat
      /\ taken[c] <= written[c] /\ written[c] <= recvd[c]
      /\ recvd[c] <= arrived[c] /\ arrived[c] <= sent[c]
  BY <1>0 DEF ConnType, ConnInv, InOrder
<1>b. sent \in [Conn -> Nat] /\ arrived \in [Conn -> Nat] /\ MsgLen \in Nat /\ MsgLen > 0 /\ Fragments \in BOOLEAN
  BY <1>0, LibeventAssumption DEF TypeOK
<1>1. UNCHANGED <<sock, recvd, written, taken, waiting, client, writeq, evWrite, active, turn, phase>>
  BY DEF SendMessage, Deliver, objects, loop, process
<1>2. \/ /\ taken[c] = sent[c] /\ sent'[c] = sent[c] + MsgLen
         /\ arrived'[c] = IF Fragments THEN arrived[c] ELSE sent'[c]
      \/ /\ sent'[c] = sent[c] /\ arrived'[c] \in arrived[c] + 1 .. sent[c]
  BY <1>b DEF SendMessage, Deliver
<1>3. /\ sent'[c] \in Nat /\ arrived'[c] \in Nat
      /\ arrived[c] <= arrived'[c] /\ arrived'[c] <= sent'[c]
  BY <1>a, <1>b, <1>2
<1>4. ConnType(c)'
  BY <1>0, <1>1, <1>3 DEF ConnType, Sized
<1>5. InOrder(c)'
  BY <1>a, <1>1, <1>3 DEF InOrder
<1>6. Place(c)'
  BY <1>0, <1>1 DEF ConnInv, Place
<1>7. Polled(c)'
  <2>1. Readable(c) => Readable(c)'
    BY <1>a, <1>1, <1>3 DEF Readable, Unread, Gone
  <2> QED BY <1>0, <1>1, <2>1 DEF ConnInv, Polled
<1>8. Whole(c)'
  <2> SUFFICES ASSUME ~Fragments PROVE Whole(c)'
    BY DEF Whole
  <2>1. arrived[c] = sent[c]
    BY <1>0 DEF ConnInv, Whole
  <2>2. /\ taken[c] = sent[c] /\ sent'[c] = sent[c] + MsgLen /\ arrived'[c] = sent'[c]
    BY <1>a, <1>2, <2>1
  <2>3. sent'[c] = recvd'[c] + MsgLen /\ taken'[c] = recvd'[c]
    BY <1>a, <1>b, <1>1, <2>2
  <2>4. MsgLen <= BufLen => InStep(c)'
    BY <1>0, <1>1, <2>3 DEF ConnInv, Whole, InStep, InWrite
  <2> QED BY <2>2, <2>4 DEF Whole
<1>9. ConnInv(c)'
  BY <1>0, <1>1, <1>5, <1>6, <1>7, <1>8 DEF ConnInv, Inside, InWrite
<1> QED BY <1>0, <1>4, <1>9, OneMoves DEF Frame

\* The client takes its echo, closes or dies.
LEMMA LeaveInv ==
  ASSUME LibeventInv, NEW c \in Conn, TakeEcho(c) \/ CloseSocket(c) \/ Kill(c)
  PROVE  LibeventInv'
<1>0. TypeOK /\ ConnType(c) /\ ConnInv(c) /\ Frame(c)
  BY ConnTyped, ClientFrame DEF LibeventInv, ClientStep
<1>a. /\ sent[c] \in Nat /\ arrived[c] \in Nat /\ recvd[c] \in Nat /\ written[c] \in Nat /\ taken[c] \in Nat
      /\ taken[c] <= written[c] /\ written[c] <= recvd[c]
      /\ recvd[c] <= arrived[c] /\ arrived[c] <= sent[c]
  BY <1>0 DEF ConnType, ConnInv, InOrder
<1>b. /\ arrived \in [Conn -> Nat] /\ taken \in [Conn -> Nat] /\ sock \in [Conn -> SockState]
      /\ MsgLen \in Nat /\ MsgLen > 0
  BY <1>0, LibeventAssumption DEF TypeOK
<1>1. UNCHANGED <<sent, recvd, written, waiting, client, writeq, evWrite, active, turn, phase>>
  BY DEF TakeEcho, CloseSocket, Kill, objects, loop, process
<1>2. sock[c] = "established" /\ sock'[c] \in {"established", "fin", "reset"}
  BY <1>b DEF TakeEcho, CloseSocket, Kill
<1>3. arrived'[c] = arrived[c] \/ arrived'[c] = sent[c]
  BY <1>b DEF TakeEcho, CloseSocket, Kill
<1>4. taken'[c] = taken[c] \/ (taken[c] < written[c] /\ taken'[c] = written[c])
  BY <1>b DEF TakeEcho, CloseSocket, Kill
<1>5. /\ taken'[c] \in Nat /\ arrived'[c] \in Nat /\ taken'[c] <= written[c]
      /\ arrived[c] <= arrived'[c] /\ arrived'[c] <= sent[c]
  BY <1>a, <1>3, <1>4
<1>6. ConnType(c)'
  BY <1>0, <1>1, <1>2, <1>5 DEF ConnType, SockState, Sized
<1>7. InOrder(c)'
  BY <1>a, <1>1, <1>5 DEF InOrder
<1>8. Place(c)'
  BY <1>0, <1>1, <1>2 DEF ConnInv, Place
<1>9. Polled(c)'
  <2>1. Readable(c) => Readable(c)'
    BY <1>a, <1>1, <1>2, <1>5 DEF Readable, Unread, Gone
  <2> QED BY <1>0, <1>1, <2>1 DEF ConnInv, Polled
<1>10. Whole(c)'
  <2> SUFFICES ASSUME ~Fragments PROVE Whole(c)'
    BY DEF Whole
  <2>1. arrived[c] = sent[c] /\ (MsgLen <= BufLen => InStep(c))
    BY <1>0 DEF ConnInv, Whole
  <2>2. arrived'[c] = sent'[c]
    BY <1>1, <1>3, <2>1
  <2>3. ASSUME MsgLen <= BufLen
        PROVE  recvd'[c] = sent'[c] \/ (sent'[c] = recvd'[c] + MsgLen /\ taken'[c] = recvd'[c])
    BY <1>a, <1>1, <1>4, <2>1, <2>3 DEF InStep
  <2>4. MsgLen <= BufLen => InStep(c)'
    BY <1>1, <2>1, <2>3 DEF InStep, InWrite
  <2> QED BY <2>2, <2>4 DEF Whole
<1>11. ConnInv(c)'
  BY <1>0, <1>1, <1>7, <1>8, <1>9, <1>10 DEF ConnInv, Inside, InWrite
<1> QED BY <1>0, <1>6, <1>11, OneMoves DEF Frame

-----------------------------------------------------------------------------
(* The loop and on_accept.                                                 *)

LEMMA PollInv ==
  ASSUME LibeventInv, Poll
  PROVE  LibeventInv'
<1>0. /\ TypeOK /\ active' = [c \in Conn |-> ReadyEvents(c)] /\ acceptActive' = (waiting # {})
      /\ turn = NoConn
      /\ UNCHANGED <<sock, sent, arrived, recvd, written, taken, cut, waiting, client, writeq, evWrite,
                     blocking, turn, phase, faults>>
  BY DEF LibeventInv, Poll, Idle, conns, objects, process
<1>1. TypeOK'
  <2>1. \A c \in Conn : ReadyEvents(c) \in SUBSET {"read", "write"}
    BY DEF ReadyEvents
  <2>2. active' \in [Conn -> SUBSET {"read", "write"}] /\ acceptActive' \in BOOLEAN
    BY <1>0, <2>1
  <2> QED BY <1>0, <2>2 DEF TypeOK
<1>2. ASSUME NEW c \in Conn
      PROVE  ConnInv(c)'
  <2>0. ConnInv(c)
    BY DEF LibeventInv
  <2>1. active'[c] = ReadyEvents(c)
    BY <1>0
  <2>2. "read" \in active'[c] => Readable(c)
    BY <2>1 DEF ReadyEvents
  <2>3. "write" \in active'[c] => evWrite[c]
    BY <2>1 DEF ReadyEvents
  <2>4. Polled(c)'
    BY <1>0, <2>0, <2>2, <2>3 DEF ConnInv, Polled, Readable, Unread, Gone
  <2>5. ~InWrite(c) /\ ~InWrite(c)'
    BY <1>0, LibeventAssumption DEF InWrite
  <2> QED BY <1>0, <2>0, <2>4, <2>5 DEF ConnInv, InOrder, Place, Inside, Whole, InStep
<1> QED BY <1>1, <1>2 DEF LibeventInv

LEMMA AcceptInv ==
  ASSUME LibeventInv, OnAccept
  PROVE  LibeventInv'
<1>0. /\ TypeOK /\ Shaped /\ acceptActive' = FALSE /\ evWrite' = evWrite
      /\ UNCHANGED <<sock, sent, arrived, recvd, written, taken, cut, active, turn, phase>>
      /\ turn = NoConn /\ blocking' \in SUBSET Conn /\ faults' \in Nat
  BY TypedIsShaped DEF LibeventInv, TypeOK, OnAccept, conns, objects
<1>1. CASE UNCHANGED <<waiting, client, writeq>>
  <2>1. TypeOK'
    BY <1>0, <1>1 DEF TypeOK
  <2>2. ASSUME NEW c \in Conn
        PROVE  ConnInv(c)'
    <3>0. ConnInv(c)
      BY DEF LibeventInv
    <3> QED BY <1>0, <1>1, <3>0
            DEF ConnInv, InOrder, Place, Polled, Inside, InWrite, Whole, InStep, Readable, Unread, Gone
  <2> QED BY <2>1, <2>2 DEF LibeventInv
<1>2. ASSUME NEW c \in waiting, waiting' = waiting \ {c},
             client' = [client EXCEPT ![c] = "live"], writeq' = [writeq EXCEPT ![c] = <<>>]
      PROVE  LibeventInv'
  <2>0. c \in Conn /\ waiting \in SUBSET Conn
    BY <1>0 DEF TypeOK
  <2>1. ConnType(c) /\ ConnInv(c)
    BY <1>0, <2>0, ConnTyped DEF LibeventInv
  <2>2. client[c] = "none" /\ writeq[c] = <<>> /\ sock[c] # "none" /\ ~evWrite[c]
    BY <1>2, <2>1 DEF ConnInv, Place
  <2>3. client'[c] = "live" /\ writeq'[c] = writeq[c] /\ c \notin waiting'
    BY <1>0, <1>2, <2>0, <2>2 DEF Shaped
  <2>4. Shaped' /\ \A d \in Conn \ {c} : Same(d)
    BY <1>0, <1>2, <2>0 DEF Shaped, Same, InWrite
  <2>5. LoopType'
    <3>1. acceptActive' \in BOOLEAN
      BY <1>0, Zenon
    <3> QED BY <1>0, <1>2, <2>0, <3>1 DEF LoopType, TypeOK
  <2>6. ConnType(c)'
    BY <1>0, <2>1, <2>3 DEF ConnType, Sized
  <2>7. ConnInv(c)'
    <3>1. ~InWrite(c) /\ ~InWrite(c)'
      BY <1>0, <2>0, LibeventAssumption DEF InWrite
    <3> QED BY <1>0, <2>1, <2>2, <2>3, <3>1
            DEF ConnInv, InOrder, Place, Polled, Inside, Whole, InStep, Readable, Unread, Gone
  <2> QED BY <1>0, <2>0, <2>4, <2>5, <2>6, <2>7, OneMoves
<1> QED BY <1>1, <1>2 DEF OnAccept, objects

LEMMA ProcessInv ==
  ASSUME LibeventInv, Start \/ OutOfMemory \/ Rest \/ UNCHANGED vars
  PROVE  LibeventInv'
<1>0. /\ TypeOK /\ phase' \in {"starting", "running", "exited"} /\ faults' \in {faults, faults + 1}
      /\ phase = "exited" => phase' = "exited"
      /\ UNCHANGED <<sock, sent, arrived, recvd, written, taken, cut, waiting, client, writeq, evWrite,
                     blocking, active, acceptActive, turn>>
  BY DEF LibeventInv, TypeOK, Start, OutOfMemory, Rest, vars, conns, objects, loop, process
<1>1. TypeOK'
  BY <1>0 DEF TypeOK
<1>2. ASSUME NEW c \in Conn
      PROVE  ConnInv(c)'
  <2>1. ConnInv(c)
    BY DEF LibeventInv
  <2> QED BY <1>0, <2>1
          DEF ConnInv, InOrder, Place, Polled, Inside, InWrite, Whole, InStep, Readable, Unread, Gone
<1> QED BY <1>1, <1>2 DEF LibeventInv

-----------------------------------------------------------------------------
(* on_read.                                                                *)

LEMMA OnReadDataInv ==
  ASSUME LibeventInv, NEW c \in Conn, OnReadData(c)
  PROVE  LibeventInv'
<1> DEFINE len == Least(BufLen, Unread(c))
<1>0. TypeOK /\ ConnType(c) /\ ConnInv(c) /\ Frame(c)
  BY ConnTyped, CallbackFrame DEF LibeventInv, Callback
<1>a. /\ sent[c] \in Nat /\ arrived[c] \in Nat /\ recvd[c] \in Nat /\ written[c] \in Nat /\ taken[c] \in Nat
      /\ taken[c] <= written[c] /\ written[c] <= recvd[c]
      /\ recvd[c] <= arrived[c] /\ arrived[c] <= sent[c]
  BY <1>0 DEF ConnType, ConnInv, InOrder
<1>b. /\ BufLen \in Nat /\ BufLen > 0 /\ MsgLen \in Nat /\ MsgLen > 0
      /\ recvd \in [Conn -> Nat] /\ Shaped
  <2>1. /\ BufLen \in Nat /\ BufLen > 0 /\ MsgLen \in Nat /\ MsgLen > 0
    BY LibeventAssumption
  <2>2. recvd \in [Conn -> Nat]
    BY <1>0 DEF TypeOK
  <2>3. Shaped
    BY <1>0, TypedIsShaped
  <2> QED BY <2>1, <2>2, <2>3
<1>1. /\ client[c] = "live" /\ arrived[c] - recvd[c] > 0
      /\ UNCHANGED <<sock, sent, arrived, written, taken, waiting, client, phase>>
  BY DEF OnReadData, process, Unread
<1>2. len \in 1 .. BufLen /\ len <= arrived[c] - recvd[c]
  BY <1>a, <1>b, <1>1 DEF Least, Unread
<1>3. /\ recvd'[c] = recvd[c] + len
      /\ writeq'[c] = Append(writeq[c], [from |-> recvd[c], to |-> recvd[c] + len])
      /\ active'[c] = active[c] \ {"read"}
  BY <1>b DEF OnReadData, AfterRead, Shaped
<1>4. evWrite'[c] = TRUE
  BY <1>b, Zenon DEF OnReadData, Shaped
<1>5. /\ writeq'[c] \in Seq(Buffer) /\ writeq'[c] # <<>> /\ Len(writeq'[c]) = Len(writeq[c]) + 1
      /\ IsChain(writeq'[c], written[c], recvd[c] + len) /\ Sized(writeq'[c])
  <2>1. writeq[c] \in Seq(Buffer) /\ Sized(writeq[c]) /\ IsChain(writeq[c], written[c], recvd[c])
    BY <1>0 DEF ConnInv, ConnType
  <2> HIDE DEF len
  <2> DEFINE p == Append(writeq[c], [from |-> recvd[c], to |-> recvd[c] + len])
  <2>2. /\ p \in Seq(Buffer) /\ p # <<>> /\ Len(p) = Len(writeq[c]) + 1
        /\ IsChain(p, written[c], recvd[c] + len) /\ Sized(p)
    BY <1>a, <1>2, <2>1, ChainAppend
  <2>3. writeq'[c] = p
    BY <1>3
  <2> HIDE DEF p
  <2> QED BY <2>2, <2>3
<1> HIDE DEF len
<1>6. recvd'[c] \in Nat /\ written[c] <= recvd'[c] /\ recvd'[c] <= arrived[c]
  BY <1>a, <1>b, <1>2, <1>3
<1>7. ConnType(c)'
  <2>1. Sized(writeq[c])'
    BY <1>5 DEF Sized
  <2> QED BY <1>0, <1>1, <1>3, <1>4, <1>5, <1>6, <2>1 DEF ConnType
<1>8. InOrder(c)' /\ Place(c)'
  BY <1>0, <1>a, <1>1, <1>6 DEF InOrder, ConnInv, Place
<1>9. Polled(c)'
  BY <1>3, <1>4, <1>5 DEF Polled
<1>10. Whole(c)'
  <2> SUFFICES ASSUME ~Fragments PROVE Whole(c)'
    BY DEF Whole
  <2>1. arrived[c] = sent[c] /\ (MsgLen <= BufLen => InStep(c))
    BY <1>0 DEF ConnInv, Whole
  <2>2. ASSUME MsgLen <= BufLen
        PROVE  InStep(c)'
    <3>1. sent[c] = recvd[c] + MsgLen /\ taken[c] = recvd[c]
      BY <1>a, <1>1, <2>1, <2>2 DEF InStep
    <3>2. len = MsgLen
      BY <1>a, <1>b, <2>1, <2>2, <3>1 DEF len, Least, Unread
    <3>3. recvd'[c] = sent'[c]
      BY <1>1, <1>3, <3>1, <3>2
    <3>4. writeq[c] = <<>>
      <4> SUFFICES ASSUME writeq[c] # <<>> PROVE FALSE
        OBVIOUS
      <4>1. written[c] = recvd[c] /\ Len(writeq[c]) <= 1
        BY <1>a, <2>1, <2>2, <3>1 DEF InStep
      <4>2. /\ Len(writeq[c]) >= 1 /\ Len(writeq[c]) \in Nat /\ writeq[c][1].from = written[c]
            /\ writeq[c][1].to \in Nat /\ writeq[c][1].to - writeq[c][1].from \in 1 .. BufLen
        BY <1>0, <1>a, ChainHead DEF ConnType, ConnInv
      <4>3. Len(writeq[c]) = 1 /\ writeq[c][1].to = recvd[c]
        BY <1>0, <4>1, <4>2 DEF ConnInv, IsChain
      <4> QED BY <1>a, <1>b, <4>1, <4>2, <4>3
    <3>5. Len(writeq'[c]) = 1
      BY <1>5, <3>4
    <3> QED BY <1>4, <3>3, <3>5 DEF InStep
  <2> QED BY <1>1, <2>1, <2>2 DEF Whole
<1>11. ~InWrite(c)'
  BY <1>3, LibeventAssumption DEF OnReadData, AfterRead, InWrite
<1>12. ConnInv(c)'
  BY <1>1, <1>3, <1>5, <1>8, <1>9, <1>10, <1>11 DEF ConnInv, Inside
<1> QED BY <1>0, <1>7, <1>12, OneMoves DEF Frame

LEMMA OnReadEndInv ==
  ASSUME LibeventInv, NEW c \in Conn, OnReadEnd(c)
  PROVE  LibeventInv'
<1>0. TypeOK /\ Shaped /\ ConnType(c) /\ ConnInv(c) /\ Frame(c)
  BY ConnTyped, CallbackFrame, TypedIsShaped DEF LibeventInv, Callback
<1>1. /\ client[c] = "live" /\ client'[c] = "freed" /\ active'[c] = active[c] \ {"read"}
      /\ UNCHANGED <<sock, sent, arrived, recvd, written, taken, waiting, writeq, evWrite, phase>>
  BY <1>0 DEF OnReadEnd, AfterRead, Shaped, process, conns
<1>2. ConnType(c)'
  BY <1>0, <1>1 DEF ConnType, Sized
<1>3. InOrder(c)' /\ Place(c)' /\ Polled(c)' /\ Whole(c)'
  BY <1>0, <1>1 DEF ConnInv, InOrder, Place, Polled, Whole, InStep, Readable, Unread, Gone
<1>4. ~InWrite(c)'
  BY <1>1, LibeventAssumption DEF OnReadEnd, AfterRead, InWrite
<1>5. ConnInv(c)'
  BY <1>0, <1>1, <1>3, <1>4 DEF ConnInv, Inside
<1> QED BY <1>0, <1>2, <1>5, OneMoves DEF Frame

-----------------------------------------------------------------------------
(* on_write.                                                               *)

\* A write finds a buffer of a live client, and its first buffer is next in the
\* stream.
LEMMA WriteHead ==
  ASSUME LibeventInv, NEW c \in Conn, WriteNext(c) \/ Writing(c)
  PROVE  /\ writeq[c] # <<>> /\ writeq[c] \in Seq(Buffer) /\ Sized(writeq[c])
         /\ IsChain(writeq[c], written[c], recvd[c])
         /\ Head(writeq[c]).from = written[c] /\ Head(writeq[c]).to \in Nat
         /\ Head(writeq[c]).to <= recvd[c]
         /\ Left(c) = Head(writeq[c]).to - Head(writeq[c]).from /\ Left(c) \in 1 .. BufLen
         /\ written[c] \in Nat /\ recvd[c] \in Nat
<1>1. TypeOK /\ ConnType(c) /\ ConnInv(c)
  BY ConnTyped DEF LibeventInv
<1>2. writeq[c] # <<>>
  BY <1>1 DEF ConnInv, Polled, Inside, InWrite, WriteNext, Writing
<1>3. /\ writeq[c] \in Seq(Buffer) /\ Sized(writeq[c])
      /\ IsChain(writeq[c], written[c], recvd[c]) /\ written[c] \in Nat /\ recvd[c] \in Nat
  BY <1>1 DEF ConnType, ConnInv
<1>4. Left(c) = Head(writeq[c]).to - Head(writeq[c]).from
  BY <1>2 DEF Left
<1> QED BY <1>2, <1>3, <1>4, ChainHead

\* What is left to show of a write that moves written[c] and the queue.
LEMMA WriteKeeps ==
  ASSUME LibeventInv, NEW c \in Conn, client[c] = "live", Callback(c),
         UNCHANGED <<sent, arrived, recvd, taken, waiting, client, phase>>,
         sock'[c] = sock[c] \/ (Gone(c) /\ sock'[c] = "broken"),
         written'[c] \in Nat, written[c] <= written'[c], written'[c] <= recvd[c],
         writeq'[c] \in Seq(Buffer), Sized(writeq'[c]),
         IsChain(writeq'[c], written'[c], recvd[c]), Len(writeq'[c]) <= Len(writeq[c]),
         evWrite'[c] \in BOOLEAN, evWrite'[c] \/ InWrite(c)' => writeq'[c] # <<>>,
         Len(writeq[c]) <= 1 /\ writeq'[c] # <<>> => evWrite'[c] \/ InWrite(c)',
         InWrite(c)' => ~evWrite'[c],
         active'[c] = active[c] \ {"write"}
  PROVE  LibeventInv'
<1>0. TypeOK /\ ConnType(c) /\ ConnInv(c) /\ Frame(c)
  BY ConnTyped, CallbackFrame DEF LibeventInv
<1>a. /\ recvd[c] \in Nat /\ written[c] \in Nat /\ taken[c] \in Nat /\ taken[c] <= written[c]
      /\ Len(writeq[c]) \in Nat /\ Len(writeq'[c]) \in Nat
  BY <1>0 DEF ConnType, ConnInv, InOrder
<1>1. ConnType(c)'
  <2>1. Sized(writeq[c])'
    BY DEF Sized
  <2> QED BY <1>0, <2>1 DEF ConnType, SockState
<1>2. InOrder(c)'
  BY <1>0, <1>a DEF ConnInv, InOrder
<1>3. Place(c)'
  BY <1>0 DEF ConnInv, Place, Gone
<1>4. Polled(c)'
  BY <1>0 DEF ConnInv, Polled, Readable, Unread, Gone
<1>5. Whole(c)'
  <2>1. Len(writeq[c]) <= 1 => Len(writeq'[c]) <= 1
    BY <1>a
  <2> QED BY <1>0, <2>1 DEF ConnInv, Whole, InStep
<1>6. Inside(c)'
  BY DEF Inside
<1>7. ConnInv(c)'
  BY <1>2, <1>3, <1>4, <1>5, <1>6 DEF ConnInv
<1> QED BY <1>0, <1>1, <1>7, OneMoves DEF Frame

\* The first buffer is written to its end and taken off the queue.
LEMMA SendsAllKeeps ==
  ASSUME LibeventInv, NEW c \in Conn, client[c] = "live", Callback(c),
         WriteNext(c) \/ Writing(c), SendsAll(c),
         evWrite'[c] = FALSE, ~InWrite(c)', active'[c] = active[c] \ {"write"}
  PROVE  LibeventInv'
<1> DEFINE b == Head(writeq[c])
<1>0. Shaped /\ UNCHANGED <<sent, arrived, recvd, taken, waiting, client, phase>>
  BY TypedIsShaped DEF LibeventInv, SendsAll, Sends, process
<1>1. /\ writeq[c] # <<>> /\ writeq[c] \in Seq(Buffer) /\ Sized(writeq[c])
      /\ IsChain(writeq[c], written[c], recvd[c])
      /\ b.from = written[c] /\ b.to \in Nat /\ b.to <= recvd[c] /\ b.to - b.from \in 1 .. BufLen
      /\ Left(c) = b.to - b.from /\ written[c] \in Nat /\ recvd[c] \in Nat
  BY WriteHead
<1>2. written'[c] = b.to
  <2>1. written'[c] = written[c] + (b.to - b.from)
    BY <1>0, <1>1 DEF SendsAll, Sends, Shaped
  <2> QED BY <1>1, <2>1
<1>3. sock'[c] = sock[c] \/ (Gone(c) /\ sock'[c] = "broken")
  BY <1>0 DEF SendsAll, Sends, Shaped, Gone
<1>4. writeq'[c] = Tail(writeq[c])
  BY <1>0, <1>1 DEF SendsAll, Shaped
<1>6. /\ Tail(writeq[c]) \in Seq(Buffer) /\ Len(Tail(writeq[c])) = Len(writeq[c]) - 1
      /\ IsChain(Tail(writeq[c]), b.to, recvd[c]) /\ Sized(Tail(writeq[c]))
  BY <1>1, ChainTail
<1>7. /\ writeq'[c] \in Seq(Buffer) /\ Len(writeq'[c]) = Len(writeq[c]) - 1
      /\ IsChain(writeq'[c], written'[c], recvd[c]) /\ Sized(writeq'[c])
  BY <1>2, <1>4, <1>6
<1>8. Len(writeq'[c]) <= Len(writeq[c]) /\ (Len(writeq[c]) <= 1 => writeq'[c] = <<>>)
  <2> DEFINE m == Len(writeq[c])
             n == Len(writeq'[c])
  <2>1. m \in Nat /\ n \in Nat /\ n = m - 1 /\ (n = 0 => writeq'[c] = <<>>)
    BY <1>1, <1>7
  <2> HIDE DEF m, n
  <2>2. n <= m /\ (m <= 1 => n = 0)
    BY <2>1
  <2> QED BY <2>1, <2>2 DEF m, n
<1>9. written'[c] \in Nat /\ written[c] <= written'[c] /\ written'[c] <= recvd[c]
  BY <1>1, <1>2, LibeventAssumption
<1> QED BY <1>0, <1>3, <1>7, <1>8, <1>9, WriteKeeps

\* k units of the first buffer are written, fewer than it holds: either the write event
\* is added again or the loop stays inside write.
LEMMA SendsPartKeeps ==
  ASSUME LibeventInv, NEW c \in Conn, client[c] = "live", Callback(c),
         WriteNext(c) \/ Writing(c), NEW k \in 1 .. Left(c) - 1, SendsPart(c, k),
         \/ evWrite'[c] = TRUE /\ ~InWrite(c)'
         \/ evWrite'[c] = FALSE /\ InWrite(c)',
         active'[c] = active[c] \ {"write"}
  PROVE  LibeventInv'
<1> DEFINE b == Head(writeq[c])
           p == [writeq[c] EXCEPT ![1].from = @ + k]
<1>0. Shaped /\ UNCHANGED <<sent, arrived, recvd, taken, waiting, client, phase>>
  BY TypedIsShaped DEF LibeventInv, SendsPart, Sends, process
<1>1. /\ writeq[c] # <<>> /\ writeq[c] \in Seq(Buffer) /\ Sized(writeq[c])
      /\ IsChain(writeq[c], written[c], recvd[c])
      /\ b.from = written[c] /\ b.to \in Nat /\ b.to <= recvd[c] /\ b.to - b.from \in 1 .. BufLen
      /\ Left(c) = b.to - b.from /\ written[c] \in Nat /\ recvd[c] \in Nat
  BY WriteHead
<1>2. k \in Nat \ {0} /\ b.to - b.from > k
  BY <1>1
<1>3. written'[c] = written[c] + k
  BY <1>0 DEF SendsPart, Sends, Shaped
<1>4. sock'[c] = sock[c] \/ (Gone(c) /\ sock'[c] = "broken")
  BY <1>0 DEF SendsPart, Sends, Shaped, Gone
<1>5. writeq'[c] = p
  BY <1>0 DEF SendsPart, Shaped
<1>6. evWrite'[c] \in BOOLEAN
  OBVIOUS
<1>7. /\ p \in Seq(Buffer) /\ p # <<>> /\ Len(p) = Len(writeq[c])
      /\ IsChain(p, written[c] + k, recvd[c]) /\ Sized(p)
  BY <1>1, <1>2, ChainPart
<1> HIDE DEF p
<1>8. /\ writeq'[c] \in Seq(Buffer) /\ writeq'[c] # <<>> /\ Len(writeq'[c]) <= Len(writeq[c])
      /\ IsChain(writeq'[c], written'[c], recvd[c]) /\ Sized(writeq'[c])
  BY <1>1, <1>3, <1>5, <1>7
<1>9. written'[c] \in Nat /\ written[c] <= written'[c] /\ written'[c] <= recvd[c]
  <2>1. written[c] \in Nat /\ recvd[c] \in Nat /\ k \in Nat /\ written[c] + k <= recvd[c]
    <3>1. b.from = written[c] /\ b.to \in Nat /\ b.to <= recvd[c]
          /\ written[c] \in Nat /\ recvd[c] \in Nat
      BY <1>1
    <3> HIDE DEF b
    <3> QED BY <1>2, <3>1
  <2> QED BY <1>3, <2>1
<1> QED BY <1>0, <1>4, <1>6, <1>8, <1>9, WriteKeeps

LEMMA OnWriteAllInv ==
  ASSUME LibeventInv, NEW c \in Conn, OnWriteAll(c)
  PROVE  LibeventInv'
<1>1. /\ Shaped /\ WriteNext(c) /\ client[c] = "live" /\ Callback(c) /\ SendsAll(c)
      /\ ~InWrite(c)'
  BY TypedIsShaped, LibeventAssumption DEF LibeventInv, OnWriteAll, Callback, AfterWrite, InWrite
<1>2. active'[c] = active[c] \ {"write"}
  BY <1>1 DEF OnWriteAll, Shaped, AfterWrite
<1>3. evWrite'[c] = FALSE
  BY <1>1, Zenon DEF OnWriteAll, Shaped
<1> QED BY <1>1, <1>2, <1>3, SendsAllKeeps

LEMMA OnWritePartInv ==
  ASSUME LibeventInv, NEW c \in Conn, OnWritePart(c)
  PROVE  LibeventInv'
<1>1. /\ Shaped /\ WriteNext(c) /\ client[c] = "live" /\ Callback(c)
      /\ ~InWrite(c)'
  BY TypedIsShaped, LibeventAssumption DEF LibeventInv, OnWritePart, Callback, AfterWrite, InWrite
<1>2. active'[c] = active[c] \ {"write"}
  BY <1>1 DEF OnWritePart, Shaped, AfterWrite
<1>3. evWrite'[c] = TRUE
  BY <1>1, Zenon DEF OnWritePart, Shaped
<1>4. PICK k \in 1 .. Left(c) - 1 : SendsPart(c, k)
  BY DEF OnWritePart
<1> QED BY <1>1, <1>2, <1>3, <1>4, SendsPartKeeps

LEMMA OnWriteBlocksInv ==
  ASSUME LibeventInv, NEW c \in Conn, OnWriteBlocks(c)
  PROVE  LibeventInv'
<1>1. Shaped /\ WriteNext(c) /\ client[c] = "live" /\ Callback(c)
  BY TypedIsShaped DEF LibeventInv, OnWriteBlocks, Callback
<1>2. active'[c] = active[c] \ {"write"} /\ InWrite(c)'
  BY <1>1 DEF OnWriteBlocks, Shaped, InWrite
<1>3. evWrite'[c] = FALSE
  BY <1>1, Zenon DEF OnWriteBlocks, Shaped
<1>4. PICK k \in 1 .. Left(c) - 1 : SendsPart(c, k)
  BY DEF OnWriteBlocks
<1> QED BY <1>1, <1>2, <1>3, <1>4, SendsPartKeeps

LEMMA OnWriteResumesInv ==
  ASSUME LibeventInv, NEW c \in Conn, OnWriteResumes(c)
  PROVE  LibeventInv'
<1>1. TypeOK /\ ConnType(c) /\ Writing(c) /\ Callback(c) /\ InWrite(c)
  BY ConnTyped DEF LibeventInv, OnWriteResumes, Callback, Writing, InWrite
<1>2. client[c] = "live" /\ ~evWrite[c]
  BY <1>1 DEF LibeventInv, ConnInv, Inside
<1>3. active'[c] = active[c] \ {"write"}
  BY <1>1 DEF OnWriteResumes, InWrite
<1>4. evWrite'[c] = FALSE
  <2>1. evWrite'[c] = evWrite[c]
    BY DEF OnWriteResumes
  <2> QED BY <1>1, <1>2, <2>1, Zenon DEF ConnType
<1>5. CASE SendsAll(c) /\ turn' = NoConn
  <2>1. ~InWrite(c)'
    BY <1>5, LibeventAssumption DEF InWrite
  <2> QED BY <1>1, <1>2, <1>3, <1>4, <1>5, <2>1, SendsAllKeeps
<1>6. CASE (\E k \in 1 .. Left(c) - 1 : SendsPart(c, k)) /\ UNCHANGED turn
  <2>1. InWrite(c)'
    BY <1>1, <1>3, <1>6 DEF InWrite
  <2>2. PICK k \in 1 .. Left(c) - 1 : SendsPart(c, k)
    BY <1>6
  <2> QED BY <1>1, <1>2, <1>3, <1>4, <2>1, <2>2, SendsPartKeeps
<1> QED BY <1>5, <1>6 DEF OnWriteResumes

LEMMA OnWriteReturnsInv ==
  ASSUME LibeventInv, NEW c \in Conn, OnWriteReturns(c)
  PROVE  LibeventInv'
<1>1. TypeOK /\ Shaped /\ ConnType(c) /\ ConnInv(c) /\ Callback(c) /\ InWrite(c)
  BY ConnTyped, TypedIsShaped DEF LibeventInv, OnWriteReturns, Callback, Writing, InWrite
<1>2. /\ client[c] = "live" /\ writeq[c] # <<>>
      /\ UNCHANGED <<sent, arrived, recvd, written, taken, waiting, client, writeq, active, phase>>
  BY <1>1 DEF OnWriteReturns, ConnInv, Inside, process
<1>3. sock'[c] = sock[c] \/ (Gone(c) /\ sock'[c] = "broken")
  BY <1>1 DEF OnWriteReturns, Shaped, Gone
<1>4. evWrite'[c] = TRUE
  BY <1>1, Zenon DEF OnWriteReturns, Shaped
<1>5. active'[c] = active[c] \ {"write"} /\ ~InWrite(c)'
  BY <1>1, <1>2, LibeventAssumption DEF OnWriteReturns, InWrite
<1>6. /\ written'[c] \in Nat /\ written[c] <= written'[c] /\ written'[c] <= recvd[c]
      /\ writeq'[c] \in Seq(Buffer) /\ Sized(writeq'[c]) /\ IsChain(writeq'[c], written'[c], recvd[c])
      /\ Len(writeq'[c]) <= Len(writeq[c])
  BY <1>1, <1>2 DEF ConnType, ConnInv, InOrder
<1> QED BY <1>1, <1>2, <1>3, <1>4, <1>5, <1>6, WriteKeeps

\* A write that fails leaves the queue as it is.
LEMMA OnWriteFailsInv ==
  ASSUME LibeventInv, NEW c \in Conn, OnWriteFatal(c) \/ OnWriteAgain(c) \/ OnWriteFreed(c)
  PROVE  LibeventInv'
<1>0. TypeOK /\ Shaped /\ ConnType(c) /\ ConnInv(c) /\ Frame(c)
  BY ConnTyped, CallbackFrame, TypedIsShaped DEF LibeventInv, Callback
<1>i. ~InWrite(c)'
  BY LibeventAssumption DEF OnWriteFatal, OnWriteAgain, OnWriteFreed, AfterWrite, InWrite
<1>1. /\ active'[c] = active[c] \ {"write"}
      /\ UNCHANGED <<sock, sent, arrived, recvd, written, taken, waiting, client, writeq>>
  BY <1>0 DEF OnWriteFatal, OnWriteAgain, OnWriteFreed, AfterWrite, Shaped, conns
<1>2. evWrite'[c] = TRUE \/ evWrite'[c] = FALSE
  BY <1>0, Zenon DEF OnWriteFatal, OnWriteAgain, OnWriteFreed, Shaped
<1>3. /\ client[c] # "none"
      /\ evWrite'[c] => writeq[c] # <<>>
      /\ phase' # "exited" /\ client[c] = "live" => evWrite'[c]
  <2>1. CASE OnWriteFatal(c)
    <3>1. evWrite'[c] = FALSE
      BY <1>0, <2>1, Zenon DEF OnWriteFatal, Shaped
    <3> QED BY <2>1, <3>1 DEF OnWriteFatal
  <2>2. CASE OnWriteAgain(c)
    <3>1. evWrite'[c] = TRUE
      BY <1>0, <2>2, Zenon DEF OnWriteAgain, Shaped
    <3> QED BY <2>2, <3>1 DEF OnWriteAgain
  <2>3. CASE OnWriteFreed(c)
    <3>1. evWrite'[c] = FALSE
      BY <1>0, <2>3, Zenon DEF OnWriteFreed, Shaped
    <3> QED BY <2>3, <3>1 DEF OnWriteFreed
  <2> QED BY <2>1, <2>2, <2>3
<1>4. ConnType(c)'
  <2>1. evWrite'[c] \in BOOLEAN
    BY <1>2, Zenon
  <2> QED BY <1>0, <1>1, <2>1 DEF ConnType, Sized
<1>5. InOrder(c)' /\ Place(c)' /\ Polled(c)' /\ Whole(c)'
  BY <1>0, <1>1, <1>3 DEF ConnInv, InOrder, Place, Polled, Whole, InStep, Readable, Unread, Gone
<1>6. ConnInv(c)'
  BY <1>0, <1>1, <1>5, <1>i DEF ConnInv, Inside
<1> QED BY <1>0, <1>4, <1>6, OneMoves DEF Frame

-----------------------------------------------------------------------------
(* The invariants the runs check.                                          *)

LEMMA NextLibevent == LibeventInv /\ [Next]_vars => LibeventInv'
<1> SUFFICES ASSUME LibeventInv, [Next]_vars PROVE LibeventInv'
  OBVIOUS
<1>1. ASSUME NEW c \in Conn, Connect(c) \/ ClientStep(c) \/ Kill(c)
      PROVE  LibeventInv'
  BY <1>1, ConnectInv, SendInv, LeaveInv DEF ClientStep
<1>2. ASSUME NEW c \in Conn, Callback(c)
      PROVE  LibeventInv'
  BY <1>2, OnReadDataInv, OnReadEndInv, OnWriteAllInv, OnWritePartInv, OnWriteBlocksInv,
     OnWriteResumesInv, OnWriteReturnsInv, OnWriteFailsInv DEF Callback
<1>3. CASE Poll \/ OnAccept
  BY <1>3, PollInv, AcceptInv
<1>4. CASE Start \/ OutOfMemory \/ Rest \/ UNCHANGED vars
  BY <1>4, ProcessInv
<1> QED BY <1>1, <1>2, <1>3, <1>4 DEF Next, LoopStep

LEMMA AlwaysLibevent == Spec => []LibeventInv
  BY InitLibevent, NextLibevent, PTL DEF Spec

\* Every buffer on a write queue holds between one unit and BUFLEN.
THEOREM TypeCorrect == Spec => []TypeOK
<1>1. LibeventInv => TypeOK
  BY DEF LibeventInv
<1> QED BY <1>1, AlwaysLibevent, PTL

\* A write queue is exactly what has been read and not written, in the order of
\* the stream, for any fragmentation of messages and any partial writes.
THEOREM EchoInOrder == Spec => []QueueIsUnechoed
<1>1. LibeventInv => QueueIsUnechoed
  BY DEF LibeventInv, ConnInv, IsChain, QueueIsUnechoed
<1> QED BY <1>1, AlwaysLibevent, PTL

\* on_write always finds a buffer to write.
THEOREM QueueNeverEmpty == Spec => []NeverEmptyQueue
<1>1. LibeventInv => NeverEmptyQueue
  BY DEF LibeventInv, ConnInv, Polled, NeverEmptyQueue
<1> QED BY <1>1, AlwaysLibevent, PTL

\* No callback has lost its reason.
CallbacksDue == \A c \in Conn : Polled(c)

\* libevent polls once and then runs the callbacks one after another, on_read and
\* on_write of one client in one iteration. When a callback comes to run its reason
\* still holds: on_read finds data or the end of the stream, on_write an event that
\* was not deleted and a buffer to write (libevent_echosrv2.c:140-226).
THEOREM CallbacksFounded == Spec => []CallbacksDue
<1>1. LibeventInv => CallbacksDue
  BY DEF LibeventInv, ConnInv, CallbacksDue
<1> QED BY <1>1, AlwaysLibevent, PTL

\* When messages arrive whole and fit a read, an echo that is queued is scheduled
\* or in the hands of write, and is alone on its queue.
THEOREM EchoAlwaysScheduled == Spec => []EchoScheduled
<1>1. LibeventInv => EchoScheduled
  <2> SUFFICES ASSUME LibeventInv, ~Fragments, MsgLen <= BufLen, phase = "running",
                      NEW c \in Conn, client[c] = "live"
               PROVE  Len(writeq[c]) <= 1 /\ (writeq[c] # <<>> => evWrite[c] \/ Writing(c))
    BY DEF EchoScheduled
  <2>1. InStep(c)
    BY DEF LibeventInv, ConnInv, Whole
  <2> QED BY <2>1 DEF InStep, InWrite, Writing
<1> QED BY <1>1, AlwaysLibevent, PTL

-----------------------------------------------------------------------------
(* The server implements the echo service.                                 *)

LEMMA ClientIs ==
  ASSUME NEW c \in Conn
  PROVE  /\ sock[c] = "none" => clientView[c] = "absent"
         /\ sock[c] = "established" => clientView[c] = "present"
         /\ Gone(c) => clientView[c] = "left"
         /\ sock[c] # "none" => clientView[c] # "absent"
  BY DEF clientView, Gone

LEMMA ServerIs ==
  ASSUME NEW c \in Conn
  PROVE  /\ client[c] = "none" => serverView[c] = "none"
         /\ client[c] = "live" => serverView[c] = "held"
         /\ client[c] = "freed" => serverView[c] = "released"
  BY DEF serverView

\* A reset that answers a write changes nothing the clients show.
LEMMA ClientViewKept ==
  ASSUME \A c \in Conn : sock'[c] = sock[c] \/ (Gone(c) /\ Gone(c)')
  PROVE  clientView' = clientView
<1> SUFFICES ASSUME NEW c \in Conn
             PROVE  (CASE sock'[c] = "none"        -> "absent"
                       [] sock'[c] = "established" -> "present"
                       [] OTHER                    -> "left") = clientView[c]
  BY DEF clientView
<1>1. CASE sock'[c] = sock[c]
  BY <1>1 DEF clientView
<1>2. CASE Gone(c) /\ Gone(c)'
  BY <1>2 DEF clientView, Gone
<1> QED BY <1>1, <1>2

LEMMA ServerViewKept ==
  ASSUME client' = client
  PROVE  serverView' = serverView
  BY DEF serverView

LEMMA ViewsChange ==
  ASSUME NEW c \in Conn
  PROVE  /\ (\A d \in Conn \ {c} : sock'[d] = sock[d])
              => clientView' = [clientView EXCEPT ![c] = clientView'[c]]
         /\ (\A d \in Conn \ {c} : client'[d] = client[d])
              => serverView' = [serverView EXCEPT ![c] = serverView'[c]]
<1>1. /\ clientView = [d \in Conn |-> clientView[d]] /\ clientView' = [d \in Conn |-> clientView'[d]]
      /\ serverView = [d \in Conn |-> serverView[d]] /\ serverView' = [d \in Conn |-> serverView'[d]]
  BY DEF clientView, serverView
<1>2. /\ \A d \in Conn : sock'[d] = sock[d] => clientView'[d] = clientView[d]
      /\ \A d \in Conn : client'[d] = client[d] => serverView'[d] = serverView[d]
  BY DEF clientView, serverView
<1> QED BY <1>1, <1>2

LEMMA InitEcho == Init => Echo!Init
<1> SUFFICES ASSUME Init PROVE Echo!Init
  OBVIOUS
<1>1. \A c \in Conn : sock[c] = "none" /\ client[c] = "none"
  BY DEF Init
<1>2. clientView = [c \in Conn |-> "absent"]
  BY <1>1 DEF clientView
<1>3. serverView = [c \in Conn |-> "none"]
  BY <1>1 DEF serverView
<1> QED BY <1>2, <1>3 DEF Init, Echo!Init

LEMMA ClientEcho ==
  ASSUME TypeOK, NEW c \in Conn, Connect(c) \/ ClientStep(c) \/ Kill(c)
  PROVE  [Echo!Next]_Echo!vars
<1>0. /\ sock \in [Conn -> SockState] /\ UNCHANGED <<client, written>>
  BY DEF TypeOK, Connect, ClientStep, SendMessage, Deliver, TakeEcho, CloseSocket, Kill, objects
<1>1. serverView' = serverView
  BY <1>0, ServerViewKept
<1>2. CASE Connect(c)
  <2>1. /\ sock[c] = "none" /\ sent' = sent /\ sock'[c] = "established"
        /\ \A d \in Conn \ {c} : sock'[d] = sock[d]
    BY <1>0, <1>2 DEF Connect
  <2>2. clientView' = [clientView EXCEPT ![c] = "present"]
    <3>1. clientView'[c] = "present"
      BY <2>1 DEF clientView
    <3> QED BY <2>1, <3>1, ViewsChange
  <2>3. Echo!Arrive(c)
    BY <1>0, <1>1, <2>1, <2>2, ClientIs DEF Echo!Arrive
  <2> QED BY <2>3 DEF Echo!Next
<1>3. CASE SendMessage(c)
  <2>1. /\ sock[c] = "established" /\ sock' = sock /\ sent' = [sent EXCEPT ![c] = @ + MsgLen]
    BY <1>3 DEF SendMessage
  <2>2. clientView' = clientView
    BY <2>1, ClientViewKept
  <2>3. Echo!Ask(c, MsgLen)
    BY <1>0, <1>1, <2>1, <2>2, ClientIs DEF Echo!Ask
  <2> QED BY <2>3 DEF Echo!Next
<1>4. CASE Deliver(c) \/ TakeEcho(c)
  <2>1. UNCHANGED <<sock, sent>>
    BY <1>4 DEF Deliver, TakeEcho
  <2>2. clientView' = clientView
    BY <2>1, ClientViewKept
  <2> QED BY <1>0, <1>1, <2>1, <2>2 DEF Echo!vars
<1>5. CASE CloseSocket(c) \/ Kill(c)
  <2>1. /\ sock[c] = "established" /\ sent' = sent /\ sock'[c] \in {"fin", "reset"}
        /\ \A d \in Conn \ {c} : sock'[d] = sock[d]
    BY <1>0, <1>5 DEF CloseSocket, Kill
  <2>2. clientView' = [clientView EXCEPT ![c] = "left"]
    <3>1. clientView'[c] = "left"
      BY <2>1 DEF clientView
    <3> QED BY <2>1, <3>1, ViewsChange
  <2>3. Echo!Leave(c)
    BY <1>0, <1>1, <2>1, <2>2, ClientIs DEF Echo!Leave
  <2> QED BY <2>3 DEF Echo!Next
<1> QED BY <1>2, <1>3, <1>4, <1>5 DEF ClientStep

LEMMA AcceptEcho ==
  ASSUME LibeventInv, OnAccept
  PROVE  [Echo!Next]_Echo!vars
<1>0. TypeOK /\ UNCHANGED <<sock, sent, written>>
  BY DEF LibeventInv, OnAccept, conns
<1>1. clientView' = clientView
  BY <1>0, ClientViewKept
<1>2. CASE client' = client
  BY <1>0, <1>1, <1>2, ServerViewKept DEF Echo!vars
<1>3. CASE client' # client
  <2>1. PICK c \in waiting : client' = [client EXCEPT ![c] = "live"]
    BY <1>3 DEF OnAccept, objects
  <2>2. c \in Conn
    BY <1>0, <2>1 DEF TypeOK
  <2>3. client[c] = "none" /\ sock[c] # "none"
    BY <2>1, <2>2 DEF LibeventInv, ConnInv, Place
  <2>4. client'[c] = "live" /\ \A d \in Conn \ {c} : client'[d] = client[d]
    BY <1>0, <2>1, <2>2 DEF TypeOK
  <2>5. serverView' = [serverView EXCEPT ![c] = "held"]
    <3>1. serverView'[c] = "held"
      BY <2>2, <2>4 DEF serverView
    <3> QED BY <2>2, <2>4, <3>1, ViewsChange
  <2>6. Echo!Admit(c)
    BY <1>0, <1>1, <2>2, <2>3, <2>5, ClientIs, ServerIs DEF Echo!Admit
  <2> QED BY <2>2, <2>6 DEF Echo!Next
<1> QED BY <1>2, <1>3

\* on_read frees only the structure of a client that has left.
LEMMA ReadEndEcho ==
  ASSUME LibeventInv, NEW c \in Conn, OnReadEnd(c)
  PROVE  Echo!Release(c)
<1>0. /\ client \in [Conn -> {"none", "live", "freed"}] /\ client[c] = "live"
      /\ client' = [client EXCEPT ![c] = "freed"] /\ UNCHANGED <<sock, sent, written>>
      /\ "read" \in active[c] /\ ~(Unread(c) > 0)
  BY DEF LibeventInv, TypeOK, OnReadEnd, ReadNext, conns
<1>1. Gone(c)
  BY <1>0 DEF LibeventInv, ConnInv, Polled, Readable
<1>2. clientView' = clientView
  BY <1>0, ClientViewKept
<1>3. client'[c] = "freed" /\ \A d \in Conn \ {c} : client'[d] = client[d]
  BY <1>0
<1>4. serverView' = [serverView EXCEPT ![c] = "released"]
  <2>1. serverView'[c] = "released"
    BY <1>3 DEF serverView
  <2> QED BY <1>3, <2>1, ViewsChange
<1> QED BY <1>0, <1>1, <1>2, <1>4, ClientIs, ServerIs DEF Echo!Release

\* on_write sends no more than on_read has read.
LEMMA WriteEcho ==
  ASSUME LibeventInv, NEW c \in Conn,
         OnWriteAll(c) \/ OnWritePart(c) \/ OnWriteBlocks(c) \/ OnWriteResumes(c)
  PROVE  \E k \in 0 .. BufLen : Echo!Answer(c, k)
<1>0. TypeOK /\ (WriteNext(c) \/ Writing(c)) /\ BufLen \in Nat
  BY LibeventAssumption
     DEF LibeventInv, OnWriteAll, OnWritePart, OnWriteBlocks, OnWriteResumes
<1>1. client[c] = "live"
  BY DEF OnWriteAll, OnWritePart, OnWriteBlocks, OnWriteResumes, Writing, LibeventInv, ConnInv,
         Inside, InWrite
<1>2. /\ Left(c) \in 1 .. BufLen /\ Left(c) = Head(writeq[c]).to - written[c]
      /\ Head(writeq[c]).to \in Nat /\ Head(writeq[c]).to <= recvd[c]
      /\ written[c] \in Nat /\ recvd[c] \in Nat
  BY <1>0, WriteHead
<1>3. recvd[c] <= sent[c] /\ sent[c] \in Nat
  <2>1. InOrder(c) /\ ConnType(c)
    BY <1>0, ConnTyped DEF LibeventInv, ConnInv
  <2> QED BY <2>1 DEF InOrder, ConnType
<1>4. PICK k \in 1 .. Left(c) : Sends(c, k)
  <2>1. Left(c) \in 1 .. Left(c) /\ 1 .. Left(c) - 1 \subseteq 1 .. Left(c)
    BY <1>2
  <2> QED BY <2>1
          DEF OnWriteAll, OnWritePart, OnWriteBlocks, OnWriteResumes, SendsAll, SendsPart
<1>5. k \in 0 .. BufLen /\ written[c] + k <= sent[c]
  BY <1>0, <1>2, <1>3
<1>6. UNCHANGED <<client, sent>> /\ written' = [written EXCEPT ![c] = @ + k]
  BY <1>4 DEF Sends
<1>7. clientView' = clientView
  <2>0. sock' = sock \/ (Gone(c) /\ sock' = [sock EXCEPT ![c] = "broken"])
    BY <1>4 DEF Sends, Gone
  <2>1. \A d \in Conn : sock'[d] = sock[d] \/ (Gone(d) /\ Gone(d)')
    BY <1>0, <2>0 DEF Gone, TypeOK
  <2> QED BY <2>1, ClientViewKept
<1>8. serverView' = serverView /\ serverView[c] = "held"
  BY <1>1, <1>6, ServerViewKept, ServerIs
<1> QED BY <1>5, <1>6, <1>7, <1>8 DEF Echo!Answer

LEMMA NextEcho ==
  ASSUME LibeventInv, [Next]_vars
  PROVE  [Echo!Next]_Echo!vars
<1>1. ASSUME NEW c \in Conn, Connect(c) \/ ClientStep(c) \/ Kill(c)
      PROVE  [Echo!Next]_Echo!vars
  BY <1>1, ClientEcho DEF LibeventInv
<1>2. CASE OnAccept
  BY <1>2, AcceptEcho
<1>3. ASSUME NEW c \in Conn, OnReadEnd(c)
      PROVE  Echo!Next
  BY <1>3, ReadEndEcho DEF Echo!Next
<1>4. ASSUME NEW c \in Conn,
             OnWriteAll(c) \/ OnWritePart(c) \/ OnWriteBlocks(c) \/ OnWriteResumes(c)
      PROVE  Echo!Next
  BY <1>4, WriteEcho DEF Echo!Next
<1>5. UNCHANGED <<sock, sent, written, client>> => UNCHANGED Echo!vars
  BY ClientViewKept, ServerViewKept DEF Echo!vars
<1>6. ASSUME NEW c \in Conn,
             OnReadData(c) \/ OnWriteFatal(c) \/ OnWriteAgain(c) \/ OnWriteFreed(c)
      PROVE  UNCHANGED <<sock, sent, written, client>>
  BY <1>6 DEF OnReadData, OnWriteFatal, OnWriteAgain, OnWriteFreed, conns
<1>8. ASSUME NEW c \in Conn, OnWriteReturns(c)
      PROVE  UNCHANGED Echo!vars
  <2>1. sock \in [Conn -> SockState] /\ UNCHANGED <<sent, written, client>>
    BY <1>8 DEF LibeventInv, TypeOK, OnWriteReturns
  <2>2. \A d \in Conn : sock'[d] = sock[d] \/ (Gone(d) /\ Gone(d)')
    BY <1>8, <2>1 DEF OnWriteReturns, Gone
  <2> QED BY <2>1, <2>2, ClientViewKept, ServerViewKept DEF Echo!vars
<1>7. CASE Poll \/ Start \/ OutOfMemory \/ Rest \/ UNCHANGED vars
  BY <1>5, <1>7 DEF Poll, Start, OutOfMemory, Rest, vars, conns, objects
<1> QED
  BY <1>1, <1>2, <1>3, <1>4, <1>5, <1>6, <1>7, <1>8 DEF Next, LoopStep, Callback

\* on_accept, on_read and on_write together implement the echo service, whatever
\* libevent interleaves, however messages are cut and writes fall short.
THEOREM ImplementsEcho == Spec => EchoSpec
<1>1. Init => Echo!Init
  BY InitEcho
<1>2. LibeventInv /\ [Next]_vars => [Echo!Next]_Echo!vars
  BY NextEcho
<1> QED BY <1>1, <1>2, AlwaysLibevent, PTL DEF Spec, EchoSpec, Echo!Spec
=============================================================================
