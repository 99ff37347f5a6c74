--------------------------- MODULE EventLoopProofs ---------------------------
(***************************************************************************)
(* Proofs about EventLoop, for both programs, any lengths of messages and  *)
(* any number of connections and descriptors.                              *)
(***************************************************************************)
EXTENDS EventLoop, SequenceTheorems, FiniteSetTheorems, TLAPS

-----------------------------------------------------------------------------
(* The inductive invariant.                                                *)

Events == {"IN", "ERR", "HUP", "RDHUP"}

TypeInv ==
  /\ kind \in {"single", "gui"} /\ msgLen \in Nat \ {0}
  /\ phase \in {"starting", "running", "exited"}
  /\ sock \in [Conn -> {"none", "established", "fin", "reset"}]
  /\ sent \in [Conn -> Nat] /\ recvd \in [Conn -> Nat] /\ echoed \in [Conn -> Nat]
  /\ backlog \in Seq(Conn) /\ edge \in BOOLEAN /\ missed \in Nat
  /\ open \in SUBSET Conn /\ ready \in SUBSET Conn
  /\ lpc \in {"wait", "next", "spin"} /\ cur \in Conn \cup {NoConn}
  /\ batch \in [Conn -> SUBSET Events] /\ accepts \in BOOLEAN
  /\ numClients \in Int /\ shown \in Int /\ errors \in Nat
  /\ display \in BOOLEAN /\ skipped \in SUBSET Conn

\* One accept per edge, and none is left when the loop sleeps.
ListenerInv == BacklogStranded /\ (accepts => lpc # "wait")

\* A connection waits once in the listen queue, or has a descriptor, or neither;
\* only one with a descriptor is on the ready list or in the batch.
PlacesInv ==
  /\ \A i, j \in DOMAIN backlog : backlog[i] = backlog[j] => i = j
  /\ \A c \in Waiting : sock[c] # "none"
  /\ \A c \in open : sock[c] # "none" /\ c \notin Waiting
  /\ ready \subseteq open
  /\ \A c \in Conn : batch[c] # {} => c \in open

Spinning(c) == lpc = "spin" /\ cur = c

\* All that was read was echoed, and at most one message has come since.
Fresh(c) == recvd[c] = echoed[c] /\ sent[c] \in {recvd[c], recvd[c] + msgLen}

\* A message longer than BUFLEN, of which not all was echoed.
Cut(c) == msgLen > BUFLEN /\ sent[c] > echoed[c]

\* "gui" reads a message whole, unless it is too long; "single" has read nothing of
\* a connection that is open, but for the one it spins on.
Counts(c) ==
  /\ echoed[c] <= recvd[c] /\ recvd[c] <= sent[c]
  /\ kind = "gui" => recvd[c] = sent[c] \/ Fresh(c) \/ Cut(c)
  /\ sock[c] = "none" \/ c \in Waiting => Fresh(c)
  /\ kind = "single" /\ c \in open /\ ~Spinning(c) => Fresh(c)

\* A whole message waits to be read.
News(c) == recvd[c] = echoed[c] /\ sent[c] = recvd[c] + msgLen

\* A connection that is reported, or will be, has something to say when its turn
\* comes; it is reported again before that only when its client has left.
EventTrue(c) ==
  /\ batch[c] # {} \/ c \in ready => Spinning(c) \/ Gone(c) \/ News(c)
  /\ batch[c] # {} /\ c \in ready => Gone(c)

\* Whatever is reported of a connection, epoll_wait has reported with EPOLLIN.
AssertHolds == \A c \in Conn : batch[c] # {} => "IN" \in batch[c]

SessionsInv == \A c \in Conn : Counts(c) /\ EventTrue(c)

\* The loop spins on an open connection, for a cause.
SpinInv == SpinHasCause /\ (lpc = "spin" => cur \in open)

\* The number of clients of "gui" counts the open connections, and every one that
\* Case 1 closed.
CountInv ==
  IsFiniteSet(open) /\ (kind = "gui" => numClients = Cardinality(open) + errors)

LoopInv ==
  TypeInv /\ ListenerInv /\ PlacesInv /\ SessionsInv /\ SpinInv /\ CountInv /\ AssertHolds

LEMMA InitLoop == Init => LoopInv
<1> SUFFICES ASSUME Init PROVE LoopInv
  OBVIOUS
<1>1. TypeInv
  <2>1. /\ kind \in {"single", "gui"} /\ msgLen \in Nat \ {0} /\ phase = "starting"
        /\ lpc = "wait" /\ cur = NoConn /\ missed = 0 /\ ready = {} /\ open = {}
        /\ numClients = 0 /\ shown = 0 /\ errors = 0 /\ backlog \in Seq(Conn) /\ skipped = {}
    BY LoopAssumption DEF Init
  <2>2. edge \in BOOLEAN /\ accepts \in BOOLEAN /\ display \in BOOLEAN
    BY Zenon DEF Init
  <2>3. /\ sock = [c \in Conn |-> "none"] /\ batch = [c \in Conn |-> {}]
        /\ sent = [c \in Conn |-> 0] /\ recvd = sent /\ echoed = sent
    BY DEF Init
  <2> QED BY <2>1, <2>2, <2>3 DEF TypeInv
<1>2. /\ backlog = <<>> /\ Len(backlog) = 0 /\ Waiting = {} /\ open = {} /\ ready = {} /\ lpc = "wait"
      /\ missed = 0 /\ edge = FALSE /\ accepts = FALSE /\ numClients = 0 /\ errors = 0
      /\ \A c \in Conn : batch[c] = {} /\ sent[c] = 0 /\ recvd[c] = 0 /\ echoed[c] = 0
  BY DEF Init, Waiting
<1>3. ListenerInv
  BY <1>2 DEF ListenerInv, BacklogStranded
<1>4. PlacesInv
  BY <1>2 DEF PlacesInv
<1>5. SessionsInv
  BY <1>1, <1>2 DEF TypeInv, SessionsInv, Counts, Fresh, EventTrue
<1>6. SpinInv
  BY <1>2 DEF SpinInv, SpinHasCause
<1>7. CountInv
  BY <1>2, FS_EmptySet DEF CountInv
<1>8. AssertHolds
  BY <1>2 DEF AssertHolds
<1> QED BY <1>1, <1>3, <1>4, <1>5, <1>6, <1>7, <1>8 DEF LoopInv

\* The types of one connection's counts.
LEMMA CountsTyped ==
  ASSUME TypeInv, NEW c \in Conn
  PROVE  /\ sent[c] \in Nat /\ recvd[c] \in Nat /\ echoed[c] \in Nat
         /\ msgLen \in Nat /\ msgLen > 0
  BY DEF TypeInv

-----------------------------------------------------------------------------
(* The clients.                                                            *)

LEMMA ConnectMoves ==
  ASSUME TypeInv, PlacesInv, NEW c \in Conn, Connect(c)
  PROVE  /\ c \notin Waiting /\ Waiting' = Waiting \cup {c} /\ Len(backlog') = Len(backlog) + 1
         /\ backlog' \in Seq(Conn)
         /\ \A i, j \in DOMAIN backlog' : backlog'[i] = backlog'[j] => i = j
<1> DEFINE n == Len(backlog)
<1>1. backlog \in Seq(Conn) /\ backlog' = Append(backlog, c) /\ sock[c] = "none"
  BY DEF Connect, TypeInv
<1>2. /\ DOMAIN backlog = 1 .. n /\ DOMAIN backlog' = 1 .. n + 1 /\ n \in Nat
      /\ \A i \in 1 .. n : backlog'[i] = backlog[i]
      /\ backlog'[n + 1] = c /\ backlog' \in Seq(Conn) /\ Len(backlog') = n + 1
  BY <1>1
<1>3. c \notin Waiting
  BY <1>1 DEF PlacesInv
<1>4. Waiting' = Waiting \cup {c}
  BY <1>2 DEF Waiting
<1>5. \A i, j \in DOMAIN backlog' : backlog'[i] = backlog'[j] => i = j
  BY <1>2, <1>3 DEF PlacesInv, Waiting
<1> QED BY <1>2, <1>3, <1>4, <1>5

LEMMA ConnectInv ==
  ASSUME LoopInv, NEW c \in Conn, Connect(c)
  PROVE  LoopInv'
<1>0. /\ TypeInv /\ ListenerInv /\ PlacesInv /\ SessionsInv /\ SpinInv /\ CountInv /\ AssertHolds
      /\ sock[c] = "none" /\ edge' = TRUE /\ sock' = [sock EXCEPT ![c] = "established"]
      /\ missed' = IF edge THEN missed + 1 ELSE missed
      /\ UNCHANGED <<kind, msgLen, phase, sent, recvd, echoed, ready, open, lpc, cur, batch, accepts,
                     numClients, shown, errors, display, skipped>>
  BY DEF LoopInv, Connect, loop, count
<1>1. /\ c \notin Waiting /\ Waiting' = Waiting \cup {c} /\ Len(backlog') = Len(backlog) + 1
      /\ backlog' \in Seq(Conn)
      /\ \A i, j \in DOMAIN backlog' : backlog'[i] = backlog'[j] => i = j
  BY <1>0, ConnectMoves
<1>2. TypeInv'
  <2>1. edge' \in BOOLEAN
    BY <1>0, Zenon
  <2>2. missed' \in Nat /\ sock' \in [Conn -> {"none", "established", "fin", "reset"}]
    BY <1>0 DEF TypeInv
  <2> QED BY <1>0, <1>1, <2>1, <2>2 DEF TypeInv
<1>3. ListenerInv'
  <2>1. Len(backlog) \in Nat /\ missed \in Nat /\ edge \in BOOLEAN
    BY <1>0 DEF TypeInv
  <2>2. CASE edge = TRUE
    BY <1>0, <1>1, <2>1, <2>2 DEF ListenerInv, BacklogStranded
  <2>3. CASE edge = FALSE
    BY <1>0, <1>1, <2>1, <2>3 DEF ListenerInv, BacklogStranded
  <2> QED BY <2>1, <2>2, <2>3
<1>4. PlacesInv'
  <2>1. c \notin open /\ \A d \in Conn \ {c} : sock'[d] = sock[d]
    BY <1>0 DEF PlacesInv, TypeInv
  <2>2. Waiting \subseteq Conn /\ open \subseteq Conn /\ sock'[c] # "none"
    BY <1>0 DEF Waiting, TypeInv
  <2> QED BY <1>0, <1>1, <2>1, <2>2 DEF PlacesInv
<1>5. SessionsInv'
  <2> SUFFICES ASSUME NEW d \in Conn PROVE Counts(d)' /\ EventTrue(d)'
    BY DEF SessionsInv
  <2>1. Counts(d) /\ EventTrue(d)
    BY <1>0 DEF SessionsInv
  <2>2. /\ Gone(d)' = Gone(d) /\ Spinning(d)' = Spinning(d)
        /\ Fresh(d)' = Fresh(d) /\ News(d)' = News(d) /\ Cut(d)' = Cut(d)
    BY <1>0 DEF TypeInv, Gone, Spinning, Fresh, News, Cut, BUFLEN
  <2>3. sock[d] = "none" \/ d \in Waiting \/ ~(sock'[d] = "none" \/ d \in Waiting')
    BY <1>0, <1>1 DEF TypeInv
  <2> QED BY <1>0, <2>1, <2>2, <2>3 DEF Counts, EventTrue
<1>6. SpinInv'
  BY <1>0 DEF SpinInv, SpinHasCause, Gone, BUFLEN, TypeInv
<1>7. CountInv' /\ AssertHolds'
  BY <1>0 DEF CountInv, AssertHolds
<1> QED BY <1>2, <1>3, <1>4, <1>5, <1>6, <1>7 DEF LoopInv

\* A message, or a departure.
LEMMA ClientInv ==
  ASSUME LoopInv, NEW c \in Conn, SendMessage(c) \/ \E s \in {"fin", "reset"} : Leave(c, s)
  PROVE  LoopInv'
<1>0. /\ TypeInv /\ ListenerInv /\ PlacesInv /\ SessionsInv /\ SpinInv /\ CountInv /\ AssertHolds
      /\ sock[c] = "established" /\ ready' = ready \cup (open \cap {c})
      /\ UNCHANGED <<kind, msgLen, phase, recvd, echoed, backlog, edge, missed, open, lpc, cur, batch,
                     accepts, numClients, shown, errors, display, skipped>>
  BY DEF LoopInv, SendMessage, Leave, loop, count, Woken
<1>1. \/ sock' = sock /\ sent[c] = echoed[c] /\ sent' = [sent EXCEPT ![c] = @ + msgLen]
      \/ sent' = sent /\ \E s \in {"fin", "reset"} : sock' = [sock EXCEPT ![c] = s]
  BY DEF SendMessage, Leave
<1>2. /\ sock' \in [Conn -> {"none", "established", "fin", "reset"}]
      /\ \A d \in Conn : (Gone(d) => Gone(d)') /\ (sock[d] # "none" <=> sock'[d] # "none")
  BY <1>0, <1>1 DEF TypeInv, Gone
<1>3. /\ sent' \in [Conn -> Nat]
      /\ \A d \in Conn :
           \/ sent'[d] = sent[d]
           \/ /\ sock'[d] = "established" /\ sent[d] = echoed[d]
              /\ sent'[d] = sent[d] + msgLen /\ sock' = sock
  <2>1. sent \in [Conn -> Nat] /\ msgLen \in Nat
    BY <1>0 DEF TypeInv
  <2>2. CASE sent' = sent
    BY <2>1, <2>2
  <2>3. CASE sock' = sock /\ sent[c] = echoed[c] /\ sent' = [sent EXCEPT ![c] = @ + msgLen]
    BY <1>0, <2>1, <2>3
  <2> QED BY <1>1, <2>2, <2>3
<1>4. TypeInv'
  BY <1>0, <1>2, <1>3 DEF TypeInv
<1>5. ListenerInv' /\ CountInv' /\ Waiting' = Waiting
  BY <1>0 DEF ListenerInv, BacklogStranded, CountInv, Waiting
<1>6. PlacesInv'
  <2>1. Waiting \subseteq Conn /\ open \subseteq Conn
    BY <1>0 DEF Waiting, TypeInv
  <2> QED BY <1>0, <1>2, <1>5, <2>1 DEF PlacesInv
<1>7. SessionsInv'
  <2> SUFFICES ASSUME NEW d \in Conn PROVE Counts(d)' /\ EventTrue(d)'
    BY DEF SessionsInv
  <2>1. /\ Counts(d) /\ EventTrue(d)
        /\ sent[d] \in Nat /\ recvd[d] \in Nat /\ echoed[d] \in Nat /\ msgLen \in Nat /\ msgLen > 0
    BY <1>0, CountsTyped DEF SessionsInv
  <2>2. Spinning(d)' = Spinning(d) /\ (Spinning(d) => Gone(d) \/ sent[d] > echoed[d])
    BY <1>0 DEF Spinning, SpinInv, SpinHasCause
  <2>3. CASE sent'[d] = sent[d]
    <3>1. Fresh(d)' = Fresh(d) /\ News(d)' = News(d) /\ Cut(d)' = Cut(d)
      BY <1>0, <2>3 DEF Fresh, News, Cut, BUFLEN
    <3>2. Counts(d)'
      BY <1>0, <1>2, <1>5, <2>1, <2>2, <2>3, <3>1 DEF Counts
    <3>3. EventTrue(d)'
      <4>1. CASE d = c /\ sock' # sock
        <5>1. Gone(d)'
          BY <1>0, <1>1, <4>1 DEF Gone, TypeInv
        <5> QED BY <5>1 DEF EventTrue
      <4>2. CASE d # c
        <5>1. d \in ready' <=> d \in ready
          BY <1>0, <4>2
        <5> QED BY <1>0, <1>2, <2>1, <2>2, <3>1, <5>1 DEF EventTrue
      <4>3. CASE d = c /\ sock' = sock
        BY <1>0, <1>1, <2>1, <2>3, <4>3 DEF TypeInv
      <4> QED BY <4>1, <4>2, <4>3
    <3> QED BY <3>2, <3>3
  <2>4. CASE sock'[d] = "established" /\ sent[d] = echoed[d] /\ sent'[d] = sent[d] + msgLen /\ sock' = sock
    <3>1. recvd[d] = echoed[d] /\ ~Gone(d) /\ ~Spinning(d)
      BY <2>1, <2>2, <2>4 DEF Counts, Gone
    <3>2. Fresh(d)' /\ News(d)'
      BY <1>0, <2>1, <2>4, <3>1 DEF Fresh, News
    <3>3. ~News(d)
      BY <2>1, <2>4, <3>1 DEF News
    <3>4. batch'[d] = {}
      BY <1>0, <2>1, <3>1, <3>3 DEF EventTrue
    <3>5. Counts(d)'
      BY <1>0, <2>1, <2>4, <3>1, <3>2 DEF Counts
    <3> QED BY <3>2, <3>4, <3>5 DEF EventTrue
  <2> QED BY <1>1, <1>3, <2>3, <2>4
<1>8. SpinInv'
  <2> SUFFICES ASSUME lpc = "spin" PROVE SpinHasCause' /\ cur' \in open'
    BY <1>0 DEF SpinInv, SpinHasCause
  <2>1. cur \in open /\ cur \in Conn /\ SpinHasCause /\ BUFLEN' = BUFLEN
    BY <1>0 DEF SpinInv, TypeInv, BUFLEN
  <2>2. CASE kind = "single" /\ Gone(cur) /\ sent[cur] = echoed[cur]
    <3>1. sent'[cur] = sent[cur]
      BY <1>2, <1>3, <2>1, <2>2 DEF Gone
    <3> QED BY <1>0, <1>2, <2>1, <2>2, <3>1 DEF SpinHasCause
  <2>3. CASE msgLen < BUFLEN /\ sent[cur] > echoed[cur]
    <3>1. sent'[cur] = sent[cur]
      BY <1>0, <1>3, <2>1, <2>3, CountsTyped
    <3> QED BY <1>0, <2>1, <2>3, <3>1 DEF SpinHasCause
  <2>4. CASE kind = "gui" /\ msgLen > BUFLEN /\ Gone(cur) /\ sent[cur] > echoed[cur]
    <3>1. sent'[cur] = sent[cur]
      BY <1>0, <1>3, <2>1, <2>4, CountsTyped
    <3> QED BY <1>0, <1>2, <2>1, <2>4, <3>1 DEF SpinHasCause
  <2> QED BY <2>1, <2>2, <2>3, <2>4 DEF SpinHasCause
<1>9. AssertHolds'
  BY <1>0 DEF AssertHolds
<1> QED BY <1>4, <1>5, <1>6, <1>7, <1>8, <1>9 DEF LoopInv

-----------------------------------------------------------------------------
(* The process, epoll_wait and accept.                                     *)

LEMMA ProcessInv ==
  ASSUME LoopInv, Start \/ Exit \/ UpdateGui \/ Rest \/ UNCHANGED vars
  PROVE  LoopInv'
<1>0. /\ phase' \in {phase, "running", "exited"} /\ shown' \in {shown, numClients}
      /\ UNCHANGED <<kind, msgLen, sock, sent, recvd, echoed, backlog, edge, missed, ready, open,
                     lpc, cur, batch, accepts, numClients, errors, skipped>>
  BY DEF Start, Exit, UpdateGui, Rest, vars, conns, epoll, loop, count
<1>1. display' \in BOOLEAN
  BY DEF Start, Exit, UpdateGui, Rest, vars, count, LoopInv, TypeInv
<1>2. TypeInv'
  BY <1>0, <1>1 DEF LoopInv, TypeInv
<1>3. ListenerInv' /\ PlacesInv' /\ CountInv' /\ AssertHolds'
  BY <1>0 DEF LoopInv, ListenerInv, BacklogStranded, PlacesInv, Waiting, CountInv, AssertHolds
<1>4. SessionsInv'
  BY <1>0 DEF LoopInv, SessionsInv, Counts, Cut, Fresh, EventTrue, News, Spinning, Gone, Waiting, BUFLEN
<1>5. SpinInv'
  BY <1>0 DEF LoopInv, SpinInv, SpinHasCause, Gone, BUFLEN
<1> QED BY <1>2, <1>3, <1>4, <1>5 DEF LoopInv

LEMMA WaitInv ==
  ASSUME LoopInv, EpollWait \/ EndOfBatch
  PROVE  LoopInv'
<1>0. /\ TypeInv /\ ListenerInv /\ PlacesInv /\ SessionsInv /\ SpinInv /\ CountInv /\ AssertHolds
      /\ lpc \in {"wait", "next"} /\ lpc' \in {"wait", "next"}
      /\ UNCHANGED <<kind, msgLen, phase, sock, sent, recvd, echoed, backlog, missed, open, cur,
                     numClients, shown, errors, display, skipped>>
  BY DEF LoopInv, EpollWait, EndOfBatch, conns, count, epoll
<1>1. \/ EpollWait
      \/ EndOfBatch /\ UNCHANGED <<edge, accepts, ready, batch>>
  BY DEF EndOfBatch, epoll
<1>2. PICK B \in SUBSET ready :
        \/ UNCHANGED <<ready, batch>>
        \/ /\ batch' = [c \in Conn |-> IF c \in B THEN Readiness(c) ELSE {}]
           /\ ready' \subseteq ready \ B
  <2>1. CASE EpollWait
    <3> DEFINE live == {c \in ready : Readiness(c) # {}}
    <3>1. PICK B \in SUBSET live :
            /\ batch' = [c \in Conn |-> IF c \in B THEN Readiness(c) ELSE {}]
            /\ ready' = live \ B
      BY <2>1 DEF EpollWait
    <3>2. B \in SUBSET ready /\ ready' \subseteq ready \ B
      BY <3>1
    <3> QED BY <3>1, <3>2
  <2>2. CASE UNCHANGED <<ready, batch>>
    BY <2>2
  <2> QED BY <1>1, <2>1, <2>2
<1>3. \A c \in Conn : Readiness(c) \subseteq Events /\ (Readiness(c) # {} => "IN" \in Readiness(c))
  <2> SUFFICES ASSUME NEW c \in Conn
               PROVE  Readiness(c) \subseteq Events /\ (Readiness(c) # {} => "IN" \in Readiness(c))
    OBVIOUS
  <2>1. CASE Unread(c) > 0 \/ Gone(c)
    BY <2>1 DEF Readiness, Registered, Events
  <2>2. CASE ~(Unread(c) > 0 \/ Gone(c))
    <3>1. sock[c] # "reset"
      BY <2>2 DEF Gone
    <3> QED BY <2>2, <3>1 DEF Readiness
  <2> QED BY <2>1, <2>2
<1>4. TypeInv'
  <2>1. edge' \in BOOLEAN /\ accepts' \in BOOLEAN
    <3>1. edge \in BOOLEAN /\ accepts \in BOOLEAN
      BY <1>0 DEF TypeInv
    <3>2. (edge' = edge \/ edge' = (edge /\ ~accepts')) /\ accepts' \in {accepts, FALSE, edge}
      BY <1>1 DEF EpollWait
    <3> QED BY <3>1, <3>2, Zenon
  <2>2. batch' \in [Conn -> SUBSET Events]
    BY <1>0, <1>2, <1>3 DEF TypeInv
  <2>3. ready' \in SUBSET Conn
    BY <1>0, <1>2 DEF TypeInv
  <2> QED BY <1>0, <2>1, <2>2, <2>3 DEF TypeInv
<1>5. ListenerInv'
  <2>1. CASE EpollWait
    <3>1. accepts = FALSE
      BY <1>0, <2>1 DEF ListenerInv, EpollWait, TypeInv
    <3>2. accepts' \in {FALSE, edge} /\ edge' = (edge /\ ~accepts') /\ lpc' = "next"
      BY <2>1 DEF EpollWait
    <3>3. edge \in BOOLEAN /\ missed \in Nat /\ Len(backlog) \in Nat
      BY <1>0 DEF TypeInv
    <3>4. CASE accepts' = FALSE
      <4>1. edge' = edge
        BY <3>2, <3>3, <3>4
      <4> QED BY <1>0, <3>1, <3>3, <3>4, <4>1 DEF ListenerInv, BacklogStranded
    <3>5. CASE accepts' = TRUE
      <4>1. edge = TRUE /\ edge' = FALSE
        BY <3>2, <3>3, <3>5
      <4> QED BY <1>0, <3>1, <3>2, <3>3, <3>5, <4>1 DEF ListenerInv, BacklogStranded
    <3> QED BY <3>2, <3>3, <3>4, <3>5
  <2>2. CASE EndOfBatch /\ UNCHANGED <<edge, accepts, ready, batch>>
    BY <1>0, <2>2 DEF EndOfBatch, ListenerInv, BacklogStranded
  <2> QED BY <1>1, <2>1, <2>2
<1>6. PlacesInv'
  <2>1. Waiting' = Waiting /\ ready' \subseteq ready
    BY <1>0, <1>2 DEF Waiting
  <2>2. \A c \in Conn : batch'[c] # {} => c \in open
    BY <1>0, <1>2 DEF PlacesInv
  <2> QED BY <1>0, <2>1, <2>2 DEF PlacesInv
<1>7. SessionsInv'
  <2> SUFFICES ASSUME NEW d \in Conn PROVE Counts(d)' /\ EventTrue(d)'
    BY DEF SessionsInv
  <2>1. Counts(d) /\ EventTrue(d) /\ ~Spinning(d) /\ ~Spinning(d)'
    BY <1>0 DEF SessionsInv, Spinning
  <2>2. Gone(d)' = Gone(d) /\ News(d)' = News(d)
    BY <1>0 DEF Gone, News
  <2>3. EventTrue(d)'
    BY <1>2, <2>1, <2>2 DEF EventTrue
  <2>4. Counts(d)'
    BY <1>0, <2>1 DEF Counts, Cut, Fresh, Waiting, BUFLEN
  <2> QED BY <2>3, <2>4
<1>8. SpinInv' /\ CountInv'
  BY <1>0 DEF SpinInv, SpinHasCause, CountInv
<1>9. AssertHolds'
  BY <1>0, <1>2, <1>3 DEF AssertHolds
<1> QED BY <1>4, <1>5, <1>6, <1>7, <1>8, <1>9 DEF LoopInv

\* accept takes the head of the listen queue, which an event of the listener
\* finds not empty.
LEMMA AcceptMoves ==
  ASSUME TypeInv, ListenerInv, PlacesInv, Accept, backlog' = Tail(backlog)
  PROVE  /\ Head(backlog) \in Waiting /\ Waiting' = Waiting \ {Head(backlog)}
         /\ backlog' \in Seq(Conn) /\ Len(backlog') = Len(backlog) - 1
         /\ \A i, j \in DOMAIN backlog' : backlog'[i] = backlog'[j] => i = j
<1>1. backlog \in Seq(Conn) /\ missed \in Nat /\ accepts = TRUE
  BY DEF TypeInv, Accept
<1>2. backlog # <<>>
  <2>1. Len(backlog) = missed + 1 + (IF edge THEN 1 ELSE 0)
    BY <1>1 DEF ListenerInv, BacklogStranded
  <2> QED BY <1>1, <2>1
<1> DEFINE c == Head(backlog)
           n == Len(backlog)
<1>3. /\ n \in Nat /\ n >= 1 /\ DOMAIN backlog = 1 .. n /\ c = backlog[1]
      /\ backlog' = Tail(backlog) /\ Len(backlog') = n - 1 /\ DOMAIN backlog' = 1 .. n - 1
      /\ \A i \in 1 .. n - 1 : backlog'[i] = backlog[i + 1]
  BY <1>1, <1>2
<1>4. c \in Waiting
  BY <1>3 DEF Waiting
<1>5. Waiting' = Waiting \ {c}
  <2>1. ASSUME NEW d \in Waiting'
        PROVE  d \in Waiting \ {c}
    <3>1. PICK i \in 1 .. n - 1 : d = backlog[i + 1]
      BY <1>3 DEF Waiting
    <3>2. i + 1 \in DOMAIN backlog /\ i + 1 # 1 /\ 1 \in DOMAIN backlog
      BY <1>3
    <3> QED BY <1>3, <3>1, <3>2 DEF PlacesInv, Waiting
  <2>2. ASSUME NEW d \in Waiting, d # c
        PROVE  d \in Waiting'
    <3>1. PICK i \in 1 .. n : d = backlog[i]
      BY <1>3 DEF Waiting
    <3>2. i - 1 \in 1 .. n - 1 /\ backlog'[i - 1] = d
      BY <1>3, <2>2, <3>1
    <3> QED BY <1>3, <3>2 DEF Waiting
  <2> QED BY <2>1, <2>2
<1>6. \A i, j \in DOMAIN backlog' : backlog'[i] = backlog'[j] => i = j
  <2> SUFFICES ASSUME NEW i \in 1 .. n - 1, NEW j \in 1 .. n - 1,
                      backlog[i + 1] = backlog[j + 1]
               PROVE  i = j
    BY <1>3
  <2>1. i + 1 \in DOMAIN backlog /\ j + 1 \in DOMAIN backlog
    BY <1>3
  <2> QED BY <2>1 DEF PlacesInv
<1>7. backlog' \in Seq(Conn)
  BY <1>1, <1>2, <1>3
<1> QED BY <1>3, <1>4, <1>5, <1>6, <1>7

LEMMA AcceptInv ==
  ASSUME LoopInv, Accept
  PROVE  LoopInv'
<1>0. /\ TypeInv /\ ListenerInv /\ PlacesInv /\ SessionsInv /\ SpinInv /\ CountInv /\ AssertHolds
      /\ lpc = "next" /\ accepts = TRUE /\ accepts' = FALSE
      /\ UNCHANGED <<kind, msgLen, phase, sock, sent, recvd, echoed, edge, lpc, cur, batch, shown, errors,
                     display, skipped>>
  BY DEF LoopInv, Accept, conns, TypeInv
<1> DEFINE c == Head(backlog)
<1>1. \/ missed' = missed + 1 /\ UNCHANGED <<open, ready, backlog, numClients>>
      \/ /\ open' = open \cup {c}
         /\ ready' = ready \/ (ready' = ready \cup {c} /\ Readiness(c) # {})
         /\ backlog' = Tail(backlog) /\ missed' = missed
         /\ numClients' = IF kind = "gui" THEN numClients + 1 ELSE 0
  BY DEF Accept
<1>2. CASE missed' = missed + 1 /\ UNCHANGED <<open, ready, backlog, numClients>>
  <2>1. TypeInv'
    <3>1. missed' \in Nat
      BY <1>0, <1>2 DEF TypeInv
    <3>2. accepts' \in BOOLEAN
      BY <1>0, Zenon
    <3> QED BY <1>0, <1>2, <3>1, <3>2 DEF TypeInv
  <2>2. ListenerInv'
    <3>1. missed \in Nat /\ Len(backlog) \in Nat /\ edge \in BOOLEAN
      BY <1>0 DEF TypeInv
    <3>2. CASE edge = TRUE
      BY <1>0, <1>2, <3>1, <3>2 DEF ListenerInv, BacklogStranded
    <3>3. CASE edge = FALSE
      BY <1>0, <1>2, <3>1, <3>3 DEF ListenerInv, BacklogStranded
    <3> QED BY <3>1, <3>2, <3>3
  <2>3. PlacesInv' /\ CountInv' /\ AssertHolds'
    BY <1>0, <1>2 DEF PlacesInv, Waiting, CountInv, AssertHolds
  <2>4. SessionsInv' /\ SpinInv'
    BY <1>0, <1>2 DEF SessionsInv, Counts, Cut, Fresh, EventTrue, News, Spinning, Gone, Waiting,
                      SpinInv, SpinHasCause, BUFLEN
  <2> QED BY <2>1, <2>2, <2>3, <2>4 DEF LoopInv
<1>3. CASE /\ open' = open \cup {c}
           /\ ready' = ready \/ (ready' = ready \cup {c} /\ Readiness(c) # {})
           /\ backlog' = Tail(backlog) /\ missed' = missed
           /\ numClients' = IF kind = "gui" THEN numClients + 1 ELSE 0
  <2>1. /\ c \in Waiting /\ Waiting' = Waiting \ {c}
        /\ backlog' \in Seq(Conn) /\ Len(backlog') = Len(backlog) - 1
        /\ \A i, j \in DOMAIN backlog' : backlog'[i] = backlog'[j] => i = j
    BY <1>0, <1>3, AcceptMoves
  <2> HIDE DEF c
  <2>2. Waiting \subseteq Conn /\ open \subseteq Conn /\ c \notin open /\ sock[c] # "none"
    <3>1. Waiting \subseteq Conn /\ open \subseteq Conn
      BY <1>0 DEF Waiting, TypeInv
    <3>2. c \notin open /\ sock[c] # "none"
      BY <1>0, <2>1 DEF PlacesInv
    <3> QED BY <3>1, <3>2
  <2>3. TypeInv'
    <3>1. numClients' \in Int /\ open' \in SUBSET Conn /\ ready' \in SUBSET Conn
      BY <1>0, <1>3, <2>1, <2>2 DEF TypeInv
    <3>2. accepts' \in BOOLEAN
      BY <1>0, Zenon
    <3> QED BY <1>0, <1>3, <2>1, <3>1, <3>2 DEF TypeInv
  <2>4. ListenerInv'
    <3>1. missed \in Nat /\ Len(backlog) \in Nat /\ edge \in BOOLEAN
      BY <1>0 DEF TypeInv
    <3>2. CASE edge = TRUE
      BY <1>0, <1>3, <2>1, <3>1, <3>2 DEF ListenerInv, BacklogStranded
    <3>3. CASE edge = FALSE
      BY <1>0, <1>3, <2>1, <3>1, <3>3 DEF ListenerInv, BacklogStranded
    <3> QED BY <3>1, <3>2, <3>3
  <2>5. PlacesInv'
    BY <1>0, <1>3, <2>1, <2>2 DEF PlacesInv
  <2>6. CountInv'
    <3>1. IsFiniteSet(open') /\ Cardinality(open') = Cardinality(open) + 1
      BY <1>0, <1>3, <2>2, FS_AddElement DEF CountInv
    <3>2. Cardinality(open) \in Nat /\ numClients \in Int /\ errors \in Nat
      BY <1>0, FS_CardinalityType DEF CountInv, TypeInv
    <3> QED BY <1>0, <1>3, <3>1, <3>2 DEF CountInv
  <2>7. SessionsInv'
    <3> SUFFICES ASSUME NEW d \in Conn PROVE Counts(d)' /\ EventTrue(d)'
      BY DEF SessionsInv
    <3>1. Counts(d) /\ EventTrue(d)
      BY <1>0 DEF SessionsInv
    <3>2. /\ Gone(d)' = Gone(d) /\ Spinning(d)' = Spinning(d)
          /\ Fresh(d)' = Fresh(d) /\ News(d)' = News(d) /\ Cut(d)' = Cut(d)
      BY <1>0 DEF Gone, Spinning, Fresh, News, Cut, BUFLEN
    <3>3. d \in Waiting' => d \in Waiting
      BY <2>1
    <3>4. CASE d # c
      <4>1. (d \in open' <=> d \in open) /\ (d \in ready' <=> d \in ready)
        BY <1>3, <3>4
      <4> QED BY <1>0, <3>1, <3>2, <3>3, <4>1 DEF Counts, EventTrue
    <3>5. CASE d = c
      <4>1. Fresh(d) /\ batch[d] = {} /\ d \notin ready
        BY <1>0, <2>1, <2>2, <3>1, <3>5 DEF Counts, PlacesInv
      <4>2. d \in ready' => Gone(d) \/ News(d)
        <5>1. d \in ready' => Unread(d) > 0 \/ Gone(d)
          BY <1>3, <3>5, <4>1 DEF Readiness, Gone
        <5> QED BY <1>0, <4>1, <5>1, CountsTyped DEF Fresh, News, Unread
      <4> QED BY <1>0, <3>1, <3>2, <3>3, <4>1, <4>2 DEF Counts, EventTrue
    <3> QED BY <3>4, <3>5
  <2>8. SpinInv' /\ AssertHolds'
    BY <1>0, <1>3 DEF SpinInv, SpinHasCause, AssertHolds, Gone, BUFLEN
  <2> QED BY <2>3, <2>4, <2>5, <2>6, <2>7, <2>8 DEF LoopInv
<1> QED BY <1>1, <1>2, <1>3

-----------------------------------------------------------------------------
(* The connections' turns.                                                 *)

\* What one connection's turn does, if it ends: its event is handled, it alone may
\* be read and echoed to, and it is closed or left open.  "single" closes it;
\* "gui" reads all there is, or BUFLEN of a longer message, or nothing, and counts
\* out what it closes, unless the closing is an error.
Turn(c) ==
  /\ lpc \in {"next", "spin"} /\ (lpc = "spin" => cur = c) /\ lpc' = "next" /\ cur' \in {cur, NoConn}
  /\ UNCHANGED <<kind, msgLen, sent, backlog, edge, missed, accepts, display, shown>>
  /\ phase' \in {"running", "exited"} /\ skipped' \in {skipped, skipped \cup {c}}
  /\ (batch[c] # {} \/ Gone(c)) /\ batch' = [batch EXCEPT ![c] = {}]
  /\ sock' = sock \/ (Gone(c) /\ sock' = [sock EXCEPT ![c] = "reset"])
  /\ \/ UNCHANGED <<recvd, echoed>>
     \/ \E n, m \in Nat :
          /\ recvd' = [recvd EXCEPT ![c] = n] /\ recvd[c] <= n /\ n <= sent[c]
          /\ echoed' = [echoed EXCEPT ![c] = m] /\ m <= n
          /\ kind = "gui" => n = sent[c] \/ (msgLen > BUFLEN /\ m < sent[c])
  /\ \/ open' = open \ {c} /\ ready' = Woken(c) \ {c}
     \/ /\ kind = "gui" /\ open' = open
        /\ ready' = ready \/ (ready' = Woken(c) /\ sock' # sock)
  /\ kind = "gui" =>
       numClients' - errors' = numClients - errors + Cardinality(open') - Cardinality(open)
  /\ numClients' \in Int /\ errors' \in Nat

LEMMA ClosedCount ==
  ASSUME IsFiniteSet(open), NEW c \in open, open' = open \ {c}
  PROVE  /\ IsFiniteSet(open') /\ Cardinality(open') = Cardinality(open) - 1
         /\ Cardinality(open) \in Nat
  BY FS_RemoveElement, FS_CardinalityType

LEMMA TurnInv ==
  ASSUME LoopInv, NEW c \in open, Turn(c)
  PROVE  LoopInv'
<1>0. /\ TypeInv /\ ListenerInv /\ PlacesInv /\ SessionsInv /\ SpinInv /\ CountInv /\ AssertHolds
      /\ c \in Conn
  BY DEF LoopInv, TypeInv
<1>1. recvd' \in [Conn -> Nat] /\ \A d \in Conn \ {c} : recvd'[d] = recvd[d]
  <2>1. recvd' = recvd \/ \E n \in Nat : recvd' = [recvd EXCEPT ![c] = n]
    BY DEF Turn
  <2>2. recvd \in [Conn -> Nat]
    BY <1>0 DEF TypeInv
  <2> QED BY <1>0, <2>1, <2>2
<1>2. echoed' \in [Conn -> Nat] /\ \A d \in Conn \ {c} : echoed'[d] = echoed[d]
  <2>1. echoed' = echoed \/ \E m \in Nat : echoed' = [echoed EXCEPT ![c] = m]
    BY DEF Turn
  <2>2. echoed \in [Conn -> Nat]
    BY <1>0 DEF TypeInv
  <2> QED BY <1>0, <2>1, <2>2
<1>3. /\ sock' \in [Conn -> {"none", "established", "fin", "reset"}]
      /\ \A d \in Conn : (Gone(d) => Gone(d)') /\ (sock[d] # "none" <=> sock'[d] # "none")
  BY <1>0 DEF Turn, TypeInv, Gone
<1>4. /\ batch' \in [Conn -> SUBSET Events] /\ batch'[c] = {}
      /\ \A d \in Conn \ {c} : batch'[d] = batch[d]
  BY <1>0 DEF Turn, TypeInv
<1>5. /\ open' \subseteq open /\ (open' = open \/ open' = open \ {c})
      /\ ready' \subseteq open' /\ open \subseteq Conn /\ Waiting' = Waiting
  BY <1>0 DEF Turn, TypeInv, PlacesInv, Woken, Waiting
<1>6. TypeInv'
  <2>1. /\ UNCHANGED <<kind, msgLen, sent, backlog, edge, missed, accepts, display, shown>>
        /\ phase' \in {"running", "exited"} /\ skipped' \in SUBSET Conn
        /\ lpc' = "next" /\ cur' \in Conn \cup {NoConn} /\ numClients' \in Int /\ errors' \in Nat
    BY <1>0 DEF Turn, TypeInv
  <2> QED BY <1>0, <1>1, <1>2, <1>3, <1>4, <1>5, <2>1 DEF TypeInv
<1>7. ListenerInv'
  BY <1>0 DEF Turn, ListenerInv, BacklogStranded
<1>8. PlacesInv'
  <2>1. backlog' = backlog
    BY DEF Turn
  <2>2. Waiting \subseteq Conn
    BY <1>0 DEF Waiting, TypeInv
  <2>3. \A d \in Conn : batch'[d] # {} => d \in open'
    BY <1>0, <1>4, <1>5 DEF PlacesInv
  <2> QED BY <1>0, <1>3, <1>5, <2>1, <2>2, <2>3 DEF PlacesInv
<1>9. CountInv'
  <2>0. /\ kind' = kind /\ IsFiniteSet(open) /\ (kind = "gui" => numClients = Cardinality(open) + errors)
        /\ numClients \in Int /\ errors \in Nat /\ numClients' \in Int /\ errors' \in Nat
        /\ kind = "gui" =>
             numClients' - errors' = numClients - errors + Cardinality(open') - Cardinality(open)
    BY <1>0 DEF Turn, CountInv, TypeInv
  <2>1. CASE open' = open
    <3>1. Cardinality(open) \in Nat /\ Cardinality(open') = Cardinality(open)
      BY <2>0, <2>1, FS_CardinalityType
    <3> QED BY <2>0, <2>1, <3>1 DEF CountInv
  <2>2. CASE open' = open \ {c}
    <3>1. /\ IsFiniteSet(open') /\ Cardinality(open') = Cardinality(open) - 1
          /\ Cardinality(open) \in Nat
      BY <1>0, <2>2, ClosedCount DEF CountInv
    <3> QED BY <2>0, <3>1 DEF CountInv
  <2> QED BY <1>5, <2>1, <2>2
<1>10. SessionsInv'
  <2> SUFFICES ASSUME NEW d \in Conn PROVE Counts(d)' /\ EventTrue(d)'
    BY DEF SessionsInv
  <2>0. /\ Counts(d) /\ EventTrue(d) /\ UNCHANGED <<kind, msgLen, sent>> /\ kind \in {"single", "gui"}
        /\ sent[d] \in Nat /\ recvd[d] \in Nat /\ echoed[d] \in Nat
    BY <1>0, CountsTyped DEF SessionsInv, Turn, TypeInv
  <2>1. CASE d # c
    <3>1. /\ ~Spinning(d) /\ ~Spinning(d)' /\ Gone(d)' = Gone(d)
          /\ Fresh(d)' = Fresh(d) /\ News(d)' = News(d) /\ Cut(d)' = Cut(d)
      <4>1. sock'[d] = sock[d]
        BY <1>0, <2>1 DEF Turn, TypeInv
      <4> QED BY <1>1, <1>2, <2>0, <2>1, <4>1 DEF Turn, Spinning, Fresh, News, Cut, Gone, BUFLEN
    <3>2. (sock'[d] = "none" <=> sock[d] = "none") /\ (d \in Waiting' <=> d \in Waiting)
      BY <1>3, <1>5
    <3>3. Counts(d)'
      BY <1>1, <1>2, <1>5, <2>0, <2>1, <3>1, <3>2 DEF Counts
    <3>4. d \in ready' => d \in ready
      BY <2>1 DEF Turn, Woken
    <3>5. EventTrue(d)'
      BY <1>4, <2>0, <2>1, <3>1, <3>4 DEF EventTrue
    <3> QED BY <3>3, <3>5
  <2>2. CASE d = c
    <3>1. EventTrue(d)'
      <4>1. c \in ready' => Gone(c)'
        <5>1. c \in ready' => ready' = ready \/ sock' # sock
          BY DEF Turn
        <5>2. sock' # sock => Gone(c)'
          BY <1>0, <1>3 DEF Turn
        <5>3. c \in ready => Gone(c)
          <6>1. batch[c] # {} \/ Gone(c)
            BY DEF Turn
          <6> QED BY <2>0, <2>2, <6>1 DEF EventTrue
        <5> QED BY <1>0, <1>3, <5>1, <5>2, <5>3
      <4> QED BY <1>4, <2>2, <4>1 DEF EventTrue
    <3>2. CASE UNCHANGED <<recvd, echoed>>
      <4>1. Fresh(c)' = Fresh(c) /\ Cut(c)' = Cut(c)
        BY <2>0, <3>2 DEF Fresh, Cut, BUFLEN
      <4>2. sock'[c] # "none" /\ c \notin Waiting'
        BY <1>0, <1>3, <1>5 DEF PlacesInv
      <4>3. kind = "single" => c \notin open'
        BY <2>0 DEF Turn
      <4> QED BY <2>0, <2>2, <3>1, <3>2, <4>1, <4>2, <4>3 DEF Counts
    <3>3. CASE \E n, m \in Nat :
                 /\ recvd' = [recvd EXCEPT ![c] = n] /\ recvd[c] <= n /\ n <= sent[c]
                 /\ echoed' = [echoed EXCEPT ![c] = m] /\ m <= n
                 /\ kind = "gui" => n = sent[c] \/ (msgLen > BUFLEN /\ m < sent[c])
      <4>1. PICK n \in Nat, m \in Nat :
                 /\ recvd' = [recvd EXCEPT ![c] = n] /\ recvd[c] <= n /\ n <= sent[c]
                 /\ echoed' = [echoed EXCEPT ![c] = m] /\ m <= n
                 /\ kind = "gui" => n = sent[c] \/ (msgLen > BUFLEN /\ m < sent[c])
        BY <3>3
      <4>2. recvd'[c] = n /\ echoed'[c] = m
        BY <1>0, <4>1 DEF TypeInv
      <4>3. kind = "gui" => recvd'[c] = sent'[c] \/ Cut(c)'
        <5>1. BUFLEN' = BUFLEN /\ BUFLEN \in Nat /\ msgLen \in Nat
          BY <1>0, <2>0 DEF BUFLEN, TypeInv
        <5> QED BY <2>0, <2>2, <4>1, <4>2, <5>1 DEF Cut
      <4>4. sock'[c] # "none" /\ c \notin Waiting'
        BY <1>0, <1>3, <1>5 DEF PlacesInv
      <4>5. kind = "single" => c \notin open'
        BY <2>0 DEF Turn
      <4> QED BY <2>0, <2>2, <3>1, <4>1, <4>2, <4>3, <4>4, <4>5 DEF Counts
    <3> QED BY <3>2, <3>3 DEF Turn
  <2> QED BY <2>1, <2>2
<1>11. SpinInv' /\ AssertHolds'
  BY <1>0, <1>4 DEF Turn, SpinInv, SpinHasCause, AssertHolds
<1> QED BY <1>6, <1>7, <1>8, <1>9, <1>10, <1>11 DEF LoopInv

LEMMA DisconnectCounts ==
  ASSUME LoopInv, kind = "gui", NEW c \in open, Disconnect(c), UNCHANGED errors
  PROVE  /\ \/ open' = open \ {c} /\ ready' = Woken(c) \ {c}
            \/ /\ kind = "gui" /\ open' = open
               /\ ready' = ready \/ (ready' = Woken(c) /\ sock' # sock)
         /\ numClients' - errors' = numClients - errors + Cardinality(open') - Cardinality(open)
         /\ numClients' \in Int /\ errors' \in Nat
<1>1. IsFiniteSet(open) /\ numClients \in Int /\ errors \in Nat
  BY DEF LoopInv, CountInv, TypeInv
<1>2. CASE open' = open \ {c} /\ ready' = Woken(c) \ {c} /\ numClients' = numClients - 1
  <2>1. Cardinality(open') = Cardinality(open) - 1 /\ Cardinality(open) \in Nat
    BY <1>1, <1>2, ClosedCount
  <2> QED BY <1>1, <1>2, <2>1
<1>3. CASE /\ UNCHANGED <<open, numClients>>
           /\ ready' = ready \/ (ready' = Woken(c) /\ sock' # sock)
  <2>1. Cardinality(open') = Cardinality(open) /\ Cardinality(open) \in Nat
    BY <1>1, <1>3, FS_CardinalityType
  <2> QED BY <1>1, <1>3, <2>1
<1> QED BY <1>2, <1>3 DEF Disconnect, Closed

LEMMA ErrorCloseTurns ==
  ASSUME LoopInv, NEW c \in Conn, ErrorClose(c)
  PROVE  c \in open /\ Turn(c)
<1>1. c \in open
  BY DEF ErrorClose, Error, LoopInv, PlacesInv
<1>2. /\ IsFiniteSet(open) /\ numClients \in Int /\ errors \in Nat
      /\ open' = open \ {c} /\ errors' = errors + 1 /\ numClients' = numClients
  BY DEF ErrorClose, Closed, LoopInv, CountInv, TypeInv
<1>3. Cardinality(open') = Cardinality(open) - 1 /\ Cardinality(open) \in Nat
  BY <1>1, <1>2, ClosedCount
<1>4. /\ numClients' - errors' = numClients - errors + Cardinality(open') - Cardinality(open)
      /\ numClients' \in Int /\ errors' \in Nat
  BY <1>2, <1>3
<1> QED BY <1>1, <1>4 DEF ErrorClose, Error, Closed, Handled, Turn, conns

LEMMA SingleTurns ==
  ASSUME LoopInv, NEW c \in Conn, ClearSocketSingle(c)
  PROVE  c \in open /\ Turn(c)
<1>1. c \in open
  BY DEF ClearSocketSingle, Read, LoopInv, PlacesInv
<1>2. /\ kind = "single" /\ sent[c] \in Nat /\ recvd[c] \in Nat /\ echoed[c] \in Nat
      /\ echoed[c] <= recvd[c] /\ BUFLEN \in Nat
      /\ recvd \in [Conn -> Nat] /\ echoed \in [Conn -> Nat] /\ numClients \in Int /\ errors \in Nat
  BY DEF ClearSocketSingle, LoopInv, TypeInv, SessionsInv, Counts, BUFLEN
<1> DEFINE n == recvd[c] + BUFLEN
           m == IF Gone(c) THEN echoed[c] ELSE echoed[c] + BUFLEN
<1>3. /\ recvd' = [recvd EXCEPT ![c] = n] /\ echoed' = [echoed EXCEPT ![c] = m]
  BY <1>2 DEF ClearSocketSingle
<1>4. n \in Nat /\ m \in Nat /\ recvd[c] <= n /\ n <= sent[c] /\ m <= n
  BY <1>2 DEF ClearSocketSingle, Unread
<1>5. numClients' \in Int /\ errors' \in Nat
  BY <1>2 DEF ClearSocketSingle, count
<1> HIDE DEF n, m
<1>6. phase' = "running" /\ batch[c] # {} /\ skipped' = skipped
  BY DEF ClearSocketSingle, Read, count
<1> QED BY <1>1, <1>2, <1>3, <1>4, <1>5, <1>6 DEF ClearSocketSingle, Read, Closed, Handled, Turn, count

\* What "gui" does with the connection after its read thread.
LEMMA GuiCloses ==
  ASSUME LoopInv, kind = "gui", NEW c \in open, Disconnect(c), Handled(c), UNCHANGED errors,
         UNCHANGED <<kind, msgLen, sent, backlog, edge, missed, accepts, display, shown>>,
         lpc \in {"next", "spin"}, lpc = "spin" => cur = c, lpc' = "next", cur' \in {cur, NoConn},
         phase' \in {"running", "exited"}, skipped' \in {skipped, skipped \cup {c}},
         batch[c] # {} \/ Gone(c),
         sock' = sock \/ (Gone(c) /\ sock' = [sock EXCEPT ![c] = "reset"]),
         \/ UNCHANGED <<recvd, echoed>>
         \/ \E n, m \in Nat :
              /\ recvd' = [recvd EXCEPT ![c] = n] /\ recvd[c] <= n /\ n <= sent[c]
              /\ echoed' = [echoed EXCEPT ![c] = m] /\ m <= n
              /\ n = sent[c] \/ (msgLen > BUFLEN /\ m < sent[c])
  PROVE  Turn(c)
<1>1. /\ \/ open' = open \ {c} /\ ready' = Woken(c) \ {c}
         \/ /\ kind = "gui" /\ open' = open
            /\ ready' = ready \/ (ready' = Woken(c) /\ sock' # sock)
      /\ numClients' - errors' = numClients - errors + Cardinality(open') - Cardinality(open)
      /\ numClients' \in Int /\ errors' \in Nat
  BY DisconnectCounts
<1> QED BY <1>1 DEF Handled, Turn

LEMMA GuiTurns ==
  ASSUME LoopInv, NEW c \in Conn, ClearSocketGui(c)
  PROVE  c \in open /\ Turn(c)
<1>1. c \in open
  BY DEF ClearSocketGui, Read, LoopInv, PlacesInv
<1>2. /\ kind = "gui" /\ sent[c] \in Nat /\ recvd[c] \in Nat /\ echoed[c] \in Nat
      /\ BUFLEN \in Nat /\ BUFLEN > 0 /\ msgLen \in Nat
      /\ recvd \in [Conn -> Nat] /\ echoed \in [Conn -> Nat]
      /\ Counts(c)
  BY DEF ClearSocketGui, LoopInv, TypeInv, SessionsInv, BUFLEN
<1> DEFINE k == IF Unread(c) >= BUFLEN THEN BUFLEN ELSE 0
           n == recvd[c] + k
           m == IF Gone(c) THEN echoed[c] ELSE echoed[c] + k
<1>3. recvd' = [recvd EXCEPT ![c] = n] /\ echoed' = [echoed EXCEPT ![c] = m]
  BY <1>2 DEF ClearSocketGui
<1>4. k > 0 \/ Unread(c) = 0
  BY DEF ClearSocketGui
<1>5. n \in Nat /\ m \in Nat /\ recvd[c] <= n /\ n <= sent[c] /\ m <= n
  BY <1>2 DEF Unread, Counts
<1>6. n = sent[c] \/ (msgLen > BUFLEN /\ m < sent[c])
  <2>1. CASE k = 0
    BY <1>2, <1>4, <2>1 DEF Unread
  <2>2. CASE k # 0
    <3>1. k = BUFLEN /\ sent[c] - recvd[c] >= BUFLEN
      BY <2>2 DEF Unread
    <3>2. m <= n /\ n <= sent[c] /\ n = recvd[c] + BUFLEN
      BY <1>5, <3>1
    <3>3. Fresh(c) \/ Cut(c)
      BY <1>2, <3>1 DEF Counts
    <3>4. msgLen > BUFLEN \/ n = sent[c]
      BY <1>2, <3>1, <3>2, <3>3 DEF Fresh, Cut
    <3> QED BY <1>2, <1>5, <3>2, <3>4
  <2> QED BY <2>1, <2>2
<1>7. /\ Disconnect(c) /\ Handled(c)
      /\ UNCHANGED <<kind, msgLen, phase, sent, backlog, edge, missed, lpc, cur, accepts, display, shown,
                     errors, skipped>>
      /\ sock' = sock \/ (Gone(c) /\ sock' = [sock EXCEPT ![c] = "reset"])
      /\ phase = "running" /\ lpc = "next" /\ batch[c] # {}
  BY DEF ClearSocketGui, Read
<1> HIDE DEF k, n, m
<1> QED BY <1>1, <1>2, <1>3, <1>5, <1>6, <1>7, GuiCloses

LEMMA SkipTurns ==
  ASSUME LoopInv, NEW c \in Conn, ReadThreadFails(c)
  PROVE  c \in open /\ Turn(c)
<1>1. c \in open
  BY DEF ReadThreadFails, Read, LoopInv, PlacesInv
<1>2. /\ kind = "gui" /\ Disconnect(c) /\ Handled(c) /\ batch[c] # {} /\ lpc = "next"
      /\ UNCHANGED <<kind, msgLen, backlog, edge, missed, lpc, cur, accepts, display, shown, errors>>
      /\ UNCHANGED <<sock, sent, recvd, echoed>>
      /\ phase' \in {"running", "exited"} /\ skipped' = skipped \cup {c}
  BY DEF ReadThreadFails, Read, conns
<1> QED BY <1>1, <1>2, GuiCloses

LEMMA SpinEndsTurns ==
  ASSUME LoopInv, SpinEnds
  PROVE  cur \in open /\ Turn(cur)
<1>1. cur \in open
  BY DEF SpinEnds, LoopInv, SpinInv
<1>2. /\ kind = "gui" /\ Disconnect(cur) /\ Handled(cur) /\ Gone(cur)
      /\ lpc = "spin" /\ lpc' = "next" /\ cur' = NoConn /\ phase = "running"
      /\ UNCHANGED <<kind, msgLen, phase, backlog, edge, missed, accepts, display, shown, errors, skipped>>
      /\ UNCHANGED <<sock, sent, recvd, echoed>>
  BY DEF SpinEnds, conns
<1> QED BY <1>1, <1>2, GuiCloses

\* recv has returned fewer than BUFLEN bytes, and the loop calls it again: the
\* client has left, or its message was short.
LEMMA ShortCause ==
  ASSUME LoopInv, NEW c \in Conn, ClearSocketShort(c)
  PROVE  \/ kind = "single" /\ Gone(c) /\ sent[c] = echoed[c]
         \/ msgLen < BUFLEN /\ sent[c] > echoed[c]
         \/ kind = "gui" /\ msgLen > BUFLEN /\ Gone(c) /\ sent[c] > echoed[c]
<1>1. /\ kind \in {"single", "gui"} /\ BUFLEN \in Nat
      /\ sent[c] \in Nat /\ recvd[c] \in Nat /\ echoed[c] \in Nat /\ msgLen \in Nat /\ msgLen > 0
  BY DEF LoopInv, TypeInv, BUFLEN
<1>2. /\ lpc = "next" /\ batch[c] # {} /\ c \in open /\ sent[c] - recvd[c] < BUFLEN
      /\ kind = "single" \/ sent[c] - recvd[c] > 0 \/ ~Gone(c)
  BY DEF ClearSocketShort, Read, Unread, LoopInv, PlacesInv
<1>3. /\ Counts(c) /\ echoed[c] <= recvd[c] /\ recvd[c] <= sent[c]
      /\ kind = "single" => Fresh(c)
  BY <1>2 DEF LoopInv, SessionsInv, Counts, Spinning
<1>4. Gone(c) \/ News(c)
  BY <1>2 DEF LoopInv, SessionsInv, EventTrue, Spinning
<1>5. CASE News(c)
  BY <1>1, <1>2, <1>3, <1>5 DEF News
<1>6. CASE Gone(c) /\ sent[c] - recvd[c] > 0
  <2>1. sent[c] > echoed[c] /\ recvd[c] # sent[c]
    BY <1>1, <1>3, <1>6
  <2>2. Fresh(c) => msgLen < BUFLEN
    BY <1>1, <1>2, <2>1 DEF Fresh
  <2>3. kind = "gui" => Fresh(c) \/ msgLen > BUFLEN
    BY <1>3, <2>1 DEF Counts, Cut
  <2> QED BY <1>1, <1>3, <1>6, <2>1, <2>2, <2>3
<1>7. CASE Gone(c) /\ ~(sent[c] - recvd[c] > 0)
  <2>1. kind = "single" /\ Fresh(c)
    BY <1>1, <1>2, <1>3, <1>7
  <2> QED BY <1>1, <1>3, <1>7, <2>1 DEF Fresh
<1> QED BY <1>4, <1>5, <1>6, <1>7

LEMMA ShortInv ==
  ASSUME LoopInv, NEW c \in Conn, ClearSocketShort(c)
  PROVE  LoopInv'
<1>0. /\ TypeInv /\ ListenerInv /\ PlacesInv /\ SessionsInv /\ SpinInv /\ CountInv /\ AssertHolds
      /\ lpc = "next" /\ lpc' = "spin" /\ cur' = c /\ c \in open
      /\ recvd' = [recvd EXCEPT ![c] = sent[c]]
      /\ UNCHANGED <<kind, msgLen, phase, sock, sent, echoed, backlog, edge, missed, ready, open, batch,
                     accepts, numClients, shown, errors, display, skipped>>
  BY DEF LoopInv, ClearSocketShort, Read, epoll, count, PlacesInv
<1>1. /\ recvd' \in [Conn -> Nat] /\ recvd'[c] = sent[c]
      /\ \A d \in Conn \ {c} : recvd'[d] = recvd[d]
  BY <1>0, CountsTyped DEF TypeInv
<1>2. TypeInv'
  BY <1>0, <1>1 DEF TypeInv
<1>3. ListenerInv' /\ PlacesInv' /\ CountInv' /\ AssertHolds'
  BY <1>0 DEF ListenerInv, BacklogStranded, PlacesInv, Waiting, CountInv, AssertHolds
<1>4. SessionsInv'
  <2> SUFFICES ASSUME NEW d \in Conn PROVE Counts(d)' /\ EventTrue(d)'
    BY DEF SessionsInv
  <2>1. /\ Counts(d) /\ EventTrue(d) /\ ~Spinning(d)
        /\ sent[d] \in Nat /\ recvd[d] \in Nat /\ echoed[d] \in Nat
    BY <1>0, CountsTyped DEF SessionsInv, Spinning
  <2>2. CASE d # c
    <3>1. /\ Fresh(d)' = Fresh(d) /\ News(d)' = News(d) /\ Cut(d)' = Cut(d)
          /\ Gone(d)' = Gone(d) /\ Waiting' = Waiting
      BY <1>0, <1>1, <2>2 DEF Fresh, News, Cut, Gone, Waiting, BUFLEN
    <3> QED BY <1>0, <1>1, <2>1, <2>2, <3>1 DEF Counts, EventTrue
  <2>3. CASE d = c
    <3>1. Spinning(d)'
      BY <1>0, <2>3 DEF Spinning
    <3>2. echoed'[d] <= recvd'[d] /\ recvd'[d] <= sent'[d] /\ recvd'[d] = sent'[d]
      BY <1>0, <1>1, <2>1, <2>3 DEF Counts
    <3>3. sock'[d] # "none" /\ d \notin Waiting' /\ Gone(d)' = Gone(d)
      BY <1>0, <2>3 DEF PlacesInv, Waiting, Gone
    <3> QED BY <1>0, <2>1, <3>1, <3>2, <3>3 DEF Counts, EventTrue
  <2> QED BY <2>2, <2>3
<1>5. SpinInv'
  <2>1. \/ kind = "single" /\ Gone(c) /\ sent[c] = echoed[c]
        \/ msgLen < BUFLEN /\ sent[c] > echoed[c]
        \/ kind = "gui" /\ msgLen > BUFLEN /\ Gone(c) /\ sent[c] > echoed[c]
    BY ShortCause
  <2>2. BUFLEN' = BUFLEN /\ Gone(cur)' = Gone(c)
    BY <1>0 DEF BUFLEN, Gone
  <2> QED BY <1>0, <2>1, <2>2 DEF SpinInv, SpinHasCause
<1> QED BY <1>2, <1>3, <1>4, <1>5 DEF LoopInv

-----------------------------------------------------------------------------
(* The theorems.                                                           *)

LEMMA NextLoop == LoopInv /\ [Next]_vars => LoopInv'
<1> SUFFICES ASSUME LoopInv, [Next]_vars PROVE LoopInv'
  OBVIOUS
<1>1. ASSUME NEW c \in Conn, Connect(c) PROVE LoopInv'
  BY <1>1, ConnectInv
<1>2. ASSUME NEW c \in Conn, ClientStep(c) \/ Kill(c) PROVE LoopInv'
  BY <1>2, ClientInv DEF ClientStep, Kill
<1>3. CASE Start \/ Exit \/ UpdateGui \/ Rest \/ UNCHANGED vars
  BY <1>3, ProcessInv
<1>4. CASE LoopStep
  <2>1. CASE EpollWait \/ EndOfBatch
    BY <2>1, WaitInv
  <2>2. CASE Accept
    BY <2>2, AcceptInv
  <2>3. CASE SpinEnds
    BY <2>3, SpinEndsTurns, TurnInv
  <2>4. ASSUME NEW c \in Conn,
               ErrorClose(c) \/ ClearSocketSingle(c) \/ ClearSocketGui(c) \/ ReadThreadFails(c)
        PROVE  LoopInv'
    BY <2>4, ErrorCloseTurns, SingleTurns, GuiTurns, SkipTurns, TurnInv
  <2>5. ASSUME NEW c \in Conn, ClearSocketShort(c) PROVE LoopInv'
    BY <2>5, ShortInv
  <2> QED BY <1>4, <2>1, <2>2, <2>3, <2>4, <2>5 DEF LoopStep
<1> QED BY <1>1, <1>2, <1>3, <1>4 DEF Next

LEMMA AlwaysLoop == Spec => []LoopInv
  BY InitLoop, NextLoop, PTL DEF Spec

\* One accept per edge-triggered event strands a client in the listen queue for
\* every arrival that met a pending edge and every accept that failed, and no
\* other client (epoll_svr.c:133-151, EpollServer/Epoll_Sever/server.cpp:99-128).
THEOREM Stranded == Spec => []BacklogStranded
<1>1. LoopInv => BacklogStranded
  BY DEF LoopInv, ListenerInv
<1> QED BY <1>1, AlwaysLoop, PTL

\* For any lengths of messages, the receive loop spins only for a client that left
\* "single" without a message, for one whose message is shorter than the buffer and
\* has not been echoed, or, in "gui", for the rest of a longer message whose client
\* has left, which ends the loop (epoll_svr.c:183,
\* EpollServer/Epoll_Sever/server.cpp:174-196).
THEOREM SpinsForCause == Spec => []SpinHasCause
<1>1. LoopInv => SpinHasCause
  BY DEF LoopInv, SpinInv
<1> QED BY <1>1, AlwaysLoop, PTL

\* The count of "gui", where errors are the connections Case 1 has closed.
CountOfClients == kind = "gui" => numClients = Cardinality(open) + errors

\* The number of clients "gui" counts is that of the open connections and of those
\* Case 1 has closed without counting them out, in every state and however many
\* they are (EpollServer/Epoll_Sever/server.cpp:89-147).
THEOREM ClientsCounted == Spec => []CountOfClients
<1>1. LoopInv => CountOfClients
  BY DEF LoopInv, CountInv, CountOfClients
<1> QED BY <1>1, AlwaysLoop, PTL

\* assert (events[i].events & EPOLLIN) never fails: what epoll_wait reports of a
\* connection it reports with EPOLLIN, for both sets of registered events
\* (epoll_svr.c:130, EpollServer/Epoll_Sever/server.cpp:96).
THEOREM AssertNeverFails == Spec => []AssertHolds
<1>1. LoopInv => AssertHolds
  BY DEF LoopInv
<1> QED BY <1>1, AlwaysLoop, PTL

-----------------------------------------------------------------------------
(* Nothing a client does is dropped on the way to the loop, but what "gui" *)
(* leaves unread.                                                          *)

\* An open connection with something to read is on the ready list or in the batch,
\* unless its read thread was not created or BUFLEN bytes of a longer message were
\* read; one that its client has left is on the ready list, or in the batch with
\* what makes the loop close it: "single" closes at its only read, "gui" at a hang-up.
Edge(c) ==
  c \in open =>
    /\ Unread(c) > 0 => c \in ready \/ batch[c] # {} \/ c \in skipped \/ RestUnread(c)
    /\ Gone(c) => \/ c \in ready
                  \/ "RDHUP" \in batch[c]
                  \/ kind = "single" /\ batch[c] # {}

Idle == lpc = "wait" => \A c \in Conn : batch[c] = {}

NoEdgeLost == \A c \in Conn : Edge(c)

EdgesInv == Idle /\ NoEdgeLost

LEMMA InitEdges == Init => EdgesInv
  BY DEF Init, EdgesInv, Idle, NoEdgeLost, Edge

\* What keeps an edge.
Keeps(c) ==
  /\ c \in open' => c \in open
  /\ Gone(c)' = Gone(c) /\ (Unread(c)' > 0 => Unread(c) > 0)
  /\ c \in ready => c \in ready'
  /\ c \in skipped => c \in skipped'
  /\ RestUnread(c) => RestUnread(c)'
  /\ batch'[c] = batch[c] /\ kind' = kind

LEMMA EdgeKept ==
  ASSUME NEW c, Edge(c), Keeps(c)
  PROVE  Edge(c)'
  BY DEF Edge, Keeps

LEMMA ClientEdges ==
  ASSUME LoopInv, EdgesInv, NEW c \in Conn,
         Connect(c) \/ SendMessage(c) \/ \E s \in {"fin", "reset"} : Leave(c, s)
  PROVE  EdgesInv'
<1>0. /\ UNCHANGED <<kind, msgLen, recvd, open, lpc, batch, skipped>> /\ ready \subseteq ready'
      /\ \A d \in Conn \ {c} : sent'[d] = sent[d] /\ sock'[d] = sock[d]
      /\ c \in open => c \in ready'
  <2>1. CASE Connect(c)
    <3>1. c \notin open
      BY <2>1 DEF Connect, LoopInv, PlacesInv
    <3> QED BY <2>1, <3>1 DEF Connect, loop, count, LoopInv, TypeInv
  <2>2. CASE SendMessage(c) \/ \E s \in {"fin", "reset"} : Leave(c, s)
    BY <2>2 DEF SendMessage, Leave, Woken, loop, count, LoopInv, TypeInv
  <2> QED BY <2>1, <2>2
<1>1. ASSUME NEW d \in Conn PROVE Edge(d)'
  <2>1. CASE d = c
    BY <1>0, <2>1 DEF Edge
  <2>2. CASE d # c
    <3>1. RestUnread(d)' = RestUnread(d)
      BY <1>0 DEF RestUnread, BUFLEN
    <3> QED BY <1>0, <2>2, <3>1, EdgeKept DEF EdgesInv, NoEdgeLost, Keeps, Gone, Unread
  <2> QED BY <2>1, <2>2
<1> QED BY <1>0, <1>1 DEF EdgesInv, Idle, NoEdgeLost

LEMMA ProcessEdges ==
  ASSUME EdgesInv,
         UNCHANGED <<kind, msgLen, sock, sent, recvd, open, ready, lpc, batch, skipped>>
  PROVE  EdgesInv'
  BY DEF EdgesInv, Idle, NoEdgeLost, Edge, Gone, Unread, RestUnread, BUFLEN

\* What is on the ready list comes into the batch with all there is to say, or stays
\* there.
LEMMA WaitEdges ==
  ASSUME LoopInv, EdgesInv, EpollWait
  PROVE  EdgesInv'
<1> DEFINE live == {c \in ready : Readiness(c) # {}}
<1>0. /\ UNCHANGED <<kind, msgLen, sock, sent, recvd, open, skipped>> /\ lpc = "wait" /\ lpc' = "next"
      /\ kind \in {"single", "gui"}
  BY DEF EpollWait, conns, count, LoopInv, TypeInv
<1>1. PICK B \in SUBSET live :
        /\ batch' = [c \in Conn |-> IF c \in B THEN Readiness(c) ELSE {}]
        /\ ready' = live \ B
  BY DEF EpollWait
<1>2. ASSUME NEW c \in Conn PROVE Edge(c)'
  <2>1. /\ Gone(c)' = Gone(c) /\ Unread(c)' = Unread(c) /\ RestUnread(c)' = RestUnread(c)
        /\ batch[c] = {}
    BY <1>0 DEF Gone, Unread, RestUnread, BUFLEN, EdgesInv, Idle
  <2>2. batch'[c] = (IF c \in B THEN Readiness(c) ELSE {})
    BY <1>1
  <2>3. Unread(c) > 0 \/ Gone(c) => "IN" \in Readiness(c)
    BY DEF Readiness, Registered
  <2>4. kind = "gui" /\ Gone(c) => "RDHUP" \in Readiness(c)
    BY DEF Readiness, Registered
  <2>5. c \in ready /\ (Unread(c) > 0 \/ Gone(c)) => c \in B \/ c \in ready'
    BY <1>1, <2>3
  <2>6. c \in open /\ Unread(c) > 0 => c \in ready \/ c \in skipped \/ RestUnread(c)
    BY <2>1 DEF EdgesInv, NoEdgeLost, Edge
  <2>7. c \in open /\ Gone(c) => c \in ready
    BY <2>1 DEF EdgesInv, NoEdgeLost, Edge
  <2>8. c \in B /\ (Unread(c) > 0 \/ Gone(c)) => batch'[c] # {}
    BY <2>2, <2>3
  <2>9. c \in B /\ Gone(c) => "RDHUP" \in batch'[c] \/ kind = "single"
    BY <1>0, <2>2, <2>4
  <2> QED BY <1>0, <2>1, <2>5, <2>6, <2>7, <2>8, <2>9 DEF Edge
<1> QED BY <1>0, <1>2 DEF EdgesInv, Idle, NoEdgeLost

LEMMA EndEdges ==
  ASSUME EdgesInv, EndOfBatch
  PROVE  EdgesInv'
<1>0. /\ UNCHANGED <<kind, msgLen, sock, sent, recvd, open, ready, batch, skipped>>
      /\ \A c \in Conn : batch[c] = {}
  BY DEF EndOfBatch, conns, epoll, count
<1> QED BY <1>0 DEF EdgesInv, Idle, NoEdgeLost, Edge, Gone, Unread, RestUnread, BUFLEN

LEMMA AcceptEdges ==
  ASSUME LoopInv, EdgesInv, Accept
  PROVE  EdgesInv'
<1> DEFINE c == Head(backlog)
<1>0. /\ UNCHANGED <<kind, msgLen, sock, sent, recvd, lpc, batch, skipped>>
      /\ \/ UNCHANGED <<open, ready>>
         \/ /\ open' = open \cup {c}
            /\ ready' = IF Readiness(c) = {} THEN ready ELSE ready \cup {c}
  BY DEF Accept, conns
<1>1. \A d \in Conn : Gone(d)' = Gone(d) /\ Unread(d)' = Unread(d) /\ RestUnread(d)' = RestUnread(d)
  BY <1>0 DEF Gone, Unread, RestUnread, BUFLEN
<1>2. ASSUME NEW d \in Conn PROVE Edge(d)'
  <2>1. CASE UNCHANGED <<open, ready>> \/ d # c
    BY <1>0, <1>1, <2>1, EdgeKept DEF EdgesInv, NoEdgeLost, Keeps
  <2>2. CASE d = c /\ ready' = IF Readiness(c) = {} THEN ready ELSE ready \cup {c}
    <3>1. Unread(d) > 0 \/ Gone(d) => Readiness(d) # {}
      BY DEF Readiness, Registered
    <3> QED BY <1>1, <2>2, <3>1 DEF Edge
  <2> QED BY <1>0, <2>1, <2>2
<1> QED BY <1>0, <1>2 DEF EdgesInv, Idle, NoEdgeLost

\* A turn of the loop leaves the events of the other connections alone.
LEMMA TurnEdges ==
  ASSUME LoopInv, EdgesInv, NEW c \in open, Turn(c), Edge(c)'
  PROVE  EdgesInv'
<1>0. /\ c \in Conn /\ recvd \in [Conn -> Nat] /\ batch \in [Conn -> SUBSET Events]
      /\ sock \in [Conn -> {"none", "established", "fin", "reset"}]
  BY DEF LoopInv, TypeInv
<1>1. /\ kind' = kind /\ msgLen' = msgLen /\ sent' = sent /\ lpc' = "next" /\ open' \subseteq open
      /\ ready \ {c} \subseteq ready' /\ skipped \subseteq skipped'
  BY DEF Turn, Woken
<1>2. ASSUME NEW d \in Conn, d # c PROVE Edge(d)'
  <2>1. recvd'[d] = recvd[d]
    <3>1. recvd' = recvd \/ \E n \in Nat : recvd' = [recvd EXCEPT ![c] = n]
      BY DEF Turn
    <3> QED BY <1>0, <1>2, <3>1
  <2>2. sock'[d] = sock[d] /\ batch'[d] = batch[d]
    BY <1>0, <1>2 DEF Turn
  <2>3. RestUnread(d)' = RestUnread(d)
    BY <1>1, <2>1 DEF RestUnread, BUFLEN
  <2> QED BY <1>1, <1>2, <2>1, <2>2, <2>3, EdgeKept DEF EdgesInv, NoEdgeLost, Keeps, Gone, Unread
<1> QED BY <1>1, <1>2 DEF EdgesInv, Idle, NoEdgeLost

\* "gui" leaves a connection open with nothing unread, on the ready list, or as one
\* of the exceptions.
LEMMA DisconnectEdge ==
  ASSUME LoopInv, NEW c \in open, Edge(c), kind = "gui", Disconnect(c), Turn(c),
         Gone(c) \/ recvd'[c] = sent[c] \/ RestUnread(c)' \/ c \in skipped'
  PROVE  Edge(c)'
<1>0. /\ c \in Conn /\ sent[c] \in Nat /\ sent' = sent
      /\ sock \in [Conn -> {"none", "established", "fin", "reset"}]
  BY CountsTyped DEF LoopInv, TypeInv, Turn
<1>1. CASE "RDHUP" \in batch[c]
  <2>1. c \notin open'
    BY <1>1 DEF Disconnect, Closed
  <2> QED BY <2>1 DEF Edge
<1>2. CASE "RDHUP" \notin batch[c]
  <2>1. ready \subseteq ready'
    BY <1>2 DEF Disconnect, Woken
  <2>2. CASE Gone(c)
    <3>1. c \in ready
      BY <1>2, <2>2 DEF Edge
    <3> QED BY <2>1, <3>1 DEF Edge
  <2>3. CASE ~Gone(c)
    <3>1. recvd'[c] = sent[c] \/ RestUnread(c)' \/ c \in skipped'
      BY <2>3
    <3>2. ~Gone(c)'
      <4>1. sock' = sock
        BY <2>3 DEF Turn
      <4> QED BY <2>3, <4>1 DEF Gone
    <3>3. recvd'[c] = sent[c] => ~(Unread(c)' > 0)
      BY <1>0 DEF Unread
    <3> QED BY <3>1, <3>2, <3>3 DEF Edge
  <2> QED BY <2>2, <2>3
<1> QED BY <1>1, <1>2

LEMMA HandleEdges ==
  ASSUME LoopInv, EdgesInv, NEW c \in Conn,
         ErrorClose(c) \/ ClearSocketSingle(c) \/ ClearSocketGui(c) \/ ReadThreadFails(c)
  PROVE  EdgesInv'
<1>1. CASE ErrorClose(c) \/ ClearSocketSingle(c)
  <2>1. c \notin open'
    BY <1>1 DEF ErrorClose, ClearSocketSingle, Closed
  <2>2. Edge(c)'
    BY <2>1 DEF Edge
  <2> QED BY <1>1, <2>2, ErrorCloseTurns, SingleTurns, TurnEdges
<1>2. CASE ClearSocketGui(c)
  <2>1. c \in open /\ Turn(c)
    BY <1>2, GuiTurns
  <2>2. kind = "gui" /\ Disconnect(c)
    BY <1>2 DEF ClearSocketGui
  <2>3. Gone(c) \/ recvd'[c] = sent[c] \/ RestUnread(c)'
    <3>1. /\ BUFLEN \in Nat /\ BUFLEN' = BUFLEN /\ msgLen' = msgLen /\ msgLen \in Nat /\ kind' = kind
          /\ sent[c] \in Nat /\ recvd[c] \in Nat /\ recvd \in [Conn -> Nat] /\ Counts(c)
      BY <1>2, CountsTyped DEF ClearSocketGui, BUFLEN, LoopInv, TypeInv, SessionsInv
    <3>2. CASE Unread(c) >= BUFLEN
      <4>1. recvd'[c] = recvd[c] + BUFLEN /\ sent[c] - recvd[c] >= BUFLEN
        BY <1>2, <3>1, <3>2 DEF ClearSocketGui, Unread
      <4>2. Fresh(c) \/ Cut(c) \/ BUFLEN = 0
        BY <3>1, <4>1, <2>2 DEF Counts
      <4>3. msgLen > BUFLEN \/ recvd'[c] = sent[c]
        BY <2>2, <3>1, <4>1, <4>2 DEF Fresh, Cut, BUFLEN
      <4> QED BY <2>2, <3>1, <4>1, <4>3 DEF RestUnread
    <3>3. CASE ~(Unread(c) >= BUFLEN)
      BY <1>2, <3>3 DEF ClearSocketGui
    <3> QED BY <3>2, <3>3
  <2>4. Edge(c)'
    BY <2>1, <2>2, <2>3, DisconnectEdge DEF EdgesInv, NoEdgeLost
  <2> QED BY <2>1, <2>4, TurnEdges
<1>3. CASE ReadThreadFails(c)
  <2>1. c \in open /\ Turn(c)
    BY <1>3, SkipTurns
  <2>2. kind = "gui" /\ Disconnect(c) /\ c \in skipped'
    BY <1>3 DEF ReadThreadFails
  <2>3. Edge(c)'
    BY <2>1, <2>2, DisconnectEdge DEF EdgesInv, NoEdgeLost
  <2> QED BY <2>1, <2>3, TurnEdges
<1> QED BY <1>1, <1>2, <1>3

LEMMA SpinEndsEdges ==
  ASSUME LoopInv, EdgesInv, SpinEnds
  PROVE  EdgesInv'
<1>1. cur \in open /\ cur \in Conn /\ Turn(cur)
  BY SpinEndsTurns DEF LoopInv, TypeInv
<1>2. kind = "gui" /\ Disconnect(cur) /\ Gone(cur)
  BY DEF SpinEnds
<1> DEFINE c == cur
<1>3. Edge(c)
  BY <1>1 DEF EdgesInv, NoEdgeLost
<1> QED BY <1>1, <1>2, <1>3, DisconnectEdge, TurnEdges

\* The loop that spins keeps the event it spins for.
LEMMA ShortEdges ==
  ASSUME LoopInv, EdgesInv, NEW c \in Conn, ClearSocketShort(c)
  PROVE  EdgesInv'
<1>0. /\ UNCHANGED <<kind, msgLen, sock, sent, open, ready, batch, skipped>> /\ lpc' = "spin"
      /\ recvd' = [recvd EXCEPT ![c] = sent[c]]
      /\ recvd \in [Conn -> Nat] /\ sent \in [Conn -> Nat]
      /\ c \in open /\ batch[c] # {}
  BY DEF ClearSocketShort, Read, epoll, count, LoopInv, TypeInv, PlacesInv
<1>1. ASSUME NEW d \in Conn PROVE Edge(d)'
  <2>1. Gone(d)' = Gone(d)
    BY <1>0 DEF Gone
  <2>2. CASE d = c
    BY <1>0, <2>1, <2>2 DEF EdgesInv, NoEdgeLost, Edge
  <2>3. CASE d # c
    <3>1. Unread(d)' = Unread(d) /\ RestUnread(d)' = RestUnread(d)
      BY <1>0, <2>3 DEF Unread, RestUnread, BUFLEN
    <3> QED BY <1>0, <2>1, <3>1, EdgeKept DEF EdgesInv, NoEdgeLost, Keeps
  <2> QED BY <2>2, <2>3
<1> QED BY <1>0, <1>1 DEF EdgesInv, Idle, NoEdgeLost

LEMMA NextEdges == LoopInv /\ EdgesInv /\ [Next]_vars => EdgesInv'
<1> SUFFICES ASSUME LoopInv, EdgesInv, [Next]_vars PROVE EdgesInv'
  OBVIOUS
<1>1. ASSUME NEW c \in Conn, Connect(c) \/ ClientStep(c) \/ Kill(c) PROVE EdgesInv'
  BY <1>1, ClientEdges DEF ClientStep, Kill
<1>2. CASE Start \/ Exit \/ UpdateGui \/ Rest \/ UNCHANGED vars
  BY <1>2, ProcessEdges DEF Start, Exit, UpdateGui, Rest, vars, conns, epoll, loop, count
<1>3. CASE LoopStep
  BY <1>3, WaitEdges, EndEdges, AcceptEdges, SpinEndsEdges, HandleEdges, ShortEdges DEF LoopStep
<1> QED BY <1>1, <1>2, <1>3 DEF Next

\* The one event loop, edge-triggered, drops no departure of an open connection and
\* no request, for either program and any lengths of messages, but what "gui" leaves
\* unread: a message longer than BUFLEN behind its first BUFLEN bytes, and one whose
\* read thread was not created.  Who else is not served waits in the listen queue or
\* behind a loop that spins (epoll_svr.c:114-167,
\* EpollServer/Epoll_Sever/server.cpp:78-151, 174-201).
THEOREM EdgesKept == Spec => []NoEdgeLost
<1>1. EdgesInv => NoEdgeLost
  BY DEF EdgesInv
<1> QED BY <1>1, InitEdges, NextEdges, AlwaysLoop, PTL DEF Spec
=============================================================================
