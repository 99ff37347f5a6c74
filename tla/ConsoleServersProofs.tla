------------------------- MODULE ConsoleServersProofs -------------------------
(***************************************************************************)
(* Proofs about ConsoleServers, for both programs and any number of        *)
(* connections, workers, descriptors and messages.                         *)
(***************************************************************************)
EXTENDS ConsoleServers, SequenceTheorems, TLAPS

-----------------------------------------------------------------------------
(* The inductive invariant.                                                *)

\* What the listener has announced and not been accepted is accounted for.
ListenerInv ==
  /\ BacklogStranded
  /\ kind = "nogui" /\ apc = "accept" => backlog # <<>>

\* A connection waits once in the listen queue, or is open, or neither.
PlacesInv ==
  /\ \A i, j \in DOMAIN backlog : backlog[i] = backlog[j] => i = j
  /\ \A c \in Waiting : sock[c] # "none"
  /\ \A c \in Open : sock[c] # "none" /\ c \notin Waiting

\* The server reads no more than was sent, and has echoed all it has read to a
\* client that is still there.
Lockstep(c) ==
  /\ echoed[c] <= recvd[c] /\ recvd[c] <= sent[c] /\ sent[c] <= echoed[c] + 1
  /\ ~Gone(c) => recvd[c] = echoed[c]

CountsInv == \A c \in Conn : Lockstep(c)

HangUp == {"RDHUP", "HUP", "ERR"}

\* An event is about a connection of the worker that holds it, and still true.
EventTrue(w, c) ==
  /\ owner[c] = w /\ "IN" \in batch[w][c]
  /\ batch[w][c] \cap HangUp # {} => Gone(c)
  /\ Unread(c) \/ Gone(c)

\* A worker closes a connection of its own that its client has left.
Closing(w) ==
  wpc[w] = "close" =>
    cur[w] \in Conn /\ owner[cur[w]] = w /\ Gone(cur[w]) /\ cur[w] \notin Pending(w)

WorkerInv(w) ==
  /\ \A c \in ready[w] : owner[c] = w
  /\ \A c \in Pending(w) : EventTrue(w, c)
  /\ Closing(w)

WorkersInv == \A w \in Worker : WorkerInv(w)

ConsoleInv == TypeOK /\ ListenerInv /\ PlacesInv /\ CountsInv /\ WorkersInv

LEMMA InitConsole == Init => ConsoleInv
<1> SUFFICES ASSUME Init PROVE ConsoleInv
  OBVIOUS
<1>1. TypeOK
  <2>1. kind \in {"nogui", "qt"} /\ phase = "starting" /\ apc = "wait" /\ edge = FALSE /\ missed = 0
    BY Zenon DEF Init
  <2>2. /\ sent = [c \in Conn |-> 0] /\ recvd = sent /\ echoed = sent
        /\ backlog \in Seq(Conn) /\ sock = [c \in Conn |-> "none"]
    BY DEF Init
  <2>3. /\ owner = [c \in Conn |-> NoWorker] /\ ready = [w \in Worker |-> {}]
        /\ wpc = [w \in Worker |-> "wait"] /\ cur = [w \in Worker |-> NoConn]
        /\ batch = [w \in Worker |-> [c \in Conn |-> {}]]
    BY DEF Init
  <2> QED BY <2>1, <2>2, <2>3 DEF TypeOK
<1>2. Len(backlog) = 0 /\ DOMAIN backlog = {} /\ Waiting = {} /\ Open = {}
  BY DEF Init, Waiting, Open
<1>3. ListenerInv /\ PlacesInv
  BY <1>2 DEF Init, ListenerInv, BacklogStranded, PlacesInv
<1>4. CountsInv /\ WorkersInv
  BY DEF Init, CountsInv, Lockstep, WorkersInv, WorkerInv, Pending, Closing
<1> QED BY <1>1, <1>3, <1>4 DEF ConsoleInv

-----------------------------------------------------------------------------
(* The clients.                                                            *)

LEMMA ConnectListener ==
  ASSUME TypeOK, PlacesInv, NEW c \in Conn, Connect(c)
  PROVE  /\ c \notin Waiting /\ Waiting' = Waiting \cup {c} /\ Len(backlog') = Len(backlog) + 1
         /\ backlog' \in Seq(Conn) /\ backlog' # <<>>
         /\ \A i, j \in DOMAIN backlog' : backlog'[i] = backlog'[j] => i = j
<1> DEFINE n == Len(backlog)
<1>1. backlog \in Seq(Conn) /\ backlog' = Append(backlog, c) /\ sock[c] = "none"
  BY DEF Connect, TypeOK
<1>2. /\ DOMAIN backlog = 1 .. n /\ DOMAIN backlog' = 1 .. n + 1 /\ n \in Nat
      /\ \A i \in 1 .. n : backlog'[i] = backlog[i]
      /\ backlog'[n + 1] = c /\ backlog' \in Seq(Conn) /\ Len(backlog') = n + 1
  BY <1>1
<1>3. c \notin Waiting
  BY <1>1 DEF PlacesInv
<1>4. Waiting' = Waiting \cup {c}
  BY <1>2 DEF Waiting
<1>5. \A i, j \in DOMAIN backlog' : backlog'[i] = backlog'[j] => i = j
  BY <1>2, <1>3 DEF PlacesInv, Waiting
<1> QED BY <1>2, <1>3, <1>4, <1>5

\* A worker none of whose fields move, whose connections do not move and whose
\* clients go no way but forward.
LEMMA WorkerKept ==
  ASSUME NEW w \in Worker, WorkerInv(w),
         wpc'[w] = wpc[w], batch'[w] = batch[w], cur'[w] = cur[w],
         \A c \in ready'[w] : c \in ready[w] \/ owner'[c] = w,
         \A c \in Conn : owner[c] = w =>
           owner'[c] = w /\ (Gone(c) => Gone(c)') /\ (Unread(c) => Unread(c)'),
         ready'[w] \subseteq Conn
  PROVE  WorkerInv(w)'
<1>1. Pending(w)' = Pending(w) /\ Pending(w) \subseteq Conn
  BY DEF Pending
<1>2. \A c \in ready'[w] : owner'[c] = w
  BY DEF WorkerInv
<1>3. \A c \in Pending(w) : EventTrue(w, c)'
  BY <1>1 DEF WorkerInv, EventTrue
<1>4. Closing(w)'
  BY <1>1 DEF WorkerInv, Closing
<1> QED BY <1>1, <1>2, <1>3, <1>4 DEF WorkerInv

LEMMA ConnectInv ==
  ASSUME ConsoleInv, NEW c \in Conn, Connect(c)
  PROVE  ConsoleInv'
<1> USE DEF ConsoleInv
<1>0. /\ TypeOK /\ phase = "running" /\ sock[c] = "none" /\ edge' = TRUE
      /\ sock' = [sock EXCEPT ![c] = "established"]
      /\ missed' = IF kind = "qt" /\ edge THEN missed + 1 ELSE missed
      /\ UNCHANGED <<kind, phase, sent, recvd, echoed, owner, ready, apc, wpc, batch, cur>>
  BY DEF Connect, workers
<1>1. TypeOK'
  <2>1. backlog' \in Seq(Conn)
    BY <1>0, ConnectListener
  <2>2. /\ sock' \in [Conn -> {"none", "established", "fin", "reset", "broken"}]
        /\ edge' \in BOOLEAN /\ missed' \in Nat
    BY <1>0 DEF TypeOK
  <2> QED BY <1>0, <2>1, <2>2 DEF TypeOK
<1>2. ListenerInv'
  <2>1. Len(backlog') = Len(backlog) + 1 /\ Len(backlog) \in Nat /\ backlog' # <<>>
    BY ConnectListener DEF TypeOK
  <2>2. missed \in Nat /\ edge \in BOOLEAN
    BY DEF TypeOK
  <2>3. CASE edge = TRUE
    BY <1>0, <2>1, <2>2, <2>3 DEF ListenerInv, BacklogStranded
  <2>4. CASE edge = FALSE
    BY <1>0, <2>1, <2>2, <2>4 DEF ListenerInv, BacklogStranded
  <2> QED BY <2>2, <2>3, <2>4
<1>3. PlacesInv'
  <2>1. Open' = Open /\ Open \subseteq Conn /\ Waiting \subseteq Conn
    BY <1>0 DEF Open, Waiting, TypeOK
  <2> QED BY <1>0, <2>1, ConnectListener DEF PlacesInv, TypeOK
<1>4. CountsInv'
  <2> SUFFICES ASSUME NEW d \in Conn PROVE Lockstep(d)'
    BY DEF CountsInv
  <2>1. Lockstep(d) /\ (Gone(d) <=> Gone(d)')
    BY <1>0 DEF CountsInv, Gone, TypeOK
  <2> QED BY <1>0, <2>1 DEF Lockstep
<1>5. WorkersInv'
  <2> SUFFICES ASSUME NEW w \in Worker PROVE WorkerInv(w)'
    BY DEF WorkersInv
  <2>1. \A d \in Conn : (Gone(d) => Gone(d)') /\ (Unread(d) => Unread(d)')
    BY <1>0 DEF Gone, Unread, TypeOK
  <2> QED BY <1>0, <2>1, WorkerKept DEF WorkersInv, TypeOK
<1> QED BY <1>1, <1>2, <1>3, <1>4, <1>5

LEMMA ClientInv ==
  ASSUME ConsoleInv, NEW c \in Conn, SendMessage(c) \/ \E s \in {"fin", "reset"} : Leave(c, s)
  PROVE  ConsoleInv'
<1> USE DEF ConsoleInv
<1>0. /\ TypeOK /\ sock[c] = "established" /\ ready' = Woken(c)
      /\ \/ /\ sent[c] = echoed[c] /\ sent' = [sent EXCEPT ![c] = @ + 1] /\ sock' = sock
         \/ /\ \E s \in {"fin", "reset"} : sock' = [sock EXCEPT ![c] = s]
            /\ sent' = sent
      /\ UNCHANGED <<kind, phase, recvd, echoed, backlog, edge, missed, owner, apc, wpc, batch, cur>>
  BY DEF SendMessage, Leave, workers, listener
<1>1. TypeOK'
  <2>1. sock' \in [Conn -> {"none", "established", "fin", "reset", "broken"}]
    BY <1>0 DEF TypeOK
  <2>2. sent' \in [Conn -> Nat]
    <3>1. sent \in [Conn -> Nat]
      BY DEF TypeOK
    <3>2. sent' = sent \/ sent' = [sent EXCEPT ![c] = @ + 1]
      BY <1>0
    <3> QED BY <3>1, <3>2
  <2>3. ready' \in [Worker -> SUBSET Conn]
    BY <1>0 DEF TypeOK, Woken
  <2> QED BY <1>0, <2>1, <2>2, <2>3 DEF TypeOK
<1>2. ListenerInv'
  BY <1>0 DEF ListenerInv, BacklogStranded
<1>3. PlacesInv'
  <2>1. Open' = Open /\ Open \subseteq Conn /\ Waiting' = Waiting /\ Waiting \subseteq Conn
    BY <1>0 DEF Open, Waiting, TypeOK
  <2>2. \A d \in Conn : sock[d] # "none" => sock'[d] # "none"
    BY <1>0 DEF TypeOK
  <2> QED BY <1>0, <2>1, <2>2 DEF PlacesInv
<1>4. \A d \in Conn : (Gone(d) => Gone(d)') /\ (Unread(d) => Unread(d)')
  <2> SUFFICES ASSUME NEW d \in Conn PROVE (Gone(d) => Gone(d)') /\ (Unread(d) => Unread(d)')
    OBVIOUS
  <2>1. Gone(d) => Gone(d)'
    BY <1>0 DEF Gone, TypeOK
  <2>2. Unread(d) => Unread(d)'
    <3>1. sent \in [Conn -> Nat] /\ sent[d] \in Nat /\ recvd[d] \in Nat /\ recvd'[d] = recvd[d]
      BY <1>0 DEF TypeOK
    <3>2. sent' = sent \/ sent' = [sent EXCEPT ![c] = @ + 1]
      BY <1>0
    <3>3. sent'[d] = sent[d] \/ sent'[d] = sent[d] + 1
      BY <3>1, <3>2
    <3> QED BY <3>1, <3>3 DEF Unread
  <2> QED BY <2>1, <2>2
<1>5. CountsInv'
  <2> SUFFICES ASSUME NEW d \in Conn PROVE Lockstep(d)'
    BY DEF CountsInv
  <2>1. Lockstep(d) /\ sent[d] \in Nat /\ recvd[d] \in Nat /\ echoed[d] \in Nat
    BY DEF CountsInv, TypeOK
  <2>2. sent'[d] = sent[d] \/ (sent[d] = echoed[d] /\ sent'[d] = sent[d] + 1)
    BY <1>0 DEF TypeOK
  <2> QED BY <1>0, <1>4, <2>1, <2>2 DEF Lockstep
<1>6. WorkersInv'
  <2> SUFFICES ASSUME NEW w \in Worker PROVE WorkerInv(w)'
    BY DEF WorkersInv
  <2>1. ready'[w] \subseteq Conn /\ \A d \in ready'[w] : d \in ready[w] \/ owner[d] = w
    BY <1>0, <1>1 DEF Woken, TypeOK
  <2> QED BY <1>0, <1>4, <2>1, WorkerKept DEF WorkersInv
<1> QED BY <1>1, <1>2, <1>3, <1>5, <1>6

-----------------------------------------------------------------------------
(* Start-up, failing calls and the accept thread.                          *)

\* Until the threads are created, each stands where its function begins.
StartInv == phase = "starting" => apc = "wait" /\ \A w \in Worker : wpc[w] = "wait"

LEMMA AlwaysStart == Spec => []StartInv
<1>1. Init => StartInv
  BY DEF Init, StartInv
<1>2. ASSUME StartInv, [Next]_vars PROVE StartInv'
  <2>1. CASE UNCHANGED <<phase, apc, wpc>>
    BY <1>2, <2>1 DEF StartInv
  <2>2. CASE phase' # "starting"
    BY <2>2 DEF StartInv
  <2>3. CASE AcceptorStep
    BY <2>2, <2>3 DEF AcceptorStep, AcceptWait, AcceptFails, Accept
  <2>4. ASSUME NEW w \in Worker, WorkerStep(w) PROVE phase' # "starting"
    BY <2>4 DEF WorkerStep, WorkerWait, EndOfBatch, Handle, Close
  <2>5. ASSUME NEW c \in Conn, Connect(c) \/ ClientStep(c) \/ Kill(c)
        PROVE  phase' # "starting"
    BY <2>5 DEF Connect, ClientStep, Kill, SendMessage, Leave
  <2>6. CASE Start \/ Fails
    BY <2>2, <2>6 DEF Start, Fails
  <2>7. CASE Rest \/ UNCHANGED vars
    BY <2>1, <2>7 DEF Rest, vars, workers
  <2> QED BY <1>2, <2>2, <2>3, <2>4, <2>5, <2>6, <2>7 DEF Next
<1> QED BY <1>1, <1>2, PTL DEF Spec

\* Steps that touch neither connections nor workers.
LEMMA ElsewhereInv ==
  ASSUME ConsoleInv,
         UNCHANGED <<kind, sock, sent, recvd, echoed, backlog, owner, ready, batch, cur>>,
         phase' \in {"starting", "running", "exited"}, apc' \in {"none", "wait", "accept"},
         wpc' = wpc \/ wpc' \in [Worker -> {"wait", "none"}],
         edge' \in BOOLEAN, missed' \in Nat, ListenerInv'
  PROVE  ConsoleInv'
<1> USE DEF ConsoleInv
<1>1. TypeOK'
  BY DEF TypeOK
<1>2. PlacesInv' /\ CountsInv'
  BY DEF PlacesInv, CountsInv, Lockstep, Gone, Open, Waiting
<1>3. WorkersInv'
  BY DEF WorkersInv, WorkerInv, EventTrue, Closing, Pending, Gone, Unread
<1> QED BY <1>1, <1>2, <1>3

LEMMA AcceptorInv ==
  ASSUME ConsoleInv, AcceptWait \/ AcceptFails
  PROVE  ConsoleInv'
<1>0. /\ kind \in {"nogui", "qt"} /\ phase \in {"starting", "running", "exited"}
      /\ apc \in {"none", "wait", "accept"} /\ missed \in Nat /\ Len(backlog) \in Nat
      /\ edge \in BOOLEAN /\ ListenerInv
  BY DEF ConsoleInv, TypeOK
<1>1. CASE AcceptWait
  <2>1. /\ apc = "wait" /\ apc' = "accept" /\ edge' = FALSE /\ ListenerReady
        /\ UNCHANGED <<kind, phase, sock, sent, recvd, echoed, backlog, missed, owner, ready, wpc, batch, cur>>
    BY <1>1 DEF AcceptWait, conns, workers
  <2>2. edge' \in BOOLEAN
    BY <2>1, Zenon
  <2>3. ListenerInv'
    <3>1. CASE kind = "qt"
      <4>1. edge = TRUE
        BY <1>0, <2>1, <3>1 DEF ListenerReady
      <4>2. Len(backlog) = missed + 1
        BY <1>0, <2>1, <3>1, <4>1 DEF ListenerInv, BacklogStranded
      <4> QED BY <1>0, <2>1, <3>1, <4>2 DEF ListenerInv, BacklogStranded
    <3>2. CASE kind = "nogui"
      BY <1>0, <2>1, <3>2 DEF ListenerInv, BacklogStranded, ListenerReady
    <3> QED BY <1>0, <3>1, <3>2
  <2> QED BY <1>0, <2>1, <2>2, <2>3, ElsewhereInv
<1>2. CASE AcceptFails
  <2>1. /\ apc = "accept" /\ apc' = "wait"
        /\ missed' = IF kind = "qt" THEN missed + 1 ELSE missed
        /\ UNCHANGED <<kind, phase, sock, sent, recvd, echoed, backlog, edge, owner, ready, wpc, batch, cur>>
    BY <1>2 DEF AcceptFails, conns, workers
  <2>2. edge' \in BOOLEAN
    BY <1>0, <2>1
  <2>3. ListenerInv'
    <3>1. CASE edge = TRUE
      BY <1>0, <2>1, <3>1 DEF ListenerInv, BacklogStranded
    <3>2. CASE edge = FALSE
      BY <1>0, <2>1, <3>2 DEF ListenerInv, BacklogStranded
    <3> QED BY <1>0, <3>1, <3>2
  <2> QED BY <1>0, <2>1, <2>2, <2>3, ElsewhereInv
<1> QED BY <1>1, <1>2

LEMMA PhaseInv ==
  ASSUME ConsoleInv, StartInv, Start \/ Fails \/ Rest \/ UNCHANGED vars
  PROVE  ConsoleInv'
<1>1. /\ phase' \in {"starting", "running", "exited"}
      /\ UNCHANGED <<kind, sock, sent, recvd, echoed, backlog, edge, missed, owner, ready, batch, cur>>
  BY DEF Start, Fails, Rest, vars, conns, listener, workers, ConsoleInv, TypeOK
<1>2. /\ apc' = apc \/ (apc = "wait" /\ apc' \in {"wait", "none"})
      /\ wpc' = wpc \/ wpc' \in [Worker -> {"wait", "none"}]
  BY DEF Start, Fails, Rest, vars, workers, StartInv
<1>3. ListenerInv'
  BY <1>1, <1>2 DEF ConsoleInv, ListenerInv, BacklogStranded
<1>4. edge' \in BOOLEAN /\ missed' \in Nat /\ apc' \in {"none", "wait", "accept"}
  BY <1>1, <1>2 DEF ConsoleInv, TypeOK
<1> QED BY <1>1, <1>2, <1>3, <1>4, ElsewhereInv

\* accept takes the connection that has waited longest.
LEMMA AcceptMoves ==
  ASSUME ConsoleInv, Accept
  PROVE  \E c \in Waiting, n \in Worker :
           /\ c \in Conn /\ owner[c] = NoWorker /\ owner' = [owner EXCEPT ![c] = n]
           /\ \/ ready' = ready /\ Readiness(c) = {}
              \/ ready' = [ready EXCEPT ![n] = @ \cup {c}]
           /\ Waiting' = Waiting \ {c}
           /\ backlog' \in Seq(Conn) /\ Len(backlog') = Len(backlog) - 1
           /\ \A i, j \in DOMAIN backlog' : backlog'[i] = backlog'[j] => i = j
<1> USE DEF ConsoleInv
<1>1. backlog \in Seq(Conn) /\ missed \in Nat /\ kind \in {"nogui", "qt"} /\ apc = "accept"
  BY DEF TypeOK, Accept
<1>2. backlog # <<>>
  <2>1. CASE kind = "nogui"
    BY <1>1, <2>1 DEF ListenerInv
  <2>2. CASE kind = "qt"
    <3>1. Len(backlog) = missed + 1 + (IF edge THEN 1 ELSE 0)
      BY <1>1, <2>2 DEF ListenerInv, BacklogStranded
    <3> QED BY <1>1, <3>1
  <2> QED BY <1>1, <2>1, <2>2
<1> DEFINE c == Head(backlog)
           n == Len(backlog)
<1>3. /\ n \in Nat /\ n >= 1 /\ DOMAIN backlog = 1 .. n /\ c = backlog[1]
      /\ backlog' = Tail(backlog) /\ Len(backlog') = n - 1 /\ DOMAIN backlog' = 1 .. n - 1
      /\ \A i \in 1 .. n - 1 : backlog'[i] = backlog[i + 1]
  BY <1>1, <1>2 DEF Accept
<1>4. c \in Waiting /\ c \in Conn
  BY <1>1, <1>3 DEF Waiting
<1>5. owner[c] = NoWorker
  BY <1>4 DEF PlacesInv, Open
<1>6. Waiting' = Waiting \ {c}
  <2>1. ASSUME NEW d \in Waiting'
        PROVE  d \in Waiting \ {c}
    <3>1. PICK i \in 1 .. n - 1 : d = backlog[i + 1]
      BY <1>3 DEF Waiting
    <3>2. i + 1 \in DOMAIN backlog /\ i + 1 # 1 /\ 1 \in DOMAIN backlog
      BY <1>3
    <3> QED BY <1>3, <3>1, <3>2 DEF PlacesInv, Waiting
  <2>2. ASSUME NEW d \in Waiting, d # c
        PROVE  d \in Waiting'
    <3>1. PICK i \in 1 .. n : d = backlog[i]
      BY <1>3 DEF Waiting
    <3>2. i - 1 \in 1 .. n - 1 /\ backlog'[i - 1] = d
      BY <1>3, <2>2, <3>1
    <3> QED BY <1>3, <3>2 DEF Waiting
  <2> QED BY <2>1, <2>2
<1>7. \A i, j \in DOMAIN backlog' : backlog'[i] = backlog'[j] => i = j
  <2> SUFFICES ASSUME NEW i \in 1 .. n - 1, NEW j \in 1 .. n - 1,
                      backlog[i + 1] = backlog[j + 1]
               PROVE  i = j
    BY <1>3
  <2>1. i + 1 \in DOMAIN backlog /\ j + 1 \in DOMAIN backlog
    BY <1>3
  <2> QED BY <2>1 DEF PlacesInv
<1>8. backlog' \in Seq(Conn)
  BY <1>1, <1>2, <1>3
<1>9. PICK k \in Worker : /\ owner' = [owner EXCEPT ![c] = k]
                          /\ \/ ready' = ready /\ Readiness(c) = {}
                             \/ ready' = [ready EXCEPT ![k] = @ \cup {c}]
  BY DEF Accept
<1> QED BY <1>3, <1>4, <1>5, <1>6, <1>7, <1>8, <1>9

LEMMA AcceptInv ==
  ASSUME ConsoleInv, Accept
  PROVE  ConsoleInv'
<1> USE DEF ConsoleInv
<1>0. /\ apc = "accept" /\ apc' = "wait"
      /\ UNCHANGED <<kind, phase, sock, sent, recvd, echoed, edge, missed, wpc, batch, cur>>
  BY DEF Accept, conns, workers
<1>1. PICK c \in Waiting, n \in Worker :
           /\ c \in Conn /\ owner[c] = NoWorker /\ owner' = [owner EXCEPT ![c] = n]
           /\ \/ ready' = ready /\ Readiness(c) = {}
              \/ ready' = [ready EXCEPT ![n] = @ \cup {c}]
           /\ Waiting' = Waiting \ {c}
           /\ backlog' \in Seq(Conn) /\ Len(backlog') = Len(backlog) - 1
           /\ \A i, j \in DOMAIN backlog' : backlog'[i] = backlog'[j] => i = j
  BY AcceptMoves
<1>2. owner \in [Conn -> Worker \cup {NoWorker}] /\ ready \in [Worker -> SUBSET Conn]
  BY DEF TypeOK
<1>3. owner' \in [Conn -> Worker \cup {NoWorker}] /\ ready' \in [Worker -> SUBSET Conn]
  BY <1>1, <1>2
<1>4. TypeOK'
  BY <1>0, <1>1, <1>3 DEF TypeOK
<1>5. ListenerInv'
  <2>1. Len(backlog) \in Nat /\ missed \in Nat /\ edge \in BOOLEAN
    BY DEF TypeOK
  <2>2. CASE edge = TRUE
    BY <1>0, <1>1, <2>1, <2>2 DEF ListenerInv, BacklogStranded
  <2>3. CASE edge = FALSE
    BY <1>0, <1>1, <2>1, <2>3 DEF ListenerInv, BacklogStranded
  <2> QED BY <2>1, <2>2, <2>3
<1>6. PlacesInv'
  <2>1. Open' = Open \cup {c}
    BY <1>1, <1>2 DEF Open, Worker, NoWorker
  <2>2. \A d \in Waiting' : sock'[d] # "none"
    BY <1>0, <1>1 DEF PlacesInv
  <2>3. \A d \in Open' : sock'[d] # "none" /\ d \notin Waiting'
    BY <1>0, <1>1, <2>1 DEF PlacesInv
  <2> QED BY <1>1, <2>2, <2>3 DEF PlacesInv
<1>7. CountsInv'
  BY <1>0 DEF CountsInv, Lockstep, Gone
<1>8. WorkersInv'
  <2> SUFFICES ASSUME NEW w \in Worker PROVE WorkerInv(w)'
    BY DEF WorkersInv
  <2>1. WorkerInv(w) /\ wpc'[w] = wpc[w] /\ batch'[w] = batch[w] /\ cur'[w] = cur[w]
    BY <1>0 DEF WorkersInv
  <2>2. ready'[w] \subseteq Conn /\ \A d \in ready'[w] : d \in ready[w] \/ owner'[d] = w
    BY <1>1, <1>2
  <2>3. \A d \in Conn : owner[d] = w => owner'[d] = w
    BY <1>1, <1>2 DEF Worker, NoWorker
  <2>4. \A d \in Conn : (Gone(d) => Gone(d)') /\ (Unread(d) => Unread(d)')
    BY <1>0 DEF Gone, Unread
  <2> QED BY <2>1, <2>2, <2>3, <2>4, WorkerKept
<1> QED BY <1>4, <1>5, <1>6, <1>7, <1>8

-----------------------------------------------------------------------------
(* The workers.                                                            *)

\* Steps that leave the connections where they are.
LEMMA PlacesKept ==
  ASSUME PlacesInv, UNCHANGED <<backlog, owner>>,
         \A c \in Conn : sock[c] # "none" => sock'[c] # "none",
         backlog \in Seq(Conn)
  PROVE  PlacesInv'
<1>1. Open' = Open /\ Open \subseteq Conn /\ Waiting' = Waiting /\ Waiting \subseteq Conn
  BY DEF Open, Waiting
<1> QED BY <1>1 DEF PlacesInv

LEMMA WaitInv ==
  ASSUME ConsoleInv, NEW w \in Worker, WorkerWait(w) \/ EndOfBatch(w)
  PROVE  ConsoleInv'
<1> USE DEF ConsoleInv
<1>0. /\ UNCHANGED <<kind, phase, sock, sent, recvd, echoed, backlog, edge, missed, owner, apc, cur>>
      /\ wpc' = [wpc EXCEPT ![w] = "next"] \/ wpc' = [wpc EXCEPT ![w] = "wait"]
      /\ \/ UNCHANGED <<batch, ready>>
         \/ /\ batch' = [batch EXCEPT ![w] = [c \in Conn |-> IF c \in ready[w] THEN Readiness(c) ELSE {}]]
            /\ ready' = [ready EXCEPT ![w] = {}]
  BY DEF WorkerWait, EndOfBatch, conns, listener
<1>1. TypeOK'
  <2>1. wpc' \in [Worker -> {"none", "wait", "next", "close"}]
    BY <1>0 DEF TypeOK
  <2>2. \A c \in Conn : Readiness(c) \subseteq {"IN", "ERR", "HUP", "RDHUP"}
    BY DEF Readiness, Registered
  <2>3. batch' \in [Worker -> [Conn -> SUBSET {"IN", "ERR", "HUP", "RDHUP"}]]
    <3> DEFINE b == [c \in Conn |-> IF c \in ready[w] THEN Readiness(c) ELSE {}]
    <3>1. b \in [Conn -> SUBSET {"IN", "ERR", "HUP", "RDHUP"}]
      BY <2>2
    <3>2. batch' = batch \/ batch' = [batch EXCEPT ![w] = b]
      BY <1>0
    <3> HIDE DEF b
    <3> QED BY <3>1, <3>2 DEF TypeOK
  <2>4. ready' \in [Worker -> SUBSET Conn]
    BY <1>0 DEF TypeOK
  <2> QED BY <1>0, <2>1, <2>3, <2>4 DEF TypeOK
<1>2. ListenerInv' /\ CountsInv'
  BY <1>0 DEF ListenerInv, BacklogStranded, CountsInv, Lockstep, Gone
<1>3. PlacesInv'
  BY <1>0, PlacesKept DEF TypeOK
<1>4. WorkersInv'
  <2> SUFFICES ASSUME NEW v \in Worker PROVE WorkerInv(v)'
    BY DEF WorkersInv
  <2>0. /\ WorkerInv(v) /\ ready[v] \subseteq Conn
        /\ ready \in [Worker -> SUBSET Conn] /\ wpc \in [Worker -> {"none", "wait", "next", "close"}]
        /\ batch \in [Worker -> [Conn -> SUBSET {"IN", "ERR", "HUP", "RDHUP"}]]
    BY DEF WorkersInv, TypeOK
  <2>1. \A d \in Conn : Gone(d)' = Gone(d) /\ Unread(d)' = Unread(d)
    BY <1>0 DEF Gone, Unread
  <2>2. CASE v # w
    <3>1. wpc'[v] = wpc[v] /\ batch'[v] = batch[v] /\ cur'[v] = cur[v] /\ ready'[v] = ready[v]
      BY <1>0, <2>0, <2>2
    <3> QED BY <1>0, <2>0, <2>1, <3>1, WorkerKept
  <2>3. CASE v = w
    <3>1. wpc'[v] # "close" /\ \A d \in ready'[v] : owner'[d] = v
      BY <1>0, <2>0, <2>3 DEF WorkerInv
    <3>2. ASSUME NEW d \in Conn, batch'[v][d] # {}
          PROVE  EventTrue(v, d)'
      <4>1. CASE UNCHANGED <<batch, ready>>
        BY <1>0, <2>0, <2>1, <3>2, <4>1 DEF WorkerInv, Pending, EventTrue
      <4>2. CASE batch' = [batch EXCEPT ![w] = [c \in Conn |-> IF c \in ready[w] THEN Readiness(c) ELSE {}]]
        <5>1. batch'[v][d] = IF d \in ready[v] THEN Readiness(d) ELSE {}
          BY <2>0, <2>3, <4>2
        <5>2. d \in ready[v] /\ batch'[v][d] = Readiness(d) /\ owner'[d] = v
          BY <1>0, <2>0, <3>2, <5>1 DEF WorkerInv
        <5>3. sock[d] \in {"reset", "broken"} => Gone(d)
          BY DEF Gone
        <5> QED BY <2>1, <3>2, <5>2, <5>3 DEF EventTrue, Readiness, Registered, HangUp
      <4> QED BY <1>0, <4>1, <4>2
    <3> QED BY <3>1, <3>2 DEF WorkerInv, Closing, Pending
  <2> QED BY <2>2, <2>3
<1> QED BY <1>1, <1>2, <1>3, <1>4

\* What one turn over the events does: a message is read and echoed to a client
\* that is there, read for nothing when the client has gone, or nothing is read;
\* the assertion on EPOLLIN holds; the connection is closed only when its client
\* has gone.
Turn(w, c) ==
  /\ UNCHANGED <<kind, sent, backlog, edge, missed, owner, apc>>
  /\ phase' = phase \/ (phase' = "exited" /\ sock[c] = "broken" /\ Unread(c))
  /\ recvd' = recvd \/ (Unread(c) /\ recvd' = [recvd EXCEPT ![c] = @ + 1])
  /\ \/ Gone(c) /\ echoed' = echoed
     \/ /\ Unread(c) /\ ~Gone(c) /\ sock' = sock /\ recvd' = [recvd EXCEPT ![c] = @ + 1]
        /\ echoed' = [echoed EXCEPT ![c] = @ + 1]
  /\ \/ sock' = sock
     \/ /\ sock[c] = "fin" /\ Unread(c) /\ recvd' = [recvd EXCEPT ![c] = @ + 1]
        /\ sock' = [sock EXCEPT ![c] = "broken"]
  /\ ready' = ready \/ ready' = Woken(c)
  /\ batch' = [batch EXCEPT ![w][c] = {}]
  /\ \/ /\ batch[w][c] \cap HangUp = {}
        /\ wpc' = [wpc EXCEPT ![w] = "next"] /\ cur' = cur
     \/ Gone(c) /\ wpc' = [wpc EXCEPT ![w] = "close"] /\ cur' = [cur EXCEPT ![w] = c]

LEMMA HandleSays ==
  ASSUME ConsoleInv, NEW w \in Worker, Handle(w)
  PROVE  \E c \in Pending(w) : EventTrue(w, c) /\ Turn(w, c)
<1> DEFINE reads(c) == ~Error(w, c) /\ "IN" \in batch[w][c]
           sends(c) == reads(c) /\ (Unread(c) \/ ~Gone(c))
<1>1. PICK c \in Pending(w) :
        /\ recvd' = IF reads(c) /\ Unread(c) THEN [recvd EXCEPT ![c] = @ + 1] ELSE recvd
        /\ echoed' = IF sends(c) /\ ~Gone(c) THEN [echoed EXCEPT ![c] = @ + 1] ELSE echoed
        /\ sock' = IF sends(c) /\ sock[c] = "fin" THEN [sock EXCEPT ![c] = "broken"] ELSE sock
        /\ ready' = IF sends(c) /\ sock[c] = "fin" THEN Woken(c) ELSE ready
        /\ phase' = IF sends(c) /\ sock[c] = "broken" THEN "exited" ELSE phase
        /\ batch' = [batch EXCEPT ![w][c] = {}]
        /\ cur' = IF Closes(w, c) THEN [cur EXCEPT ![w] = c] ELSE cur
        /\ wpc' = [wpc EXCEPT ![w] = IF kind = "nogui" /\ ~Error(w, c) /\ ~reads(c) THEN "abort"
                                    ELSE IF Closes(w, c) THEN "close" ELSE "next"]
        /\ UNCHANGED <<kind, sent, backlog, edge, missed, owner, apc>>
  BY DEF Handle, listener
<1>2. EventTrue(w, c)
  BY DEF ConsoleInv, WorkersInv, WorkerInv
<1>3. ~(kind = "nogui" /\ ~Error(w, c) /\ ~reads(c))
  BY <1>2 DEF EventTrue
<1>4. Closes(w, c) => Gone(c)
  BY <1>2 DEF EventTrue, Closes, Error, HangUp
<1>5. /\ UNCHANGED <<kind, sent, backlog, edge, missed, owner, apc>>
      /\ phase' = phase \/ (phase' = "exited" /\ sock[c] = "broken" /\ Unread(c))
      /\ ready' = ready \/ ready' = Woken(c)
      /\ batch' = [batch EXCEPT ![w][c] = {}]
  BY <1>1 DEF Gone
<1>6. recvd' = recvd \/ (Unread(c) /\ recvd' = [recvd EXCEPT ![c] = @ + 1])
  BY <1>1
<1>7. \/ sock' = sock
      \/ /\ sock[c] = "fin" /\ Unread(c) /\ recvd' = [recvd EXCEPT ![c] = @ + 1]
         /\ sock' = [sock EXCEPT ![c] = "broken"]
  BY <1>1 DEF Gone
<1>8. \/ Gone(c) /\ echoed' = echoed
      \/ /\ Unread(c) /\ ~Gone(c) /\ sock' = sock /\ recvd' = [recvd EXCEPT ![c] = @ + 1]
         /\ echoed' = [echoed EXCEPT ![c] = @ + 1]
  <2>1. CASE sends(c) /\ ~Gone(c)
    <3>1. Unread(c) /\ sock[c] # "fin"
      BY <1>2, <2>1 DEF EventTrue, Gone
    <3> QED BY <1>1, <2>1, <3>1
  <2>2. CASE ~(sends(c) /\ ~Gone(c))
    <3>1. Gone(c)
      BY <1>2, <2>2 DEF EventTrue, Error, HangUp
    <3> QED BY <1>1, <2>2, <3>1
  <2> QED BY <2>1, <2>2
<1>9. \/ /\ batch[w][c] \cap HangUp = {}
         /\ wpc' = [wpc EXCEPT ![w] = "next"] /\ cur' = cur
      \/ Gone(c) /\ wpc' = [wpc EXCEPT ![w] = "close"] /\ cur' = [cur EXCEPT ![w] = c]
  <2>1. CASE Closes(w, c)
    BY <1>1, <1>3, <1>4, <2>1
  <2>2. CASE ~Closes(w, c)
    BY <1>1, <1>2, <1>3, <2>2 DEF Closes, Error, HangUp, EventTrue
  <2> QED BY <2>1, <2>2
<1> QED BY <1>2, <1>5, <1>6, <1>7, <1>8, <1>9 DEF Turn

\* A turn moves neither the messages nor the socket of another connection, and
\* leaves a client that has gone gone.
LEMMA TurnReach ==
  ASSUME TypeOK, NEW w \in Worker, NEW c \in Conn, Turn(w, c), NEW d \in Conn
  PROVE  /\ sock'[d] = sock[d] \/ (d = c /\ Gone(d) /\ Gone(d)')
         /\ Gone(d)' = Gone(d)
         /\ d # c => recvd'[d] = recvd[d] /\ echoed'[d] = echoed[d]
         /\ sent'[d] = sent[d] /\ owner'[d] = owner[d]
<1>1. /\ sock \in [Conn -> {"none", "established", "fin", "reset", "broken"}]
      /\ recvd \in [Conn -> Nat] /\ echoed \in [Conn -> Nat]
  BY DEF TypeOK
<1>2. sock'[d] = sock[d] \/ (d = c /\ sock[d] = "fin" /\ sock'[d] = "broken")
  BY <1>1 DEF Turn
<1>3. d # c => recvd'[d] = recvd[d] /\ echoed'[d] = echoed[d]
  <2>1. recvd' = recvd \/ recvd' = [recvd EXCEPT ![c] = @ + 1]
    BY DEF Turn
  <2>2. echoed' = echoed \/ echoed' = [echoed EXCEPT ![c] = @ + 1]
    BY DEF Turn
  <2> QED BY <1>1, <2>1, <2>2
<1> QED BY <1>2, <1>3 DEF Turn, Gone

LEMMA HandleInv ==
  ASSUME ConsoleInv, NEW w \in Worker, Handle(w)
  PROVE  ConsoleInv'
<1> USE DEF ConsoleInv
<1>1. PICK c \in Pending(w) : EventTrue(w, c) /\ Turn(w, c)
  BY HandleSays
<1>2. c \in Conn /\ owner[c] = w /\ TypeOK
  BY <1>1 DEF Pending, EventTrue
<1>3. TypeOK'
  <2>1. sock' \in [Conn -> {"none", "established", "fin", "reset", "broken"}]
    BY <1>1, <1>2 DEF Turn, TypeOK
  <2>2. recvd' \in [Conn -> Nat]
    <3>1. recvd \in [Conn -> Nat] /\ (recvd' = recvd \/ recvd' = [recvd EXCEPT ![c] = @ + 1])
      BY <1>1 DEF Turn, TypeOK
    <3> QED BY <1>2, <3>1
  <2>3. echoed' \in [Conn -> Nat]
    <3>1. echoed \in [Conn -> Nat] /\ (echoed' = echoed \/ echoed' = [echoed EXCEPT ![c] = @ + 1])
      BY <1>1 DEF Turn, TypeOK
    <3> QED BY <1>2, <3>1
  <2>4. ready' \in [Worker -> SUBSET Conn]
    <3>1. ready \in [Worker -> SUBSET Conn] /\ Woken(c) \in [Worker -> SUBSET Conn]
      BY <1>2 DEF Woken, TypeOK
    <3>2. ready' = ready \/ ready' = Woken(c)
      BY <1>1 DEF Turn
    <3> QED BY <3>1, <3>2, Zenon
  <2>5. batch' \in [Worker -> [Conn -> SUBSET {"IN", "ERR", "HUP", "RDHUP"}]]
    BY <1>1, <1>2 DEF Turn, TypeOK
  <2>6. wpc' \in [Worker -> {"none", "wait", "next", "close"}] /\ cur' \in [Worker -> Conn \cup {NoConn}]
    <3>1. wpc \in [Worker -> {"none", "wait", "next", "close"}] /\ cur \in [Worker -> Conn \cup {NoConn}]
      BY DEF TypeOK
    <3>2. /\ wpc' = [wpc EXCEPT ![w] = "next"] \/ wpc' = [wpc EXCEPT ![w] = "close"]
          /\ cur' = cur \/ cur' = [cur EXCEPT ![w] = c]
      BY <1>1 DEF Turn
    <3> QED BY <1>2, <3>1, <3>2
  <2>7. phase' \in {"starting", "running", "exited"}
    BY <1>1 DEF Turn, TypeOK
  <2>8. UNCHANGED <<kind, sent, backlog, edge, missed, owner, apc>>
    BY <1>1 DEF Turn
  <2> QED BY <2>1, <2>2, <2>3, <2>4, <2>5, <2>6, <2>7, <2>8 DEF TypeOK
<1>4. ListenerInv'
  BY <1>1 DEF Turn, ListenerInv, BacklogStranded
<1>5. PlacesInv'
  <2>1. \A d \in Conn : sock[d] # "none" => sock'[d] # "none"
    BY <1>1, <1>2, TurnReach DEF Gone
  <2> QED BY <1>1, <2>1, PlacesKept DEF Turn, TypeOK
<1>6. CountsInv'
  <2> SUFFICES ASSUME NEW d \in Conn PROVE Lockstep(d)'
    BY DEF CountsInv
  <2>1. /\ Lockstep(d) /\ sent[d] \in Nat /\ recvd[d] \in Nat /\ echoed[d] \in Nat
        /\ recvd \in [Conn -> Nat] /\ echoed \in [Conn -> Nat]
    BY DEF CountsInv, TypeOK
  <2>2. sent'[d] = sent[d] /\ Gone(d)' = Gone(d)
    BY <1>1, <1>2, TurnReach
  <2>3. CASE d # c
    BY <1>1, <1>2, <2>1, <2>2, <2>3, TurnReach DEF Lockstep
  <2>4. CASE d = c
    <3>1. \/ recvd'[d] = recvd[d] /\ echoed'[d] = echoed[d]
          \/ Gone(d) /\ Unread(d) /\ recvd'[d] = recvd[d] + 1 /\ echoed'[d] = echoed[d]
          \/ ~Gone(d) /\ Unread(d) /\ recvd'[d] = recvd[d] + 1 /\ echoed'[d] = echoed[d] + 1
      BY <1>1, <2>1, <2>4 DEF Turn
    <3>2. CASE recvd'[d] = recvd[d] /\ echoed'[d] = echoed[d]
      BY <2>1, <2>2, <3>2 DEF Lockstep
    <3>3. CASE Gone(d) /\ Unread(d) /\ recvd'[d] = recvd[d] + 1 /\ echoed'[d] = echoed[d]
      BY <2>1, <2>2, <3>3 DEF Lockstep, Unread
    <3>4. CASE ~Gone(d) /\ Unread(d) /\ recvd'[d] = recvd[d] + 1 /\ echoed'[d] = echoed[d] + 1
      BY <2>1, <2>2, <3>4 DEF Lockstep, Unread
    <3> QED BY <3>1, <3>2, <3>3, <3>4
  <2> QED BY <2>3, <2>4
<1>7. WorkersInv'
  <2> SUFFICES ASSUME NEW v \in Worker PROVE WorkerInv(v)'
    BY DEF WorkersInv
  <2>0. /\ WorkerInv(v) /\ cur \in [Worker -> Conn \cup {NoConn}] /\ wpc \in [Worker -> {"none", "wait", "next", "close"}]
        /\ batch \in [Worker -> [Conn -> SUBSET {"IN", "ERR", "HUP", "RDHUP"}]]
        /\ ready \in [Worker -> SUBSET Conn] /\ ready'[v] \subseteq Conn
    BY <1>3 DEF WorkersInv, TypeOK
  <2>1. \A d \in ready'[v] : d \in ready[v] \/ owner'[d] = v
    BY <1>1, <1>2 DEF Turn, Woken
  <2>2. \A d \in Conn \ {c} : owner'[d] = owner[d] /\ Gone(d)' = Gone(d) /\ Unread(d)' = Unread(d)
    BY <1>1, <1>2, TurnReach DEF Unread
  <2>3. owner'[c] = w /\ Gone(c)' = Gone(c)
    BY <1>1, <1>2, TurnReach
  <2>4. CASE v # w
    <3>1. wpc'[v] = wpc[v] /\ batch'[v] = batch[v] /\ cur'[v] = cur[v]
      BY <1>1, <2>0, <2>4 DEF Turn
    <3>2. \A d \in Conn : owner[d] = v => d \in Conn \ {c}
      BY <1>2, <2>4
    <3> QED BY <2>0, <2>1, <2>2, <3>1, <3>2, WorkerKept
  <2>5. CASE v = w
    <3>1. \A d \in Conn : batch'[v][d] = IF d = c THEN {} ELSE batch[v][d]
      BY <1>1, <1>2, <2>0, <2>5 DEF Turn
    <3>2. \A d \in ready'[v] : owner'[d] = v
      BY <2>0, <2>1, <2>2, <2>3, <2>5 DEF WorkerInv
    <3>3. ASSUME NEW d \in Conn, batch'[v][d] # {}
          PROVE  EventTrue(v, d)'
      <4>1. d # c /\ batch'[v][d] = batch[v][d]
        BY <3>1, <3>3
      <4>2. EventTrue(v, d)
        BY <2>0, <3>3, <4>1 DEF WorkerInv, Pending
      <4> QED BY <2>2, <4>1, <4>2 DEF EventTrue
    <3>4. Closing(v)'
      <4>1. CASE wpc'[v] # "close"
        BY <4>1 DEF Closing
      <4>2. CASE wpc'[v] = "close"
        <5>1. Gone(c) /\ cur'[v] = c
          BY <1>1, <2>0, <2>5, <4>2 DEF Turn
        <5> QED BY <1>2, <2>3, <2>5, <3>1, <5>1 DEF Closing, Pending
      <4> QED BY <4>1, <4>2
    <3> QED BY <3>2, <3>3, <3>4 DEF WorkerInv, Pending
  <2> QED BY <2>4, <2>5
<1> QED BY <1>3, <1>4, <1>5, <1>6, <1>7

LEMMA CloseInv ==
  ASSUME ConsoleInv, NEW w \in Worker, Close(w)
  PROVE  ConsoleInv'
<1> USE DEF ConsoleInv
<1> DEFINE c == cur[w]
<1>1. /\ wpc[w] = "close" /\ owner' = [owner EXCEPT ![c] = NoWorker]
      /\ ready' = [ready EXCEPT ![w] = @ \ {c}]
      /\ wpc' = [wpc EXCEPT ![w] = "next"] /\ cur' = [cur EXCEPT ![w] = NoConn]
      /\ UNCHANGED <<kind, phase, sock, sent, recvd, echoed, backlog, edge, missed, apc, batch>>
  BY DEF Close, conns, listener
<1>2. c \in Conn /\ owner[c] = w /\ c \notin Pending(w)
  BY <1>1 DEF WorkersInv, WorkerInv, Closing
<1>3. TypeOK'
  <2>1. owner' \in [Conn -> Worker \cup {NoWorker}] /\ ready' \in [Worker -> SUBSET Conn]
    BY <1>1, <1>2 DEF TypeOK
  <2>2. wpc' \in [Worker -> {"none", "wait", "next", "close"}] /\ cur' \in [Worker -> Conn \cup {NoConn}]
    BY <1>1 DEF TypeOK
  <2> QED BY <1>1, <2>1, <2>2 DEF TypeOK
<1>4. ListenerInv' /\ CountsInv'
  BY <1>1 DEF ListenerInv, BacklogStranded, CountsInv, Lockstep, Gone
<1>5. PlacesInv'
  <2>1. Open' \subseteq Open /\ Waiting' = Waiting
    BY <1>1, <1>2 DEF Open, Waiting, TypeOK
  <2> QED BY <1>1, <2>1 DEF PlacesInv
<1>6. WorkersInv'
  <2> SUFFICES ASSUME NEW v \in Worker PROVE WorkerInv(v)'
    BY DEF WorkersInv
  <2>0. /\ WorkerInv(v) /\ cur \in [Worker -> Conn \cup {NoConn}] /\ wpc \in [Worker -> {"none", "wait", "next", "close"}]
        /\ ready \in [Worker -> SUBSET Conn] /\ ready'[v] \subseteq Conn
        /\ owner \in [Conn -> Worker \cup {NoWorker}]
    BY <1>3 DEF WorkersInv, TypeOK
  <2>1. \A d \in Conn : /\ Gone(d)' = Gone(d) /\ Unread(d)' = Unread(d)
                        /\ d # c => owner'[d] = owner[d]
    BY <1>1, <2>0 DEF Gone, Unread
  <2>2. CASE v # w
    <3>1. wpc'[v] = wpc[v] /\ batch'[v] = batch[v] /\ cur'[v] = cur[v] /\ ready'[v] = ready[v]
      BY <1>1, <2>0, <2>2
    <3> QED BY <1>2, <2>0, <2>1, <2>2, <3>1, WorkerKept
  <2>3. CASE v = w
    <3>1. wpc'[v] = "next" /\ ready'[v] = ready[v] \ {c}
      BY <1>1, <2>0, <2>3
    <3>2. \A d \in ready'[v] : owner'[d] = v
      BY <2>0, <2>1, <3>1 DEF WorkerInv
    <3>3. Pending(v)' = Pending(v) /\ \A d \in Pending(v) : d \in Conn \ {c}
      BY <1>1, <1>2, <2>3 DEF Pending
    <3>4. \A d \in Pending(v) : EventTrue(v, d)'
      BY <1>1, <2>0, <2>1, <3>3 DEF WorkerInv, EventTrue
    <3> QED BY <3>1, <3>2, <3>3, <3>4 DEF WorkerInv, Closing
  <2> QED BY <2>2, <2>3
<1> QED BY <1>3, <1>4, <1>5, <1>6

-----------------------------------------------------------------------------
(* The invariants the run checks.                                          *)

LEMMA NextConsole == ConsoleInv /\ StartInv /\ [Next]_vars => ConsoleInv'
<1> SUFFICES ASSUME ConsoleInv, StartInv, [Next]_vars PROVE ConsoleInv'
  OBVIOUS
<1>1. ASSUME NEW c \in Conn, Connect(c) \/ ClientStep(c) \/ Kill(c)
      PROVE  ConsoleInv'
  BY <1>1, ConnectInv, ClientInv DEF ClientStep, Kill
<1>2. CASE AcceptorStep
  BY <1>2, AcceptorInv, AcceptInv DEF AcceptorStep
<1>3. ASSUME NEW w \in Worker, WorkerStep(w)
      PROVE  ConsoleInv'
  BY <1>3, WaitInv, HandleInv, CloseInv DEF WorkerStep
<1>4. CASE Start \/ Fails \/ Rest \/ UNCHANGED vars
  BY <1>4, PhaseInv
<1> QED BY <1>1, <1>2, <1>3, <1>4 DEF Next

LEMMA AlwaysConsole == Spec => []ConsoleInv
  BY InitConsole, NextConsole, AlwaysStart, PTL DEF Spec

\* No place is "abort": the assertion on EPOLLIN of "nogui" never fails.
THEOREM TypeCorrect == Spec => []TypeOK
<1>1. ConsoleInv => TypeOK
  BY DEF ConsoleInv
<1> QED BY <1>1, AlwaysConsole, PTL

\* The edge-triggered listener strands exactly the arrivals it has missed, for
\* any number of clients, descriptors and workers.
THEOREM Stranded == Spec => []BacklogStranded
<1>1. ConsoleInv => BacklogStranded
  BY DEF ConsoleInv, ListenerInv
<1> QED BY <1>1, AlwaysConsole, PTL

-----------------------------------------------------------------------------
(* Nothing a client does is dropped, and no client can end the process.    *)

\* A connection with a request to read is on its worker's ready list or in its batch;
\* one that its client has left is on the ready list, in the batch with a hang-up, or
\* about to be closed.
Edge(w, c) ==
  owner[c] = w =>
    /\ Unread(c) /\ ~Gone(c) => c \in ready[w] \/ c \in Pending(w)
    /\ Gone(c) => \/ c \in ready[w]
                  \/ batch[w][c] \cap HangUp # {}
                  \/ wpc[w] = "close" /\ cur[w] = c

Idle(w) == wpc[w] = "wait" => Pending(w) = {}

EdgesInv == \A w \in Worker : Idle(w) /\ \A c \in Conn : Edge(w, c)

\* The send that finds the client's end closed is the last: all messages were read.
BrokenInv == \A c \in Conn : sock[c] = "broken" => recvd[c] = sent[c]

SessionInv == EdgesInv /\ BrokenInv

LEMMA InitSession == Init => SessionInv
  BY DEF Init, SessionInv, EdgesInv, BrokenInv, Idle, Edge, Pending, Worker, NoWorker

\* What keeps an edge.
Keeps(w, c) ==
  /\ owner'[c] = w => owner[c] = w
  /\ Gone(c)' = Gone(c) /\ (Unread(c)' => Unread(c))
  /\ c \in ready[w] => c \in ready'[w]
  /\ batch'[w][c] = batch[w][c]
  /\ wpc[w] = "close" /\ cur[w] = c /\ owner'[c] = w => wpc'[w] = "close" /\ cur'[w] = c

LEMMA EdgeKept ==
  ASSUME NEW w \in Worker, NEW c \in Conn, Edge(w, c), Keeps(w, c)
  PROVE  Edge(w, c)'
<1>1. c \in Pending(w)' <=> c \in Pending(w)
  BY DEF Pending, Keeps
<1> QED BY <1>1 DEF Edge, Keeps

LEMMA IdleKept ==
  ASSUME NEW w \in Worker, Idle(w), wpc'[w] = wpc[w] \/ wpc'[w] # "wait", batch'[w] = batch[w]
  PROVE  Idle(w)'
  BY DEF Idle, Pending

LEMMA ConnectEdges ==
  ASSUME ConsoleInv, EdgesInv, NEW c \in Conn, Connect(c)
  PROVE  EdgesInv'
<1>0. /\ sock[c] = "none" /\ sock' = [sock EXCEPT ![c] = "established"]
      /\ sock \in [Conn -> {"none", "established", "fin", "reset", "broken"}]
      /\ UNCHANGED <<sent, recvd, owner, ready, wpc, batch, cur>>
  BY DEF Connect, workers, ConsoleInv, TypeOK
<1>1. ASSUME NEW w \in Worker, NEW d \in Conn PROVE Edge(w, d)'
  <2>1. CASE d = c
    <3>1. owner'[c] \notin Worker
      BY <1>0 DEF ConsoleInv, PlacesInv, Open, Worker, NoWorker
    <3> QED BY <2>1, <3>1 DEF Edge
  <2>2. CASE d # c
    BY <1>0, <2>2, EdgeKept DEF EdgesInv, Keeps, Gone, Unread
  <2> QED BY <2>1, <2>2
<1> QED BY <1>0, <1>1, IdleKept DEF EdgesInv

LEMMA ClientEdges ==
  ASSUME ConsoleInv, EdgesInv, NEW c \in Conn,
         SendMessage(c) \/ \E s \in {"fin", "reset"} : Leave(c, s)
  PROVE  EdgesInv'
<1>0. /\ ready' = Woken(c) /\ UNCHANGED <<recvd, owner, wpc, batch, cur>>
      /\ \A d \in Conn \ {c} : sent'[d] = sent[d] /\ sock'[d] = sock[d]
      /\ ready \in [Worker -> SUBSET Conn]
  BY DEF SendMessage, Leave, workers, ConsoleInv, TypeOK
<1>1. ASSUME NEW w \in Worker, NEW d \in Conn PROVE Edge(w, d)'
  <2>1. CASE d = c
    <3>1. owner'[c] = w => c \in ready'[w]
      BY <1>0 DEF Woken
    <3> QED BY <2>1, <3>1 DEF Edge
  <2>2. CASE d # c
    <3>1. d \in ready[w] => d \in ready'[w]
      BY <1>0 DEF Woken
    <3> QED BY <1>0, <2>2, <3>1, EdgeKept DEF EdgesInv, Keeps, Gone, Unread
  <2> QED BY <2>1, <2>2
<1> QED BY <1>0, <1>1, IdleKept DEF EdgesInv

LEMMA ElsewhereEdges ==
  ASSUME EdgesInv, UNCHANGED <<sock, sent, recvd, owner, ready, batch, cur>>,
         wpc' = wpc \/ \A w \in Worker : wpc[w] = "wait" /\ wpc'[w] \in {"wait", "none"}
  PROVE  EdgesInv'
  BY DEF EdgesInv, Edge, Idle, Pending, Gone, Unread

LEMMA AcceptEdges ==
  ASSUME ConsoleInv, EdgesInv, Accept
  PROVE  EdgesInv'
<1>0. /\ UNCHANGED <<sock, sent, recvd, wpc, batch, cur>> /\ ready \in [Worker -> SUBSET Conn]
      /\ owner \in [Conn -> Worker \cup {NoWorker}]
  BY DEF Accept, conns, workers, ConsoleInv, TypeOK
<1>1. PICK c \in Waiting, n \in Worker :
           /\ c \in Conn /\ owner[c] = NoWorker /\ owner' = [owner EXCEPT ![c] = n]
           /\ \/ ready' = ready /\ Readiness(c) = {}
              \/ ready' = [ready EXCEPT ![n] = @ \cup {c}]
  BY AcceptMoves
<1>2. \A d \in Conn : Gone(d)' = Gone(d) /\ Unread(d)' = Unread(d)
  BY <1>0 DEF Gone, Unread
<1>3. ASSUME NEW w \in Worker, NEW d \in Conn PROVE Edge(w, d)'
  <2>1. CASE d = c
    <3>1. CASE ready' = ready /\ Readiness(c) = {}
      <4>1. ~Unread(c) /\ ~Gone(c)
        BY <3>1 DEF Readiness, Registered
      <4> QED BY <1>2, <2>1, <4>1 DEF Edge
    <3>2. CASE ready' = [ready EXCEPT ![n] = @ \cup {c}]
      <4>1. owner'[c] = w => c \in ready'[w]
        BY <1>0, <1>1, <3>2
      <4> QED BY <2>1, <4>1 DEF Edge
    <3> QED BY <1>1, <3>1, <3>2
  <2>2. CASE d # c
    <3>1. owner'[d] = owner[d] /\ (d \in ready[w] => d \in ready'[w])
      BY <1>0, <1>1, <2>2
    <3> QED BY <1>0, <1>2, <3>1, EdgeKept DEF EdgesInv, Keeps
  <2> QED BY <2>1, <2>2
<1> QED BY <1>0, <1>3, IdleKept DEF EdgesInv

\* What is on the ready list comes into the batch with all there is to say.
LEMMA WaitEdges ==
  ASSUME ConsoleInv, EdgesInv, NEW w \in Worker, WorkerWait(w)
  PROVE  EdgesInv'
<1> DEFINE b == [c \in Conn |-> IF c \in ready[w] THEN Readiness(c) ELSE {}]
<1>0. /\ UNCHANGED <<sock, sent, recvd, owner, cur>> /\ wpc[w] = "wait"
      /\ wpc' = [wpc EXCEPT ![w] = "next"] /\ ready' = [ready EXCEPT ![w] = {}]
      /\ batch' = [batch EXCEPT ![w] = b]
      /\ wpc \in [Worker -> {"none", "wait", "next", "close"}] /\ ready \in [Worker -> SUBSET Conn]
      /\ batch \in [Worker -> [Conn -> SUBSET {"IN", "ERR", "HUP", "RDHUP"}]]
  BY DEF WorkerWait, conns, ConsoleInv, TypeOK
<1>1. \A d \in Conn : Gone(d)' = Gone(d) /\ Unread(d)' = Unread(d)
  BY <1>0 DEF Gone, Unread
<1>2. ASSUME NEW v \in Worker, v # w PROVE Idle(v)' /\ \A c \in Conn : Edge(v, c)'
  <2>1. wpc'[v] = wpc[v] /\ batch'[v] = batch[v] /\ ready'[v] = ready[v]
    BY <1>0, <1>2
  <2> QED BY <1>0, <1>1, <2>1, EdgeKept, IdleKept DEF EdgesInv, Keeps
<1>3. Idle(w)'
  BY <1>0 DEF Idle
<1>4. ASSUME NEW c \in Conn PROVE Edge(w, c)'
  <2>1. batch'[w][c] = IF c \in ready[w] THEN Readiness(c) ELSE {}
    BY <1>0
  <2>2. Pending(w) = {} /\ batch[w][c] = {}
    BY <1>0 DEF EdgesInv, Idle, Pending
  <2>3. ASSUME owner'[c] = w, Unread(c), ~Gone(c) PROVE c \in Pending(w)'
    <3>1. c \in ready[w]
      BY <1>0, <2>2, <2>3 DEF EdgesInv, Edge
    <3>2. "IN" \in Readiness(c)
      BY <2>3 DEF Readiness, Registered
    <3> QED BY <2>1, <3>1, <3>2 DEF Pending
  <2>4. ASSUME owner'[c] = w, Gone(c) PROVE batch'[w][c] \cap HangUp # {}
    <3>1. c \in ready[w]
      BY <1>0, <2>2, <2>4 DEF EdgesInv, Edge
    <3>2. "RDHUP" \in Readiness(c)
      BY <2>4 DEF Readiness, Registered
    <3> QED BY <2>1, <3>1, <3>2 DEF HangUp
  <2> QED BY <1>1, <2>3, <2>4 DEF Edge
<1> QED BY <1>2, <1>3, <1>4 DEF EdgesInv

LEMMA EndEdges ==
  ASSUME ConsoleInv, EdgesInv, NEW w \in Worker, EndOfBatch(w)
  PROVE  EdgesInv'
<1>0. /\ UNCHANGED <<sock, sent, recvd, owner, ready, batch, cur>>
      /\ wpc[w] = "next" /\ Pending(w) = {} /\ wpc' = [wpc EXCEPT ![w] = "wait"]
      /\ wpc \in [Worker -> {"none", "wait", "next", "close"}]
  BY DEF EndOfBatch, conns, listener, ConsoleInv, TypeOK
<1>1. \A v \in Worker : Pending(v)' = Pending(v) /\ (v # w => wpc'[v] = wpc[v])
  BY <1>0 DEF Pending
<1>2. \A v \in Worker : Idle(v)'
  BY <1>0, <1>1 DEF EdgesInv, Idle
<1>3. \A v \in Worker : \A c \in Conn : Edge(v, c)'
  BY <1>0, <1>1, EdgeKept DEF EdgesInv, Keeps, Gone, Unread
<1> QED BY <1>2, <1>3 DEF EdgesInv

\* The event in hand discharges its connection: the one message there is is read, or
\* a hang-up leads to the close, or the connection is on the ready list again.
LEMMA HandleEdges ==
  ASSUME ConsoleInv, EdgesInv, NEW w \in Worker, Handle(w)
  PROVE  EdgesInv'
<1>0. /\ wpc[w] = "next" /\ TypeOK /\ cur \in [Worker -> Conn \cup {NoConn}]
      /\ wpc \in [Worker -> {"none", "wait", "next", "close"}] /\ ready \in [Worker -> SUBSET Conn]
      /\ batch \in [Worker -> [Conn -> SUBSET {"IN", "ERR", "HUP", "RDHUP"}]]
  BY DEF Handle, ConsoleInv, TypeOK
<1>1. PICK c \in Pending(w) : EventTrue(w, c) /\ Turn(w, c)
  BY HandleSays
<1>2. c \in Conn /\ owner[c] = w
  BY <1>1 DEF Pending, EventTrue
<1>3. /\ \A v \in Worker : ready[v] \subseteq ready'[v] /\ (v # w => batch'[v] = batch[v])
      /\ \A v \in Worker : v # w => wpc'[v] = wpc[v] /\ cur'[v] = cur[v]
      /\ \A d \in Conn : batch'[w][d] = IF d = c THEN {} ELSE batch[w][d]
      /\ wpc'[w] # "wait"
  BY <1>0, <1>1, <1>2 DEF Turn, Woken
<1>4. ASSUME NEW d \in Conn
      PROVE  /\ owner'[d] = owner[d] /\ Gone(d)' = Gone(d)
             /\ d # c => Unread(d)' = Unread(d)
  BY <1>0, <1>1, <1>2, TurnReach DEF Unread
<1>5. ASSUME NEW v \in Worker, v # w, NEW d \in Conn PROVE Edge(v, d)'
  <2>1. d = c => owner'[d] # v
    BY <1>2, <1>4, <1>5
  <2>2. CASE d = c
    BY <2>1, <2>2 DEF Edge
  <2>3. CASE d # c
    BY <1>3, <1>4, <1>5, <2>3, EdgeKept DEF EdgesInv, Keeps
  <2> QED BY <2>2, <2>3
<1>6. ASSUME NEW d \in Conn, d # c PROVE Edge(w, d)'
  BY <1>0, <1>3, <1>4, <1>6, EdgeKept DEF EdgesInv, Keeps
<1>7. Edge(w, c)'
  <2>1. CASE Gone(c)
    <3>1. Gone(c)' /\ (c \in ready[w] => c \in ready'[w])
      BY <1>2, <1>3, <1>4, <2>1
    <3>2. c \in ready[w] \/ batch[w][c] \cap HangUp # {}
      BY <1>0, <1>2, <2>1 DEF EdgesInv, Edge
    <3>3. batch[w][c] \cap HangUp # {} => wpc'[w] = "close" /\ cur'[w] = c
      BY <1>0, <1>1 DEF Turn
    <3> QED BY <3>1, <3>2, <3>3 DEF Edge
  <2>2. CASE ~Gone(c)
    <3>1. /\ recvd' = [recvd EXCEPT ![c] = @ + 1] /\ sent' = sent
          /\ recvd \in [Conn -> Nat] /\ sent \in [Conn -> Nat] /\ echoed \in [Conn -> Nat]
      BY <1>0, <1>1, <2>2 DEF Turn, TypeOK
    <3>2. sent[c] <= recvd[c] + 1
      BY <1>2, <2>2 DEF ConsoleInv, CountsInv, Lockstep
    <3>3. ~Unread(c)'
      BY <1>2, <3>1, <3>2 DEF Unread
    <3> QED BY <1>2, <1>4, <2>2, <3>3 DEF Edge
  <2> QED BY <2>1, <2>2
<1>8. \A v \in Worker : Idle(v)'
  <2>1. Idle(w)'
    BY <1>3 DEF Idle
  <2>2. ASSUME NEW v \in Worker, v # w PROVE Idle(v)'
    BY <1>3, <2>2, IdleKept DEF EdgesInv
  <2> QED BY <2>1, <2>2
<1> QED BY <1>5, <1>6, <1>7, <1>8 DEF EdgesInv

LEMMA CloseEdges ==
  ASSUME ConsoleInv, EdgesInv, NEW w \in Worker, Close(w)
  PROVE  EdgesInv'
<1> DEFINE c == cur[w]
<1>1. /\ wpc[w] = "close" /\ owner' = [owner EXCEPT ![c] = NoWorker]
      /\ ready' = [ready EXCEPT ![w] = @ \ {c}]
      /\ wpc' = [wpc EXCEPT ![w] = "next"] /\ cur' = [cur EXCEPT ![w] = NoConn]
      /\ UNCHANGED <<sock, sent, recvd, batch>>
      /\ wpc \in [Worker -> {"none", "wait", "next", "close"}] /\ ready \in [Worker -> SUBSET Conn]
      /\ cur \in [Worker -> Conn \cup {NoConn}] /\ owner \in [Conn -> Worker \cup {NoWorker}]
  BY DEF Close, conns, ConsoleInv, TypeOK
<1>2. c \in Conn /\ owner[c] = w
  BY <1>1 DEF ConsoleInv, WorkersInv, WorkerInv, Closing
<1>3. \A d \in Conn : Gone(d)' = Gone(d) /\ Unread(d)' = Unread(d)
  BY <1>1 DEF Gone, Unread
<1>4. /\ \A v \in Worker : v # w => wpc'[v] = wpc[v] /\ cur'[v] = cur[v] /\ ready'[v] = ready[v]
      /\ wpc'[w] = "next" /\ ready'[w] = ready[w] \ {c}
      /\ \A d \in Conn : owner'[d] = IF d = c THEN NoWorker ELSE owner[d]
  BY <1>1, <1>2
<1> HIDE DEF c
<1>5. ASSUME NEW v \in Worker, NEW d \in Conn PROVE Edge(v, d)'
  <2>1. CASE d = c
    <3>1. owner'[d] # v
      BY <1>4, <2>1 DEF Worker, NoWorker
    <3> QED BY <3>1 DEF Edge
  <2>2. CASE d # c
    <3>1. Keeps(v, d)
      BY <1>1, <1>3, <1>4, <2>2 DEF Keeps, c
    <3> QED BY <3>1, EdgeKept DEF EdgesInv
  <2> QED BY <2>1, <2>2
<1>6. ASSUME NEW v \in Worker PROVE Idle(v)'
  <2>1. wpc'[v] = wpc[v] \/ wpc'[v] # "wait"
    BY <1>4
  <2> QED BY <1>1, <2>1, IdleKept DEF EdgesInv
<1> QED BY <1>5, <1>6 DEF EdgesInv

LEMMA NextEdges ==
  ASSUME ConsoleInv, StartInv, EdgesInv, [Next]_vars
  PROVE  EdgesInv'
<1>1. ASSUME NEW c \in Conn, Connect(c) \/ ClientStep(c) \/ Kill(c)
      PROVE  EdgesInv'
  BY <1>1, ConnectEdges, ClientEdges DEF ClientStep, Kill
<1>2. CASE AcceptorStep
  <2>1. CASE AcceptWait \/ AcceptFails
    BY <2>1, ElsewhereEdges DEF AcceptWait, AcceptFails, conns, workers
  <2> QED BY <1>2, <2>1, AcceptEdges DEF AcceptorStep
<1>3. ASSUME NEW w \in Worker, WorkerStep(w)
      PROVE  EdgesInv'
  BY <1>3, WaitEdges, EndEdges, HandleEdges, CloseEdges DEF WorkerStep
<1>4. CASE Start \/ Fails \/ Rest \/ UNCHANGED vars
  <2>1. /\ UNCHANGED <<sock, sent, recvd, owner, ready, batch, cur>>
        /\ wpc' = wpc \/ \A w \in Worker : wpc[w] = "wait" /\ wpc'[w] \in {"wait", "none"}
    BY <1>4 DEF Start, Fails, Rest, vars, conns, workers, StartInv
  <2> QED BY <2>1, ElsewhereEdges
<1> QED BY <1>1, <1>2, <1>3, <1>4 DEF Next

\* A socket breaks at a send; that send was the answer to the last message.
LEMMA HandleBroken ==
  ASSUME ConsoleInv, BrokenInv, NEW w \in Worker, Handle(w)
  PROVE  BrokenInv' /\ phase' = phase
<1>1. PICK c \in Pending(w) : EventTrue(w, c) /\ Turn(w, c)
  BY HandleSays
<1>2. /\ c \in Conn /\ TypeOK /\ sent' = sent
      /\ recvd \in [Conn -> Nat] /\ sent \in [Conn -> Nat] /\ echoed \in [Conn -> Nat]
      /\ sock \in [Conn -> {"none", "established", "fin", "reset", "broken"}]
  BY <1>1 DEF Pending, Turn, ConsoleInv, TypeOK
<1>3. sock[c] = "broken" => ~Unread(c)
  BY <1>2 DEF BrokenInv, Unread
<1>4. phase' = phase
  BY <1>1, <1>3 DEF Turn
<1>5. ASSUME NEW d \in Conn, sock'[d] = "broken" PROVE recvd'[d] = sent'[d]
  <2>1. CASE sock[d] = "broken"
    <3>1. recvd'[d] = recvd[d]
      <4>1. CASE d # c
        BY <1>1, <1>2, <4>1, TurnReach
      <4>2. CASE d = c
        BY <1>1, <1>2, <1>3, <2>1, <4>2 DEF Turn, Gone
      <4> QED BY <4>1, <4>2
    <3> QED BY <1>2, <2>1, <3>1 DEF BrokenInv
  <2>2. CASE sock[d] # "broken"
    <3>1. d = c /\ Unread(c) /\ recvd' = [recvd EXCEPT ![c] = @ + 1]
      BY <1>1, <1>2, <1>5, <2>2 DEF Turn
    <3>2. sent[c] <= echoed[c] + 1 /\ echoed[c] <= recvd[c]
      BY <1>2 DEF ConsoleInv, CountsInv, Lockstep
    <3> QED BY <1>2, <3>1, <3>2 DEF Unread
  <2> QED BY <2>1, <2>2
<1> QED BY <1>4, <1>5 DEF BrokenInv

LEMMA NextBroken ==
  ASSUME ConsoleInv, BrokenInv, [Next]_vars
  PROVE  BrokenInv'
<1>0. /\ sock \in [Conn -> {"none", "established", "fin", "reset", "broken"}]
      /\ sent \in [Conn -> Nat]
  BY DEF ConsoleInv, TypeOK
<1>1. ASSUME NEW c \in Conn, Connect(c) \/ ClientStep(c) \/ Kill(c)
      PROVE  BrokenInv'
  <2>1. /\ recvd' = recvd /\ sock'[c] # "broken"
        /\ \A d \in Conn \ {c} : sock'[d] = sock[d] /\ sent'[d] = sent[d]
    BY <1>0, <1>1 DEF Connect, ClientStep, Kill, SendMessage, Leave
  <2> QED BY <2>1 DEF BrokenInv
<1>2. ASSUME NEW w \in Worker, Handle(w) PROVE BrokenInv'
  BY <1>2, HandleBroken
<1>3. ASSUME UNCHANGED <<sock, sent, recvd>> PROVE BrokenInv'
  BY <1>3 DEF BrokenInv
<1>4. CASE AcceptorStep
  BY <1>3, <1>4 DEF AcceptorStep, AcceptWait, AcceptFails, Accept, conns
<1>5. ASSUME NEW w \in Worker, WorkerStep(w)
      PROVE  BrokenInv'
  BY <1>2, <1>3, <1>5 DEF WorkerStep, WorkerWait, EndOfBatch, Close, conns
<1>6. CASE Start \/ Fails \/ Rest \/ UNCHANGED vars
  BY <1>3, <1>6 DEF Start, Fails, Rest, vars, conns
<1> QED BY <1>1, <1>4, <1>5, <1>6 DEF Next

LEMMA AlwaysSession == Spec => [](ConsoleInv /\ SessionInv)
<1>1. ConsoleInv /\ StartInv /\ SessionInv /\ [Next]_vars => SessionInv'
  BY NextEdges, NextBroken DEF SessionInv
<1> QED BY <1>1, InitSession, AlwaysStart, AlwaysConsole, PTL DEF Spec

\* What edge-triggered epoll reports once is not dropped between registration, ready
\* list, batch and close, in either server and for any number of connections and
\* workers: what EventuallyServed rests on.
NoEdgeLost == \A w \in Worker : \A c \in Conn : Edge(w, c)

\* The workers of EpollServer_NoGUI and QTServer_Console wait edge-triggered, read
\* once for each event and look at the hang-up last: no request and no hang-up of an
\* open connection is forgotten on the way (EpollServer_NoGUI/server.cpp:205-249).
THEOREM EdgesKept == Spec => []NoEdgeLost
<1>1. SessionInv => NoEdgeLost
  BY DEF SessionInv, EdgesInv, NoEdgeLost
<1> QED BY <1>1, AlwaysSession, PTL

\* send is called without MSG_NOSIGNAL, and a second send to a client that has gone
\* would end the process with SIGPIPE: that never comes, in whatever order clients
\* send, close and die (readSocket of both servers).
THEOREM SendsSafe == Spec => [][\A w \in Worker : Handle(w) => phase' = phase]_vars
<1>1. ConsoleInv /\ SessionInv => [\A w \in Worker : Handle(w) => phase' = phase]_vars
  BY HandleBroken DEF SessionInv
<1> QED BY <1>1, AlwaysSession, PTL DEF Spec

-----------------------------------------------------------------------------
(* Both servers implement the echo service.                                *)

LEMMA ClientIs ==
  ASSUME NEW c \in Conn
  PROVE  /\ sock[c] = "none" => clientView[c] = "absent"
         /\ sock[c] = "established" => clientView[c] = "present"
         /\ Gone(c) => clientView[c] = "left"
         /\ sock[c] # "none" => clientView[c] # "absent"
  BY DEF clientView, Gone

LEMMA ServerIs ==
  ASSUME PlacesInv, NEW c \in Conn
  PROVE  /\ sock[c] = "none" \/ c \in Waiting => serverView[c] = "none"
         /\ sock[c] # "none" /\ c \notin Waiting /\ c \in Open => serverView[c] = "held"
         /\ sock[c] # "none" /\ c \notin Waiting /\ c \notin Open => serverView[c] = "released"
  BY DEF serverView, PlacesInv

LEMMA ClientViewKept ==
  ASSUME \A c \in Conn : sock'[c] = sock[c] \/ (Gone(c) /\ Gone(c)')
  PROVE  clientView' = clientView
<1> SUFFICES ASSUME NEW c \in Conn
             PROVE  (CASE sock'[c] = "none"        -> "absent"
                       [] sock'[c] = "established" -> "present"
                       [] OTHER                    -> "left") = clientView[c]
  BY DEF clientView
<1>1. CASE sock'[c] = sock[c]
  BY <1>1 DEF clientView
<1>2. CASE Gone(c) /\ Gone(c)'
  BY <1>2 DEF clientView, Gone
<1> QED BY <1>1, <1>2

\* A connection that keeps its place in the server.
SamePlace(c) ==
  /\ (sock'[c] = "none" \/ c \in Waiting') <=> (sock[c] = "none" \/ c \in Waiting)
  /\ c \in Open' <=> c \in Open

LEMMA ServerViewMoves ==
  ASSUME NEW S \in SUBSET Conn, \A c \in Conn \ S : SamePlace(c)
  PROVE  \A c \in Conn \ S : serverView'[c] = serverView[c]
  BY DEF serverView, SamePlace

LEMMA ServerViewChanges ==
  ASSUME NEW c \in Conn, \A d \in Conn \ {c} : SamePlace(d)
  PROVE  serverView' = [serverView EXCEPT ![c] = serverView'[c]]
<1>1. serverView = [d \in Conn |-> serverView[d]] /\ serverView' = [d \in Conn |-> serverView'[d]]
  BY DEF serverView
<1>2. \A d \in Conn \ {c} : serverView'[d] = serverView[d]
  BY ServerViewMoves
<1> QED BY <1>1, <1>2

LEMMA ServerViewKept ==
  ASSUME \A c \in Conn : SamePlace(c)
  PROVE  serverView' = serverView
<1>1. \A c \in Conn : serverView'[c] = serverView[c]
  BY ServerViewMoves
<1> QED BY <1>1 DEF serverView

\* Steps that move no connection and leave the clients' sockets where they are.
LEMMA ViewsKept ==
  ASSUME UNCHANGED <<backlog, owner>>,
         \A c \in Conn : sock'[c] = sock[c] \/ (Gone(c) /\ Gone(c)')
  PROVE  UNCHANGED <<clientView, serverView>>
<1>1. Waiting' = Waiting /\ Open' = Open
  BY DEF Waiting, Open
<1>2. \A c \in Conn : SamePlace(c)
  BY <1>1 DEF SamePlace, Gone
<1> QED BY <1>2, ClientViewKept, ServerViewKept

LEMMA InitEcho == Init => Echo!Init
<1> SUFFICES ASSUME Init PROVE Echo!Init
  OBVIOUS
<1>1. \A c \in Conn : sock[c] = "none" /\ owner[c] = NoWorker
  BY DEF Init
<1>2. clientView = [c \in Conn |-> "absent"]
  BY <1>1 DEF clientView
<1>3. Open = {}
  BY <1>1 DEF Open
<1>4. serverView = [c \in Conn |-> "none"]
  BY <1>1, <1>3 DEF serverView
<1> QED BY <1>2, <1>4 DEF Init, Echo!Init

LEMMA ClientEcho ==
  ASSUME ConsoleInv, NEW c \in Conn, Connect(c) \/ ClientStep(c) \/ Kill(c)
  PROVE  Echo!Arrive(c) \/ Echo!Ask(c, 1) \/ Echo!Leave(c)
<1>0. TypeOK /\ PlacesInv /\ sock \in [Conn -> {"none", "established", "fin", "reset", "broken"}]
  BY DEF ConsoleInv, TypeOK
<1>1. CASE Connect(c)
  <2>1. /\ sock[c] = "none" /\ UNCHANGED <<sent, echoed, owner>>
        /\ \A d \in Conn : sock'[d] = IF d = c THEN "established" ELSE sock[d]
    BY <1>0, <1>1 DEF Connect
  <2>2. Waiting' = Waiting \cup {c} /\ Open' = Open
    BY <1>0, <1>1, <2>1, ConnectListener DEF Open
  <2>3. serverView' = serverView
    <3>1. \A d \in Conn : SamePlace(d)
      BY <2>1, <2>2 DEF SamePlace
    <3> QED BY <3>1, ServerViewKept
  <2>4. clientView' = [clientView EXCEPT ![c] = "present"]
    BY <2>1 DEF clientView
  <2> QED BY <2>1, <2>3, <2>4, ClientIs DEF Echo!Arrive
<1>2. CASE SendMessage(c)
  <2>1. /\ sock[c] = "established" /\ sent' = [sent EXCEPT ![c] = @ + 1]
        /\ UNCHANGED <<sock, echoed, backlog, owner>>
    BY <1>2 DEF SendMessage, listener
  <2>2. UNCHANGED <<clientView, serverView>>
    BY <2>1, ViewsKept
  <2> QED BY <2>1, <2>2, ClientIs DEF Echo!Ask
<1>3. CASE \E s \in {"fin", "reset"} : Leave(c, s)
  <2>1. /\ sock[c] = "established" /\ UNCHANGED <<sent, echoed, backlog, owner>>
        /\ \E s \in {"fin", "reset"} : sock' = [sock EXCEPT ![c] = s]
    BY <1>3 DEF Leave, listener
  <2>2. /\ \A d \in Conn \ {c} : sock'[d] = sock[d]
        /\ sock'[c] \in {"fin", "reset"}
    BY <1>0, <2>1
  <2>3. serverView' = serverView
    <3>1. Waiting' = Waiting /\ Open' = Open
      BY <2>1 DEF Waiting, Open
    <3>2. \A d \in Conn : SamePlace(d)
      BY <2>1, <2>2, <3>1 DEF SamePlace
    <3> QED BY <3>2, ServerViewKept
  <2>4. clientView' = [clientView EXCEPT ![c] = "left"]
    BY <2>2 DEF clientView
  <2> QED BY <2>1, <2>3, <2>4, ClientIs DEF Echo!Leave
<1> QED BY <1>1, <1>2, <1>3 DEF ClientStep, Kill

LEMMA AcceptEcho ==
  ASSUME ConsoleInv, Accept
  PROVE  \E c \in Conn : Echo!Admit(c)
<1>0. PlacesInv /\ UNCHANGED <<sock, sent, echoed>>
  BY DEF ConsoleInv, Accept, conns
<1>1. PICK c \in Waiting, n \in Worker :
        /\ c \in Conn /\ owner[c] = NoWorker /\ owner' = [owner EXCEPT ![c] = n]
        /\ Waiting' = Waiting \ {c}
  BY AcceptMoves
<1>2. sock[c] # "none" /\ Open' = Open \cup {c}
  BY <1>0, <1>1 DEF PlacesInv, Open, Worker, NoWorker, ConsoleInv, TypeOK
<1>3. \A d \in Conn \ {c} : SamePlace(d)
  BY <1>0, <1>1, <1>2 DEF SamePlace
<1>4. serverView[c] = "none"
  BY <1>0, <1>1, ServerIs
<1>5. serverView'[c] = "held"
  BY <1>0, <1>1, <1>2 DEF serverView
<1>6. serverView' = [serverView EXCEPT ![c] = "held"]
  BY <1>1, <1>3, <1>5, ServerViewChanges
<1>7. clientView' = clientView /\ clientView[c] # "absent"
  BY <1>0, <1>1, <1>2, ClientIs DEF clientView
<1> QED BY <1>0, <1>1, <1>4, <1>6, <1>7 DEF Echo!Admit

LEMMA HandleEcho ==
  ASSUME ConsoleInv, NEW w \in Worker, Handle(w)
  PROVE  (\E c \in Conn : Echo!Answer(c, 1)) \/ UNCHANGED Echo!vars
<1>0. TypeOK /\ PlacesInv /\ NoWorker \notin Worker
  BY DEF ConsoleInv, Worker, NoWorker
<1>1. PICK c \in Pending(w) : EventTrue(w, c) /\ Turn(w, c)
  BY HandleSays
<1>2. c \in Conn /\ c \in Open /\ UNCHANGED <<sent, backlog, owner>>
  BY <1>0, <1>1 DEF Pending, EventTrue, Open, Turn
<1>3. \A d \in Conn : sock'[d] = sock[d] \/ (Gone(d) /\ Gone(d)')
  BY <1>0, <1>1, <1>2, TurnReach
<1>4. UNCHANGED <<clientView, serverView>>
  BY <1>2, <1>3, ViewsKept
<1>5. CASE echoed' = echoed
  BY <1>2, <1>4, <1>5 DEF Echo!vars
<1>6. CASE echoed' # echoed
  <2>1. Unread(c) /\ ~Gone(c) /\ echoed' = [echoed EXCEPT ![c] = @ + 1]
    BY <1>1, <1>6 DEF Turn
  <2>2. /\ sent[c] \in Nat /\ recvd[c] \in Nat /\ echoed[c] \in Nat
        /\ recvd[c] = echoed[c]
    BY <1>2, <2>1 DEF ConsoleInv, TypeOK, CountsInv, Lockstep
  <2>3. echoed[c] + 1 <= sent[c]
    BY <2>1, <2>2 DEF Unread
  <2>4. serverView[c] = "held"
    BY <1>0, <1>2, ServerIs DEF PlacesInv
  <2> QED BY <1>2, <1>4, <2>1, <2>3, <2>4 DEF Echo!Answer
<1> QED BY <1>5, <1>6

LEMMA CloseEcho ==
  ASSUME ConsoleInv, NEW w \in Worker, Close(w)
  PROVE  \E c \in Conn : Echo!Release(c)
<1> DEFINE c == cur[w]
<1>0. /\ TypeOK /\ PlacesInv /\ NoWorker \notin Worker
      /\ owner' = [owner EXCEPT ![c] = NoWorker]
      /\ UNCHANGED <<sock, sent, echoed, backlog>>
  BY DEF ConsoleInv, Close, conns, listener, Worker, NoWorker
<1>1. c \in Conn /\ owner[c] = w /\ Gone(c)
  BY DEF ConsoleInv, WorkersInv, WorkerInv, Closing, Close
<1>2. Waiting' = Waiting /\ Open' = Open \ {c} /\ c \in Open
  BY <1>0, <1>1 DEF Waiting, Open, TypeOK
<1>3. sock[c] # "none" /\ c \notin Waiting
  BY <1>0, <1>2 DEF PlacesInv
<1>4. \A d \in Conn \ {c} : SamePlace(d)
  BY <1>0, <1>2 DEF SamePlace
<1>5. serverView[c] = "held"
  BY <1>0, <1>1, <1>2, <1>3, ServerIs
<1>6. serverView'[c] = "released"
  BY <1>0, <1>1, <1>2, <1>3 DEF serverView
<1>7. serverView' = [serverView EXCEPT ![c] = "released"]
  BY <1>1, <1>4, <1>6, ServerViewChanges
<1>8. clientView' = clientView /\ clientView[c] = "left"
  BY <1>0, <1>1, ClientIs DEF clientView
<1> QED BY <1>0, <1>1, <1>5, <1>7, <1>8 DEF Echo!Release

LEMMA NextEcho ==
  ASSUME ConsoleInv, [Next]_vars
  PROVE  [Echo!Next]_Echo!vars
<1>1. ASSUME NEW c \in Conn, Connect(c) \/ ClientStep(c) \/ Kill(c)
      PROVE  Echo!Next
  BY <1>1, ClientEcho DEF Echo!Next
<1>2. CASE Accept
  BY <1>2, AcceptEcho DEF Echo!Next
<1>3. ASSUME NEW w \in Worker, Handle(w)
      PROVE  [Echo!Next]_Echo!vars
  BY <1>3, HandleEcho DEF Echo!Next
<1>4. ASSUME NEW w \in Worker, Close(w)
      PROVE  Echo!Next
  BY <1>4, CloseEcho DEF Echo!Next
<1>5. UNCHANGED <<sock, sent, echoed, backlog, owner>> => UNCHANGED Echo!vars
  BY ViewsKept DEF Echo!vars
<1>6. ASSUME NEW w \in Worker, WorkerWait(w) \/ EndOfBatch(w)
      PROVE  UNCHANGED <<sock, sent, echoed, backlog, owner>>
  BY <1>6 DEF WorkerWait, EndOfBatch, conns, listener
<1>7. CASE Start \/ Fails \/ AcceptWait \/ AcceptFails \/ Rest \/ UNCHANGED vars
  BY <1>5, <1>7 DEF Start, Fails, AcceptWait, AcceptFails, Rest, vars, conns, listener
<1> QED
  BY <1>1, <1>2, <1>3, <1>4, <1>5, <1>6, <1>7 DEF Next, AcceptorStep, WorkerStep

\* Each server with a console implements the echo service: a connection is
\* admitted once, answered no more than it asked, and closed only when its client
\* has left.
THEOREM ImplementsEcho == Spec => EchoSpec
<1>1. Init => Echo!Init
  BY InitEcho
<1>2. ConsoleInv /\ [Next]_vars => [Echo!Next]_Echo!vars
  BY NextEcho
<1> QED BY <1>1, <1>2, AlwaysConsole, PTL DEF Spec, EchoSpec, Echo!Spec
=============================================================================
