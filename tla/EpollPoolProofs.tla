--------------------------- MODULE EpollPoolProofs ---------------------------
(***************************************************************************)
(* Proofs about EpollPool, for any number of connections, workers,         *)
(* descriptors and messages: types, the ownership of descriptors and       *)
(* events, the counters, and then the sessions the server serves.          *)
(***************************************************************************)
EXTENDS EpollPool, FiniteSetTheorems, SequenceTheorems, TLAPS

-----------------------------------------------------------------------------
(* Types.                                                                  *)

\* accept is called only when epoll_wait has announced a connection, and no other
\* thread takes connections from the listen queue.
TypeInv == TypeOK /\ (apc = "accept" => backlog # <<>>)

LEMMA InitTypes == Init => TypeInv
  BY PoolAssumption
     DEF Init, TypeInv, TypeOK, ConnsTypeOK, KernelTypeOK, AcceptorTypeOK,
         WorkersTypeOK, SockState, Worker, Fd, NoFd

LEMMA ClientTypes ==
  ASSUME TypeInv, NEW c \in Conn, Connect(c) \/ ClientStep(c) \/ Kill(c)
  PROVE  TypeInv'
<1> USE DEF TypeInv, TypeOK
<1>1. CASE Connect(c)
  <2>1. ConnsTypeOK' /\ KernelTypeOK' /\ backlog' # <<>>
    BY <1>1, AppendProperties DEF Connect, ConnsTypeOK, KernelTypeOK, SockState
  <2> QED
    BY <1>1, <2>1 DEF Connect, AcceptorTypeOK, WorkersTypeOK,
                      acceptor, workers, counters, process
<1>2. CASE SendMessage(c)
  <2>1. ConnsTypeOK' /\ KernelTypeOK'
    BY <1>2 DEF SendMessage, Woken, ConnsTypeOK, KernelTypeOK, SockState
  <2> QED
    BY <1>2, <2>1 DEF SendMessage, AcceptorTypeOK, WorkersTypeOK,
                      acceptor, workers, counters, process
<1>3. CASE CloseSocket(c)
  <2>1. ConnsTypeOK' /\ KernelTypeOK'
    BY <1>3 DEF CloseSocket, Woken, ConnsTypeOK, KernelTypeOK, SockState
  <2> QED
    BY <1>3, <2>1 DEF CloseSocket, AcceptorTypeOK, WorkersTypeOK,
                      acceptor, workers, counters, process
<1>4. CASE Kill(c)
  <2>1. ConnsTypeOK' /\ KernelTypeOK'
    BY <1>4 DEF Kill, Woken, ConnsTypeOK, KernelTypeOK, SockState
  <2> QED
    BY <1>4, <2>1 DEF Kill, AcceptorTypeOK, WorkersTypeOK,
                      acceptor, workers, counters, process
<1> QED BY <1>1, <1>2, <1>3, <1>4 DEF ClientStep

LEMMA AcceptorTypes ==
  ASSUME TypeInv, AcceptorStep \/ AcceptorFails
  PROVE  TypeInv'
<1> USE DEF TypeInv, TypeOK, conns, kernel, acceptor, workers, counters, process
<1>1. CASE AcceptWait
  BY <1>1 DEF AcceptWait, AcceptorTypeOK, ConnsTypeOK, KernelTypeOK, WorkersTypeOK
<1>2. CASE Accept
  <2>1. CASE FreeFd = {}
    BY <1>2, <2>1 DEF Accept, Lowest, ConnsTypeOK, KernelTypeOK, AcceptorTypeOK, WorkersTypeOK
  <2>2. CASE FreeFd # {}
    <3>1. PICK f \in Fd : /\ fdNew' = f
                          /\ fdConn' = [fdConn EXCEPT ![f] = Head(backlog)]
                          /\ backlog' = Tail(backlog)
                          /\ apc' = "add"
      BY <1>2, <2>2 DEF Accept
    <3>2. Head(backlog) \in Conn /\ Tail(backlog) \in Seq(Conn)
      BY <1>2, HeadTailProperties DEF Accept, KernelTypeOK
    <3>3. KernelTypeOK'
      BY <1>2, <3>1, <3>2 DEF Accept, KernelTypeOK
    <3>4. AcceptorTypeOK'
      BY <1>2, <3>1 DEF Accept, AcceptorTypeOK
    <3> QED BY <1>2, <3>1, <3>3, <3>4 DEF Accept, ConnsTypeOK, WorkersTypeOK
  <2> QED BY <2>1, <2>2
<1>3. CASE AddToWorker
  <2>1. KernelTypeOK' /\ AcceptorTypeOK' /\ apc' # "accept"
    BY <1>3 DEF AddToWorker, KernelTypeOK, AcceptorTypeOK
  <2> QED BY <1>3, <2>1 DEF AddToWorker, ConnsTypeOK, WorkersTypeOK
<1>4. CASE IncLoad
  <2>1. AcceptorTypeOK' /\ apc' # "accept" /\ overlaps' \in [Worker -> Nat]
    BY <1>4 DEF IncLoad, AcceptorTypeOK
  <2> QED BY <1>4, <2>1 DEF IncLoad, ConnsTypeOK, KernelTypeOK, WorkersTypeOK
<1>5. CASE IncStore
  <2>1. AcceptorTypeOK' /\ apc' # "accept" /\ numClientsInThread' \in [Worker -> Int]
    BY <1>5, PoolAssumption DEF IncStore, AcceptorTypeOK, Worker, NoFd
  <2> QED BY <1>5, <2>1 DEF IncStore, ConnsTypeOK, KernelTypeOK, WorkersTypeOK
<1>6. CASE AcceptorFails
  <2>1. running' \in BOOLEAN
    BY <1>6, Zenon DEF AcceptorFails
  <2>2. faults' \in Nat
    BY <1>6 DEF AcceptorFails
  <2> QED
    BY <1>6, <2>1, <2>2
       DEF AcceptorFails, ConnsTypeOK, KernelTypeOK, AcceptorTypeOK, WorkersTypeOK
<1> QED BY <1>1, <1>2, <1>3, <1>4, <1>5, <1>6 DEF AcceptorStep

LEMMA EventTypes ==
  ASSUME WorkersTypeOK, NEW w \in Worker, Consumed(w) \/ Unfinished
  PROVE  /\ batch' \in [Worker -> [Fd -> SUBSET Bits]]
         /\ about' \in [Worker -> [Fd -> Conn \cup {NoConn}]]
         /\ cur' \in [Worker -> Fd \cup {NoFd}]
<1>1. CASE Consumed(w)
  BY <1>1 DEF Consumed, WorkersTypeOK
<1>2. CASE Unfinished
  BY <1>2 DEF Unfinished, WorkersTypeOK
<1> QED BY <1>1, <1>2

LEMMA AfterReadTypes ==
  ASSUME WorkersTypeOK, NEW w \in Worker, AfterRead(w), UNCHANGED wreg
  PROVE  WorkersTypeOK'
<1>1. Consumed(w) \/ Unfinished
  BY DEF AfterRead
<1>2. wpc' = [wpc EXCEPT ![w] = "close"] \/ wpc' = [wpc EXCEPT ![w] = "next"]
  BY DEF AfterRead
<1> QED BY <1>1, <1>2, EventTypes DEF WorkersTypeOK

LEMMA WorkerTypes ==
  ASSUME TypeInv, NEW w \in Worker, WorkerStep(w) \/ WorkerFails(w)
  PROVE  TypeInv'
<1> USE DEF TypeInv, TypeOK, conns, kernel, acceptor, workers, counters, process
<1>1. CASE WorkerWait(w)
  <2>1. \A c : Readiness(c) \in SUBSET Bits
    BY DEF Readiness, Bits, Registered
  <2>2. KernelTypeOK' /\ WorkersTypeOK'
    BY <1>1, <2>1 DEF WorkerWait, KernelTypeOK, WorkersTypeOK
  <2> QED BY <1>1, <2>2 DEF WorkerWait, ConnsTypeOK, AcceptorTypeOK
<1>2. CASE NextEvent(w)
  <2>1. WorkersTypeOK'
    BY <1>2 DEF NextEvent, Pending, WorkersTypeOK
  <2> QED BY <1>2, <2>1 DEF NextEvent, ConnsTypeOK, KernelTypeOK, AcceptorTypeOK
<1>3. CASE EndOfBatch(w)
  <2>1. WorkersTypeOK'
    BY <1>3 DEF EndOfBatch, WorkersTypeOK
  <2> QED BY <1>3, <2>1 DEF EndOfBatch, ConnsTypeOK, KernelTypeOK, AcceptorTypeOK
<1>4. CASE Recv(w)
  <2> DEFINE c == fdConn[cur[w]]
  <2>1. CASE Unread(c)
    <3>1. WorkersTypeOK'
      BY <1>4, <2>1 DEF Recv, Unfinished, WorkersTypeOK
    <3>2. ConnsTypeOK'
      BY <1>4, <2>1 DEF Recv, ConnsTypeOK
    <3> QED BY <1>4, <3>1, <3>2 DEF Recv, KernelTypeOK, AcceptorTypeOK
  <2>2. CASE ~Unread(c)
    <3>1. WorkersTypeOK'
      BY <1>4, <2>2, AfterReadTypes DEF Recv
    <3> QED BY <1>4, <2>2, <3>1 DEF Recv, ConnsTypeOK, KernelTypeOK, AcceptorTypeOK
  <2> QED BY <2>1, <2>2
<1>5. CASE Send(w)
  <2>1. WorkersTypeOK'
    BY <1>5, AfterReadTypes DEF Send
  <2>2. ConnsTypeOK'
    <3>1. sock' = sock \/ sock' = [sock EXCEPT ![fdConn[cur[w]]] = "broken"]
      BY <1>5 DEF Send
    <3>2. sock' \in [Conn -> SockState]
      BY <3>1 DEF SockState, ConnsTypeOK
    <3>3. \/ echoed' = echoed
          \/ echoed' = [echoed EXCEPT ![fdConn[cur[w]]] = echoed[fdConn[cur[w]]] + 1]
      BY <1>5 DEF Send
    <3>4. echoed' \in [Conn -> Nat]
      BY <3>3 DEF ConnsTypeOK
    <3> QED BY <1>5, <3>2, <3>4 DEF Send, ConnsTypeOK
  <2>3. KernelTypeOK'
    BY <1>5 DEF Send, Woken, KernelTypeOK
  <2>4. running' \in BOOLEAN
    BY <1>5, Zenon DEF Send
  <2> QED BY <1>5, <2>1, <2>2, <2>3, <2>4 DEF Send, AcceptorTypeOK
<1>6. CASE CloseConn(w)
  <2>1. WorkersTypeOK' /\ KernelTypeOK'
    BY <1>6 DEF CloseConn, Closed, WorkersTypeOK, KernelTypeOK
  <2> QED BY <1>6, <2>1 DEF CloseConn, ConnsTypeOK, AcceptorTypeOK
<1>7. CASE ErrorClose(w)
  <2>1. WorkersTypeOK'
    BY <1>7 DEF ErrorClose, Consumed, NoFd, WorkersTypeOK
  <2>2. KernelTypeOK'
    BY <1>7 DEF ErrorClose, Closed, KernelTypeOK
  <2> QED BY <1>7, <2>1, <2>2 DEF ErrorClose, ConnsTypeOK, AcceptorTypeOK
<1>8. CASE DecLoad(w)
  <2>1. WorkersTypeOK' /\ overlaps' \in [Worker -> Nat]
    BY <1>8 DEF DecLoad, WorkersTypeOK
  <2> QED BY <1>8, <2>1 DEF DecLoad, ConnsTypeOK, KernelTypeOK, AcceptorTypeOK
<1>9. CASE DecStore(w)
  <2>1. WorkersTypeOK'
    <3>1. Consumed(w) \/ Unfinished
      BY <1>9 DEF DecStore
    <3>2. wpc' = [wpc EXCEPT ![w] = "next"] \/ wpc' = [wpc EXCEPT ![w] = "errClose"]
      BY <1>9 DEF DecStore
    <3>3. wreg' = [wreg EXCEPT ![w] = 0]
      BY <1>9 DEF DecStore
    <3>4. wpc' \in [Worker -> {"wait", "next", "recv", "send", "close", "load",
                                "store", "errLoad", "errStore", "errClose", "abort"}]
      BY <3>2 DEF WorkersTypeOK
    <3>5. wreg' \in [Worker -> Int]
      BY <3>3 DEF WorkersTypeOK
    <3> QED BY <3>1, <3>4, <3>5, EventTypes DEF WorkersTypeOK
  <2>2. numClientsInThread' \in [Worker -> Int]
    BY <1>9 DEF DecStore, WorkersTypeOK
  <2> QED BY <1>9, <2>1, <2>2 DEF DecStore, ConnsTypeOK, KernelTypeOK, AcceptorTypeOK
<1>10. CASE WorkerFails(w)
  <2>1. running' \in BOOLEAN
    BY <1>10, Zenon DEF WorkerFails
  <2>2. faults' \in Nat
    BY <1>10 DEF WorkerFails
  <2> QED
    BY <1>10, <2>1, <2>2
       DEF WorkerFails, ConnsTypeOK, KernelTypeOK, AcceptorTypeOK, WorkersTypeOK
<1> QED
  BY <1>1, <1>2, <1>3, <1>4, <1>5, <1>6, <1>7, <1>8, <1>9, <1>10 DEF WorkerStep

LEMMA NextTypes == TypeInv /\ [Next]_vars => TypeInv'
<1> SUFFICES ASSUME TypeInv, [Next]_vars PROVE TypeInv'
  OBVIOUS
<1>1. CASE UNCHANGED vars
  BY <1>1 DEF TypeInv, TypeOK, ConnsTypeOK, KernelTypeOK, AcceptorTypeOK, WorkersTypeOK,
              vars, conns, kernel, acceptor, workers, counters, process
<1>2. CASE Rest
  BY <1>1, <1>2 DEF Rest
<1> QED BY <1>1, <1>2, ClientTypes, AcceptorTypes, WorkerTypes DEF Next

LEMMA AlwaysTypes == Spec => []TypeInv
  BY InitTypes, NextTypes, PTL DEF Spec

\* The variables keep their types, and fdNew is a descriptor from accept to the
\* end of its registration.
THEOREM TypeCorrect == Spec => []TypeOK
<1>1. TypeInv => TypeOK
  BY DEF TypeInv
<1> QED BY <1>1, AlwaysTypes, PTL
-----------------------------------------------------------------------------
(* Ownership of descriptors and events.                                    *)

Registering(f) == apc = "add" /\ fdNew = f

FdsInv ==
  /\ \A w \in Worker : \A f \in interest[w] : fdConn[f] # NoConn /\ ~Registering(f)
  /\ \A v, w \in Worker : \A f \in Fd : f \in interest[v] /\ f \in interest[w] => v = w
  /\ \A f \in Fd : fdConn[f] # NoConn /\ ~Registering(f) =>
       \E w \in Worker : f \in interest[w]
  /\ apc = "add" => fdConn[fdNew] # NoConn

ReadyInv == \A w \in Worker : ready[w] \subseteq interest[w]

\* Where a worker stands and which event it has in hand.
Stage(w) ==
  /\ wpc[w] \in {"wait", "next"} => cur[w] = NoFd
  /\ wpc[w] \notin {"wait", "next"} => cur[w] \in Pending(w)
  /\ wpc[w] = "wait" => Pending(w) = {}

StageInv == \A w \in Worker : Stage(w)

OwnInv == FdsInv /\ ReadyInv /\ StageInv /\ EventsOwned

LEMMA InitOwn == Init => OwnInv
  BY PoolAssumption
     DEF Init, OwnInv, FdsInv, ReadyInv, StageInv, Stage, EventsOwned, Registering, Pending, Worker, Fd, NoFd

\* A descriptor that w is about to close is open, and in no other epoll instance.
LEMMA ClosingOwned ==
  ASSUME TypeInv, OwnInv, NEW w \in Worker, wpc[w] \in {"close", "errClose"}
  PROVE  /\ cur[w] \in Fd /\ cur[w] \in interest[w] /\ cur[w] \in Pending(w)
         /\ fdConn[cur[w]] # NoConn /\ ~Registering(cur[w])
         /\ \A v \in Worker \ {w} : cur[w] \notin interest[v]
<1>1. cur[w] \in Pending(w)
  BY DEF OwnInv, StageInv, Stage
<1>2. cur[w] \in Fd
  BY <1>1 DEF Pending
<1>3. ~Discharged(w, cur[w])
  BY DEF Discharged
<1>4. cur[w] \in interest[w]
  BY <1>1, <1>3 DEF OwnInv, EventsOwned
<1> QED BY <1>1, <1>2, <1>4 DEF OwnInv, FdsInv

LEMMA ClosedFds ==
  ASSUME TypeInv, OwnInv, NEW w \in Worker, wpc[w] \in {"close", "errClose"},
         Closed(cur[w]), UNCHANGED <<apc, fdNew>>
  PROVE  FdsInv'
<1> DEFINE f == cur[w]
<1>1. f \in Fd /\ f \in interest[w] /\ ~Registering(f)
  BY ClosingOwned
<1>2. /\ fdConn' = [fdConn EXCEPT ![f] = NoConn]
      /\ \A v \in Worker : interest'[v] = interest[v] \ {f}
  BY DEF Closed
<1>3. \A g \in Fd : fdConn'[g] = IF g = f THEN NoConn ELSE fdConn[g]
  BY <1>2 DEF TypeInv, TypeOK, KernelTypeOK
<1>4. \A g : Registering(g)' <=> Registering(g)
  BY DEF Registering
<1>5. \A v \in Worker : \A g \in interest'[v] : g \in Fd /\ g \in interest[v] /\ g # f
  BY <1>2 DEF TypeInv, TypeOK, KernelTypeOK
<1>6. \A v \in Worker : \A g \in interest'[v] : fdConn'[g] # NoConn /\ ~Registering(g)'
  BY <1>3, <1>4, <1>5 DEF OwnInv, FdsInv
<1>7. \A u, v \in Worker : \A g \in Fd :
        g \in interest'[u] /\ g \in interest'[v] => u = v
  BY <1>5 DEF OwnInv, FdsInv
<1>8. \A g \in Fd : fdConn'[g] # NoConn /\ ~Registering(g)' =>
        \E v \in Worker : g \in interest'[v]
  <2> SUFFICES ASSUME NEW g \in Fd, fdConn'[g] # NoConn, ~Registering(g)'
               PROVE  \E v \in Worker : g \in interest'[v]
    OBVIOUS
  <2>1. g # f /\ fdConn[g] # NoConn /\ ~Registering(g)
    BY <1>3, <1>4
  <2>2. PICK v \in Worker : g \in interest[v]
    BY <2>1 DEF OwnInv, FdsInv
  <2> QED BY <1>2, <2>1, <2>2
<1>9. apc' = "add" => fdConn'[fdNew'] # NoConn
  BY <1>1, <1>3 DEF OwnInv, FdsInv, Registering, TypeInv, TypeOK, AcceptorTypeOK
<1> QED BY <1>6, <1>7, <1>8, <1>9 DEF FdsInv

LEMMA NextFds == ASSUME TypeInv, OwnInv, [Next]_vars PROVE FdsInv'
<1>1. CASE UNCHANGED <<fdConn, interest, apc, fdNew>>
  BY <1>1 DEF OwnInv, FdsInv, Registering
<1>2. CASE AcceptWait
  BY <1>2 DEF AcceptWait, OwnInv, FdsInv, Registering, kernel
<1>3. CASE Accept
  <2>1. CASE FreeFd = {}
    BY <1>3, <2>1 DEF Accept, Lowest, OwnInv, FdsInv, Registering
  <2>2. CASE FreeFd # {}
    <3>1. PICK f \in Fd : /\ f \in FreeFd /\ fdNew' = f /\ apc' = "add"
                          /\ fdConn' = [fdConn EXCEPT ![f] = Head(backlog)]
                          /\ interest' = interest
      BY <1>3, <2>2 DEF Accept, Lowest
    <3>2. Head(backlog) \in Conn
      BY <1>3, HeadTailProperties DEF Accept, TypeInv, TypeOK, KernelTypeOK
    <3>3. fdConn[f] = NoConn
      BY <3>1 DEF FreeFd
    <3>4. \A g \in Fd : fdConn'[g] = IF g = f THEN Head(backlog) ELSE fdConn[g]
      BY <3>1 DEF TypeInv, TypeOK, KernelTypeOK
    <3>5. \A g : Registering(g)' <=> g = f
      BY <3>1 DEF Registering
    <3>6. \A g : ~Registering(g)
      BY <1>3 DEF Registering, Accept
    <3>7. \A v \in Worker : interest[v] \subseteq Fd
      BY DEF TypeInv, TypeOK, KernelTypeOK
    <3>8. Head(backlog) # NoConn
      BY <3>2, PoolAssumption
    <3> QED
      BY <3>1, <3>3, <3>4, <3>5, <3>6, <3>7, <3>8 DEF OwnInv, FdsInv
  <2> QED BY <2>1, <2>2
<1>4. CASE AddToWorker
  <2>1. PICK n \in Worker : interest' = [interest EXCEPT ![n] = @ \cup {fdNew}]
    BY <1>4 DEF AddToWorker
  <2>2. /\ apc = "add" /\ fdNew \in Fd /\ fdConn' = fdConn /\ fdConn[fdNew] # NoConn
        /\ \A g : ~Registering(g)'
    BY <1>4 DEF AddToWorker, TypeInv, TypeOK, AcceptorTypeOK, OwnInv, FdsInv, Registering
  <2>3. \A v \in Worker : interest'[v] = IF v = n THEN interest[v] \cup {fdNew} ELSE interest[v]
    BY <2>1 DEF TypeInv, TypeOK, KernelTypeOK
  <2>4. \A v \in Worker : fdNew \notin interest[v]
    BY <2>2 DEF OwnInv, FdsInv, Registering
  <2>5. \A g : Registering(g) <=> g = fdNew
    BY <2>2 DEF Registering
  <2>6. apc' # "add"
    BY <1>4 DEF AddToWorker
  <2> QED BY <2>1, <2>2, <2>3, <2>4, <2>5, <2>6 DEF OwnInv, FdsInv
<1>5. CASE IncLoad
  BY <1>5 DEF IncLoad, OwnInv, FdsInv, Registering, kernel
<1>6. CASE IncStore
  BY <1>6 DEF IncStore, OwnInv, FdsInv, Registering, kernel
<1>7. ASSUME NEW w \in Worker, CloseConn(w) \/ ErrorClose(w)
      PROVE  FdsInv'
  BY <1>7, ClosedFds DEF CloseConn, ErrorClose, acceptor
<1>8. ASSUME NEW c \in Conn, Connect(c) \/ ClientStep(c) \/ Kill(c)
      PROVE  UNCHANGED <<fdConn, interest, apc, fdNew>>
  BY <1>8 DEF Connect, ClientStep, SendMessage, CloseSocket, Kill, acceptor
<1>9. ASSUME NEW w \in Worker,
             \/ WorkerWait(w) \/ NextEvent(w) \/ EndOfBatch(w) \/ Recv(w) \/ Send(w)
             \/ DecLoad(w) \/ DecStore(w) \/ WorkerFails(w)
      PROVE  UNCHANGED <<fdConn, interest, apc, fdNew>>
  BY <1>9 DEF WorkerWait, NextEvent, EndOfBatch, Recv, Send, DecLoad, DecStore,
              WorkerFails, acceptor, kernel
<1>10. CASE AcceptorFails \/ Rest \/ UNCHANGED vars
  BY <1>1, <1>10 DEF AcceptorFails, Rest, vars, acceptor, kernel
<1> QED
  BY <1>1, <1>2, <1>3, <1>4, <1>5, <1>6, <1>7, <1>8, <1>9, <1>10
     DEF Next, AcceptorStep, WorkerStep

LEMMA NextReady == ASSUME TypeInv, OwnInv, [Next]_vars PROVE ReadyInv'
<1> USE DEF OwnInv, ReadyInv
<1>1. CASE UNCHANGED <<ready, interest>>
  BY <1>1
<1>2. ASSUME NEW c \in Conn, ready' = Woken(c), UNCHANGED interest
      PROVE  ReadyInv'
  BY <1>2 DEF Woken
<1>3. ASSUME NEW c \in Conn, Connect(c) \/ ClientStep(c) \/ Kill(c)
      PROVE  ReadyInv'
  BY <1>1, <1>2, <1>3 DEF Connect, ClientStep, SendMessage, CloseSocket, Kill
<1>4. CASE AddToWorker
  BY <1>4 DEF AddToWorker, TypeInv, TypeOK, KernelTypeOK
<1>5. ASSUME NEW w \in Worker, WorkerWait(w)
      PROVE  ReadyInv'
  BY <1>5 DEF WorkerWait, TypeInv, TypeOK, KernelTypeOK
<1>6. ASSUME NEW w \in Worker, CloseConn(w) \/ ErrorClose(w)
      PROVE  ReadyInv'
  BY <1>6 DEF CloseConn, ErrorClose, Closed
<1>7. ASSUME NEW w \in Worker, Send(w)
      PROVE  ReadyInv'
  <2>1. UNCHANGED interest
    BY <1>7 DEF Send
  <2>2. ready' = ready \/ ready' = Woken(fdConn[cur[w]])
    BY <1>7 DEF Send
  <2> QED BY <2>1, <2>2 DEF Woken
<1>8. ASSUME NEW w \in Worker,
             \/ NextEvent(w) \/ EndOfBatch(w) \/ Recv(w)
             \/ DecLoad(w) \/ DecStore(w) \/ WorkerFails(w)
      PROVE  UNCHANGED <<ready, interest>>
  BY <1>8 DEF NextEvent, EndOfBatch, Recv, DecLoad, DecStore, WorkerFails, kernel
<1>9. CASE AcceptWait \/ Accept \/ IncLoad \/ IncStore \/ AcceptorFails
           \/ Rest \/ UNCHANGED vars
  BY <1>1, <1>9 DEF AcceptWait, Accept, IncLoad, IncStore, AcceptorFails, Rest, vars, kernel
<1> QED
  BY <1>1, <1>3, <1>4, <1>5, <1>6, <1>7, <1>8, <1>9 DEF Next, AcceptorStep, WorkerStep

\* What a step of worker w leaves alone of the other workers.
LEMMA OthersKept ==
  ASSUME WorkersTypeOK, NEW w \in Worker, WorkerStep(w), NEW v \in Worker, v # w
  PROVE  /\ wpc'[v] = wpc[v] /\ cur'[v] = cur[v] /\ wreg'[v] = wreg[v]
         /\ batch'[v] = batch[v] /\ about'[v] = about[v]
<1> USE DEF WorkersTypeOK
<1>1. CASE WorkerWait(w)
  BY <1>1 DEF WorkerWait
<1>2. CASE NextEvent(w) \/ EndOfBatch(w)
  BY <1>2 DEF NextEvent, EndOfBatch
<1>3. CASE Recv(w)
  BY <1>3 DEF Recv, AfterRead, Consumed, Unfinished
<1>4. CASE Send(w)
  BY <1>4 DEF Send, AfterRead, Consumed, Unfinished
<1>5. CASE CloseConn(w)
  BY <1>5 DEF CloseConn
<1>6. CASE ErrorClose(w)
  BY <1>6 DEF ErrorClose, Consumed
<1>7. CASE DecLoad(w)
  BY <1>7 DEF DecLoad
<1>8. CASE DecStore(w)
  BY <1>8 DEF DecStore, Consumed, Unfinished
<1> QED BY <1>1, <1>2, <1>3, <1>4, <1>5, <1>6, <1>7, <1>8 DEF WorkerStep

\* The worker has finished with the event it had in hand.
LEMMA ConsumedEvent ==
  ASSUME WorkersTypeOK, NEW w \in Worker, cur[w] \in Fd, Consumed(w)
  PROVE  /\ cur'[w] = NoFd
         /\ batch'[w] = [batch[w] EXCEPT ![cur[w]] = {}]
         /\ about'[w] = [about[w] EXCEPT ![cur[w]] = NoConn]
         /\ Pending(w)' = Pending(w) \ {cur[w]}
  BY DEF Consumed, Pending, WorkersTypeOK

LEMMA StageKept ==
  ASSUME StageInv, UNCHANGED <<wpc, cur, batch>>
  PROVE  StageInv'
  BY DEF StageInv, Stage, Pending

\* A worker that goes on with its event, or has finished with it.
LEMMA StageMoves ==
  ASSUME TypeInv, StageInv, NEW w \in Worker, wpc[w] \notin {"wait", "next"},
         \/ Unfinished /\ wpc'[w] \notin {"wait", "next"}
         \/ Consumed(w) /\ wpc'[w] = "next"
  PROVE  Stage(w)'
<1>1. cur[w] \in Pending(w) /\ cur[w] \in Fd
  BY DEF StageInv, Stage, Pending
<1>2. CASE Unfinished /\ wpc'[w] \notin {"wait", "next"}
  BY <1>1, <1>2 DEF Unfinished, Stage, Pending
<1>3. CASE Consumed(w) /\ wpc'[w] = "next"
  BY <1>1, <1>3, ConsumedEvent DEF Stage, TypeInv, TypeOK
<1> QED BY <1>2, <1>3

LEMMA AfterReadMoves ==
  ASSUME WorkersTypeOK, NEW w \in Worker, AfterRead(w)
  PROVE  \/ Unfinished /\ wpc'[w] = "close"
         \/ Consumed(w) /\ wpc'[w] = "next"
  BY DEF AfterRead, WorkersTypeOK

LEMMA WorkerStage ==
  ASSUME TypeInv, StageInv, NEW w \in Worker, WorkerStep(w)
  PROVE  Stage(w)'
<1>0. WorkersTypeOK
  BY DEF TypeInv, TypeOK
<1>1. CASE WorkerWait(w)
  <2>1. wpc'[w] = "next" /\ cur'[w] = cur[w]
    BY <1>0, <1>1 DEF WorkerWait, WorkersTypeOK
  <2> QED BY <1>1, <2>1 DEF StageInv, Stage, WorkerWait
<1>2. CASE NextEvent(w)
  <2>1. PICK f \in Pending(w) :
          cur'[w] = f /\ batch' = batch /\ wpc'[w] \in {"errLoad", "recv", "abort"}
    BY <1>0, <1>2 DEF NextEvent, WorkersTypeOK, Pending
  <2> QED BY <2>1 DEF Stage, Pending
<1>3. CASE EndOfBatch(w)
  <2>1. wpc'[w] = "wait" /\ cur'[w] = cur[w] /\ batch' = batch
    BY <1>0, <1>3 DEF EndOfBatch, WorkersTypeOK
  <2> QED BY <1>3, <2>1 DEF EndOfBatch, StageInv, Stage, Pending
<1>4. CASE Recv(w)
  <2>1. wpc[w] = "recv"
    BY <1>4 DEF Recv
  <2>2. AfterRead(w) \/ (Unfinished /\ wpc'[w] = "send")
    BY <1>0, <1>4 DEF Recv, WorkersTypeOK
  <2> QED BY <1>0, <2>1, <2>2, AfterReadMoves, StageMoves
<1>5. CASE Send(w)
  <2>1. wpc[w] = "send" /\ AfterRead(w)
    BY <1>5 DEF Send
  <2> QED BY <1>0, <2>1, AfterReadMoves, StageMoves
<1>6. CASE CloseConn(w)
  <2>1. wpc[w] = "close" /\ Unfinished /\ wpc'[w] = "load"
    BY <1>0, <1>6 DEF CloseConn, Unfinished, WorkersTypeOK
  <2> QED BY <2>1, StageMoves
<1>7. CASE ErrorClose(w)
  <2>1. wpc[w] = "errClose" /\ Consumed(w) /\ wpc'[w] = "next"
    BY <1>0, <1>7 DEF ErrorClose, WorkersTypeOK
  <2> QED BY <2>1, StageMoves
<1>8. CASE DecLoad(w)
  <2>1. /\ wpc[w] \in {"load", "errLoad"} /\ Unfinished
        /\ wpc'[w] \in {"store", "errStore"}
    BY <1>0, <1>8 DEF DecLoad, Unfinished, WorkersTypeOK
  <2> QED BY <2>1, StageMoves
<1>9. CASE DecStore(w)
  <2>1. /\ wpc[w] \in {"store", "errStore"}
        /\ \/ Consumed(w) /\ wpc'[w] = "next"
           \/ Unfinished /\ wpc'[w] = "errClose"
    BY <1>0, <1>9 DEF DecStore, WorkersTypeOK
  <2> QED BY <2>1, StageMoves
<1> QED BY <1>1, <1>2, <1>3, <1>4, <1>5, <1>6, <1>7, <1>8, <1>9 DEF WorkerStep

\* Only its own steps move a worker.
LEMMA WorkersStill ==
  ASSUME [Next]_vars, ~(\E w \in Worker : WorkerStep(w))
  PROVE  UNCHANGED workers
<1>1. ASSUME NEW c \in Conn, Connect(c) \/ ClientStep(c) \/ Kill(c)
      PROVE  UNCHANGED workers
  BY <1>1 DEF Connect, ClientStep, SendMessage, CloseSocket, Kill
<1>2. CASE AcceptorStep \/ AcceptorFails
  BY <1>2 DEF AcceptorStep, AcceptWait, Accept, AddToWorker, IncLoad, IncStore, AcceptorFails
<1>3. ASSUME NEW w \in Worker, WorkerFails(w)
      PROVE  UNCHANGED workers
  BY <1>3 DEF WorkerFails
<1>4. CASE Rest \/ UNCHANGED vars
  BY <1>4 DEF Rest, vars
<1> QED BY <1>1, <1>2, <1>3, <1>4 DEF Next

LEMMA NextStage == ASSUME TypeInv, OwnInv, [Next]_vars PROVE StageInv'
<1>1. CASE \E w \in Worker : WorkerStep(w)
  <2>1. PICK w \in Worker : WorkerStep(w)
    BY <1>1
  <2>2. Stage(w)'
    BY <2>1, WorkerStage DEF OwnInv
  <2>3. ASSUME NEW v \in Worker, v # w
        PROVE  Stage(v)'
    <3>1. wpc'[v] = wpc[v] /\ cur'[v] = cur[v] /\ batch'[v] = batch[v]
      BY <2>1, <2>3, OthersKept DEF TypeInv, TypeOK
    <3> QED BY <3>1 DEF OwnInv, StageInv, Stage, Pending
  <2> QED BY <2>2, <2>3 DEF StageInv
<1>2. CASE ~(\E w \in Worker : WorkerStep(w))
  BY <1>2, WorkersStill, StageKept DEF OwnInv, workers
<1> QED BY <1>1, <1>2

\* The events of a worker that does not move stay its own: a close of another
\* worker takes a descriptor this one does not have, and accept a free one.
Owned(w) == \A f \in Pending(w) :
  Discharged(w, f) \/ (f \in interest[w] /\ fdConn[f] = about[w][f])

LEMMA OwnedKept ==
  ASSUME TypeInv, OwnInv, NEW v \in Worker,
         wpc'[v] = wpc[v], cur'[v] = cur[v], batch'[v] = batch[v], about'[v] = about[v],
         \A f \in interest[v] : f \in interest'[v] /\ fdConn'[f] = fdConn[f]
  PROVE  Owned(v)'
  BY DEF OwnInv, EventsOwned, Owned, Pending, Discharged

\* A worker that holds an open descriptor goes on with it, or has finished.
LEMMA OwnedMoves ==
  ASSUME TypeInv, OwnInv, NEW w \in Worker, wpc[w] \notin {"wait", "next"},
         UNCHANGED <<interest, fdConn>>,
         \/ /\ Unfinished
            /\ wpc[w] \in {"load", "store"} => wpc'[w] \in {"load", "store"}
         \/ Consumed(w)
  PROVE  Owned(w)'
<1>1. cur[w] \in Fd
  BY DEF OwnInv, StageInv, Stage, Pending
<1>2. CASE Unfinished /\ (wpc[w] \in {"load", "store"} => wpc'[w] \in {"load", "store"})
  BY <1>2 DEF OwnInv, EventsOwned, Owned, Pending, Discharged, Unfinished
<1>3. CASE Consumed(w)
  <2>1. /\ Pending(w)' = Pending(w) \ {cur[w]}
        /\ about'[w] = [about[w] EXCEPT ![cur[w]] = NoConn]
    BY <1>1, <1>3, ConsumedEvent DEF TypeInv, TypeOK
  <2>2. ASSUME NEW f \in Pending(w)'
        PROVE  f \in Pending(w) /\ f # cur[w] /\ f \in Fd /\ about'[w][f] = about[w][f]
    BY <2>1 DEF Pending, TypeInv, TypeOK, WorkersTypeOK
  <2> QED BY <2>2 DEF OwnInv, EventsOwned, Owned, Discharged
<1> QED BY <1>2, <1>3

LEMMA WorkerOwned ==
  ASSUME TypeInv, OwnInv, NEW w \in Worker, WorkerStep(w)
  PROVE  Owned(w)'
<1>0. WorkersTypeOK
  BY DEF TypeInv, TypeOK
<1>1. CASE WorkerWait(w)
  <2> DEFINE live == {f \in ready[w] : Readiness(fdConn[f]) # {}}
  <2>1. PICK B \in SUBSET live :
          /\ batch' = [batch EXCEPT ![w] =
                         [f \in Fd |-> IF f \in B THEN Readiness(fdConn[f]) ELSE {}]]
          /\ about' = [about EXCEPT ![w] =
                         [f \in Fd |-> IF f \in B THEN fdConn[f] ELSE NoConn]]
    BY <1>1 DEF WorkerWait
  <2>2. Pending(w)' \subseteq B \cap Fd
    BY <1>0, <2>1 DEF Pending, WorkersTypeOK
  <2>3. \A f \in B \cap Fd : about'[w][f] = fdConn[f]
    BY <1>0, <2>1 DEF WorkersTypeOK
  <2>4. UNCHANGED <<fdConn, interest>>
    BY <1>1 DEF WorkerWait
  <2> QED BY <2>2, <2>3, <2>4 DEF OwnInv, ReadyInv, Owned
<1>2. CASE NextEvent(w) \/ EndOfBatch(w)
  <2>1. wpc[w] = "next" /\ UNCHANGED <<batch, about, fdConn, interest>>
    BY <1>2 DEF NextEvent, EndOfBatch, kernel
  <2> QED BY <2>1 DEF OwnInv, EventsOwned, Owned, Pending, Discharged
<1>3. CASE Recv(w)
  <2>1. wpc[w] = "recv" /\ UNCHANGED <<fdConn, interest>>
    BY <1>3 DEF Recv, kernel
  <2>2. Unfinished \/ Consumed(w)
    BY <1>3 DEF Recv, AfterRead
  <2> QED BY <2>1, <2>2, OwnedMoves
<1>4. CASE Send(w)
  <2>1. wpc[w] = "send" /\ UNCHANGED <<fdConn, interest>>
    BY <1>4 DEF Send
  <2>2. Unfinished \/ Consumed(w)
    BY <1>4 DEF Send, AfterRead
  <2> QED BY <2>1, <2>2, OwnedMoves
<1>5. CASE CloseConn(w)
  <2>1. wpc[w] = "close" /\ UNCHANGED <<batch, cur, about>> /\ wpc'[w] = "load"
    BY <1>0, <1>5 DEF CloseConn, WorkersTypeOK
  <2>2. ASSUME NEW f \in Fd, f # cur[w]
        PROVE  fdConn'[f] = fdConn[f] /\ (f \in interest[w] => f \in interest'[w])
    BY <1>5, <2>2 DEF CloseConn, Closed, TypeInv, TypeOK, KernelTypeOK
  <2> QED BY <2>1, <2>2 DEF OwnInv, EventsOwned, Owned, Pending, Discharged
<1>6. CASE ErrorClose(w)
  <2>1. wpc[w] = "errClose" /\ Consumed(w)
    BY <1>6 DEF ErrorClose
  <2>2. cur[w] \in Fd
    BY <2>1, ClosingOwned
  <2>3. /\ Pending(w)' = Pending(w) \ {cur[w]}
        /\ about'[w] = [about[w] EXCEPT ![cur[w]] = NoConn]
    BY <1>0, <2>1, <2>2, ConsumedEvent
  <2>4. ASSUME NEW f \in Pending(w)'
        PROVE  /\ f \in Pending(w) /\ f # cur[w] /\ f \in Fd
               /\ about'[w][f] = about[w][f]
    BY <1>0, <2>3 DEF Pending, WorkersTypeOK
  <2>5. ASSUME NEW f \in Fd, f # cur[w]
        PROVE  fdConn'[f] = fdConn[f] /\ (f \in interest[w] => f \in interest'[w])
    BY <1>6, <2>5 DEF ErrorClose, Closed, TypeInv, TypeOK, KernelTypeOK
  <2> QED BY <2>4, <2>5 DEF OwnInv, EventsOwned, Owned, Discharged
<1>7. CASE DecLoad(w)
  <2>1. wpc[w] \in {"load", "errLoad"} /\ UNCHANGED <<fdConn, interest>> /\ Unfinished
    BY <1>7 DEF DecLoad, Unfinished, kernel
  <2>2. wpc[w] = "load" => wpc'[w] = "store"
    BY <1>0, <1>7 DEF DecLoad, WorkersTypeOK
  <2> QED BY <2>1, <2>2, OwnedMoves
<1>8. CASE DecStore(w)
  <2>1. wpc[w] \in {"store", "errStore"} /\ UNCHANGED <<fdConn, interest>>
    BY <1>8 DEF DecStore, kernel
  <2>2. Consumed(w) \/ (wpc[w] = "errStore" /\ Unfinished)
    BY <1>8 DEF DecStore
  <2> QED BY <2>1, <2>2, OwnedMoves
<1> QED BY <1>1, <1>2, <1>3, <1>4, <1>5, <1>6, <1>7, <1>8 DEF WorkerStep

LEMMA NextOwned == ASSUME TypeInv, OwnInv, [Next]_vars PROVE EventsOwned'
<1> SUFFICES ASSUME NEW v \in Worker PROVE Owned(v)'
  BY DEF EventsOwned, Owned
<1>1. ASSUME NEW w \in Worker, WorkerStep(w)
      PROVE  Owned(v)'
  <2>1. CASE v = w
    BY <1>1, <2>1, WorkerOwned
  <2>2. CASE v # w
    <3>1. /\ wpc'[v] = wpc[v] /\ cur'[v] = cur[v]
          /\ batch'[v] = batch[v] /\ about'[v] = about[v]
      BY <1>1, <2>2, OthersKept DEF TypeInv, TypeOK
    <3>2. CASE CloseConn(w) \/ ErrorClose(w)
      <4>1. Closed(cur[w]) /\ cur[w] \notin interest[v]
        BY <2>2, <3>2, ClosingOwned DEF CloseConn, ErrorClose
      <4> QED
        BY <3>1, <4>1, OwnedKept DEF Closed, TypeInv, TypeOK, KernelTypeOK
    <3>3. CASE ~(CloseConn(w) \/ ErrorClose(w))
      <4>1. UNCHANGED <<fdConn, interest>>
        BY <1>1, <3>3 DEF WorkerStep, WorkerWait, NextEvent, EndOfBatch, Recv, Send,
                          DecLoad, DecStore, kernel
      <4> QED BY <3>1, <4>1, OwnedKept
    <3> QED BY <3>2, <3>3
  <2> QED BY <2>1, <2>2
<1>2. CASE ~(\E w \in Worker : WorkerStep(w))
  <2>1. UNCHANGED workers
    BY <1>2, WorkersStill
  <2>2. CASE AddToWorker
    <3>1. fdConn' = fdConn /\ \A f \in interest[v] : f \in interest'[v]
      BY <2>2 DEF AddToWorker, TypeInv, TypeOK, KernelTypeOK
    <3> QED BY <2>1, <3>1, OwnedKept DEF workers
  <2>3. CASE Accept
    <3>1. UNCHANGED interest
      BY <2>3 DEF Accept
    <3>2. ASSUME NEW f \in interest[v]
          PROVE  fdConn'[f] = fdConn[f]
      <4>1. f \in Fd /\ fdConn[f] # NoConn
        BY DEF OwnInv, FdsInv, TypeInv, TypeOK, KernelTypeOK
      <4>2. \/ UNCHANGED fdConn
            \/ \E g \in FreeFd : fdConn' = [fdConn EXCEPT ![g] = Head(backlog)]
        BY <2>3 DEF Accept, Lowest
      <4> QED BY <4>1, <4>2 DEF FreeFd, TypeInv, TypeOK, KernelTypeOK
    <3> QED BY <2>1, <3>1, <3>2, OwnedKept DEF workers
  <2>4. CASE ~(AddToWorker \/ Accept)
    <3>1. (\E c \in Conn : Connect(c) \/ ClientStep(c) \/ Kill(c)) => UNCHANGED <<fdConn, interest>>
      BY DEF Connect, ClientStep, SendMessage, CloseSocket, Kill
    <3>2. (\E w \in Worker : WorkerFails(w)) => UNCHANGED <<fdConn, interest>>
      BY DEF WorkerFails, kernel
    <3>3. (AcceptWait \/ IncLoad \/ IncStore \/ AcceptorFails \/ Rest \/ UNCHANGED vars) => UNCHANGED <<fdConn, interest>>
      BY DEF AcceptWait, IncLoad, IncStore, AcceptorFails, Rest, vars, kernel
    <3>4. \/ \E c \in Conn : Connect(c) \/ ClientStep(c) \/ Kill(c)
          \/ \E w \in Worker : WorkerFails(w)
          \/ AcceptWait \/ IncLoad \/ IncStore \/ AcceptorFails \/ Rest \/ UNCHANGED vars
      BY <1>2, <2>4 DEF Next, AcceptorStep
    <3>5. UNCHANGED <<fdConn, interest>>
      BY <3>1, <3>2, <3>3, <3>4
    <3> QED BY <2>1, <3>5, OwnedKept DEF workers
  <2> QED BY <2>2, <2>3, <2>4
<1> QED BY <1>1, <1>2

LEMMA NextOwn == TypeInv /\ OwnInv /\ [Next]_vars => OwnInv'
  BY NextFds, NextReady, NextStage, NextOwned DEF OwnInv

LEMMA AlwaysOwn == Spec => [](TypeInv /\ OwnInv)
  BY InitTypes, InitOwn, NextTypes, NextOwn, PTL DEF Spec

\* No descriptor is shared by two workers' epoll instances, and none that is open
\* is left out of all of them once acceptConnections has registered it.
THEOREM DescriptorsOwned == Spec => []FdsOwned
<1>1. ASSUME TypeInv, OwnInv
      PROVE  FdsOwned
  <2> SUFFICES ASSUME NEW f \in Fd
               PROVE  IF fdConn[f] = NoConn \/ (apc = "add" /\ fdNew = f)
                      THEN \A w \in Worker : f \notin interest[w]
                      ELSE \E w \in Worker : \A v \in Worker : f \in interest[v] <=> v = w
    BY DEF FdsOwned
  <2>1. CASE fdConn[f] = NoConn \/ Registering(f)
    BY <1>1, <2>1 DEF OwnInv, FdsInv, Registering
  <2>2. CASE fdConn[f] # NoConn /\ ~Registering(f)
    BY <1>1, <2>2 DEF OwnInv, FdsInv, Registering
  <2> QED BY <2>1, <2>2 DEF Registering
<1> QED BY <1>1, AlwaysOwn, PTL

\* The events a worker still has to handle are about the connections they were
\* reported for, however accept reuses the descriptors that are closed.
THEOREM Ownership == Spec => []EventsOwned
<1>1. OwnInv => EventsOwned
  BY DEF OwnInv
<1> QED BY <1>1, AlwaysOwn, PTL
-----------------------------------------------------------------------------
(* The counters.                                                           *)

\* An increment and a decrement of w's counter are both under way.
Overlapping(w) == apc = "store" /\ pick = w /\ Updating(w)

\* Overlaps that may have cost an update already.
Lost(w) == IF Overlapping(w) THEN overlaps[w] - 1 ELSE overlaps[w]

\* The counter, and each value loaded from it and not yet stored, is off by no
\* more than the updates lost.
Counted(w) ==
  /\ Within(numClientsInThread[w], Deserved(w), Lost(w))
  /\ apc = "store" /\ pick = w => Within(areg, Deserved(w), Lost(w))
  /\ Updating(w) => Within(wreg[w], Deserved(w), Lost(w))

CounterInv == \A w \in Worker : Counted(w)

\* Stages that do not enter into Deserved.
Quiet(w) == wpc[w] \notin {"load", "store", "errStore", "errClose"}

LEMMA InitCounter == Init => CounterInv
<1> SUFFICES ASSUME Init, NEW w \in Worker PROVE Counted(w)
  BY DEF CounterInv
<1>1. Cardinality(interest[w]) = 0
  BY FS_EmptySet DEF Init
<1> QED
  BY <1>1 DEF Init, Counted, Within, Deserved, Lost, Overlapping, Updating

LEMMA InterestFinite ==
  ASSUME TypeInv, NEW w \in Worker
  PROVE  IsFiniteSet(interest[w]) /\ Cardinality(interest[w]) \in Nat
<1>1. IsFiniteSet(Fd)
  BY FS_Interval, PoolAssumption DEF Fd
<1>2. interest[w] \subseteq Fd
  BY DEF TypeInv, TypeOK, KernelTypeOK
<1>3. IsFiniteSet(interest[w])
  BY <1>1, <1>2, FS_Subset
<1> QED BY <1>3, FS_CardinalityType

LEMMA CountTypes ==
  ASSUME TypeInv, NEW w \in Worker
  PROVE  /\ numClientsInThread[w] \in Int /\ overlaps[w] \in Nat
         /\ wreg[w] \in Int /\ areg \in Int
         /\ Deserved(w) \in Int /\ Lost(w) \in Int
<1>1. /\ numClientsInThread[w] \in Int /\ overlaps[w] \in Nat
      /\ wreg[w] \in Int /\ areg \in Int
  BY DEF TypeInv, TypeOK, WorkersTypeOK, AcceptorTypeOK
<1>2. Lost(w) \in Int
  BY <1>1 DEF Lost
<1>3. Deserved(w) \in Int
  BY InterestFinite DEF Deserved
<1> QED BY <1>1, <1>2, <1>3

\* A step that changes neither what v's counter should say nor what was lost.
LEMMA CountKept ==
  ASSUME NEW v \in Worker, Counted(v),
         Deserved(v)' = Deserved(v), Lost(v)' = Lost(v),
         numClientsInThread'[v] = numClientsInThread[v],
         apc' = "store" /\ pick' = v =>
           \/ apc = "store" /\ pick = v /\ areg' = areg
           \/ areg' = numClientsInThread[v],
         Updating(v)' =>
           \/ Updating(v) /\ wreg'[v] = wreg[v]
           \/ wreg'[v] = numClientsInThread[v]
  PROVE  Counted(v)'
<1>1. Within(numClientsInThread[v], Deserved(v), Lost(v))'
  BY DEF Counted, Within
<1>2. (apc = "store" /\ pick = v => Within(areg, Deserved(v), Lost(v)))'
  BY DEF Counted, Within
<1>3. (Updating(v) => Within(wreg[v], Deserved(v), Lost(v)))'
  BY DEF Counted, Within
<1> QED BY <1>1, <1>2, <1>3 DEF Counted

\* A step away from v's counter.
LEMMA CountUnmoved ==
  ASSUME NEW v \in Worker, Counted(v),
         interest'[v] = interest[v], wreg'[v] = wreg[v],
         numClientsInThread'[v] = numClientsInThread[v], overlaps'[v] = overlaps[v],
         wpc'[v] = wpc[v] \/ (Quiet(v) /\ Quiet(v)'),
         \/ UNCHANGED <<apc, pick, areg>>
         \/ apc \notin {"load", "store"} /\ apc' \notin {"load", "store"}
  PROVE  Counted(v)'
<1>1. Updating(v)' <=> Updating(v)
  BY DEF Updating, Quiet
<1>2. Overlapping(v)' <=> Overlapping(v)
  BY <1>1 DEF Overlapping
<1>3. Lost(v)' = Lost(v)
  BY <1>2 DEF Lost
<1>4. Deserved(v)' = Deserved(v)
  BY DEF Deserved, Quiet
<1> QED BY <1>1, <1>3, <1>4, CountKept

LEMMA AcceptorCounter ==
  ASSUME TypeInv, OwnInv, CounterInv, AcceptorStep, NEW v \in Worker
  PROVE  Counted(v)'
<1>0. Counted(v)
  BY DEF CounterInv
<1>1. CASE AcceptWait \/ Accept
  <2>1. /\ apc \notin {"load", "store"} /\ apc' \notin {"load", "store"}
        /\ UNCHANGED <<interest, wreg, wpc, numClientsInThread, overlaps>>
    BY <1>1 DEF AcceptWait, Accept, kernel, workers, counters
  <2> QED BY <1>0, <2>1, CountUnmoved
<1>2. CASE AddToWorker
  <2>1. PICK n \in Worker :
          /\ pick' = n
          /\ interest' = [interest EXCEPT ![n] = @ \cup {fdNew}]
    BY <1>2 DEF AddToWorker
  <2>2. /\ apc = "add" /\ apc' = "load"
        /\ UNCHANGED <<wreg, wpc, numClientsInThread, overlaps>>
    BY <1>2 DEF AddToWorker, workers, counters
  <2>3. interest'[v] = IF v = n THEN interest[v] \cup {fdNew} ELSE interest[v]
    BY <2>1 DEF TypeInv, TypeOK, KernelTypeOK
  <2>4. fdNew \notin interest[v]
    BY <2>2 DEF OwnInv, FdsInv, Registering
  <2>5. Cardinality(interest[v] \cup {fdNew}) = Cardinality(interest[v]) + 1
    BY <2>4, InterestFinite, FS_AddElement
  <2>6. Deserved(v)' = Deserved(v)
    BY <2>1, <2>2, <2>3, <2>5, InterestFinite DEF Deserved
  <2>7. Lost(v)' = Lost(v)
    BY <2>2 DEF Lost, Overlapping
  <2>8. Updating(v)' <=> Updating(v)
    BY <2>2 DEF Updating
  <2> QED BY <1>0, <2>2, <2>6, <2>7, <2>8, CountKept
<1>3. CASE IncLoad
  <2>1. /\ apc = "load" /\ apc' = "store" /\ pick' = pick
        /\ areg' = numClientsInThread[pick]
        /\ UNCHANGED <<interest, wreg, wpc, numClientsInThread>>
    BY <1>3 DEF IncLoad, kernel, workers
  <2>2. overlaps'[v] = IF v = pick /\ Updating(v) THEN overlaps[v] + 1 ELSE overlaps[v]
    BY <1>3 DEF IncLoad, TypeInv, TypeOK
  <2>3. Updating(v)' <=> Updating(v)
    BY <2>1 DEF Updating
  <2>4. Lost(v)' = Lost(v)
    BY <2>1, <2>2, <2>3, CountTypes DEF Lost, Overlapping
  <2>5. Deserved(v)' = Deserved(v)
    BY <2>1 DEF Deserved
  <2> QED BY <1>0, <2>1, <2>3, <2>4, <2>5, CountKept
<1>4. CASE IncStore
  <2>1. /\ apc = "store" /\ apc' = "wait"
        /\ numClientsInThread' = [numClientsInThread EXCEPT ![pick] = areg + 1]
        /\ UNCHANGED <<interest, wreg, wpc, overlaps>>
    BY <1>4 DEF IncStore, kernel, workers
  <2>2. Updating(v)' <=> Updating(v)
    BY <2>1 DEF Updating
  <2>3. Lost(v)' = overlaps[v]
    BY <2>1 DEF Lost, Overlapping
  <2>4. CASE v # pick
    <3>1. numClientsInThread'[v] = numClientsInThread[v]
      BY <2>1, <2>4 DEF TypeInv, TypeOK
    <3>2. Lost(v)' = Lost(v) /\ Deserved(v)' = Deserved(v)
      BY <2>1, <2>3, <2>4 DEF Lost, Overlapping, Deserved
    <3> QED BY <1>0, <2>1, <2>2, <3>1, <3>2, CountKept
  <2>5. CASE v = pick
    <3>1. numClientsInThread'[v] = areg + 1
      BY <2>1, <2>5 DEF TypeInv, TypeOK
    <3>2. Deserved(v)' = Deserved(v) + 1
      BY <2>1, <2>5, InterestFinite DEF Deserved
    <3>3. Lost(v)' >= Lost(v) /\ (Updating(v) => Lost(v)' = Lost(v) + 1)
      BY <2>1, <2>3, <2>5, CountTypes DEF Lost, Overlapping
    <3>4. Within(areg, Deserved(v), Lost(v)) /\ Lost(v)' \in Int
      BY <1>0, <2>1, <2>3, <2>5, CountTypes DEF Counted
    <3>5. Within(numClientsInThread[v], Deserved(v), Lost(v))'
      BY <3>1, <3>2, <3>3, <3>4, CountTypes DEF Within
    <3>6. (Updating(v) => Within(wreg[v], Deserved(v), Lost(v)))'
      <4>1. Updating(v) => Within(wreg[v], Deserved(v), Lost(v))
        BY <1>0 DEF Counted
      <4> QED BY <2>1, <2>2, <3>2, <3>3, <4>1, CountTypes DEF Within
    <3> QED BY <2>1, <3>5, <3>6 DEF Counted
  <2> QED BY <2>4, <2>5
<1> QED BY <1>1, <1>2, <1>3, <1>4 DEF AcceptorStep

LEMMA OthersCounted ==
  ASSUME TypeInv, OwnInv, CounterInv, NEW w \in Worker, WorkerStep(w),
         NEW v \in Worker, v # w
  PROVE  Counted(v)'
<1>1. wpc'[v] = wpc[v] /\ wreg'[v] = wreg[v]
  BY OthersKept DEF TypeInv, TypeOK
<1>2. UNCHANGED <<apc, pick, areg>>
  BY DEF WorkerStep, WorkerWait, NextEvent, EndOfBatch, Recv, Send, CloseConn, ErrorClose,
         DecLoad, DecStore, acceptor
<1>3. interest'[v] = interest[v]
  <2>1. CASE CloseConn(w) \/ ErrorClose(w)
    <3>1. cur[w] \notin interest[v] /\ interest'[v] = interest[v] \ {cur[w]}
      BY <2>1, ClosingOwned DEF CloseConn, ErrorClose, Closed
    <3> QED BY <3>1
  <2>2. CASE ~(CloseConn(w) \/ ErrorClose(w))
    BY <2>2 DEF WorkerStep, WorkerWait, NextEvent, EndOfBatch, Recv, Send,
                DecLoad, DecStore, kernel
  <2> QED BY <2>1, <2>2
<1>4. numClientsInThread'[v] = numClientsInThread[v] /\ overlaps'[v] = overlaps[v]
  <2>1. CASE DecLoad(w)
    BY <2>1 DEF DecLoad, TypeInv, TypeOK
  <2>2. CASE DecStore(w)
    BY <2>2 DEF DecStore, TypeInv, TypeOK
  <2>3. CASE ~(DecLoad(w) \/ DecStore(w))
    BY <2>3 DEF WorkerStep, WorkerWait, NextEvent, EndOfBatch, Recv, Send,
                CloseConn, ErrorClose, counters
  <2> QED BY <2>1, <2>2, <2>3
<1> QED BY <1>1, <1>2, <1>3, <1>4, CountUnmoved DEF CounterInv

LEMMA WorkerCounter ==
  ASSUME TypeInv, OwnInv, CounterInv, NEW w \in Worker, WorkerStep(w)
  PROVE  Counted(w)'
<1>0. Counted(w) /\ WorkersTypeOK
  BY DEF CounterInv, TypeInv, TypeOK
<1>1. CASE WorkerWait(w) \/ NextEvent(w) \/ EndOfBatch(w) \/ Recv(w) \/ Send(w)
  <2>1. Quiet(w)
    BY <1>1 DEF Quiet, WorkerWait, NextEvent, EndOfBatch, Recv, Send
  <2>2. Quiet(w)'
    <3>1. CASE WorkerWait(w) \/ EndOfBatch(w)
      BY <1>0, <3>1 DEF Quiet, WorkerWait, EndOfBatch, WorkersTypeOK
    <3>2. CASE NextEvent(w)
      <4>1. wpc'[w] \in {"errLoad", "recv", "abort"}
        BY <1>0, <3>2 DEF NextEvent, WorkersTypeOK
      <4> QED BY <4>1 DEF Quiet
    <3>3. CASE Recv(w)
      <4>1. AfterRead(w) \/ wpc'[w] = "send"
        BY <1>0, <3>3 DEF Recv, WorkersTypeOK
      <4> QED BY <1>0, <4>1, AfterReadMoves DEF Quiet
    <3>4. CASE Send(w)
      BY <1>0, <3>4, AfterReadMoves DEF Send, Quiet
    <3> QED BY <1>1, <3>1, <3>2, <3>3, <3>4
  <2>3. UNCHANGED <<interest, wreg, numClientsInThread, overlaps, apc, pick, areg>>
    BY <1>1 DEF WorkerWait, NextEvent, EndOfBatch, Recv, Send, kernel, acceptor, counters
  <2> QED BY <1>0, <2>1, <2>2, <2>3, CountUnmoved
<1>2. CASE CloseConn(w) \/ ErrorClose(w)
  <2>1. /\ interest'[w] = interest[w] \ {cur[w]}
        /\ UNCHANGED <<wreg, numClientsInThread, overlaps, apc, pick, areg>>
    BY <1>2 DEF CloseConn, ErrorClose, Closed, acceptor, counters
  <2>2. cur[w] \in interest[w]
    BY <1>2, ClosingOwned DEF CloseConn, ErrorClose
  <2>3. Cardinality(interest[w] \ {cur[w]}) = Cardinality(interest[w]) - 1
    BY <2>2, InterestFinite, FS_RemoveElement
  <2>4. \/ wpc[w] = "close" /\ wpc'[w] = "load"
        \/ wpc[w] = "errClose" /\ wpc'[w] = "next"
    BY <1>0, <1>2 DEF CloseConn, ErrorClose, WorkersTypeOK
  <2>5. Deserved(w)' = Deserved(w)
    BY <2>1, <2>3, <2>4, InterestFinite DEF Deserved
  <2>6. ~Updating(w) /\ ~Updating(w)'
    BY <2>4 DEF Updating
  <2>7. Lost(w)' = Lost(w)
    BY <2>1, <2>6 DEF Lost, Overlapping
  <2> QED BY <1>0, <2>1, <2>5, <2>6, <2>7, CountKept
<1>3. CASE DecLoad(w)
  <2>1. UNCHANGED <<interest, numClientsInThread, apc, pick, areg>>
    BY <1>3 DEF DecLoad, kernel, acceptor
  <2>2. /\ wreg'[w] = numClientsInThread[w]
        /\ \/ wpc[w] = "load" /\ wpc'[w] = "store"
           \/ wpc[w] = "errLoad" /\ wpc'[w] = "errStore"
    BY <1>0, <1>3 DEF DecLoad, WorkersTypeOK
  <2>3. overlaps'[w] = IF apc = "store" /\ pick = w THEN overlaps[w] + 1 ELSE overlaps[w]
    BY <1>3 DEF DecLoad, TypeInv, TypeOK
  <2>4. ~Updating(w) /\ Updating(w)'
    BY <2>2 DEF Updating
  <2>5. Lost(w)' = Lost(w)
    BY <2>1, <2>3, <2>4, CountTypes DEF Lost, Overlapping
  <2>6. Deserved(w)' = Deserved(w)
    BY <2>1, <2>2 DEF Deserved
  <2> QED BY <1>0, <2>1, <2>2, <2>5, <2>6, CountKept
<1>4. CASE DecStore(w)
  <2>1. /\ numClientsInThread'[w] = wreg[w] - 1
        /\ UNCHANGED <<interest, overlaps, apc, pick, areg>>
    BY <1>4 DEF DecStore, kernel, acceptor, TypeInv, TypeOK
  <2>2. \/ wpc[w] = "store" /\ wpc'[w] = "next"
        \/ wpc[w] = "errStore" /\ wpc'[w] = "errClose"
    BY <1>0, <1>4 DEF DecStore, WorkersTypeOK
  <2>3. Updating(w) /\ ~Updating(w)'
    BY <2>2 DEF Updating
  <2>4. Lost(w)' = overlaps[w]
    BY <2>1, <2>3 DEF Lost, Overlapping
  <2>5. Lost(w)' >= Lost(w) /\ (apc = "store" /\ pick = w => Lost(w)' = Lost(w) + 1)
    BY <2>3, <2>4, CountTypes DEF Lost, Overlapping
  <2>6. Deserved(w)' = Deserved(w) - 1
    BY <2>1, <2>2, InterestFinite DEF Deserved
  <2>7. Within(wreg[w], Deserved(w), Lost(w)) /\ Lost(w)' \in Int
    BY <1>0, <2>3, <2>4, CountTypes DEF Counted
  <2>8. Within(numClientsInThread[w], Deserved(w), Lost(w))'
    BY <2>1, <2>5, <2>6, <2>7, CountTypes DEF Within
  <2>9. (apc = "store" /\ pick = w => Within(areg, Deserved(w), Lost(w)))'
    <3>1. apc = "store" /\ pick = w => Within(areg, Deserved(w), Lost(w))
      BY <1>0 DEF Counted
    <3> QED BY <2>1, <2>5, <2>6, <3>1, CountTypes DEF Within
  <2> QED BY <2>3, <2>8, <2>9 DEF Counted
<1> QED BY <1>1, <1>2, <1>3, <1>4 DEF WorkerStep

LEMMA NextCounter ==
  ASSUME TypeInv, OwnInv, CounterInv, [Next]_vars
  PROVE  CounterInv'
<1> SUFFICES ASSUME NEW v \in Worker PROVE Counted(v)'
  BY DEF CounterInv
<1>1. ASSUME NEW w \in Worker, WorkerStep(w)
      PROVE  Counted(v)'
  BY <1>1, WorkerCounter, OthersCounted
<1>2. CASE AcceptorStep
  BY <1>2, AcceptorCounter
<1>3. CASE UNCHANGED <<interest, acceptor, workers, counters>>
  BY <1>3, CountUnmoved DEF CounterInv, acceptor, workers, counters
<1>4. (\E c \in Conn : Connect(c) \/ ClientStep(c) \/ Kill(c)) =>
        UNCHANGED <<interest, acceptor, workers, counters>>
  BY DEF Connect, ClientStep, SendMessage, CloseSocket, Kill
<1>5. AcceptorFails \/ (\E w \in Worker : WorkerFails(w)) =>
        UNCHANGED <<interest, acceptor, workers, counters>>
  BY DEF AcceptorFails, WorkerFails, kernel
<1>6. Rest \/ UNCHANGED vars => UNCHANGED <<interest, acceptor, workers, counters>>
  BY DEF Rest, vars, kernel
<1> QED BY <1>1, <1>2, <1>3, <1>4, <1>5, <1>6 DEF Next

\* numClientsInThread, which accept and the worker update without a lock, is off
\* by at most one for every two updates that overlapped, and exact until then.
THEOREM CounterBounded == Spec => []CounterDrift
<1>1. TypeInv /\ CounterInv => CounterDrift
  <2> SUFFICES ASSUME TypeInv, CounterInv, NEW w \in Worker
               PROVE  Within(numClientsInThread[w], Deserved(w), overlaps[w])
    BY DEF CounterDrift
  <2>1. Within(numClientsInThread[w], Deserved(w), Lost(w))
    BY DEF CounterInv, Counted
  <2> QED BY <2>1, CountTypes DEF Lost, Within
<1>2. Init => CounterInv
  BY InitCounter
<1>3. TypeInv /\ OwnInv /\ CounterInv /\ [Next]_vars => CounterInv'
  BY NextCounter
<1> QED BY <1>1, <1>2, <1>3, AlwaysOwn, PTL DEF Spec
-----------------------------------------------------------------------------
(* The sessions: no request or hang-up is lost, no reply is lost or        *)
(* doubled, and the threads together implement EchoService.  The invariant *)
(* rests on the ownership of descriptors and events established above.     *)

\* A connection is in one place at a time: waiting once in the listen queue, or
\* behind one descriptor, or in neither.
PlacesInv ==
  /\ \A i, j \in DOMAIN backlog : backlog[i] = backlog[j] => i = j
  /\ \A c \in Waiting : sock[c] # "none"
  /\ \A f \in Fd : fdConn[f] # NoConn => sock[fdConn[f]] # "none" /\ fdConn[f] \notin Waiting
  /\ \A f, g \in Fd : fdConn[f] # NoConn /\ fdConn[f] = fdConn[g] => f = g

\* The server reads no more than was sent and a client is one message ahead of
\* its echoes; a reset that follows a FIN follows the last message too.
Lockstep(c) ==
  /\ echoed[c] <= recvd[c] /\ recvd[c] <= sent[c] /\ sent[c] <= echoed[c] + 1
  /\ sock[c] = "broken" => recvd[c] = sent[c]

CountsInv == \A c \in Conn : Lockstep(c)

HangUp == {"RDHUP", "HUP", "ERR"}

\* What an event says is still true when its worker comes to handle it.
EventTrue(w, f) ==
  /\ "IN" \in batch[w][f]
  /\ ~Discharged(w, f) =>
       /\ batch[w][f] \cap HangUp # {} => Gone(fdConn[f])
       /\ (cur[w] = f => wpc[w] = "recv") => Unread(fdConn[f]) \/ Gone(fdConn[f])

EventsInv == \A w \in Worker : \A f \in Pending(w) : EventTrue(w, f)

\* What worker w knows of the connection in its hands.
Hand(w) ==
  LET c == fdConn[cur[w]] IN
  /\ wpc[w] # "abort"
  /\ wpc[w] \in {"recv", "send"} => batch[w][cur[w]] \cap {"HUP", "ERR"} = {}
  /\ wpc[w] = "send" => recvd[c] = echoed[c] + 1 /\ sock[c] # "broken"
  /\ wpc[w] \in {"close", "errLoad", "errStore", "errClose"} => Gone(c)

HandInv == \A w \in Worker : Hand(w)

\* NoEdgeLost for one descriptor of one worker.
Edge(w, f) ==
  /\ Unread(fdConn[f]) /\ ~Gone(fdConn[f]) =>
       f \in ready[w] \/ (f \in Pending(w) /\ (cur[w] = f => wpc[w] = "recv"))
  /\ Gone(fdConn[f]) =>
       f \in ready[w] \/ (batch[w][f] \cap HangUp # {} /\ ~Discharged(w, f))

EdgesInv == \A w \in Worker : \A f \in interest[w] : Edge(w, f)

\* A message read and not echoed is in the hands of a worker about to send it.
Reply(c) ==
  ~Gone(c) /\ recvd[c] # echoed[c] =>
    \E w \in Worker : wpc[w] = "send" /\ fdConn[cur[w]] = c

RepliesInv == \A c \in Conn : Reply(c)

SessionInv ==
  PlacesInv /\ CountsInv /\ EventsInv /\ HandInv /\ EdgesInv /\ RepliesInv

LEMMA InitSession == Init => SessionInv
  BY PoolAssumption
     DEF Init, SessionInv, PlacesInv, CountsInv, Lockstep, EventsInv, HandInv, Hand,
         EdgesInv, RepliesInv, Reply, Pending, Waiting, Worker, Fd

-----------------------------------------------------------------------------
(* What a step may do to sockets, descriptors and counts.                  *)

\* A socket's life: established, then closed by its client in one of two ways,
\* then perhaps reset by the server's own send.
LEMMA SockMoves ==
  ASSUME TypeInv, [Next]_vars, NEW c \in Conn
  PROVE  \/ sock'[c] = sock[c]
         \/ sock[c] = "none" /\ sock'[c] = "established"
         \/ sock[c] = "established" /\ sock'[c] \in {"fin", "reset"}
         \/ sock[c] = "fin" /\ sock'[c] = "broken"
<1>0. sock \in [Conn -> SockState]
  BY DEF TypeInv, TypeOK, ConnsTypeOK
<1>1. ASSUME NEW d \in Conn, Connect(d) \/ ClientStep(d) \/ Kill(d)
      PROVE  \/ sock'[c] = sock[c]
             \/ sock[c] = "none" /\ sock'[c] = "established"
             \/ sock[c] = "established" /\ sock'[c] \in {"fin", "reset"}
  BY <1>0, <1>1 DEF Connect, ClientStep, SendMessage, CloseSocket, Kill
<1>2. ASSUME NEW w \in Worker, Send(w)
      PROVE  \/ sock'[c] = sock[c]
             \/ sock[c] = "fin" /\ sock'[c] = "broken"
  BY <1>0, <1>2 DEF Send
<1>3. ASSUME NEW w \in Worker, WorkerStep(w), ~Send(w)
      PROVE  sock' = sock
  BY <1>3 DEF WorkerStep, WorkerWait, NextEvent, EndOfBatch, Recv, CloseConn, ErrorClose,
              DecLoad, DecStore, conns
<1>4. ASSUME NEW w \in Worker, WorkerFails(w)
      PROVE  sock' = sock
  BY <1>4 DEF WorkerFails, conns
<1>5. AcceptorStep \/ AcceptorFails \/ Rest \/ UNCHANGED vars => sock' = sock
  BY DEF AcceptorStep, AcceptWait, Accept, AddToWorker, IncLoad, IncStore,
         AcceptorFails, Rest, vars, conns
<1> QED BY <1>1, <1>2, <1>3, <1>4, <1>5 DEF Next

LEMMA GoneStays ==
  ASSUME TypeInv, [Next]_vars, NEW c \in Conn, Gone(c)
  PROVE  Gone(c)'
  BY SockMoves DEF Gone

-----------------------------------------------------------------------------
(* Places.                                                                 *)

\* A step that moves no connection.
LEMMA PlacesKept ==
  ASSUME TypeInv, PlacesInv, UNCHANGED <<backlog, fdConn>>,
         \A c \in Conn : sock[c] # "none" => sock'[c] # "none"
  PROVE  PlacesInv'
<1>1. Waiting' = Waiting /\ Waiting \subseteq Conn
  BY DEF Waiting, TypeInv, TypeOK, KernelTypeOK
<1>2. \A f \in Fd : fdConn[f] # NoConn => fdConn[f] \in Conn
  BY DEF TypeInv, TypeOK, KernelTypeOK
<1> QED BY <1>1, <1>2 DEF PlacesInv

LEMMA ConnectPlaces ==
  ASSUME TypeInv, PlacesInv, NEW c \in Conn, Connect(c)
  PROVE  PlacesInv' /\ Waiting' = Waiting \cup {c} /\ c \notin Waiting
<1> DEFINE n == Len(backlog)
<1>1. /\ sock[c] = "none" /\ fdConn' = fdConn
      /\ \A d \in Conn : sock'[d] = IF d = c THEN "established" ELSE sock[d]
      /\ backlog' = Append(backlog, c)
  BY DEF Connect, TypeInv, TypeOK, ConnsTypeOK
<1>2. backlog \in Seq(Conn)
  BY DEF TypeInv, TypeOK, KernelTypeOK
<1>3. /\ DOMAIN backlog = 1 .. n /\ DOMAIN backlog' = 1 .. n + 1 /\ n \in Nat
      /\ \A i \in 1 .. n : backlog'[i] = backlog[i]
      /\ backlog'[n + 1] = c
  BY <1>1, <1>2
<1>4. c \notin Waiting
  BY <1>1 DEF PlacesInv
<1>5. Waiting' = Waiting \cup {c}
  BY <1>3 DEF Waiting
<1>6. Waiting \subseteq Conn /\ \A f \in Fd : fdConn[f] # NoConn => fdConn[f] \in Conn
  BY DEF Waiting, TypeInv, TypeOK, KernelTypeOK
<1>7. \A i, j \in DOMAIN backlog' : backlog'[i] = backlog'[j] => i = j
  BY <1>3, <1>4 DEF PlacesInv, Waiting
<1>8. \A d \in Waiting' : sock'[d] # "none"
  BY <1>1, <1>5, <1>6 DEF PlacesInv
<1>9. \A f \in Fd : fdConn'[f] # NoConn => sock'[fdConn'[f]] # "none" /\ fdConn'[f] \notin Waiting'
  BY <1>1, <1>5, <1>6 DEF PlacesInv
<1>10. \A f, g \in Fd : fdConn'[f] # NoConn /\ fdConn'[f] = fdConn'[g] => f = g
  BY <1>1 DEF PlacesInv
<1> QED BY <1>4, <1>5, <1>7, <1>8, <1>9, <1>10 DEF PlacesInv

\* accept takes the head of the listen queue and puts it behind a free descriptor.
LEMMA AcceptMoves ==
  ASSUME TypeInv, PlacesInv, Accept
  PROVE  \/ UNCHANGED <<backlog, fdConn>>
         \/ \E f \in Fd, c \in Waiting :
              /\ fdConn[f] = NoConn
              /\ \A g \in Fd : fdConn'[g] = IF g = f THEN c ELSE fdConn[g]
              /\ Waiting' = Waiting \ {c}
              /\ \A i, j \in DOMAIN backlog' : backlog'[i] = backlog'[j] => i = j
<1>1. CASE FreeFd = {}
  BY <1>1 DEF Accept, Lowest
<1>2. CASE FreeFd # {}
  <2>1. PICK f \in Fd : /\ f \in FreeFd
                        /\ fdConn' = [fdConn EXCEPT ![f] = Head(backlog)]
                        /\ backlog' = Tail(backlog)
    BY <1>2 DEF Accept, Lowest
  <2>2. backlog \in Seq(Conn) /\ backlog # <<>>
    BY DEF Accept, TypeInv, TypeOK, KernelTypeOK
  <2> DEFINE n == Len(backlog)
  <2>3. /\ n \in Nat /\ n >= 1 /\ DOMAIN backlog = 1 .. n /\ Head(backlog) = backlog[1]
        /\ DOMAIN backlog' = 1 .. n - 1
        /\ \A i \in 1 .. n - 1 : backlog'[i] = backlog[i + 1]
    BY <2>1, <2>2
  <2>4. Head(backlog) \in Waiting
    BY <2>3 DEF Waiting
  <2>5. Waiting' = Waiting \ {Head(backlog)}
    <3>1. ASSUME NEW c \in Waiting'
          PROVE  c \in Waiting \ {Head(backlog)}
      <4>1. PICK i \in 1 .. n - 1 : c = backlog[i + 1]
        BY <2>3 DEF Waiting
      <4>2. i + 1 \in DOMAIN backlog /\ i + 1 # 1 /\ 1 \in DOMAIN backlog
        BY <2>3
      <4> QED BY <2>3, <4>1, <4>2 DEF PlacesInv, Waiting
    <3>2. ASSUME NEW c \in Waiting, c # Head(backlog)
          PROVE  c \in Waiting'
      <4>1. PICK i \in 1 .. n : c = backlog[i]
        BY <2>3 DEF Waiting
      <4>2. i - 1 \in 1 .. n - 1 /\ backlog'[i - 1] = c
        BY <2>3, <3>2, <4>1
      <4> QED BY <2>3, <4>2 DEF Waiting
    <3> QED BY <3>1, <3>2
  <2>6. \A i, j \in DOMAIN backlog' : backlog'[i] = backlog'[j] => i = j
    <3> SUFFICES ASSUME NEW i \in 1 .. n - 1, NEW j \in 1 .. n - 1,
                        backlog[i + 1] = backlog[j + 1]
                 PROVE  i = j
      BY <2>3
    <3>1. i + 1 \in DOMAIN backlog /\ j + 1 \in DOMAIN backlog
      BY <2>3
    <3> QED BY <3>1 DEF PlacesInv
  <2>7. fdConn[f] = NoConn
    BY <2>1 DEF FreeFd
  <2>8. \A g \in Fd : fdConn'[g] = IF g = f THEN Head(backlog) ELSE fdConn[g]
    BY <2>1 DEF TypeInv, TypeOK, KernelTypeOK
  <2> QED BY <2>4, <2>5, <2>6, <2>7, <2>8
<1> QED BY <1>1, <1>2

LEMMA NextPlaces ==
  ASSUME TypeInv, OwnInv, PlacesInv, [Next]_vars
  PROVE  PlacesInv'
<1>0. \A c \in Conn : sock[c] # "none" => sock'[c] # "none"
  BY SockMoves
<1>1. ASSUME NEW c \in Conn, Connect(c)
      PROVE  PlacesInv'
  BY <1>1, ConnectPlaces
<1>2. CASE Accept
  <2>1. CASE UNCHANGED <<backlog, fdConn>>
    BY <1>0, <2>1, PlacesKept
  <2>2. CASE ~UNCHANGED <<backlog, fdConn>>
    <3>1. PICK f \in Fd, c \in Waiting :
            /\ fdConn[f] = NoConn
            /\ \A g \in Fd : fdConn'[g] = IF g = f THEN c ELSE fdConn[g]
            /\ Waiting' = Waiting \ {c}
            /\ \A i, j \in DOMAIN backlog' : backlog'[i] = backlog'[j] => i = j
      BY <1>2, <2>2, AcceptMoves
    <3>2. Waiting \subseteq Conn /\ \A g \in Fd : fdConn[g] # NoConn => fdConn[g] \in Conn
      BY DEF Waiting, TypeInv, TypeOK, KernelTypeOK
    <3>3. \A d \in Waiting' : sock'[d] # "none"
      BY <1>0, <3>1, <3>2 DEF PlacesInv
    <3>4. \A g \in Fd : fdConn'[g] # NoConn => sock'[fdConn'[g]] # "none" /\ fdConn'[g] \notin Waiting'
      BY <1>0, <3>1, <3>2 DEF PlacesInv
    <3>5. \A g, h \in Fd : fdConn'[g] # NoConn /\ fdConn'[g] = fdConn'[h] => g = h
      BY <3>1 DEF PlacesInv
    <3> QED BY <3>1, <3>3, <3>4, <3>5 DEF PlacesInv
  <2> QED BY <2>1, <2>2
<1>3. ASSUME NEW w \in Worker, CloseConn(w) \/ ErrorClose(w)
      PROVE  PlacesInv'
  <2>1. Closed(cur[w]) /\ backlog' = backlog
    BY <1>3 DEF CloseConn, ErrorClose
  <2>2. \A g \in Fd : fdConn'[g] = IF g = cur[w] THEN NoConn ELSE fdConn[g]
    BY <2>1 DEF Closed, TypeInv, TypeOK, KernelTypeOK
  <2>3. Waiting' = Waiting /\ Waiting \subseteq Conn
    BY <2>1 DEF Waiting, TypeInv, TypeOK, KernelTypeOK
  <2>4. \A g \in Fd : fdConn[g] # NoConn => fdConn[g] \in Conn
    BY DEF TypeInv, TypeOK, KernelTypeOK
  <2> QED BY <1>0, <2>1, <2>2, <2>3, <2>4 DEF PlacesInv
<1>4. ASSUME NEW c \in Conn, ClientStep(c) \/ Kill(c)
      PROVE  UNCHANGED <<backlog, fdConn>>
  BY <1>4 DEF ClientStep, SendMessage, CloseSocket, Kill
<1>5. ASSUME NEW w \in Worker, WorkerStep(w) \/ WorkerFails(w), ~(CloseConn(w) \/ ErrorClose(w))
      PROVE  UNCHANGED <<backlog, fdConn>>
  BY <1>5 DEF WorkerStep, WorkerWait, NextEvent, EndOfBatch, Recv, Send, DecLoad, DecStore,
              WorkerFails, kernel
<1>6. CASE AcceptWait \/ AddToWorker \/ IncLoad \/ IncStore \/ AcceptorFails \/ Rest \/ UNCHANGED vars
  <2>1. UNCHANGED <<backlog, fdConn>>
    BY <1>6 DEF AcceptWait, AddToWorker, IncLoad, IncStore, AcceptorFails, Rest, vars, kernel
  <2> QED BY <1>0, <2>1, PlacesKept
<1>7. UNCHANGED <<backlog, fdConn>> => PlacesInv'
  BY <1>0, PlacesKept
<1> QED
  BY <1>1, <1>2, <1>3, <1>4, <1>5, <1>6, <1>7 DEF Next, AcceptorStep

-----------------------------------------------------------------------------
(* Counts.                                                                 *)

Holding == {"recv", "send", "close", "errLoad", "errStore", "errClose"}

\* A worker that has an event in hand and has not closed its descriptor.
LEMMA InHand ==
  ASSUME TypeInv, OwnInv, NEW w \in Worker, wpc[w] \in Holding
  PROVE  /\ cur[w] \in Fd /\ cur[w] \in Pending(w) /\ cur[w] \in interest[w]
         /\ fdConn[cur[w]] \in Conn /\ ~Discharged(w, cur[w])
<1>1. cur[w] \in Pending(w) /\ ~Discharged(w, cur[w])
  BY DEF Holding, OwnInv, StageInv, Stage, Discharged
<1>2. cur[w] \in Fd /\ cur[w] \in interest[w]
  BY <1>1 DEF Pending, OwnInv, EventsOwned
<1>3. fdConn[cur[w]] # NoConn
  BY <1>2 DEF OwnInv, FdsInv
<1> QED BY <1>1, <1>2, <1>3 DEF TypeInv, TypeOK, KernelTypeOK

LEMMA ClientCounts ==
  ASSUME TypeInv, CountsInv, NEW c \in Conn, Connect(c) \/ ClientStep(c) \/ Kill(c)
  PROVE  CountsInv'
<1> SUFFICES ASSUME NEW d \in Conn PROVE Lockstep(d)'
  BY DEF CountsInv
<1>0. /\ Lockstep(d) /\ sock \in [Conn -> SockState]
      /\ sent \in [Conn -> Nat] /\ recvd[d] \in Nat /\ echoed[d] \in Nat
  BY DEF CountsInv, TypeInv, TypeOK, ConnsTypeOK
<1>1. CASE Connect(c)
  BY <1>0, <1>1 DEF Connect, Lockstep
<1>2. CASE SendMessage(c)
  BY <1>0, <1>2 DEF SendMessage, Lockstep
<1>3. CASE CloseSocket(c)
  BY <1>0, <1>3 DEF CloseSocket, Lockstep
<1>4. CASE Kill(c)
  BY <1>0, <1>4 DEF Kill, Lockstep
<1> QED BY <1>1, <1>2, <1>3, <1>4 DEF ClientStep

LEMMA WorkerCounts ==
  ASSUME TypeInv, OwnInv, CountsInv, HandInv, NEW w \in Worker, WorkerStep(w)
  PROVE  CountsInv'
<1> SUFFICES ASSUME NEW d \in Conn PROVE Lockstep(d)'
  BY DEF CountsInv
<1>0. /\ Lockstep(d) /\ sock \in [Conn -> SockState] /\ recvd \in [Conn -> Nat]
      /\ echoed \in [Conn -> Nat] /\ sent[d] \in Nat /\ recvd[d] \in Nat /\ echoed[d] \in Nat
  BY DEF CountsInv, TypeInv, TypeOK, ConnsTypeOK
<1>1. CASE Recv(w)
  <2> DEFINE c == fdConn[cur[w]]
  <2>1. /\ UNCHANGED <<sock, sent, echoed>>
        /\ \/ recvd' = recvd
           \/ Unread(c) /\ recvd' = [recvd EXCEPT ![c] = @ + 1]
    BY <1>1 DEF Recv
  <2> QED BY <1>0, <2>1 DEF Lockstep, Unread
<1>2. CASE Send(w)
  <2> DEFINE c == fdConn[cur[w]]
  <2>1. recvd[c] = echoed[c] + 1
    BY <1>2 DEF Send, HandInv, Hand
  <2>2. /\ UNCHANGED <<sent, recvd>>
        /\ echoed' = echoed \/ echoed' = [echoed EXCEPT ![c] = @ + 1]
        /\ sock' = sock \/ sock' = [sock EXCEPT ![c] = "broken"]
    BY <1>2 DEF Send
  <2>3. d # c => Lockstep(d)'
    BY <1>0, <2>2 DEF Lockstep
  <2>4. CASE d = c
    <3>1. recvd[d] = echoed[d] + 1 /\ sent[d] = recvd[d]
      BY <1>0, <2>1, <2>4 DEF Lockstep
    <3>2. echoed'[d] = echoed[d] \/ echoed'[d] = echoed[d] + 1
      BY <1>0, <2>2
    <3> QED BY <1>0, <2>2, <3>1, <3>2 DEF Lockstep
  <2> QED BY <2>3, <2>4
<1>3. CASE ~(Recv(w) \/ Send(w))
  <2>1. UNCHANGED <<sock, sent, recvd, echoed>>
    BY <1>3 DEF WorkerStep, WorkerWait, NextEvent, EndOfBatch, CloseConn, ErrorClose,
                DecLoad, DecStore, conns
  <2> QED BY <1>0, <2>1 DEF Lockstep
<1> QED BY <1>1, <1>2, <1>3

\* Steps that are neither a client's nor a worker's leave every connection alone.
LEMMA ConnsStill ==
  ASSUME [Next]_vars,
         ~(\E c \in Conn : Connect(c) \/ ClientStep(c) \/ Kill(c)),
         ~(\E w \in Worker : WorkerStep(w))
  PROVE  UNCHANGED <<sock, sent, recvd, echoed>>
<1>1. ASSUME NEW w \in Worker, WorkerFails(w)
      PROVE  UNCHANGED <<sock, sent, recvd, echoed>>
  BY <1>1 DEF WorkerFails, conns
<1>2. CASE AcceptorStep \/ AcceptorFails \/ Rest \/ UNCHANGED vars
  BY <1>2 DEF AcceptorStep, AcceptWait, Accept, AddToWorker, IncLoad, IncStore,
              AcceptorFails, Rest, vars, conns
<1> QED BY <1>1, <1>2 DEF Next

LEMMA NextCounts ==
  ASSUME TypeInv, OwnInv, CountsInv, HandInv, [Next]_vars
  PROVE  CountsInv'
<1>1. CASE \E c \in Conn : Connect(c) \/ ClientStep(c) \/ Kill(c)
  BY <1>1, ClientCounts
<1>2. CASE \E w \in Worker : WorkerStep(w)
  BY <1>2, WorkerCounts
<1>3. CASE UNCHANGED <<sock, sent, recvd, echoed>>
  BY <1>3 DEF CountsInv, Lockstep
<1> QED BY <1>1, <1>2, <1>3, ConnsStill
-----------------------------------------------------------------------------
(* Events and the connection in hand.                                      *)

\* What a step of worker w leaves alone: every connection but the one it has in
\* hand, and every descriptor but the one it closes.
LEMMA WorkerReach ==
  ASSUME TypeInv, NEW w \in Worker, WorkerStep(w)
  PROVE  /\ \A c \in Conn : c # fdConn[cur[w]] =>
              /\ sock'[c] = sock[c] /\ sent'[c] = sent[c]
              /\ recvd'[c] = recvd[c] /\ echoed'[c] = echoed[c]
         /\ \A f \in Fd : f # cur[w] => fdConn'[f] = fdConn[f]
         /\ sent' = sent
         /\ recvd' # recvd => wpc[w] = "recv"
         /\ echoed' # echoed => wpc[w] = "send"
         /\ sock' # sock => wpc[w] = "send"
         /\ fdConn' # fdConn => wpc[w] \in {"close", "errClose"}
<1> USE DEF TypeInv, TypeOK, ConnsTypeOK, KernelTypeOK
<1>1. CASE Recv(w)
  BY <1>1 DEF Recv, kernel
<1>2. CASE Send(w)
  BY <1>2 DEF Send
<1>3. CASE CloseConn(w) \/ ErrorClose(w)
  BY <1>3 DEF CloseConn, ErrorClose, Closed, conns
<1>4. CASE WorkerWait(w) \/ NextEvent(w) \/ EndOfBatch(w) \/ DecLoad(w) \/ DecStore(w)
  BY <1>4 DEF WorkerWait, NextEvent, EndOfBatch, DecLoad, DecStore, conns, kernel
<1> QED BY <1>1, <1>2, <1>3, <1>4 DEF WorkerStep

\* Two workers never have the same connection in hand or in their batches.
LEMMA Apart ==
  ASSUME TypeInv, OwnInv, PlacesInv, NEW v \in Worker, NEW w \in Worker, v # w,
         NEW f \in interest[v], NEW g \in interest[w]
  PROVE  f # g /\ fdConn[f] # fdConn[g] /\ fdConn[f] \in Conn /\ fdConn[g] \in Conn
<1>1. f \in Fd /\ g \in Fd
  BY DEF TypeInv, TypeOK, KernelTypeOK
<1>2. fdConn[f] # NoConn /\ fdConn[g] # NoConn /\ f # g
  BY <1>1 DEF OwnInv, FdsInv
<1> QED BY <1>1, <1>2 DEF PlacesInv, TypeInv, TypeOK, KernelTypeOK

\* What another worker's step leaves alone of a connection that v serves.
LEMMA OthersConn ==
  ASSUME TypeInv, OwnInv, PlacesInv, NEW w \in Worker, WorkerStep(w),
         NEW v \in Worker, v # w, NEW f \in interest[v]
  PROVE  /\ fdConn[f] \in Conn /\ fdConn'[f] = fdConn[f]
         /\ sock'[fdConn[f]] = sock[fdConn[f]] /\ sent'[fdConn[f]] = sent[fdConn[f]]
         /\ recvd'[fdConn[f]] = recvd[fdConn[f]] /\ echoed'[fdConn[f]] = echoed[fdConn[f]]
<1>0. f \in Fd /\ fdConn[f] \in Conn
  BY DEF OwnInv, FdsInv, TypeInv, TypeOK, KernelTypeOK
<1>1. CASE wpc[w] \in Holding
  <2>1. cur[w] \in interest[w]
    BY <1>1, InHand
  <2>2. f # cur[w] /\ fdConn[f] # fdConn[cur[w]]
    BY <2>1, Apart
  <2> QED BY <1>0, <2>2, WorkerReach
<1>2. CASE wpc[w] \notin Holding
  <2>1. UNCHANGED <<recvd, echoed, sock, fdConn, sent>>
    BY <1>2, WorkerReach DEF Holding
  <2> QED BY <1>0, <2>1
<1> QED BY <1>1, <1>2

\* What epoll_wait reports for a connection.
LEMMA ReadinessSays ==
  ASSUME NEW c
  PROVE  /\ Readiness(c) # {} <=> Unread(c) \/ Gone(c)
         /\ Readiness(c) # {} => "IN" \in Readiness(c)
         /\ Readiness(c) \cap HangUp # {} <=> Gone(c)
  BY DEF Readiness, Registered, HangUp, Gone

\* An event stays true while its connection neither comes back to life nor loses
\* what there was to read.
LEMMA EventKept ==
  ASSUME NEW w \in Worker, NEW f \in Fd, EventTrue(w, f), batch'[w][f] = batch[w][f],
         ~Discharged(w, f)' =>
           /\ ~Discharged(w, f) /\ fdConn'[f] = fdConn[f]
           /\ Gone(fdConn[f]) => Gone(fdConn[f])'
           /\ (cur'[w] = f => wpc'[w] = "recv") =>
                /\ cur[w] = f => wpc[w] = "recv"
                /\ Unread(fdConn[f]) => Unread(fdConn[f])'
  PROVE  EventTrue(w, f)'
  BY DEF EventTrue

LEMMA OthersEvents ==
  ASSUME TypeInv, OwnInv, PlacesInv, EventsInv, [Next]_vars,
         NEW w \in Worker, WorkerStep(w), NEW v \in Worker, v # w, NEW f \in Pending(v)'
  PROVE  EventTrue(v, f)'
<1>1. wpc'[v] = wpc[v] /\ cur'[v] = cur[v] /\ batch'[v] = batch[v]
  BY OthersKept DEF TypeInv, TypeOK
<1>2. f \in Fd /\ f \in Pending(v) /\ EventTrue(v, f)
  BY <1>1 DEF Pending, EventsInv
<1>3. Discharged(v, f)' <=> Discharged(v, f)
  BY <1>1 DEF Discharged
<1>4. ASSUME ~Discharged(v, f)
      PROVE  /\ fdConn'[f] = fdConn[f]
             /\ Gone(fdConn[f]) => Gone(fdConn[f])'
             /\ Unread(fdConn[f]) => Unread(fdConn[f])'
  <2>1. f \in interest[v]
    BY <1>2, <1>4 DEF OwnInv, EventsOwned
  <2> QED BY <2>1, OthersConn DEF Gone, Unread
<1> QED BY <1>1, <1>2, <1>3, <1>4, EventKept

\* The events of a worker that consumes the one in hand, or keeps it at a stage
\* where it need not be read again.
LEMMA OwnEvents ==
  ASSUME TypeInv, OwnInv, PlacesInv, EventsInv, [Next]_vars,
         NEW w \in Worker, cur[w] \in Fd, wpc[w] \notin {"wait", "next"},
         Consumed(w) \/ (Unfinished /\ wpc'[w] # "recv"),
         UNCHANGED sent,
         \A f \in Fd : f # cur[w] => fdConn'[f] = fdConn[f],
         \A c \in Conn : c # fdConn[cur[w]] => recvd'[c] = recvd[c],
         recvd' # recvd => ~Discharged(w, cur[w]),
         ~Discharged(w, cur[w])' => Consumed(w) \/
            (~Discharged(w, cur[w]) /\ fdConn' = fdConn)
  PROVE  \A f \in Pending(w)' : EventTrue(w, f)'
<1> SUFFICES ASSUME NEW f \in Pending(w)' PROVE EventTrue(w, f)'
  OBVIOUS
<1>0. WorkersTypeOK /\ fdConn \in [Fd -> Conn \cup {NoConn}]
  BY DEF TypeInv, TypeOK, KernelTypeOK
<1>1. f \in Fd /\ f \in Pending(w) /\ batch'[w][f] = batch[w][f] /\ (Consumed(w) => f # cur[w])
  <2>1. CASE Consumed(w)
    <3>0. Pending(w)' = Pending(w) \ {cur[w]}
      BY <1>0, <2>1, ConsumedEvent
    <3>1. f \in Pending(w) /\ f # cur[w]
      BY <3>0
    <3>2. batch'[w] = [batch[w] EXCEPT ![cur[w]] = {}] /\ batch[w] \in [Fd -> SUBSET Bits]
      BY <1>0, <2>1, ConsumedEvent DEF WorkersTypeOK
    <3>3. f \in Fd /\ batch'[w][f] = batch[w][f]
      BY <3>1, <3>2 DEF Pending
    <3> QED BY <3>1, <3>3
  <2>2. CASE ~Consumed(w)
    BY <2>2 DEF Unfinished, Pending
  <2> QED BY <2>1, <2>2
<1>2. EventTrue(w, f)
  BY <1>1 DEF EventsInv
<1>3. CASE f # cur[w]
  <2>1. ~Discharged(w, f)
    BY <1>3 DEF Discharged
  <2>2. f \in interest[w]
    BY <1>1, <2>1 DEF OwnInv, EventsOwned
  <2>3. fdConn[f] \in Conn /\ fdConn'[f] = fdConn[f]
    BY <1>0, <1>1, <1>3, <2>2 DEF OwnInv, FdsInv
  <2>4. Gone(fdConn[f]) => Gone(fdConn[f])'
    BY <2>3, GoneStays DEF Gone
  <2>5. Unread(fdConn[f]) => Unread(fdConn[f])'
    <3>1. CASE recvd' = recvd
      BY <2>3, <3>1 DEF Unread
    <3>2. CASE recvd' # recvd
      <4>1. cur[w] \in interest[w]
        BY <3>2 DEF OwnInv, StageInv, Stage, EventsOwned
      <4>2. fdConn[cur[w]] # fdConn[f]
        BY <1>1, <1>3, <2>2, <4>1 DEF OwnInv, FdsInv, PlacesInv
      <4> QED BY <2>3, <4>2 DEF Unread
    <3> QED BY <3>1, <3>2
  <2> QED BY <1>1, <1>2, <1>3, <2>1, <2>3, <2>4, <2>5, EventKept
<1>4. CASE f = cur[w]
  <2>1. Unfinished /\ wpc'[w] # "recv" /\ cur'[w] = f
    BY <1>1, <1>4 DEF Unfinished
  <2>2. ASSUME ~Discharged(w, f)'
        PROVE  ~Discharged(w, f) /\ fdConn'[f] = fdConn[f] /\ (Gone(fdConn[f]) => Gone(fdConn[f])')
    <3>1. ~Discharged(w, f) /\ fdConn' = fdConn
      BY <1>1, <1>4, <2>1, <2>2 DEF Discharged
    <3>2. fdConn[f] \in Conn
      <4>1. f \in interest[w]
        BY <1>1, <3>1 DEF OwnInv, EventsOwned
      <4> QED BY <1>0, <1>1, <4>1 DEF OwnInv, FdsInv
    <3> QED BY <3>1, <3>2, GoneStays DEF Gone
  <2> QED BY <1>1, <1>2, <2>1, <2>2, EventKept
<1> QED BY <1>3, <1>4

LEMMA WorkerEvents ==
  ASSUME TypeInv, OwnInv, PlacesInv, EventsInv, [Next]_vars,
         NEW w \in Worker, WorkerStep(w)
  PROVE  \A f \in Pending(w)' : EventTrue(w, f)'
<1>0. WorkersTypeOK /\ sent' = sent
  BY WorkerReach DEF TypeInv, TypeOK
<1>a. wpc[w] \notin {"wait", "next"} => cur[w] \in Fd
  BY DEF OwnInv, StageInv, Stage, Pending
<1>1. CASE WorkerWait(w)
  <2> DEFINE live == {f \in ready[w] : Readiness(fdConn[f]) # {}}
  <2>1. PICK B \in SUBSET live :
          batch' = [batch EXCEPT ![w] =
                      [f \in Fd |-> IF f \in B THEN Readiness(fdConn[f]) ELSE {}]]
    BY <1>1 DEF WorkerWait
  <2>2. /\ UNCHANGED <<sock, sent, recvd, fdConn>>
        /\ cur'[w] = NoFd /\ wpc'[w] = "next"
    BY <1>0, <1>1 DEF WorkerWait, conns, WorkersTypeOK, OwnInv, StageInv, Stage
  <2> SUFFICES ASSUME NEW f \in Pending(w)' PROVE EventTrue(w, f)'
    OBVIOUS
  <2>3. f \in Fd /\ f \in B /\ batch'[w][f] = Readiness(fdConn[f])
    BY <1>0, <2>1 DEF Pending, WorkersTypeOK
  <2>4. Readiness(fdConn[f]) # {}
    BY <2>3
  <2> QED BY <2>2, <2>3, <2>4, ReadinessSays DEF EventTrue, Gone, Unread
<1>2. CASE NextEvent(w)
  <2>1. /\ wpc[w] = "next" /\ cur[w] = NoFd
        /\ wpc'[w] \in {"errLoad", "recv", "abort"}
        /\ UNCHANGED <<batch, fdConn, sock, sent, recvd>>
    BY <1>0, <1>2 DEF NextEvent, kernel, conns, WorkersTypeOK, OwnInv, StageInv, Stage
  <2> SUFFICES ASSUME NEW f \in Pending(w)' PROVE EventTrue(w, f)'
    OBVIOUS
  <2>2. f \in Fd /\ f \in Pending(w) /\ EventTrue(w, f)
    BY <2>1 DEF Pending, EventsInv
  <2>3. ~Discharged(w, f) /\ cur[w] # f
    BY <2>1, <2>2 DEF Discharged, Fd, NoFd
  <2> QED BY <2>1, <2>2, <2>3, EventKept DEF Gone, Unread
<1>3. CASE EndOfBatch(w)
  <2>1. Pending(w)' = {}
    BY <1>3 DEF EndOfBatch, Pending
  <2> QED BY <2>1
<1>4. CASE Recv(w)
  <2>1. wpc[w] = "recv" /\ fdConn' = fdConn
    BY <1>4 DEF Recv, kernel
  <2>2. AfterRead(w) \/ (Unfinished /\ wpc'[w] = "send")
    BY <1>0, <1>4 DEF Recv, WorkersTypeOK
  <2>3. Consumed(w) \/ (Unfinished /\ wpc'[w] # "recv")
    BY <1>0, <2>2, AfterReadMoves
  <2>4. ~Discharged(w, cur[w])
    BY <2>1 DEF Discharged
  <2> QED BY <1>0, <1>a, <2>1, <2>3, <2>4, WorkerReach, OwnEvents
<1>5. CASE Send(w)
  <2>1. wpc[w] = "send" /\ fdConn' = fdConn /\ recvd' = recvd /\ AfterRead(w)
    BY <1>5 DEF Send
  <2>2. Consumed(w) \/ (Unfinished /\ wpc'[w] # "recv")
    BY <1>0, <2>1, AfterReadMoves
  <2>3. ~Discharged(w, cur[w])
    BY <2>1 DEF Discharged
  <2> QED BY <1>0, <1>a, <2>1, <2>2, <2>3, OwnEvents
<1>6. CASE CloseConn(w)
  <2>1. wpc[w] = "close" /\ wpc'[w] = "load" /\ recvd' = recvd /\ Unfinished
    BY <1>0, <1>6 DEF CloseConn, Unfinished, conns, WorkersTypeOK
  <2>2. Discharged(w, cur[w])'
    BY <2>1 DEF Discharged
  <2> QED BY <1>0, <1>a, <2>1, <2>2, WorkerReach, OwnEvents
<1>7. CASE ErrorClose(w)
  <2>1. wpc[w] = "errClose" /\ Consumed(w) /\ recvd' = recvd
    BY <1>7 DEF ErrorClose, conns
  <2> QED BY <1>0, <1>a, <2>1, WorkerReach, OwnEvents
<1>8. CASE DecLoad(w)
  <2>1. /\ Unfinished /\ fdConn' = fdConn /\ recvd' = recvd
        /\ \/ wpc[w] = "load" /\ wpc'[w] = "store"
           \/ wpc[w] = "errLoad" /\ wpc'[w] = "errStore"
    BY <1>0, <1>8 DEF DecLoad, Unfinished, kernel, conns, WorkersTypeOK
  <2>2. ~Discharged(w, cur[w])' => ~Discharged(w, cur[w])
    BY <2>1 DEF Discharged, Unfinished
  <2> QED BY <1>0, <1>a, <2>1, <2>2, OwnEvents
<1>9. CASE DecStore(w)
  <2>1. /\ fdConn' = fdConn /\ recvd' = recvd
        /\ \/ wpc[w] = "store" /\ Consumed(w)
           \/ wpc[w] = "errStore" /\ wpc'[w] = "errClose" /\ Unfinished
    BY <1>0, <1>9 DEF DecStore, kernel, conns, WorkersTypeOK
  <2>2. wpc[w] = "errStore" => ~Discharged(w, cur[w])
    BY DEF Discharged
  <2> QED BY <1>0, <1>a, <2>1, <2>2, OwnEvents
<1> QED BY <1>1, <1>2, <1>3, <1>4, <1>5, <1>6, <1>7, <1>8, <1>9 DEF WorkerStep

\* Steps of the clients and of the accept thread: what there was to read stays.
LEMMA UnreadStays ==
  ASSUME TypeInv, [Next]_vars, ~(\E w \in Worker : WorkerStep(w)), NEW c \in Conn
  PROVE  /\ Unread(c) => Unread(c)'
         /\ recvd'[c] = recvd[c] /\ echoed'[c] = echoed[c]
         /\ sock[c] # "broken" => sock'[c] # "broken"
<1>1. ASSUME NEW d \in Conn, Connect(d) \/ ClientStep(d) \/ Kill(d)
      PROVE  /\ Unread(c) => Unread(c)'
             /\ recvd'[c] = recvd[c] /\ echoed'[c] = echoed[c]
             /\ sock[c] # "broken" => sock'[c] # "broken"
  <2>0. sock \in [Conn -> SockState] /\ sent \in [Conn -> Nat] /\ recvd[c] \in Nat
    BY DEF TypeInv, TypeOK, ConnsTypeOK
  <2>1. recvd' = recvd /\ echoed' = echoed
    BY <1>1 DEF Connect, ClientStep, SendMessage, CloseSocket, Kill
  <2>2. sent'[c] = sent[c] \/ sent'[c] = sent[c] + 1
    BY <1>1, <2>0 DEF Connect, ClientStep, SendMessage, CloseSocket, Kill
  <2>3. sock[c] # "broken" => sock'[c] # "broken"
    BY <1>1, <2>0 DEF Connect, ClientStep, SendMessage, CloseSocket, Kill
  <2> QED BY <2>0, <2>1, <2>2, <2>3 DEF Unread
<1>2. CASE UNCHANGED <<sock, sent, recvd, echoed>>
  BY <1>2 DEF Unread
<1> QED BY <1>1, <1>2, ConnsStill

LEMMA OutsideWorkers ==
  ASSUME TypeInv, OwnInv, [Next]_vars, ~(\E w \in Worker : WorkerStep(w)),
         NEW v \in Worker, NEW f \in interest[v]
  PROVE  f \in interest'[v] /\ fdConn'[f] = fdConn[f] /\ fdConn[f] \in Conn
<1>0. f \in Fd /\ fdConn[f] # NoConn /\ fdConn[f] \in Conn
  BY DEF OwnInv, FdsInv, TypeInv, TypeOK, KernelTypeOK
<1>1. CASE AddToWorker
  BY <1>0, <1>1 DEF AddToWorker, TypeInv, TypeOK, KernelTypeOK
<1>2. CASE Accept
  <2>1. interest' = interest
    BY <1>2 DEF Accept
  <2>2. \/ UNCHANGED fdConn
        \/ \E g \in FreeFd : fdConn' = [fdConn EXCEPT ![g] = Head(backlog)]
    BY <1>2 DEF Accept, Lowest
  <2> QED BY <1>0, <2>1, <2>2 DEF FreeFd, TypeInv, TypeOK, KernelTypeOK
<1>3. CASE AcceptWait \/ IncLoad \/ IncStore \/ AcceptorFails \/ Rest \/ UNCHANGED vars
  BY <1>0, <1>3 DEF AcceptWait, IncLoad, IncStore, AcceptorFails, Rest, vars, kernel
<1>4. ASSUME NEW w \in Worker, WorkerFails(w)
      PROVE  UNCHANGED <<fdConn, interest>>
  BY <1>4 DEF WorkerFails, kernel
<1>5. ASSUME NEW c \in Conn, Connect(c) \/ ClientStep(c) \/ Kill(c)
      PROVE  UNCHANGED <<fdConn, interest>>
  BY <1>5 DEF Connect, ClientStep, SendMessage, CloseSocket, Kill
<1> QED BY <1>0, <1>1, <1>2, <1>3, <1>4, <1>5 DEF Next, AcceptorStep

LEMMA NextEvents ==
  ASSUME TypeInv, OwnInv, PlacesInv, EventsInv, [Next]_vars
  PROVE  EventsInv'
<1>1. CASE \E w \in Worker : WorkerStep(w)
  <2>1. PICK w \in Worker : WorkerStep(w)
    BY <1>1
  <2>2. \A f \in Pending(w)' : EventTrue(w, f)'
    BY <2>1, WorkerEvents
  <2>3. ASSUME NEW v \in Worker, v # w, NEW f \in Pending(v)'
        PROVE  EventTrue(v, f)'
    BY <2>1, <2>3, OthersEvents
  <2> QED BY <2>2, <2>3 DEF EventsInv
<1>2. CASE ~(\E w \in Worker : WorkerStep(w))
  <2>1. UNCHANGED <<wpc, batch, cur>>
    BY <1>2, WorkersStill DEF workers
  <2> SUFFICES ASSUME NEW v \in Worker, NEW f \in Pending(v)' PROVE EventTrue(v, f)'
    BY DEF EventsInv
  <2>2. f \in Fd /\ f \in Pending(v) /\ EventTrue(v, f)
    BY <2>1 DEF Pending, EventsInv
  <2>3. Discharged(v, f)' <=> Discharged(v, f)
    BY <2>1 DEF Discharged
  <2>4. ASSUME ~Discharged(v, f)
        PROVE  /\ fdConn'[f] = fdConn[f]
               /\ Gone(fdConn[f]) => Gone(fdConn[f])'
               /\ Unread(fdConn[f]) => Unread(fdConn[f])'
    <3>1. f \in interest[v]
      BY <2>2, <2>4 DEF OwnInv, EventsOwned
    <3> QED BY <1>2, <3>1, OutsideWorkers, GoneStays, UnreadStays DEF Gone, Unread
  <2> QED BY <2>1, <2>2, <2>3, <2>4, EventKept
<1> QED BY <1>1, <1>2

LEMMA WorkerHand ==
  ASSUME TypeInv, OwnInv, PlacesInv, CountsInv, EventsInv, HandInv, [Next]_vars,
         NEW w \in Worker, WorkerStep(w)
  PROVE  Hand(w)'
<1>0. WorkersTypeOK /\ Hand(w)
  BY DEF TypeInv, TypeOK, HandInv
<1> DEFINE c == fdConn[cur[w]]
<1>1. CASE WorkerWait(w) \/ EndOfBatch(w)
  BY <1>0, <1>1 DEF WorkerWait, EndOfBatch, WorkersTypeOK, Hand
<1>2. CASE NextEvent(w)
  <2>1. PICK f \in Pending(w) :
          /\ cur'[w] = f
          /\ wpc'[w] = IF batch[w][f] \cap {"HUP", "ERR"} # {} THEN "errLoad"
                       ELSE IF "IN" \in batch[w][f] THEN "recv" ELSE "abort"
    BY <1>0, <1>2 DEF NextEvent, WorkersTypeOK, Pending
  <2>2. UNCHANGED <<batch, fdConn, sock>> /\ wpc[w] = "next"
    BY <1>2 DEF NextEvent, kernel, conns
  <2>3. EventTrue(w, f) /\ ~Discharged(w, f)
    BY <2>2 DEF EventsInv, Discharged
  <2>4. batch[w][f] \cap {"HUP", "ERR"} # {} => Gone(fdConn[f])
    BY <2>3 DEF EventTrue, HangUp
  <2> QED BY <2>1, <2>2, <2>3, <2>4 DEF Hand, EventTrue, Gone
<1>3. CASE Recv(w)
  <2>1. wpc[w] = "recv" /\ UNCHANGED <<sock, sent, echoed, fdConn>>
    BY <1>3 DEF Recv, kernel
  <2>2. c \in Conn /\ cur[w] \in Pending(w) /\ ~Discharged(w, cur[w])
    BY <2>1, InHand DEF Holding
  <2>3. CASE Unread(c)
    <3>1. /\ recvd' = [recvd EXCEPT ![c] = @ + 1]
          /\ wpc'[w] = "send" /\ UNCHANGED <<batch, cur>>
      BY <1>0, <1>3, <2>3 DEF Recv, Unfinished, WorkersTypeOK
    <3>2. recvd[c] = echoed[c] /\ sock[c] # "broken"
      <4>1. sent[c] \in Nat /\ recvd[c] \in Nat /\ echoed[c] \in Nat
        BY <2>2 DEF TypeInv, TypeOK, ConnsTypeOK
      <4>2. Lockstep(c) /\ sent[c] > recvd[c]
        BY <2>2, <2>3 DEF CountsInv, Unread
      <4> QED BY <4>1, <4>2 DEF Lockstep
    <3>3. recvd'[c] = echoed[c] + 1
      BY <2>2, <3>1, <3>2 DEF TypeInv, TypeOK, ConnsTypeOK
    <3> QED BY <1>0, <2>1, <3>1, <3>2, <3>3 DEF Hand
  <2>4. CASE ~Unread(c)
    <3>1. Gone(c) /\ AfterRead(w)
      BY <1>3, <2>4 DEF Recv
    <3>2. \/ Unfinished /\ wpc'[w] = "close"
          \/ Consumed(w) /\ wpc'[w] = "next"
      BY <1>0, <3>1, AfterReadMoves
    <3> QED BY <2>1, <3>1, <3>2 DEF Hand, Unfinished, Gone
  <2> QED BY <2>3, <2>4
<1>4. CASE Send(w)
  <2>1. wpc[w] = "send" /\ AfterRead(w) /\ fdConn' = fdConn
    BY <1>4 DEF Send
  <2>2. c \in Conn /\ cur[w] \in Pending(w) /\ ~Discharged(w, cur[w])
    BY <2>1, InHand DEF Holding
  <2>3. CASE "RDHUP" \in batch[w][cur[w]]
    <3>1. Unfinished /\ wpc'[w] = "close"
      BY <1>0, <2>1, <2>3 DEF AfterRead, WorkersTypeOK
    <3>2. Gone(c)
      BY <2>2, <2>3 DEF EventsInv, EventTrue, HangUp
    <3>3. sock'[c] \in {"fin", "reset", "broken"}
      BY <2>2, <3>2, GoneStays DEF Gone
    <3> QED BY <2>1, <3>1, <3>3 DEF Hand, Unfinished, Gone
  <2>4. CASE "RDHUP" \notin batch[w][cur[w]]
    <3>1. wpc'[w] = "next"
      BY <1>0, <2>1, <2>4 DEF AfterRead, WorkersTypeOK
    <3> QED BY <3>1 DEF Hand
  <2> QED BY <2>3, <2>4
<1>5. CASE CloseConn(w) \/ ErrorClose(w)
  <2>1. wpc'[w] \in {"load", "next"}
    BY <1>0, <1>5 DEF CloseConn, ErrorClose, WorkersTypeOK
  <2> QED BY <2>1 DEF Hand
<1>6. CASE DecLoad(w) \/ DecStore(w)
  <2>1. UNCHANGED <<sock, fdConn>>
    BY <1>6 DEF DecLoad, DecStore, conns, kernel
  <2>2. \/ wpc'[w] \in {"store", "next"}
        \/ /\ wpc[w] \in {"errLoad", "errStore"} /\ wpc'[w] \in {"errStore", "errClose"}
           /\ cur' = cur
    BY <1>0, <1>6 DEF DecLoad, DecStore, Unfinished, WorkersTypeOK
  <2> QED BY <1>0, <2>1, <2>2 DEF Hand, Gone
<1> QED BY <1>1, <1>2, <1>3, <1>4, <1>5, <1>6 DEF WorkerStep

LEMMA OthersHand ==
  ASSUME TypeInv, OwnInv, PlacesInv, HandInv, NEW w \in Worker, WorkerStep(w),
         NEW v \in Worker, v # w
  PROVE  Hand(v)'
<1>1. wpc'[v] = wpc[v] /\ cur'[v] = cur[v] /\ batch'[v] = batch[v] /\ Hand(v)
  BY OthersKept DEF TypeInv, TypeOK, HandInv
<1>2. CASE wpc[v] \in Holding
  <2>1. cur[v] \in interest[v]
    BY <1>2, InHand
  <2> QED BY <1>1, <2>1, OthersConn DEF Hand, Gone
<1>3. CASE wpc[v] \notin Holding
  BY <1>1, <1>3 DEF Hand, Holding
<1> QED BY <1>2, <1>3

LEMMA NextHand ==
  ASSUME TypeInv, OwnInv, PlacesInv, CountsInv, EventsInv, HandInv, [Next]_vars
  PROVE  HandInv'
<1> SUFFICES ASSUME NEW v \in Worker PROVE Hand(v)'
  BY DEF HandInv
<1>1. ASSUME NEW w \in Worker, WorkerStep(w)
      PROVE  Hand(v)'
  BY <1>1, WorkerHand, OthersHand
<1>2. CASE ~(\E w \in Worker : WorkerStep(w))
  <2>1. UNCHANGED <<wpc, batch, cur>> /\ Hand(v)
    BY <1>2, WorkersStill DEF workers, HandInv
  <2>2. CASE wpc[v] \in Holding
    <3>1. cur[v] \in interest[v]
      BY <2>2, InHand
    <3> DEFINE c == fdConn[cur[v]]
    <3>2. fdConn'[cur[v]] = c /\ c \in Conn
      BY <1>2, <3>1, OutsideWorkers
    <3>3. recvd'[c] = recvd[c] /\ echoed'[c] = echoed[c]
      BY <1>2, <3>2, UnreadStays
    <3>4. Gone(c) => sock'[c] \in {"fin", "reset", "broken"}
      BY <3>2, GoneStays DEF Gone
    <3>5. sock[c] # "broken" => sock'[c] # "broken"
      BY <1>2, <3>2, UnreadStays
    <3> QED BY <2>1, <3>2, <3>3, <3>4, <3>5 DEF Hand, Gone
  <2>3. CASE wpc[v] \notin Holding
    BY <2>1, <2>3 DEF Hand, Holding
  <2> QED BY <2>2, <2>3
<1> QED BY <1>1, <1>2

-----------------------------------------------------------------------------
(* Ready lists.                                                            *)

\* A descriptor that another worker watches stays on that worker's ready list.
LEMMA OthersReady ==
  ASSUME TypeInv, OwnInv, NEW w \in Worker, WorkerStep(w),
         NEW v \in Worker, v # w, NEW f \in interest'[v]
  PROVE  f \in interest[v] /\ (f \in ready[v] => f \in ready'[v])
<1> USE DEF TypeInv, TypeOK, KernelTypeOK
<1>1. CASE CloseConn(w) \/ ErrorClose(w)
  <2>1. /\ interest'[v] = interest[v] \ {cur[w]} /\ ready'[v] = ready[v] \ {cur[w]}
    BY <1>1 DEF CloseConn, ErrorClose, Closed
  <2> QED BY <2>1
<1>2. CASE WorkerWait(w) \/ Send(w)
  BY <1>2 DEF WorkerWait, Send, Woken
<1>3. CASE NextEvent(w) \/ EndOfBatch(w) \/ Recv(w) \/ DecLoad(w) \/ DecStore(w)
  BY <1>3 DEF NextEvent, EndOfBatch, Recv, DecLoad, DecStore, kernel
<1> QED BY <1>1, <1>2, <1>3 DEF WorkerStep

LEMMA OthersEdges ==
  ASSUME TypeInv, OwnInv, PlacesInv, EdgesInv, NEW w \in Worker, WorkerStep(w),
         NEW v \in Worker, v # w, NEW f \in interest'[v]
  PROVE  Edge(v, f)'
<1>1. wpc'[v] = wpc[v] /\ cur'[v] = cur[v] /\ batch'[v] = batch[v]
  BY OthersKept DEF TypeInv, TypeOK
<1>2. f \in interest[v] /\ (f \in ready[v] => f \in ready'[v])
  BY OthersReady
<1>3. Edge(v, f)
  BY <1>2 DEF EdgesInv
<1>4. (f \in Pending(v) => f \in Pending(v)') /\ (Discharged(v, f)' => Discharged(v, f))
  BY <1>1 DEF Pending, Discharged
<1>5. /\ fdConn'[f] = fdConn[f] /\ sock'[fdConn[f]] = sock[fdConn[f]]
      /\ sent'[fdConn[f]] = sent[fdConn[f]] /\ recvd'[fdConn[f]] = recvd[fdConn[f]]
  BY <1>2, OthersConn
<1> QED BY <1>1, <1>2, <1>3, <1>4, <1>5 DEF Edge, Gone, Unread

\* A descriptor of w other than the one in hand.
LEMMA AsideEdges ==
  ASSUME TypeInv, OwnInv, PlacesInv, EdgesInv, [Next]_vars,
         NEW w \in Worker, WorkerStep(w),
         wpc[w] \notin {"wait", "next"}, NEW f \in interest'[w], f # cur[w]
  PROVE  Edge(w, f)'
<1>0. WorkersTypeOK /\ cur[w] \in Fd /\ f \in Fd
  <2>1. TypeInv'
    BY NextTypes
  <2>2. interest' \in [Worker -> SUBSET Fd]
    BY <2>1 DEF TypeInv, TypeOK, KernelTypeOK
  <2>3. WorkersTypeOK /\ cur[w] \in Fd
    BY DEF TypeInv, TypeOK, OwnInv, StageInv, Stage, Pending
  <2> QED BY <2>2, <2>3
<1>1. f \in interest[w] /\ (f \in ready[w] => f \in ready'[w])
  <2> USE DEF TypeInv, TypeOK, KernelTypeOK
  <2>1. CASE CloseConn(w) \/ ErrorClose(w)
    BY <2>1 DEF CloseConn, ErrorClose, Closed
  <2>2. CASE Send(w)
    BY <2>2 DEF Send, Woken
  <2>3. CASE Recv(w) \/ DecLoad(w) \/ DecStore(w)
    BY <2>3 DEF Recv, DecLoad, DecStore, kernel
  <2>4. ~(WorkerWait(w) \/ NextEvent(w) \/ EndOfBatch(w))
    BY DEF WorkerWait, NextEvent, EndOfBatch
  <2> QED BY <2>1, <2>2, <2>3, <2>4 DEF WorkerStep
<1>2. Consumed(w) \/ Unfinished
  BY DEF WorkerStep, WorkerWait, NextEvent, EndOfBatch, Recv, Send, CloseConn, ErrorClose,
         DecLoad, DecStore, AfterRead, Unfinished
<1>3. batch'[w][f] = batch[w][f] /\ cur'[w] # f
  <2>1. CASE Consumed(w)
    <3>1. cur'[w] = NoFd /\ batch'[w] = [batch[w] EXCEPT ![cur[w]] = {}]
      BY <1>0, <2>1, ConsumedEvent
    <3> QED BY <1>0, <3>1 DEF WorkersTypeOK, Fd, NoFd
  <2>2. CASE Unfinished
    BY <2>2 DEF Unfinished
  <2> QED BY <1>2, <2>1, <2>2
<1>4. ~Discharged(w, f) /\ ~Discharged(w, f)'
  BY <1>3 DEF Discharged
<1>5. fdConn'[f] = fdConn[f] /\ fdConn[f] \in Conn
  BY <1>0, <1>1, WorkerReach DEF OwnInv, FdsInv, TypeInv, TypeOK, KernelTypeOK
<1>6. /\ sock'[fdConn[f]] = sock[fdConn[f]] /\ sent'[fdConn[f]] = sent[fdConn[f]]
      /\ recvd'[fdConn[f]] = recvd[fdConn[f]]
  <2>1. CASE wpc[w] \in Holding
    <3>1. fdConn[cur[w]] # fdConn[f]
      BY <1>0, <1>5, <2>1, InHand, PoolAssumption DEF PlacesInv
    <3> QED BY <1>5, <3>1, WorkerReach
  <2>2. CASE wpc[w] \notin Holding
    BY <2>2, WorkerReach DEF Holding
  <2> QED BY <2>1, <2>2
<1>7. f \in Pending(w) <=> f \in Pending(w)'
  BY <1>3 DEF Pending
<1>8. Edge(w, f)
  BY <1>1 DEF EdgesInv
<1> QED BY <1>1, <1>3, <1>4, <1>5, <1>6, <1>7, <1>8 DEF Edge, Gone, Unread

\* The descriptor in hand, when its worker stays the one that watches it.
LEMMA InHandEdge ==
  ASSUME TypeInv, OwnInv, PlacesInv, CountsInv, EventsInv, HandInv, EdgesInv, [Next]_vars,
         NEW w \in Worker, WorkerStep(w),
         wpc[w] \notin {"wait", "next"}, NEW f \in interest'[w], f = cur[w]
  PROVE  Edge(w, f)'
<1>0. WorkersTypeOK /\ f \in Fd /\ f \in Pending(w)
  BY DEF TypeInv, TypeOK, OwnInv, StageInv, Stage, Pending
<1> DEFINE c == fdConn[f]
<1>1. CASE Recv(w)
  <2>1. wpc[w] = "recv" /\ UNCHANGED <<sock, sent, fdConn, ready, interest>>
    BY <1>1 DEF Recv, kernel
  <2>2. f \in interest[w] /\ c \in Conn /\ ~Discharged(w, f) /\ Edge(w, f)
    BY <2>1, InHand DEF Holding, EdgesInv
  <2>3. CASE Unread(c)
    <3>1. /\ recvd' = [recvd EXCEPT ![c] = @ + 1]
          /\ wpc'[w] = "send" /\ UNCHANGED <<batch, cur>>
      BY <1>0, <1>1, <2>3 DEF Recv, Unfinished, WorkersTypeOK
    <3>2. recvd'[c] = sent[c]
      <4>1. sent[c] \in Nat /\ recvd[c] \in Nat /\ echoed[c] \in Nat /\ recvd'[c] = recvd[c] + 1
        BY <2>2, <3>1 DEF TypeInv, TypeOK, ConnsTypeOK
      <4>2. Lockstep(c) /\ sent[c] > recvd[c]
        BY <2>2, <2>3 DEF CountsInv, Unread
      <4> QED BY <4>1, <4>2 DEF Lockstep
    <3>3. sent[c] \in Nat /\ ~Unread(c)'
      BY <2>1, <2>2, <3>2 DEF Unread, TypeInv, TypeOK, ConnsTypeOK
    <3>4. ~Discharged(w, f)'
      BY <3>1 DEF Discharged
    <3> QED BY <2>1, <2>2, <3>1, <3>3, <3>4 DEF Edge, Gone
  <2>4. CASE ~Unread(c)
    <3>1. Gone(c) /\ AfterRead(w) /\ recvd' = recvd
      BY <1>1, <2>4 DEF Recv
    <3>2. CASE "RDHUP" \in batch[w][f]
      <4>1. Unfinished /\ wpc'[w] = "close"
        BY <1>0, <3>1, <3>2 DEF AfterRead, WorkersTypeOK
      <4>2. ~Discharged(w, f)'
        BY <4>1 DEF Discharged
      <4> QED BY <2>1, <3>1, <3>2, <4>1, <4>2 DEF Edge, Gone, Unfinished, HangUp
    <3>3. CASE "RDHUP" \notin batch[w][f]
      <4>1. batch[w][f] \cap HangUp = {}
        BY <2>1, <3>3 DEF HandInv, Hand, HangUp
      <4>2. f \in ready[w]
        BY <2>2, <3>1, <4>1 DEF Edge
      <4> QED BY <2>1, <4>2 DEF Edge
    <3> QED BY <3>2, <3>3
  <2> QED BY <2>3, <2>4
<1>2. CASE Send(w)
  <2>1. /\ wpc[w] = "send" /\ AfterRead(w) /\ UNCHANGED <<sent, recvd, fdConn, interest>>
        /\ f \in ready[w] => f \in ready'[w]
    BY <1>2 DEF Send, Woken
  <2>2. f \in interest[w] /\ c \in Conn /\ ~Discharged(w, f) /\ Edge(w, f)
    BY <2>1, InHand DEF Holding, EdgesInv
  <2>3. ~Unread(c)'
    <3>1. sent[c] \in Nat /\ recvd[c] \in Nat /\ echoed[c] \in Nat
      BY <2>2 DEF TypeInv, TypeOK, ConnsTypeOK
    <3>2. Lockstep(c) /\ recvd[c] = echoed[c] + 1
      BY <2>1, <2>2 DEF CountsInv, HandInv, Hand
    <3>3. sent[c] = recvd[c]
      BY <3>1, <3>2 DEF Lockstep
    <3> QED BY <2>1, <3>1, <3>3 DEF Unread
  <2>4. CASE "RDHUP" \in batch[w][f]
    <3>1. Unfinished /\ wpc'[w] = "close"
      BY <1>0, <2>1, <2>4 DEF AfterRead, WorkersTypeOK
    <3>2. ~Discharged(w, f)'
      BY <3>1 DEF Discharged
    <3> QED BY <2>1, <2>3, <2>4, <3>1, <3>2 DEF Edge, Unfinished, HangUp
  <2>5. CASE "RDHUP" \notin batch[w][f]
    <3>1. batch[w][f] \cap HangUp = {}
      BY <2>1, <2>5 DEF HandInv, Hand, HangUp
    <3>2. Gone(c) => f \in ready'[w]
      BY <2>1, <2>2, <3>1 DEF Edge
    <3>3. ~Gone(c) => sock' = sock
      BY <1>2 DEF Send, Gone
    <3> QED BY <2>1, <2>3, <3>2, <3>3 DEF Edge, Gone
  <2> QED BY <2>4, <2>5
<1>3. CASE DecLoad(w) \/ DecStore(w)
  <2>1. UNCHANGED <<sock, sent, recvd, fdConn, interest, ready>>
    BY <1>3 DEF DecLoad, DecStore, conns, kernel
  <2>2. f \in interest[w] /\ Edge(w, f)
    BY <2>1 DEF EdgesInv
  <2>3. CASE wpc[w] \in {"load", "store"}
    <3>1. Discharged(w, f)
      BY <2>3 DEF Discharged
    <3>2. Unread(c) \/ Gone(c) => f \in ready[w]
      BY <2>2, <2>3, <3>1 DEF Edge
    <3> QED BY <2>1, <3>2 DEF Edge, Gone, Unread
  <2>4. CASE wpc[w] \notin {"load", "store"}
    <3>1. /\ wpc[w] \in {"errLoad", "errStore"} /\ Unfinished
          /\ wpc'[w] \in {"errStore", "errClose"}
      BY <1>0, <1>3, <2>4 DEF DecLoad, DecStore, Unfinished, WorkersTypeOK
    <3>2. Gone(c) /\ ~Discharged(w, f) /\ ~Discharged(w, f)'
      BY <3>1 DEF HandInv, Hand, Discharged
    <3> QED BY <2>1, <2>2, <3>1, <3>2 DEF Edge, Gone, Unfinished
  <2> QED BY <2>3, <2>4
<1>4. CASE CloseConn(w) \/ ErrorClose(w)
  BY <1>4 DEF CloseConn, ErrorClose, Closed
<1>5. ~(WorkerWait(w) \/ NextEvent(w) \/ EndOfBatch(w))
  BY DEF WorkerWait, NextEvent, EndOfBatch
<1> QED BY <1>1, <1>2, <1>3, <1>4, <1>5 DEF WorkerStep

\* The steps of a worker that has no event in hand.
LEMMA IdleEdges ==
  ASSUME TypeInv, OwnInv, EventsInv, EdgesInv, NEW w \in Worker,
         WorkerWait(w) \/ NextEvent(w) \/ EndOfBatch(w), NEW f \in interest'[w]
  PROVE  Edge(w, f)'
<1>0. /\ UNCHANGED <<sock, sent, recvd, fdConn, interest>>
      /\ WorkersTypeOK /\ cur[w] = NoFd
  BY DEF WorkerWait, NextEvent, EndOfBatch, conns, kernel, TypeInv, TypeOK,
         OwnInv, StageInv, Stage
<1>1. f \in interest[w] /\ f \in Fd /\ f # cur[w] /\ Edge(w, f)
  BY <1>0 DEF EdgesInv, TypeInv, TypeOK, KernelTypeOK, Fd, NoFd
<1>2. CASE WorkerWait(w)
  <2> DEFINE live == {g \in ready[w] : Readiness(fdConn[g]) # {}}
  <2>1. PICK B \in SUBSET live :
          /\ ready' = [ready EXCEPT ![w] = live \ B]
          /\ batch' = [batch EXCEPT ![w] =
                         [g \in Fd |-> IF g \in B THEN Readiness(fdConn[g]) ELSE {}]]
    BY <1>2 DEF WorkerWait
  <2>2. Pending(w) = {} /\ cur' = cur
    BY <1>2 DEF WorkerWait, OwnInv, StageInv, Stage
  <2>3. ready'[w] = live \ B /\ batch'[w][f] = IF f \in B THEN Readiness(fdConn[f]) ELSE {}
    BY <1>0, <1>1, <2>1 DEF WorkersTypeOK, TypeInv, TypeOK, KernelTypeOK
  <2>4. ASSUME Unread(fdConn[f]) \/ Gone(fdConn[f])
        PROVE  \/ f \in ready'[w]
               \/ /\ f \in Pending(w)'
                  /\ Gone(fdConn[f]) => batch'[w][f] \cap HangUp # {}
    <3>1. f \in ready[w]
      BY <1>1, <2>2, <2>4 DEF Edge, Pending
    <3>2. f \in live
      BY <2>4, <3>1, ReadinessSays
    <3> QED BY <1>1, <2>3, <3>2, ReadinessSays DEF Pending
  <2> QED BY <1>0, <1>1, <2>2, <2>4 DEF Edge, Discharged, Gone, Unread
<1>3. CASE NextEvent(w)
  <2>1. PICK g \in Pending(w) :
          /\ cur'[w] = g
          /\ wpc'[w] = IF batch[w][g] \cap {"HUP", "ERR"} # {} THEN "errLoad"
                       ELSE IF "IN" \in batch[w][g] THEN "recv" ELSE "abort"
    BY <1>0, <1>3 DEF NextEvent, WorkersTypeOK, Pending
  <2>2. UNCHANGED <<batch, ready>> /\ wpc[w] = "next"
    BY <1>3 DEF NextEvent, kernel
  <2>3. ~Discharged(w, g) /\ ~Discharged(w, f)'
    BY <2>1, <2>2 DEF Discharged
  <2>4. "IN" \in batch[w][g] /\ (batch[w][g] \cap {"HUP", "ERR"} # {} => Gone(fdConn[g]))
    BY <2>3 DEF EventsInv, EventTrue, HangUp
  <2>5. Unread(fdConn[f]) /\ ~Gone(fdConn[f]) /\ cur'[w] = f => wpc'[w] = "recv"
    BY <2>1, <2>4
  <2>6. f \in Pending(w) <=> f \in Pending(w)'
    BY <2>2 DEF Pending
  <2> QED BY <1>0, <1>1, <2>2, <2>3, <2>5, <2>6 DEF Edge, Gone, Unread
<1>4. CASE EndOfBatch(w)
  <2>1. UNCHANGED <<batch, ready, cur>> /\ Pending(w) = {}
    BY <1>4 DEF EndOfBatch, kernel
  <2>2. ~Discharged(w, f)' /\ batch[w][f] = {}
    BY <1>1, <2>1 DEF Discharged, Pending
  <2> QED BY <1>0, <1>1, <2>1, <2>2 DEF Edge, Pending, Gone, Unread
<1> QED BY <1>2, <1>3, <1>4

\* Every arrival on a connection puts its descriptor on the ready list, and so
\* does a registration that comes after the arrival.
LEMMA OutsideEdges ==
  ASSUME TypeInv, OwnInv, PlacesInv, EdgesInv, [Next]_vars,
         ~(\E w \in Worker : WorkerStep(w)), NEW v \in Worker, NEW f \in interest'[v]
  PROVE  Edge(v, f)'
<1>0. UNCHANGED <<wpc, batch, cur>>
  BY WorkersStill DEF workers
<1>1. ASSUME f \in interest[v],
             f \in ready[v] => f \in ready'[v],
             \/ f \in ready'[v]
             \/ /\ sock'[fdConn[f]] = sock[fdConn[f]]
                /\ sent'[fdConn[f]] = sent[fdConn[f]]
                /\ recvd'[fdConn[f]] = recvd[fdConn[f]]
      PROVE  Edge(v, f)'
  <2>1. Edge(v, f) /\ fdConn'[f] = fdConn[f]
    BY <1>1, OutsideWorkers DEF EdgesInv
  <2>2. (Discharged(v, f)' <=> Discharged(v, f)) /\ (f \in Pending(v)' <=> f \in Pending(v))
    BY <1>0 DEF Discharged, Pending
  <2> QED BY <1>0, <1>1, <2>1, <2>2 DEF Edge, Gone, Unread
<1>2. ASSUME NEW c \in Conn, ClientStep(c) \/ Kill(c)
      PROVE  Edge(v, f)'
  <2>1. /\ interest' = interest /\ ready' = Woken(c) /\ recvd' = recvd
        /\ sock' = sock \/ \E s \in {"fin", "reset"} : sock' = [sock EXCEPT ![c] = s]
        /\ sent' = sent \/ sent' = [sent EXCEPT ![c] = @ + 1]
    BY <1>2 DEF ClientStep, SendMessage, CloseSocket, Kill
  <2>2. f \in interest[v] /\ (f \in ready[v] => f \in ready'[v])
    BY <2>1 DEF Woken
  <2>3. fdConn[f] = c => f \in ready'[v]
    BY <2>1, <2>2 DEF Woken
  <2>4. fdConn[f] # c => /\ sock'[fdConn[f]] = sock[fdConn[f]]
                         /\ sent'[fdConn[f]] = sent[fdConn[f]]
    BY <2>1, <2>2, OutsideWorkers DEF TypeInv, TypeOK, ConnsTypeOK
  <2> QED BY <1>1, <2>1, <2>2, <2>3, <2>4
<1>3. ASSUME NEW c \in Conn, Connect(c)
      PROVE  Edge(v, f)'
  <2>1. /\ UNCHANGED <<interest, ready, sent, recvd>> /\ sock[c] = "none"
        /\ sock' = [sock EXCEPT ![c] = "established"]
    BY <1>3 DEF Connect
  <2>2. fdConn[f] # c
    BY <2>1 DEF OwnInv, FdsInv, PlacesInv, TypeInv, TypeOK, KernelTypeOK
  <2> QED BY <1>1, <2>1, <2>2 DEF TypeInv, TypeOK, ConnsTypeOK
<1>4. CASE AddToWorker
  <2>1. PICK n \in Worker :
          /\ interest' = [interest EXCEPT ![n] = @ \cup {fdNew}]
          /\ ready' = IF Readiness(fdConn[fdNew]) = {} THEN ready
                      ELSE [ready EXCEPT ![n] = @ \cup {fdNew}]
    BY <1>4 DEF AddToWorker
  <2>2. UNCHANGED <<sock, sent, recvd, fdConn>>
    BY <1>4 DEF AddToWorker, conns
  <2>3. \A u \in Worker : ready[u] \subseteq ready'[u]
    BY <2>1 DEF TypeInv, TypeOK, KernelTypeOK
  <2>4. CASE f \in interest[v]
    BY <1>1, <2>2, <2>3, <2>4
  <2>5. CASE f \notin interest[v]
    <3>1. v = n /\ f = fdNew
      BY <2>1, <2>5 DEF TypeInv, TypeOK, KernelTypeOK
    <3>2. Readiness(fdConn[f]) # {} => f \in ready'[v]
      BY <2>1, <3>1 DEF TypeInv, TypeOK, KernelTypeOK
    <3> QED BY <2>2, <3>2, ReadinessSays DEF Edge, Gone, Unread
  <2> QED BY <2>4, <2>5
<1>5. UNCHANGED <<sock, sent, recvd, interest, ready>> => Edge(v, f)'
  BY <1>1
<1>6. ASSUME NEW w \in Worker, WorkerFails(w)
      PROVE  UNCHANGED <<sock, sent, recvd, interest, ready>>
  BY <1>6 DEF WorkerFails, conns, kernel
<1>7. CASE AcceptWait \/ Accept \/ IncLoad \/ IncStore \/ AcceptorFails \/ Rest \/ UNCHANGED vars
  <2>1. UNCHANGED <<sock, sent, recvd, interest, ready>>
    BY <1>7 DEF AcceptWait, Accept, IncLoad, IncStore, AcceptorFails, Rest, vars, conns, kernel
  <2> QED BY <1>5, <2>1
<1> QED BY <1>2, <1>3, <1>4, <1>5, <1>6, <1>7 DEF Next, AcceptorStep

LEMMA NextEdges ==
  ASSUME TypeInv, OwnInv, PlacesInv, CountsInv, EventsInv, HandInv, EdgesInv, [Next]_vars
  PROVE  EdgesInv'
<1> SUFFICES ASSUME NEW v \in Worker, NEW f \in interest'[v] PROVE Edge(v, f)'
  BY DEF EdgesInv
<1>1. ASSUME NEW w \in Worker, WorkerStep(w)
      PROVE  Edge(v, f)'
  <2>1. CASE v # w
    BY <1>1, <2>1, OthersEdges
  <2>2. CASE v = w /\ wpc[w] \notin {"wait", "next"}
    BY <1>1, <2>2, AsideEdges, InHandEdge
  <2>3. CASE v = w /\ wpc[w] \in {"wait", "next"}
    <3>1. WorkerWait(w) \/ NextEvent(w) \/ EndOfBatch(w)
      BY <1>1, <2>3 DEF WorkerStep, Recv, Send, CloseConn, ErrorClose, DecLoad, DecStore
    <3> QED BY <2>3, <3>1, IdleEdges
  <2> QED BY <2>1, <2>2, <2>3
<1>2. CASE ~(\E w \in Worker : WorkerStep(w))
  BY <1>2, OutsideEdges
<1> QED BY <1>1, <1>2
-----------------------------------------------------------------------------
(* Replies.                                                                *)

LEMMA NextReplies ==
  ASSUME TypeInv, OwnInv, PlacesInv, CountsInv, HandInv, RepliesInv, [Next]_vars
  PROVE  RepliesInv'
<1> SUFFICES ASSUME NEW c \in Conn, ~Gone(c)', recvd'[c] # echoed'[c]
             PROVE  \E v \in Worker : wpc'[v] = "send" /\ fdConn'[cur'[v]] = c
  BY DEF RepliesInv, Reply
<1>0. ~Gone(c) /\ Reply(c) /\ WorkersTypeOK
  BY GoneStays DEF RepliesInv, TypeInv, TypeOK
<1>1. ASSUME NEW w \in Worker, WorkerStep(w)
      PROVE  \E v \in Worker : wpc'[v] = "send" /\ fdConn'[cur'[v]] = c
  <2>1. CASE Recv(w) /\ fdConn[cur[w]] = c
    <3>1. Unread(c) /\ wpc' = [wpc EXCEPT ![w] = "send"] /\ Unfinished
      BY <1>0, <2>1 DEF Recv
    <3>2. wpc'[w] = "send" /\ fdConn'[cur'[w]] = c
      BY <1>0, <2>1, <3>1 DEF Recv, kernel, Unfinished, WorkersTypeOK
    <3> QED BY <3>2
  <2>2. CASE Send(w) /\ fdConn[cur[w]] = c
    <3>1. recvd[c] = echoed[c] + 1 /\ recvd' = recvd
      BY <2>2 DEF Send, HandInv, Hand
    <3>2. sock[c] = "established"
      <4>1. cur[w] \in Fd /\ c # NoConn
        BY <2>2, InHand, PoolAssumption DEF Send, Holding
      <4>2. sock[c] # "none" /\ sock[c] \in SockState
        BY <2>2, <4>1 DEF PlacesInv, TypeInv, TypeOK, ConnsTypeOK
      <4> QED BY <1>0, <4>2 DEF Gone, SockState
    <3>3. echoed'[c] = echoed[c] + 1
      BY <2>2, <3>2 DEF Send, TypeInv, TypeOK, ConnsTypeOK
    <3> QED BY <3>1, <3>3
  <2>3. CASE ~((Recv(w) \/ Send(w)) /\ fdConn[cur[w]] = c)
    <3>1. recvd'[c] = recvd[c] /\ echoed'[c] = echoed[c]
      <4>1. CASE fdConn[cur[w]] # c
        BY <1>1, <4>1, WorkerReach
      <4>2. CASE ~(Recv(w) \/ Send(w))
        BY <1>1, <4>2 DEF WorkerStep, WorkerWait, NextEvent, EndOfBatch, CloseConn, ErrorClose,
                          DecLoad, DecStore, conns
      <4> QED BY <2>3, <4>1, <4>2
    <3>2. PICK v \in Worker : wpc[v] = "send" /\ fdConn[cur[v]] = c
      BY <1>0, <3>1 DEF Reply
    <3>3. v # w
      BY <1>1, <2>3, <3>2 DEF WorkerStep, WorkerWait, NextEvent, EndOfBatch, Recv,
                              CloseConn, ErrorClose, DecLoad, DecStore
    <3>4. cur[v] \in interest[v]
      BY <3>2, InHand DEF Holding
    <3>5. wpc'[v] = "send" /\ cur'[v] = cur[v] /\ fdConn'[cur[v]] = c
      BY <1>0, <1>1, <3>2, <3>3, <3>4, OthersKept, OthersConn
    <3> QED BY <3>5
  <2> QED BY <2>1, <2>2, <2>3
<1>2. CASE ~(\E w \in Worker : WorkerStep(w))
  <2>1. UNCHANGED <<wpc, cur>>
    BY <1>2, WorkersStill DEF workers
  <2>2. recvd[c] # echoed[c]
    BY <1>2, UnreadStays
  <2>3. PICK v \in Worker : wpc[v] = "send" /\ fdConn[cur[v]] = c
    BY <1>0, <2>2 DEF Reply
  <2>4. cur[v] \in interest[v]
    BY <2>3, InHand DEF Holding
  <2>5. fdConn'[cur[v]] = c
    BY <1>2, <2>3, <2>4, OutsideWorkers
  <2> QED BY <2>1, <2>3, <2>5
<1> QED BY <1>1, <1>2
-----------------------------------------------------------------------------
(* The invariants the runs check.                                          *)

LEMMA NextSession == TypeInv /\ OwnInv /\ SessionInv /\ [Next]_vars => SessionInv'
  BY NextPlaces, NextCounts, NextEvents, NextHand, NextEdges, NextReplies DEF SessionInv

LEMMA AlwaysSession == Spec => [](TypeInv /\ OwnInv /\ SessionInv)
  BY InitSession, NextSession, AlwaysOwn, PTL DEF Spec

\* With edge-triggered epoll no request and no hang-up is dropped: it is on a
\* ready list or in the unhandled part of a worker's batch.
THEOREM EdgesKept == Spec => []NoEdgeLost
<1>1. ASSUME TypeInv, SessionInv
      PROVE  NoEdgeLost
  BY <1>1 DEF SessionInv, EdgesInv, Edge, NoEdgeLost, HangUp
<1> QED BY <1>1, AlwaysSession, PTL

\* The state epoll_wait reported is read after other threads and clients have moved,
\* and a descriptor may have been closed and reused meanwhile. Still each event a
\* worker has not handled is readable, says "hung up" only of a connection its
\* client has left, and has a message or an end of stream to read until that is
\* read (EpollServer_Final/Server.cpp:213-246).
THEOREM EventsStillTrue == Spec => []EventsInv
<1>1. SessionInv => EventsInv
  BY DEF SessionInv
<1> QED BY <1>1, AlwaysSession, PTL

\* recv is called only where it has something to say: readSocket never spins.
THEOREM ReadsFounded == Spec => []NoSpuriousRead
<1>1. ASSUME TypeInv, OwnInv, SessionInv, NEW w \in Worker, wpc[w] = "recv"
      PROVE  Unread(fdConn[cur[w]]) \/ Gone(fdConn[cur[w]])
  <2>1. cur[w] \in Pending(w) /\ ~Discharged(w, cur[w])
    BY <1>1, InHand DEF Holding
  <2> QED BY <1>1, <2>1 DEF SessionInv, EventsInv, EventTrue
<1>2. TypeInv /\ OwnInv /\ SessionInv => NoSpuriousRead
  BY <1>1 DEF NoSpuriousRead
<1> QED BY <1>2, AlwaysSession, PTL

\* The assertion on EPOLLIN holds for every event that reaches it.
THEOREM AssertNeverFails == Spec => []AssertHolds
<1>1. SessionInv => AssertHolds
  BY DEF SessionInv, HandInv, Hand, AssertHolds
<1> QED BY <1>1, AlwaysSession, PTL

\* No client can kill the process by closing before its echoes are sent.
THEOREM SendsSafe == Spec => []NoSigpipe
<1>1. SessionInv => NoSigpipe
  BY DEF SessionInv, HandInv, Hand, NoSigpipe
<1> QED BY <1>1, AlwaysSession, PTL

\* What was read from a client that is still there is echoed, or about to be, by
\* one worker.
THEOREM RepliesKept == Spec => []NoReplyLost
<1>1. ASSUME TypeInv, SessionInv, NEW c \in Conn, sock[c] = "established", recvd[c] # echoed[c]
      PROVE  /\ recvd[c] = echoed[c] + 1
             /\ \E w \in Worker : wpc[w] = "send" /\ fdConn[cur[w]] = c
  <2>1. PICK w \in Worker : wpc[w] = "send" /\ fdConn[cur[w]] = c
    BY <1>1 DEF SessionInv, RepliesInv, Reply, Gone
  <2> QED BY <1>1, <2>1 DEF SessionInv, HandInv, Hand
<1>2. TypeInv /\ SessionInv => NoReplyLost
  BY <1>1 DEF NoReplyLost
<1> QED BY <1>2, AlwaysSession, PTL
-----------------------------------------------------------------------------
(* The server implements the echo service.                                 *)

Held(c) == \E f \in Fd : fdConn[f] = c

LEMMA ClientIs ==
  ASSUME TypeInv, NEW c \in Conn
  PROVE  /\ sock[c] = "none" => clientView[c] = "absent"
         /\ sock[c] = "established" => clientView[c] = "present"
         /\ Gone(c) => clientView[c] = "left"
  BY DEF clientView, Gone

LEMMA ServerIs ==
  ASSUME PlacesInv, NEW c \in Conn
  PROVE  /\ sock[c] = "none" \/ c \in Waiting => serverView[c] = "none"
         /\ sock[c] # "none" /\ c \notin Waiting /\ Held(c) => serverView[c] = "held"
         /\ sock[c] # "none" /\ c \notin Waiting /\ ~Held(c) => serverView[c] = "released"
<1>1. sock[c] = "none" \/ c \in Waiting => ~Held(c)
  BY PoolAssumption DEF Held, PlacesInv
<1> QED BY <1>1 DEF serverView, Held

LEMMA ClientViewKept ==
  ASSUME \A c \in Conn : sock'[c] = sock[c] \/ (Gone(c) /\ Gone(c)')
  PROVE  clientView' = clientView
<1> SUFFICES ASSUME NEW c \in Conn
             PROVE  (CASE sock'[c] = "none"        -> "absent"
                       [] sock'[c] = "established" -> "present"
                       [] OTHER                    -> "left") = clientView[c]
  BY DEF clientView
<1>1. CASE sock'[c] = sock[c]
  BY <1>1 DEF clientView
<1>2. CASE Gone(c) /\ Gone(c)'
  BY <1>2 DEF clientView, Gone
<1> QED BY <1>1, <1>2

\* The server's view of the connections c that keep their place.
SamePlace(c) ==
  /\ (sock'[c] = "none" \/ c \in Waiting') <=> (sock[c] = "none" \/ c \in Waiting)
  /\ (\E f \in Fd : fdConn'[f] = c) <=> (\E f \in Fd : fdConn[f] = c)

LEMMA ServerViewMoves ==
  ASSUME NEW S \in SUBSET Conn, \A c \in Conn \ S : SamePlace(c)
  PROVE  \A c \in Conn \ S : serverView'[c] = serverView[c]
  BY DEF serverView, SamePlace

LEMMA ServerViewChanges ==
  ASSUME NEW c \in Conn, \A d \in Conn \ {c} : serverView'[d] = serverView[d]
  PROVE  serverView' = [serverView EXCEPT ![c] = serverView'[c]]
<1>1. serverView = [d \in Conn |-> serverView[d]] /\ serverView' = [d \in Conn |-> serverView'[d]]
  BY DEF serverView
<1> QED BY <1>1

LEMMA ServerViewKept ==
  ASSUME \A c \in Conn : SamePlace(c)
  PROVE  serverView' = serverView
<1>1. \A c \in Conn : serverView'[c] = serverView[c]
  BY ServerViewMoves
<1> QED BY <1>1 DEF serverView

\* Steps that move no connection and leave the clients' sockets where they are.
LEMMA Stutters ==
  ASSUME UNCHANGED <<sent, echoed, backlog, fdConn>>,
         \A c \in Conn : sock'[c] = sock[c] \/ (Gone(c) /\ Gone(c)')
  PROVE  UNCHANGED <<clientView, serverView, sent, echoed>>
<1>1. Waiting' = Waiting
  BY DEF Waiting
<1>2. \A c \in Conn : SamePlace(c)
  BY <1>1 DEF SamePlace, Gone
<1> QED BY <1>2, ClientViewKept, ServerViewKept

LEMMA InitEcho == Init => Echo!Init
<1> SUFFICES ASSUME Init PROVE Echo!Init
  OBVIOUS
<1>1. \A c \in Conn : sock[c] = "none"
  BY DEF Init
<1>2. clientView = [c \in Conn |-> "absent"]
  BY <1>1 DEF clientView
<1>3. \A c \in Conn, f \in Fd : fdConn[f] # c
  BY PoolAssumption DEF Init
<1>4. serverView = [c \in Conn |-> "none"]
  BY <1>1, <1>3 DEF serverView
<1> QED BY <1>2, <1>4 DEF Init, Echo!Init

LEMMA ClientEcho ==
  ASSUME TypeInv, PlacesInv, [Next]_vars,
         NEW c \in Conn, Connect(c) \/ ClientStep(c) \/ Kill(c)
  PROVE  Echo!Arrive(c) \/ Echo!Ask(c, 1) \/ Echo!Leave(c)
<1>0. sock \in [Conn -> SockState] /\ clientView \in [Conn -> {"absent", "present", "left"}]
  BY DEF TypeInv, TypeOK, ConnsTypeOK, clientView
<1>1. CASE Connect(c)
  <2>1. /\ sock[c] = "none" /\ UNCHANGED <<sent, echoed, fdConn>>
        /\ \A d \in Conn : sock'[d] = IF d = c THEN "established" ELSE sock[d]
    BY <1>0, <1>1 DEF Connect
  <2>2. Waiting' = Waiting \cup {c}
    BY <1>1, ConnectPlaces
  <2>3. serverView' = serverView
    <3>1. \A d \in Conn : SamePlace(d)
      BY <2>1, <2>2 DEF SamePlace
    <3> QED BY <3>1, ServerViewKept
  <2>4. clientView' = [clientView EXCEPT ![c] = "present"]
    BY <2>1 DEF clientView
  <2> QED BY <2>1, <2>3, <2>4, ClientIs DEF Echo!Arrive
<1>2. CASE SendMessage(c)
  <2>1. /\ sock[c] = "established" /\ sent' = [sent EXCEPT ![c] = @ + 1]
        /\ UNCHANGED <<sock, echoed, backlog, fdConn>>
    BY <1>2 DEF SendMessage
  <2>2. UNCHANGED <<clientView, serverView>>
    BY <2>1 DEF clientView, serverView, Waiting
  <2> QED BY <2>1, <2>2, ClientIs DEF Echo!Ask
<1>3. CASE CloseSocket(c) \/ Kill(c)
  <2>1. /\ sock[c] = "established" /\ UNCHANGED <<sent, echoed, backlog, fdConn>>
        /\ \E s \in {"fin", "reset"} : sock' = [sock EXCEPT ![c] = s]
    BY <1>3 DEF CloseSocket, Kill
  <2>2. /\ \A d \in Conn \ {c} : sock'[d] = sock[d]
        /\ sock'[c] \in {"fin", "reset"}
    BY <1>0, <2>1
  <2>3. serverView' = serverView
    <3>1. Waiting' = Waiting
      BY <2>1 DEF Waiting
    <3>2. \A d \in Conn : SamePlace(d)
      BY <2>1, <2>2, <3>1 DEF SamePlace
    <3> QED BY <3>2, ServerViewKept
  <2>4. clientView' = [clientView EXCEPT ![c] = "left"]
    BY <2>2 DEF clientView
  <2> QED BY <2>1, <2>3, <2>4, ClientIs DEF Echo!Leave
<1> QED BY <1>1, <1>2, <1>3 DEF ClientStep

LEMMA AcceptEcho ==
  ASSUME TypeInv, PlacesInv, PlacesInv', [Next]_vars, Accept
  PROVE  (\E c \in Conn : Echo!Admit(c)) \/ UNCHANGED Echo!vars
<1>1. UNCHANGED <<sock, sent, echoed>>
  BY DEF Accept, conns
<1>2. CASE UNCHANGED <<backlog, fdConn>>
  BY <1>1, <1>2, Stutters DEF Echo!vars
<1>3. CASE ~UNCHANGED <<backlog, fdConn>>
  <2>1. PICK f \in Fd, c \in Waiting :
          /\ fdConn[f] = NoConn
          /\ \A g \in Fd : fdConn'[g] = IF g = f THEN c ELSE fdConn[g]
          /\ Waiting' = Waiting \ {c}
    BY <1>3, AcceptMoves
  <2>2. c \in Conn /\ sock[c] # "none" /\ sock'[c] # "none" /\ NoConn \notin Conn
    BY <1>1, PoolAssumption DEF PlacesInv, Waiting, TypeInv, TypeOK, KernelTypeOK
  <2>3. \A d \in Conn \ {c} : SamePlace(d)
    BY <1>1, <2>1, <2>2 DEF SamePlace
  <2>4. \A d \in Conn \ {c} : serverView'[d] = serverView[d]
    BY <2>2, <2>3, ServerViewMoves
  <2>5. serverView[c] = "none"
    BY <2>1, <2>2, ServerIs
  <2>6. serverView'[c] = "held"
    BY <1>1, <2>1, <2>2 DEF serverView
  <2>7. serverView' = [serverView EXCEPT ![c] = "held"]
    BY <2>2, <2>4, <2>6, ServerViewChanges
  <2>8. clientView' = clientView /\ clientView[c] # "absent"
    BY <1>1, <2>2 DEF clientView
  <2> QED BY <1>1, <2>2, <2>5, <2>7, <2>8 DEF Echo!Admit
<1> QED BY <1>2, <1>3

\* A worker closes only what its client has left.
LEMMA CloseEcho ==
  ASSUME TypeInv, OwnInv, SessionInv, [Next]_vars,
         NEW w \in Worker, CloseConn(w) \/ ErrorClose(w)
  PROVE  \E c \in Conn : Echo!Release(c)
<1> DEFINE f == cur[w]
           c == fdConn[f]
<1>0. PlacesInv /\ wpc[w] \in {"close", "errClose"}
  BY DEF SessionInv, CloseConn, ErrorClose
<1>1. f \in Fd /\ c \in Conn /\ c # NoConn
  BY <1>0, InHand, PoolAssumption DEF Holding
<1>2. Gone(c)
  BY <1>0 DEF SessionInv, HandInv, Hand
<1>3. /\ UNCHANGED <<sock, sent, echoed, backlog>>
      /\ \A g \in Fd : fdConn'[g] = IF g = f THEN NoConn ELSE fdConn[g]
  BY DEF CloseConn, ErrorClose, Closed, conns, TypeInv, TypeOK, KernelTypeOK
<1>4. Waiting' = Waiting
  BY <1>3 DEF Waiting
<1>5. sock[c] # "none" /\ c \notin Waiting /\ Held(c)
  BY <1>0, <1>1 DEF PlacesInv, Held
<1>6. \A g \in Fd : fdConn'[g] # c
  BY <1>0, <1>1, <1>3 DEF PlacesInv
<1>7. \A d \in Conn \ {c} : SamePlace(d)
  BY <1>1, <1>3, <1>4, PoolAssumption DEF SamePlace
<1>8. \A d \in Conn \ {c} : serverView'[d] = serverView[d]
  BY <1>1, <1>7, ServerViewMoves
<1>9. serverView[c] = "held"
  BY <1>0, <1>1, <1>5, ServerIs
<1>10. serverView'[c] = "released"
  BY <1>1, <1>3, <1>4, <1>5, <1>6 DEF serverView
<1>11. serverView' = [serverView EXCEPT ![c] = "released"]
  BY <1>1, <1>8, <1>10, ServerViewChanges
<1>12. clientView' = clientView /\ clientView[c] = "left"
  BY <1>1, <1>2, <1>3, ClientIs DEF clientView
<1> QED BY <1>1, <1>3, <1>9, <1>11, <1>12 DEF Echo!Release

LEMMA SendEcho ==
  ASSUME TypeInv, OwnInv, SessionInv, [Next]_vars, NEW w \in Worker, Send(w)
  PROVE  (\E c \in Conn : Echo!Answer(c, 1)) \/ UNCHANGED Echo!vars
<1> DEFINE c == fdConn[cur[w]]
<1>0. /\ PlacesInv /\ wpc[w] = "send"
      /\ UNCHANGED <<sent, recvd, backlog, fdConn>>
  BY DEF SessionInv, Send
<1>1. cur[w] \in Fd /\ c \in Conn /\ c # NoConn
  BY <1>0, InHand, PoolAssumption DEF Holding
<1>2. CASE sock[c] = "established"
  <2>1. sock' = sock /\ echoed' = [echoed EXCEPT ![c] = @ + 1]
    BY <1>2 DEF Send
  <2>2. UNCHANGED <<clientView, serverView>>
    BY <1>0, <2>1 DEF clientView, serverView, Waiting
  <2>3. serverView[c] = "held"
    <3>1. Held(c) /\ c \notin Waiting
      BY <1>0, <1>1 DEF Held, PlacesInv
    <3> QED BY <1>0, <1>1, <1>2, <3>1, ServerIs
  <2>4. echoed[c] + 1 <= sent[c]
    BY <1>0, <1>1 DEF SessionInv, HandInv, Hand, CountsInv, Lockstep
  <2> QED BY <1>0, <1>1, <2>1, <2>2, <2>3, <2>4 DEF Echo!Answer
<1>3. CASE sock[c] # "established"
  <2>1. echoed' = echoed
    BY <1>3 DEF Send
  <2>2. \A d \in Conn : sock'[d] = sock[d] \/ (Gone(d) /\ Gone(d)')
    BY DEF Send, Gone, TypeInv, TypeOK, ConnsTypeOK
  <2> QED BY <1>0, <2>1, <2>2, Stutters DEF Echo!vars
<1> QED BY <1>2, <1>3

LEMMA NextEcho ==
  ASSUME TypeInv, OwnInv, SessionInv, [Next]_vars
  PROVE  [Echo!Next]_Echo!vars
<1>0. PlacesInv /\ PlacesInv'
  BY NextPlaces DEF SessionInv
<1>1. ASSUME NEW c \in Conn, Connect(c) \/ ClientStep(c) \/ Kill(c)
      PROVE  Echo!Next
  BY <1>0, <1>1, ClientEcho DEF Echo!Next
<1>2. CASE Accept
  BY <1>0, <1>2, AcceptEcho DEF Echo!Next
<1>3. ASSUME NEW w \in Worker, CloseConn(w) \/ ErrorClose(w)
      PROVE  Echo!Next
  BY <1>3, CloseEcho DEF Echo!Next
<1>4. ASSUME NEW w \in Worker, Send(w)
      PROVE  [Echo!Next]_Echo!vars
  BY <1>4, SendEcho DEF Echo!Next
<1>5. UNCHANGED <<sock, sent, echoed, backlog, fdConn>> => UNCHANGED Echo!vars
  BY Stutters DEF Echo!vars
<1>6. ASSUME NEW w \in Worker,
             \/ WorkerWait(w) \/ NextEvent(w) \/ EndOfBatch(w) \/ Recv(w)
             \/ DecLoad(w) \/ DecStore(w) \/ WorkerFails(w)
      PROVE  UNCHANGED <<sock, sent, echoed, backlog, fdConn>>
  BY <1>6 DEF WorkerWait, NextEvent, EndOfBatch, Recv, DecLoad, DecStore, WorkerFails,
              conns, kernel
<1>7. CASE AcceptWait \/ AddToWorker \/ IncLoad \/ IncStore \/ AcceptorFails \/ Rest \/ UNCHANGED vars
  BY <1>5, <1>7 DEF AcceptWait, AddToWorker, IncLoad, IncStore, AcceptorFails, Rest, vars,
                    conns, kernel
<1> QED
  BY <1>1, <1>2, <1>3, <1>4, <1>5, <1>6, <1>7 DEF Next, AcceptorStep, WorkerStep

\* The accept thread and the workers together implement the echo service: a
\* connection is admitted once, answered no more than it asked, and released only
\* when its client has left.
THEOREM ImplementsEcho == Spec => EchoSpec
<1>1. Init => Echo!Init
  BY InitEcho
<1>2. TypeInv /\ OwnInv /\ SessionInv /\ [Next]_vars => [Echo!Next]_Echo!vars
  BY NextEcho
<1> QED BY <1>1, <1>2, AlwaysSession, PTL DEF Spec, EchoSpec, Echo!Spec
=============================================================================
