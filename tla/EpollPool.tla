------------------------------ MODULE EpollPool ------------------------------
(***************************************************************************)
(* The threaded epoll server of EpollServer_Final: one accept thread hands *)
(* every new connection to one of NUM_WORKERS worker threads, each with an *)
(* epoll instance of its own (Server.cpp, acceptConnections and worker).   *)
(*                                                                         *)
(* Modelled here: the descriptor table and its reuse, the edge-triggered   *)
(* ready lists, the event batches the workers hold while the world moves   *)
(* on, the unlocked per-thread client counters, and the process exits the  *)
(* code takes on failure.  Messages are whole (a client sends BUFLEN bytes *)
(* and one recv returns them): what readSocket does with a part of a       *)
(* message is not modelled in this module.  A local variable goes back to  *)
(* its initial value when the code will not read it again.                 *)
(***************************************************************************)
EXTENDS Integers, Sequences, FiniteSets

CONSTANTS
  Conn,            \* the connections clients may open, one per client process
  NoConn,          \* "no connection": a descriptor that is not open
  NumWorkers,      \* NUM_WORKERS
  MaxFd,           \* descriptors the process may have open for clients
  NumMessages,     \* NUM_MESSAGES, requests each client makes
  Backlog,         \* SOMAXCONN, length of the listen queue
  QueueLen,        \* EPOLL_QUEUE_LEN, events one epoll_wait returns
  MaxFaults        \* bound on the failing system calls of a behaviour

ASSUME PoolAssumption ==
  /\ NoConn \notin Conn
  /\ NumWorkers \in Nat \ {0}
  /\ MaxFd \in Nat \ {0}
  /\ NumMessages \in Nat
  /\ Backlog \in Nat \ {0}
  /\ QueueLen \in Nat \ {0}
  /\ MaxFaults \in Nat

Worker == 0 .. NumWorkers - 1
Fd     == 1 .. MaxFd
NoFd   == 0

VARIABLES
  \* clients, and the server's end of each TCP connection
  sock,            \* [Conn -> SockState]
  sent,            \* messages the client has sent
  recvd,           \* messages the server has received with recv
  echoed,          \* replies that have reached the client
  \* the kernel's view of the server process
  backlog,         \* connections waiting in the listen queue
  fdConn,          \* the descriptor table: [Fd -> Conn \cup {NoConn}]
  interest,        \* descriptors registered with each worker's epoll instance
  ready,           \* each epoll instance's list of ready descriptors
  \* the accept thread
  apc,             \* where acceptConnections stands
  fdNew,           \* acceptThrdParams->fd_new
  pick,            \* n, the worker drawn by rand()
  areg,            \* the value numClientsInThread[n]++ has loaded
  \* the worker threads
  wpc,             \* where each worker stands
  batch,           \* worker_events: the event bits still to handle, by descriptor
  cur,             \* descriptor of the event being handled
  wreg,            \* the value numClientsInThread[index]-- has loaded
  \* shared
  numClientsInThread,
  running,         \* FALSE once the process has exited
  faults,          \* failing system calls so far
  \* history
  about,           \* the connection each event in a batch was reported for
  overlaps         \* how often two updates of a thread's counter overlapped

conns    == <<sock, sent, recvd, echoed>>
kernel   == <<backlog, fdConn, interest, ready>>
acceptor == <<apc, fdNew, pick, areg>>
workers  == <<wpc, batch, cur, wreg, about>>
counters == <<numClientsInThread, overlaps>>
process  == <<running, faults>>
vars     == <<conns, kernel, acceptor, workers, counters, process>>

-----------------------------------------------------------------------------
(* The kernel: sockets and epoll.                                          *)

\* "broken" is a reset that arrived after the peer's FIN: the next send
\* raises SIGPIPE.  After a plain "reset" the next send returns ECONNRESET.
SockState == {"none", "established", "fin", "reset", "broken"}
Gone(c)   == sock[c] \in {"fin", "reset", "broken"}
Unread(c) == sent[c] > recvd[c]

\* Mutants: a bit forgotten in the registration.
RegisteredWithoutRdhup == {"IN", "ERR", "HUP"}
RegisteredWithoutIn    == {"ERR", "HUP", "RDHUP"}

\* worker_event[i].events (EPOLLET selects the delivery rule below).
Registered == {"IN", "ERR", "HUP", "RDHUP"}
Bits       == {"IN", "ERR", "HUP", "RDHUP"}

\* The bits epoll_wait reports for a connection; ERR and HUP always pass.
Readiness(c) ==
  LET raw == (IF Unread(c) \/ Gone(c) THEN {"IN"} ELSE {})
             \cup (IF Gone(c) THEN {"RDHUP"} ELSE {})
             \cup (IF sock[c] \in {"reset", "broken"} THEN {"ERR", "HUP"} ELSE {})
  IN  raw \cap (Registered \cup {"ERR", "HUP"})

\* Edge trigger: only an arrival on c puts c's descriptor on a ready list.
Woken(c) == [w \in Worker |-> ready[w] \cup {f \in interest[w] : fdConn[f] = c}]

\* A new descriptor is the lowest that is free.
FreeFd    == {f \in Fd : fdConn[f] = NoConn}
Lowest(f) == f \in FreeFd /\ \A g \in FreeFd : f <= g

-----------------------------------------------------------------------------
(* The clients (multi-process-client.c): connect, then send a message and  *)
(* wait for its echo NumMessages times, then close.                        *)

Connect(c) ==
  /\ sock[c] = "none"
  /\ Len(backlog) < Backlog
  /\ sock' = [sock EXCEPT ![c] = "established"]
  /\ backlog' = Append(backlog, c)
  /\ UNCHANGED <<sent, recvd, echoed, fdConn, interest, ready>>
  /\ UNCHANGED <<acceptor, workers, counters, process>>

SendMessage(c) ==
  /\ sock[c] = "established"
  /\ sent[c] = echoed[c] /\ sent[c] < NumMessages
  /\ sent' = [sent EXCEPT ![c] = @ + 1]
  /\ ready' = Woken(c)
  /\ UNCHANGED <<sock, recvd, echoed, backlog, fdConn, interest>>
  /\ UNCHANGED <<acceptor, workers, counters, process>>

CloseSocket(c) ==
  /\ sock[c] = "established"
  /\ sent[c] = echoed[c] /\ sent[c] = NumMessages
  /\ sock' = [sock EXCEPT ![c] = "fin"]
  /\ ready' = Woken(c)
  /\ UNCHANGED <<sent, recvd, echoed, backlog, fdConn, interest>>
  /\ UNCHANGED <<acceptor, workers, counters, process>>

\* A client process that dies early: its kernel sends FIN, or RST when an
\* echo was left unread or the connection is aborted.
Kill(c) ==
  /\ sock[c] = "established"
  /\ \E s \in {"fin", "reset"} : sock' = [sock EXCEPT ![c] = s]
  /\ ready' = Woken(c)
  /\ UNCHANGED <<sent, recvd, echoed, backlog, fdConn, interest>>
  /\ UNCHANGED <<acceptor, workers, counters, process>>

-----------------------------------------------------------------------------
(* The accept thread.                                                      *)

\* epoll_wait on the level-triggered listening socket.
AcceptWait ==
  /\ running /\ apc = "wait" /\ backlog # <<>>
  /\ apc' = "accept"
  /\ UNCHANGED <<fdNew, pick, areg>>
  /\ UNCHANGED <<conns, kernel, workers, counters, process>>

\* Mutant: the result of accept is not compared with -1.
AcceptUnchecked ==
  /\ running /\ apc = "accept"
  /\ IF FreeFd # {}
     THEN /\ \E f \in Fd : Lowest(f) /\ fdNew' = f
                          /\ fdConn' = [fdConn EXCEPT ![f] = Head(backlog)]
          /\ backlog' = Tail(backlog)
     ELSE UNCHANGED <<fdNew, fdConn, backlog>>
  /\ apc' = "add"
  /\ UNCHANGED <<pick, areg, interest, ready>>
  /\ UNCHANGED <<conns, workers, counters, process>>

\* accept fails when no descriptor is free (perror and continue).
Accept ==
  /\ running /\ apc = "accept"
  /\ \/ /\ \E f \in Fd : /\ Lowest(f)
                        /\ fdNew' = f
                        /\ fdConn' = [fdConn EXCEPT ![f] = Head(backlog)]
        /\ backlog' = Tail(backlog)
        /\ apc' = "add"
     \/ /\ FreeFd = {}
        /\ apc' = "wait"
        /\ UNCHANGED <<fdNew, fdConn, backlog>>
  /\ UNCHANGED <<pick, areg, interest, ready>>
  /\ UNCHANGED <<conns, workers, counters, process>>

\* Mutant: the new descriptor is registered with every worker.
AddToEveryWorker ==
  /\ running /\ apc = "add"
  /\ pick' \in Worker
  /\ interest' = [v \in Worker |-> interest[v] \cup {fdNew}]
  /\ ready' = IF Readiness(fdConn[fdNew]) = {} THEN ready
              ELSE [v \in Worker |-> ready[v] \cup {fdNew}]
  /\ apc' = "load"
  /\ UNCHANGED <<fdNew, areg, backlog, fdConn>>
  /\ UNCHANGED <<conns, workers, counters, process>>

\* EPOLL_CTL_ADD polls the new socket once: what arrived before the
\* registration is not lost.
AddToWorker ==
  /\ running /\ apc = "add"
  /\ \E n \in Worker :
       /\ pick' = n
       /\ interest' = [interest EXCEPT ![n] = @ \cup {fdNew}]
       /\ ready' = IF Readiness(fdConn[fdNew]) = {} THEN ready
                   ELSE [ready EXCEPT ![n] = @ \cup {fdNew}]
  /\ apc' = "load"
  /\ UNCHANGED <<fdNew, areg, backlog, fdConn>>
  /\ UNCHANGED <<conns, workers, counters, process>>

\* A worker stands between the load and the store of its decrement.
Updating(w) == wpc[w] \in {"store", "errStore"}

\* numClientsInThread[n]++ is a load and a store; nothing locks the counter.
IncLoad ==
  /\ running /\ apc = "load"
  /\ areg' = numClientsInThread[pick]
  /\ overlaps' = IF Updating(pick) THEN [overlaps EXCEPT ![pick] = @ + 1] ELSE overlaps
  /\ apc' = "store"
  /\ UNCHANGED <<fdNew, pick, numClientsInThread>>
  /\ UNCHANGED <<conns, kernel, workers, process>>

IncStore ==
  /\ running /\ apc = "store"
  /\ numClientsInThread' = [numClientsInThread EXCEPT ![pick] = areg + 1]
  /\ apc' = "wait"
  /\ fdNew' = NoFd /\ pick' = 0 /\ areg' = 0
  /\ UNCHANGED overlaps
  /\ UNCHANGED <<conns, kernel, workers, process>>

\* epoll_wait, fcntl or EPOLL_CTL_ADD returns -1: exit(-1).
AcceptorFails ==
  /\ running /\ apc \in {"wait", "add"}
  /\ faults < MaxFaults
  /\ faults' = faults + 1
  /\ running' = FALSE
  /\ UNCHANGED <<conns, kernel, acceptor, workers, counters>>

AcceptorStep == AcceptWait \/ Accept \/ AddToWorker \/ IncLoad \/ IncStore

-----------------------------------------------------------------------------
(* The worker threads.                                                     *)

Pending(w) == {f \in Fd : batch[w][f] # {}}

\* epoll_wait returns at most QueueLen of the descriptors whose events, polled
\* again now, are not empty, and takes what it looked at off the ready list.
WorkerWait(w) ==
  LET live == {f \in ready[w] : Readiness(fdConn[f]) # {}} IN
  /\ running /\ wpc[w] = "wait" /\ live # {}
  /\ \E B \in SUBSET live :
       /\ B # {} /\ Cardinality(B) <= QueueLen
       /\ Cardinality(B) < QueueLen => B = live
       /\ ready' = [ready EXCEPT ![w] = live \ B]
       /\ batch' = [batch EXCEPT ![w] =
                      [f \in Fd |-> IF f \in B THEN Readiness(fdConn[f]) ELSE {}]]
       /\ about' = [about EXCEPT ![w] =
                      [f \in Fd |-> IF f \in B THEN fdConn[f] ELSE NoConn]]
  /\ wpc' = [wpc EXCEPT ![w] = "next"]
  /\ UNCHANGED <<cur, wreg, backlog, fdConn, interest>>
  /\ UNCHANGED <<conns, acceptor, counters, process>>

\* Mutant: Case 1 closes the connection without counting it out.
NextEventUncounted(w) ==
  /\ running /\ wpc[w] = "next"
  /\ \E f \in Pending(w) :
       /\ cur' = [cur EXCEPT ![w] = f]
       /\ wpc' = [wpc EXCEPT ![w] =
                    IF batch[w][f] \cap {"HUP", "ERR"} # {} THEN "errClose"
                    ELSE IF "IN" \in batch[w][f] THEN "recv" ELSE "abort"]
  /\ UNCHANGED <<batch, wreg, about>>
  /\ UNCHANGED <<conns, kernel, acceptor, counters, process>>

\* Case 1 for an error or a hang-up, else the assertion on EPOLLIN and Case 2.
NextEvent(w) ==
  /\ running /\ wpc[w] = "next"
  /\ \E f \in Pending(w) :
       /\ cur' = [cur EXCEPT ![w] = f]
       /\ wpc' = [wpc EXCEPT ![w] =
                    IF batch[w][f] \cap {"HUP", "ERR"} # {} THEN "errLoad"
                    ELSE IF "IN" \in batch[w][f] THEN "recv" ELSE "abort"]
  /\ UNCHANGED <<batch, wreg, about>>
  /\ UNCHANGED <<conns, kernel, acceptor, counters, process>>

\* Mutant: the loop over the batch stops one event early.
EndOfBatchEarly(w) ==
  /\ running /\ wpc[w] = "next" /\ Cardinality(Pending(w)) <= 1
  /\ wpc' = [wpc EXCEPT ![w] = "wait"]
  /\ batch' = [batch EXCEPT ![w] = [f \in Fd |-> {}]]
  /\ UNCHANGED <<cur, wreg, about>>
  /\ UNCHANGED <<conns, kernel, acceptor, counters, process>>

EndOfBatch(w) ==
  /\ running /\ wpc[w] = "next" /\ Pending(w) = {}
  /\ wpc' = [wpc EXCEPT ![w] = "wait"]
  /\ UNCHANGED <<batch, cur, wreg, about>>
  /\ UNCHANGED <<conns, kernel, acceptor, counters, process>>

\* The event has been handled: the loop moves on.
Consumed(w) ==
  /\ batch' = [batch EXCEPT ![w][cur[w]] = {}]
  /\ about' = [about EXCEPT ![w][cur[w]] = NoConn]
  /\ cur'   = [cur EXCEPT ![w] = NoFd]

Unfinished == UNCHANGED <<batch, about, cur>>

\* Mutant: the connection is closed after one echo.
AfterReadClose(w) == wpc' = [wpc EXCEPT ![w] = "close"] /\ Unfinished

\* After readSocket, Case 3 closes a connection whose peer has hung up.
AfterRead(w) ==
  IF "RDHUP" \in batch[w][cur[w]]
  THEN /\ wpc' = [wpc EXCEPT ![w] = "close"]
       /\ Unfinished
  ELSE /\ wpc' = [wpc EXCEPT ![w] = "next"]
       /\ Consumed(w)

\* Mutant: what was read is not sent back.
RecvOnly(w) ==
  LET c == fdConn[cur[w]] IN
  /\ running /\ wpc[w] = "recv"
  /\ \/ Unread(c) /\ recvd' = [recvd EXCEPT ![c] = @ + 1]
     \/ ~Unread(c) /\ Gone(c) /\ UNCHANGED recvd
  /\ AfterRead(w)
  /\ UNCHANGED <<sock, sent, echoed, wreg>>
  /\ UNCHANGED <<kernel, acceptor, counters, process>>

\* recv in readSocket: a message, or 0 or an error once the peer has gone.
\* With neither, recv says EAGAIN and the loop spins: the step is disabled.
Recv(w) ==
  LET c == fdConn[cur[w]] IN
  /\ running /\ wpc[w] = "recv"
  /\ \/ /\ Unread(c)
        /\ recvd' = [recvd EXCEPT ![c] = @ + 1]
        /\ wpc' = [wpc EXCEPT ![w] = "send"]
        /\ Unfinished
     \/ /\ ~Unread(c) /\ Gone(c)
        /\ AfterRead(w)
        /\ UNCHANGED recvd
  /\ UNCHANGED <<sock, sent, echoed, wreg>>
  /\ UNCHANGED <<kernel, acceptor, counters, process>>

\* Mutant: after the echo the socket is read again, as edge-triggered servers do.
SendAndReadOn(w) ==
  LET c == fdConn[cur[w]] IN
  /\ running /\ wpc[w] = "send"
  /\ echoed' = IF sock[c] = "established" THEN [echoed EXCEPT ![c] = @ + 1] ELSE echoed
  /\ wpc' = [wpc EXCEPT ![w] = "recv"]
  /\ UNCHANGED <<sock, sent, recvd, kernel, batch, cur, wreg, about, process>>
  /\ UNCHANGED <<acceptor, counters>>

\* Mutant: a send that did not reach the client is tried again.
SendUntilDelivered(w) ==
  LET c == fdConn[cur[w]] IN
  /\ running /\ wpc[w] = "send"
  /\ sock' = IF sock[c] = "fin" THEN [sock EXCEPT ![c] = "broken"] ELSE sock
  /\ ready' = IF sock[c] = "fin" THEN Woken(c) ELSE ready
  /\ running' = (sock[c] # "broken")
  /\ IF sock[c] = "established"
     THEN AfterRead(w) /\ echoed' = [echoed EXCEPT ![c] = @ + 1]
     ELSE Unfinished /\ UNCHANGED <<wpc, echoed>>
  /\ UNCHANGED <<sent, recvd, wreg, backlog, fdConn, interest, faults>>
  /\ UNCHANGED <<acceptor, counters>>

\* send in readSocket; its result is ignored.  Data sent to a peer that has
\* closed is answered by a reset; a send after that reset raises SIGPIPE.
Send(w) ==
  LET c == fdConn[cur[w]] IN
  /\ running /\ wpc[w] = "send"
  /\ echoed' = IF sock[c] = "established" THEN [echoed EXCEPT ![c] = @ + 1] ELSE echoed
  /\ sock' = IF sock[c] = "fin" THEN [sock EXCEPT ![c] = "broken"] ELSE sock
  /\ ready' = IF sock[c] = "fin" THEN Woken(c) ELSE ready
  /\ running' = (sock[c] # "broken")
  /\ AfterRead(w)
  /\ UNCHANGED <<sent, recvd, wreg, backlog, fdConn, interest, faults>>
  /\ UNCHANGED <<acceptor, counters>>

\* close(fd) frees the descriptor and takes it out of every epoll instance.
Closed(f) ==
  /\ fdConn'   = [fdConn EXCEPT ![f] = NoConn]
  /\ interest' = [v \in Worker |-> interest[v] \ {f}]
  /\ ready'    = [v \in Worker |-> ready[v] \ {f}]

\* Case 3 closes the descriptor first and then counts it out.
CloseConn(w) ==
  /\ running /\ wpc[w] = "close"
  /\ Closed(cur[w])
  /\ wpc' = [wpc EXCEPT ![w] = "load"]
  /\ UNCHANGED <<backlog, batch, cur, wreg, about>>
  /\ UNCHANGED <<conns, acceptor, counters, process>>

\* Mutant: Case 1 without its continue goes on to Case 2.
ErrorCloseAndRead(w) ==
  /\ running /\ wpc[w] = "errClose"
  /\ Closed(cur[w])
  /\ wpc' = [wpc EXCEPT ![w] = "recv"]
  /\ Unfinished
  /\ UNCHANGED <<backlog, wreg>>
  /\ UNCHANGED <<conns, acceptor, counters, process>>

\* Case 1 counts the connection out first and then closes the descriptor.
ErrorClose(w) ==
  /\ running /\ wpc[w] = "errClose"
  /\ Closed(cur[w])
  /\ wpc' = [wpc EXCEPT ![w] = "next"]
  /\ Consumed(w)
  /\ UNCHANGED <<backlog, wreg>>
  /\ UNCHANGED <<conns, acceptor, counters, process>>

\* numClientsInThread[index]--, the same load and store from either case.
DecLoad(w) ==
  /\ running /\ wpc[w] \in {"load", "errLoad"}
  /\ wreg' = [wreg EXCEPT ![w] = numClientsInThread[w]]
  /\ overlaps' = IF apc = "store" /\ pick = w
                 THEN [overlaps EXCEPT ![w] = @ + 1] ELSE overlaps
  /\ wpc' = [wpc EXCEPT ![w] = IF @ = "load" THEN "store" ELSE "errStore"]
  /\ UNCHANGED <<numClientsInThread, batch, cur, about>>
  /\ UNCHANGED <<conns, kernel, acceptor, process>>

DecStore(w) ==
  /\ running /\ wpc[w] \in {"store", "errStore"}
  /\ numClientsInThread' = [numClientsInThread EXCEPT ![w] = wreg[w] - 1]
  /\ \/ /\ wpc[w] = "store"
        /\ wpc' = [wpc EXCEPT ![w] = "next"]
        /\ Consumed(w)
     \/ /\ wpc[w] = "errStore"
        /\ wpc' = [wpc EXCEPT ![w] = "errClose"]
        /\ Unfinished
  /\ wreg' = [wreg EXCEPT ![w] = 0]
  /\ UNCHANGED overlaps
  /\ UNCHANGED <<conns, kernel, acceptor, process>>

\* epoll_wait returns -1: exit(-1) takes every thread with it.
WorkerFails(w) ==
  /\ running /\ wpc[w] = "wait"
  /\ faults < MaxFaults
  /\ faults' = faults + 1
  /\ running' = FALSE
  /\ UNCHANGED <<conns, kernel, acceptor, workers, counters>>

WorkerStep(w) ==
  \/ WorkerWait(w) \/ NextEvent(w) \/ EndOfBatch(w)
  \/ Recv(w) \/ Send(w) \/ CloseConn(w) \/ ErrorClose(w)
  \/ DecLoad(w) \/ DecStore(w)

-----------------------------------------------------------------------------
\* startServer has created the epoll instances and the threads.  (A start-up call that
\* fails ends the process, as AcceptorFails may at once.  A thread that pthread_create
\* did not create, which nobody checks, takes no step: Spec allows it, FairSpec does not.)
Init ==
  /\ sock     = [c \in Conn |-> "none"]
  /\ sent     = [c \in Conn |-> 0]
  /\ recvd    = [c \in Conn |-> 0]
  /\ echoed   = [c \in Conn |-> 0]
  /\ backlog  = <<>>
  /\ fdConn   = [f \in Fd |-> NoConn]
  /\ interest = [w \in Worker |-> {}]
  /\ ready    = [w \in Worker |-> {}]
  /\ apc = "wait" /\ fdNew = NoFd /\ pick = 0 /\ areg = 0
  /\ wpc      = [w \in Worker |-> "wait"]
  /\ batch    = [w \in Worker |-> [f \in Fd |-> {}]]
  /\ about    = [w \in Worker |-> [f \in Fd |-> NoConn]]
  /\ cur      = [w \in Worker |-> NoFd]
  /\ wreg     = [w \in Worker |-> 0]
  /\ numClientsInThread = [w \in Worker |-> 0]
  /\ overlaps = [w \in Worker |-> 0]
  /\ running = TRUE /\ faults = 0

\* Every client has come and gone and its connection is closed, or the process
\* has exited: the threads sleep in epoll_wait, or are no more.
Quiescent ==
  /\ \A c \in Conn : Gone(c)
  /\ \A f \in Fd : fdConn[f] = NoConn
  /\ backlog = <<>> /\ apc = "wait"
  /\ \A w \in Worker : wpc[w] = "wait"

Rest == (Quiescent \/ ~running) /\ UNCHANGED vars

ClientStep(c) == SendMessage(c) \/ CloseSocket(c)

Next ==
  \/ \E c \in Conn : Connect(c) \/ ClientStep(c) \/ Kill(c)
  \/ AcceptorStep \/ AcceptorFails
  \/ \E w \in Worker : WorkerStep(w) \/ WorkerFails(w)
  \/ Rest

Spec == Init /\ [][Next]_vars

\* Every thread and every client process keeps being scheduled; a client need
\* not connect or die, and no system call need fail.
Fairness ==
  /\ WF_vars(AcceptorStep)
  /\ \A w \in Worker : WF_vars(WorkerStep(w))
  /\ \A c \in Conn : WF_vars(ClientStep(c))

FairSpec == Spec /\ Fairness
-----------------------------------------------------------------------------
(* Properties.                                                             *)

Waiting == {backlog[i] : i \in DOMAIN backlog}

ConnsTypeOK ==
  /\ sock \in [Conn -> SockState]
  /\ sent \in [Conn -> Nat] /\ recvd \in [Conn -> Nat] /\ echoed \in [Conn -> Nat]

KernelTypeOK ==
  /\ backlog \in Seq(Conn)
  /\ fdConn \in [Fd -> Conn \cup {NoConn}]
  /\ interest \in [Worker -> SUBSET Fd]
  /\ ready \in [Worker -> SUBSET Fd]

AcceptorTypeOK ==
  /\ apc \in {"wait", "accept", "add", "load", "store"}
  /\ fdNew \in Fd \cup {NoFd}
  /\ apc \in {"add", "load", "store"} => fdNew \in Fd
  /\ pick \in Worker /\ areg \in Int

WorkersTypeOK ==
  /\ wpc \in [Worker -> {"wait", "next", "recv", "send", "close", "load", "store",
                         "errLoad", "errStore", "errClose", "abort"}]
  /\ batch \in [Worker -> [Fd -> SUBSET Bits]]
  /\ about \in [Worker -> [Fd -> Conn \cup {NoConn}]]
  /\ cur \in [Worker -> Fd \cup {NoFd}]
  /\ wreg \in [Worker -> Int]

\* Types of the variables; from accept on, fdNew is a descriptor (the check of
\* fd_new against -1).
TypeOK ==
  /\ ConnsTypeOK /\ KernelTypeOK /\ AcceptorTypeOK /\ WorkersTypeOK
  /\ numClientsInThread \in [Worker -> Int] /\ overlaps \in [Worker -> Nat]
  /\ running \in BOOLEAN /\ faults \in Nat

\* A descriptor is in no epoll instance unless it is open, and an open one is in
\* exactly one: none is shared by two workers and none is leaked (acceptConnections
\* between accept and EPOLL_CTL_ADD excepted).
FdsOwned ==
  \A f \in Fd :
    IF fdConn[f] = NoConn \/ (apc = "add" /\ fdNew = f)
    THEN \A w \in Worker : f \notin interest[w]
    ELSE \E w \in Worker : \A v \in Worker : f \in interest[v] <=> v = w

\* The close of Case 3 is done, its decrement is not.
Discharged(w, f) == cur[w] = f /\ wpc[w] \in {"load", "store"}

\* Every event a worker still has to handle is about the connection its
\* descriptor had when epoll_wait returned: descriptors are reused as soon as
\* they are closed, and no worker acts on a descriptor that has passed to
\* another connection.
EventsOwned ==
  \A w \in Worker : \A f \in Pending(w) :
    Discharged(w, f) \/ (f \in interest[w] /\ fdConn[f] = about[w][f])

\* With edge triggering a readiness that is dropped is dropped for good: a
\* registered connection with a request to read, or with a hang-up to handle, is
\* on its epoll instance's ready list or among its worker's unhandled events.
NoEdgeLost ==
  \A w \in Worker : \A f \in interest[w] :
    LET c == fdConn[f] IN
    /\ Unread(c) /\ ~Gone(c) =>
         f \in ready[w] \/ (f \in Pending(w) /\ (cur[w] = f => wpc[w] = "recv"))
    /\ Gone(c) =>
         f \in ready[w]
         \/ (batch[w][f] \cap {"RDHUP", "HUP", "ERR"} # {} /\ ~Discharged(w, f))

\* A worker calls recv only where recv has something to say: readSocket would
\* spin on EAGAIN, moving its buffer pointer back at every turn.
NoSpuriousRead ==
  \A w \in Worker : wpc[w] = "recv" =>
    Unread(fdConn[cur[w]]) \/ Gone(fdConn[cur[w]])

\* The assertion on EPOLLIN in worker never fails.
AssertHolds == \A w \in Worker : wpc[w] # "abort"

\* The unchecked send of readSocket never meets a connection reset after its
\* FIN: the process, which does not ignore SIGPIPE, is not killed by a client.
NoSigpipe == \A w \in Worker : wpc[w] = "send" => sock[fdConn[cur[w]]] # "broken"

\* A request read from a client that is still there is echoed already, or is in
\* the hands of the one worker that is about to send it.
NoReplyLost ==
  \A c \in Conn : sock[c] = "established" /\ recvd[c] # echoed[c] =>
    /\ recvd[c] = echoed[c] + 1
    /\ \E w \in Worker : wpc[w] = "send" /\ fdConn[cur[w]] = c

\* What numClientsInThread[w] should say at this point of the two threads: the
\* connections w has, less the one the acceptor has not counted in yet, plus the
\* one w has closed and not counted out, less the one counted out and not closed.
Deserved(w) ==
  Cardinality(interest[w])
    - (IF apc \in {"load", "store"} /\ pick = w THEN 1 ELSE 0)
    + (IF wpc[w] \in {"load", "store"} THEN 1 ELSE 0)
    - (IF wpc[w] = "errClose" THEN 1 ELSE 0)

Within(a, b, d) == a - b <= d /\ b - a <= d

\* numClientsInThread, updated by two threads without a lock, is off by at most
\* one for every two updates that overlapped, and exact while none has.
CounterDrift ==
  \A w \in Worker : Within(numClientsInThread[w], Deserved(w), overlaps[w])

\* A request is echoed in the end unless its client goes away or the process
\* exits, though there may be more clients than descriptors.
EventuallyEchoed ==
  \A c \in Conn : sent[c] > echoed[c] ~> sent[c] = echoed[c] \/ Gone(c) \/ ~running

\* A connection whose client has gone is closed in the end.
EventuallyClosed ==
  \A c \in Conn :
    Gone(c) ~> (c \notin Waiting /\ \A f \in Fd : fdConn[f] # c) \/ ~running

-----------------------------------------------------------------------------
(* The server implements the echo service.                                 *)

clientView ==
  [c \in Conn |-> CASE sock[c] = "none"        -> "absent"
                    [] sock[c] = "established" -> "present"
                    [] OTHER                   -> "left"]
serverView ==
  [c \in Conn |-> CASE sock[c] = "none" \/ c \in Waiting -> "none"
                    [] \E f \in Fd : fdConn[f] = c      -> "held"
                    [] OTHER                            -> "released"]

Echo == INSTANCE EchoService WITH
          Units <- {1}, client <- clientView, server <- serverView,
          asked <- sent, answered <- echoed

\* acceptConnections and the workers together: a connection is admitted once,
\* closed only when its client has left, and never answered more than it asked.
EchoSpec == Echo!Spec
=============================================================================
