# Verification of the COMP8005 A2 echo servers

The repository holds several implementations of one TCP echo server, written to
compare how they scale, and the load clients that drive them. This directory
models the threaded and the libevent server, the two console servers, the two
servers with a single event loop, the queue macros and the Python clients, checks
the models with TLC, and proves their safety properties with TLAPS for every
number of connections, threads, descriptors and messages, one component excepted.

All paths below are relative to the repository's root (`src/` here).

## 1. Inventory

### 1.1 Threaded epoll server: `EpollServer_Final/Server.cpp`

| thread | state | operations |
|---|---|---|
| accept thread, `acceptConnections` (142-204) | `acceptThrdParams->fd_new`, the worker `n` drawn by `rand()` | `epoll_wait` on the listening socket, `accept`, `fcntl`, `EPOLL_CTL_ADD` on worker `n`'s epoll instance, `numClientsInThread[n]++` |
| workers, `worker` (206-251) | `worker_events[index]`, the loop index | `epoll_wait`, Case 1 error or hang-up, `assert(EPOLLIN)`, Case 2 `readSocket`, Case 3 peer closed |
| console, `UpdateConsole` (333-347) | `numClients` | every 100 ms resets and sums the counters |

Shared: the descriptor table of the process (a closed descriptor is the next one
`accept` returns), one epoll instance per worker (the accept thread adds to it, the
worker waits on it), and `numClientsInThread`, an array of `int` that two threads
update without a lock. Registration is edge-triggered. Every failing system call
but `accept` and `send` ends in `exit(-1)`, which takes all threads along.

Hard: the order of registration, first event and counting; stale descriptors in a
batch of events; readiness lost under edge triggering; unlocked counters; sends
to clients that have gone; `readSocket`'s pointer arithmetic when `recv` returns
less than a message or -1.

Correct means: each open descriptor is in exactly one epoll instance and is closed
once; a worker acts only on the connection an event was reported for; no
readiness is lost; a request is answered by one echo; the counters say how many
clients a thread has.

### 1.2 libevent server: `Libevent_server/libevent_echosrv2.c`

The same callbacks are static member functions in `Libevent_server/server.cpp`
and `QLibevent_Server/Libevent_Server/server.cpp`. One thread runs
`event_dispatch` and three callbacks: `on_accept` (233-278), `on_read` (125-175),
`on_write` (181-227). Per client there is a `struct client` with two events and a
`TAILQ` of `struct bufferq` (buffer, length, offset of what is written).
`ev_read` is persistent, `ev_write` is added by `on_read` and by a partial write.

Hard: a write event stands for the whole queue but `on_write` handles one buffer;
partial writes; a client freed while its write event is added or active; err(1)
on a reset; a socket left in blocking mode, whose write holds up the only thread.

Correct means: what is written is what was read, in order, without gap; a
queued buffer has a write event; `on_write` finds a buffer; nothing of a freed
client is left in libevent.

### 1.3 The other servers

* `EpollServer_NoGUI/server.cpp`: the threads of 1.1 with another `readSocket`
  (253-284): one `recv`, and a `send` even after `EAGAIN`. The listener is
  level-triggered: with a full table the accept thread is woken again and again.
* `QTServer_Console/QtServer_Console/server.cpp`: as NoGUI, but the listening
  socket is edge-triggered with one `accept` for each event (60, 142), and one
  `numClients` is shared by the accept thread and four workers (172, 205, 225);
  `worker_mutex` is declared and never locked. `readSocket` (260-314) falls off the
  end of a function that should return a value; the caller does not use it.
* `epoll_svr.c`: one thread, edge-triggered listener with one `accept` for each
  event (108, 136); `ClearSocket` (173-197) loops on `recv` until a whole message of
  80 bytes came in one call, echoes it once and closes. Nothing ends that loop
  when the client has gone.
* `EpollServer/Epoll_Sever/server.cpp`: one event loop that creates a thread for
  each readable socket and joins it at once (135-136), with a GUI updated by
  `UpdateConsole` through the global `app`, assigned after that thread starts (27-29).
  An error closes the connection without counting it out (93).
* `QTServer/ScalableServer`: Qt signals; one member `_socket`, overwritten by each
  connection (mainwindow.cpp:30) and used by every slot; a thread per read that
  adopts the descriptor.

Correct means for each: every client that connects is accepted, echoed and closed
once it has left; no client can hold up the others; the number on display is the
number of clients. None of them promises all of that, and the properties say
exactly what is missing.

### 1.4 Clients and the rest

* `multi-process-client.c`: one process per client: connect, then `NUM_MESSAGES`
  times send a message and `recv` until one call returns the whole echo (132), close.
* `py-client.py`, `client_session_length.py`: the main thread starts a log thread and
  the session threads, joins the sessions and puts `'kill'`; each session that ends
  well puts a line on the log queue; the log thread writes them until it reads `'kill'`.
  Correct means: every line is written, in order, and the log is closed in the end.
* `Libevent_server/queue.h`: the BSD `TAILQ` macros the libevent server uses. Correct
  means: the links are those of the sequence the operations stand for.
* `QEchoServer` is an empty stub; the rest is build files, binaries and measurements.

### 1.5 How they interact

Clients and servers share only TCP connections. A client is lockstep: it sends
its next message after the whole echo of the last. Inside a server the threads
of 1.1 meet in the kernel's objects (listen queue, descriptor table, epoll
instances) and in the counters, as do those of the console servers; the callbacks
of 1.2 meet in the client's queue and in libevent's two events; the threads of the
GUI server meet in `numClients`; those of the Python clients in the log queue.

`PROJECT.json` lists the hazards of each part at the line where they bite.

## 2. Plan

Done:

1. `EchoService`: what any of these servers owes its clients.
2. `EpollPool` (1.1), `MCEpollPool`, `EpollPoolProofs`: the core.
3. `LibeventEcho` (1.2), `MCLibeventEcho`.
4. `ReadSocket`: the receive loops byte by byte against the client's:
   `EpollServer_Final` (263-292), NoGUI and Qt console (one `recv`), `ClearSocket` of
   the GUI server.
5. `TailQueue`: the `TAILQ` macros pointer by pointer against the sequence that
   `LibeventEcho` uses.
6. `ConsoleServers`: the threads of NoGUI and Qt console, with either listener.
7. `ClientCounters`: the counters of all threaded servers and `UpdateConsole`.
8. `EventLoop`: `epoll_svr.c` and the GUI server.
9. `LogQueue`: the Python clients.
10. Theorems: every safety invariant and action property the runs check, the
   refinements, and what the liveness runs rest on (no edge is lost, no send ends a
   server, no callback has lost its reason).

The plan is done. What is left out, and why, is in 5.3 and 6.

## 3. Modules

| module | models |
|---|---|
| `EchoService` | abstract: arrive, ask, leave; admit once, answer at most what was asked, release after the client left |
| `EpollPool` | `EpollServer_Final/Server.cpp`, the clients, and the kernel as the server uses it |
| `EpollPoolProofs` | theorems about `EpollPool`: types, descriptors and events, counters; then requests, replies, and `EchoService` |
| `LibeventEcho` | `libevent_echosrv2.c` and libevent's loop as it uses it |
| `ReadSocket` | one connection byte by byte: the client's message loop against three receive loops |
| `ConsoleServers` | accept thread and workers of NoGUI and Qt console |
| `ClientCounters` | the counters of the threaded servers and their console thread |
| `EventLoop` | `epoll_svr.c` and the GUI server |
| `TailQueue` | the `TAILQ` macros of `queue.h` |
| `LogQueue` | `py-client.py` and `client_session_length.py` |
| `LibeventEchoProofs`, `ReadSocketProofs`, `ConsoleServersProofs`, `ClientCountersProofs`, `EventLoopProofs`, `TailQueueProofs`, `LogQueueProofs` | theorems about the module each is named after |
| `MC...` | the model values and, where sound, their symmetry, for TLC |

### 3.1 `EpollPool` and the code

| code | model |
|---|---|
| `acceptConnections` 149-158 | `AcceptWait`: epoll_wait returns while the listen queue is not empty (the listener is level-triggered) |
| 168-180 | `Accept`: lowest free descriptor, or none is free: `perror` and `continue` |
| 190-196 | `AddToWorker`: any worker; registration puts the descriptor on the ready list if something has arrived before it |
| 198 | `IncLoad`, `IncStore` |
| `worker` 213 | `WorkerWait`: at most `EPOLL_QUEUE_LEN` events, each polled again when reported |
| 221-239 | `NextEvent`: Case 1, the assertion, Case 2 |
| 225-230 | `DecLoad`, `DecStore`, `ErrorClose` (Case 1 counts, then closes) |
| 242-246 | `AfterRead`, `CloseConn`, `DecLoad`, `DecStore` (Case 3 closes, then counts) |
| `readSocket` 263-295 | `Recv`, `Send` |
| `exit(-1)` | `AcceptorFails`, `WorkerFails`; SIGPIPE in `Send` |

`batch[w]` is `worker_events[w]` without the events already handled. The order of
the events within a batch is not fixed. `about` and `overlaps` are history
variables: no guard reads them. `acceptThrdParams->fd_new`, `n` and the loaded
value go back to their initial value after the counter is stored: the code does
not read them again.

The kernel, external to the repository, is modelled from Linux's behaviour the code depends on:
`epoll_wait`
reports a descriptor once for each arrival on it (`Woken`) with all bits that hold
at that time (`Readiness`), `close` removes a descriptor from every epoll
instance, `accept` returns the lowest free one, data sent to a client that closed
provokes a reset and the next send SIGPIPE.

The module begins where `startServer` has created the threads (98-124). Start-up that
fails ends the process before a client is served, as `AcceptorFails` may do at once;
the calls themselves are the action `Start` of `ConsoleServers`, whose NoGUI has the same
lines. A thread that `pthread_create` could not create (116, 123: nobody looks at the
result) is one that takes no step: `Spec`, which promises no step, includes it, and with
it the safety properties and the theorems; `FairSpec`, and with it `EventuallyEchoed` and
`EventuallyClosed`, takes all threads as created. What is lost when one is not is
stated by `EventuallyServed` of `ConsoleServers`.

Limits: messages are whole (`BUFLEN` bytes in one `recv`), sends are whole;
`UpdateConsole` is in `ClientCounters`; Case 1 of the accept thread (an error on
the listening socket) has no cause in the model; `rand()` is any worker; a
spurious EPOLLIN (an edge whose data was already read) is not generated: polling
again at `epoll_wait` filters it, as the kernel does.

### 3.2 `LibeventEcho` and the code

| code | model |
|---|---|
| `main` 285-321 | `Start`: any call may fail (`err(1)`) |
| libevent's loop | `Poll`: the ready events become active; connections in any order, read before write for one |
| `on_accept` 233-278 | `OnAccept`: one connection, or none when no descriptor is free; when `setnonblock` fails the socket stays in blocking mode |
| `on_read` 140-159 | `OnReadEnd`: client freed, queue and write event left |
| `on_read` 161-175 | `OnReadData`: append a buffer, add the write event |
| `on_write` 192-226 | `OnWriteAll` (also on an empty queue), `OnWritePart`, `OnWriteAgain`, `OnWriteFatal` |
| `write` (199) in blocking mode | `OnWriteBlocks`: takes what there is room for and waits; `OnWriteResumes`: room has come; `OnWriteReturns`: a reset ends the wait and the part written is returned |
| `on_write` on a freed client | `OnWriteFreed`: undefined behaviour; the outcomes modelled are the process dying and an empty-queue return |
| `err(1)` on malloc | `OutOfMemory` |

Data is counted in units of the client's stream; a buffer is the interval of the
stream it has left to write. `Fragments` says whether a message may arrive in
pieces. The leak of the buffers of a freed client is not counted. `write` takes as much
as the kernel likes, at least a unit (`Left`, `Sends`, `SendsAll`, `SendsPart`). While it
waits (`Writing`: `turn` is the client, and its event is no longer active) nothing
else of the loop runs. A blocking `read` never waits: what `on_read` was polled for is
still there. `EINTR` (202) is left out: the program installs no handler.

The client (`multi-process-client.c` 132) compares what one `recv` returned with `BUFLEN`,
so after an echo in pieces (`cut`) it takes the rest but never leaves its loop: it sends
no more and does not close. Only its death frees its descriptor.

### 3.3 `ReadSocket` and the code

| code | model |
|---|---|
| client 109-138 | `SendMessage`, `ReceiveEcho` (one call of `recv` and the loop's condition), `CloseSocket`; `coff`, `cleft`, `rbuf` are `bp - rbuf`, `bytes_to_read`, `rbuf` |
| `worker` 211-246, one connection | `Wake`, `Return`, `Close` |
| `readSocket` of `EpollServer_Final` 253-295 | `RecvWhole`, `FinalPart`, `FinalAgain`, `RecvEnd`, `Send` |
| `ClearSocket` of `EpollServer/Epoll_Sever` 163-201 | `RecvWhole`, `GuiPart`, `GuiAgain`, `RecvEnd`, `Send` |
| `readSocket` of NoGUI 253-284, Qt console 260-315 | `NoGuiRecv`, `RecvEnd`, `Send` |

`off`, `left` and `buf` are `bp - buf`, `bytes_to_read` and `buf`. A byte is its
place in the client's stream, so an echo that is displaced, mixed or repeated is
seen. `recv` is external: `Data`, `Eof`, `Failed`, `Again` are its answers on a
non-blocking socket. Undefined behaviour is a choice: a `recv` that writes before
the buffer may kill the process, and `strchr(bp, EOF)` outside the buffer finds the
byte, or does not, or dies. `MaxSlip` bounds how far `bp` slips: the search of
`EpollServer_Final` cannot go on below the stack's memory, so there it ends at
the bound, one way or the other; `ClearSocket` does not look at the memory, so at
the bound it spins in place. The width of `bytes_to_read` is not modelled.

`session` is what justifies the whole messages of the other models: while TCP delivers
whole messages the loop is one `recv` and one `send`, `EchoSteps`. When it does not,
the worker is still released once the client has gone (`WorkerReleased`).

### 3.4 `ConsoleServers` and the code

| code | model |
|---|---|
| constructor, `startServer` (NoGUI 26-124, Qt 11-109) | `Init`, `Start`: a failing call, or the threads, those that can be created |
| `acceptConnections` (NoGUI 146-199, Qt 116-176) | `AcceptWait`, `AcceptFails`, `Accept`; `ListenerReady` is the difference of the listeners |
| `worker` (NoGUI 210-247, Qt 187-230) | `WorkerWait`, `EndOfBatch`, `Handle`, `Close` |
| `readSocket` (NoGUI 253-284, Qt 260-314) | in `Handle`: nothing happens between its one `recv` and its `send` that another thread could see |
| `exit(-1)`, the joins of the main thread (NoGUI 126-138) | `Fails`; SIGPIPE in `Handle` |

A thread that was not created stands at "none": nobody accepts, or the clients of a
worker (`Orphans`) are accepted, never served, and keep their descriptors. Joining a
thread that never was is undefined; the first worker the main thread joins is where
that happens, and where the process may end. An arrival on a listener whose edge is already
pending leaves no trace, nor does
an `accept` that failed: `missed` counts both, for the properties. Case 1 of
`acceptConnections` (Qt 129-135 counts a client out there) cannot happen to a
listening socket and is left out. The assertion of NoGUI (231) is the place "abort",
which `TypeOK` excludes; in Qt it is commented out. Counting is `ClientCounters`.

### 3.5 `ClientCounters` and the code

`CountIn`, `CountOut`: every `++` and `--` is a load and a store, of
`numClientsInThread[n]` ("nogui", and `EpollServer_Final` with the same text) or of the
one `numClients` ("qt"). `Event` draws the close or the error of a connection of the
worker; the order of closing and counting is the code's (NoGUI 226-228, 243-244).
`ResetTotal`, `PrintLine`, `PrintTotal` are `UpdateConsole` of NoGUI (288-302), which reads
each counter twice; `PrintNumClients` is that of Qt (250-257). `overlaps` and `moved`
are history variables. `Total` adds the counters of all workers with the recursive
function `Sums`, as the loop of `UpdateConsole` does.

### 3.6 `EventLoop` and the code

| code | model |
|---|---|
| `epoll_svr.c` 57-111, GUI 13-76 | `Init`, `Start` |
| `epoll_wait`, the loop over the events | `EpollWait`: at most `EPOLL_QUEUE_LEN` (256) of the events; `EndOfBatch` |
| Case 1 (`epoll_svr.c` 124-129, GUI 90-95) | `ErrorClose`: not counted out |
| Case 2 (133-157, 100-128) | `Accept` |
| `ClearSocket` of `epoll_svr.c` 173-197 | `ClearSocketSingle`: a message in one `recv`; `ClearSocketShort`: the loop spins |
| read thread and `ClearSocket` of GUI 130-147, 163-205 | `ClearSocketGui`, `ClearSocketShort`, `SpinEnds`, `Disconnect`; `ReadThreadFails` when `pthread_create` or the join behind it fails |
| `SystemFatal`, `close_fd` | `Exit`; a second "Start Server" ends in `SystemFatal("bind")` |
| `UpdateConsole` 221-228, `Application::UpdateGui` | `UpdateGui` |

The read thread is joined as soon as it is created, so it is a step of the loop. A
message has `MsgLens` bytes and comes whole: 80 is what `epoll_svr.c` reads, 1024 what
the GUI server reads and the client sends, 1536 more than either reads. `ClearSocketGui`
takes and echoes `BUFLEN` bytes and leaves the rest in the socket with no event to tell
of it (`RestUnread`). `Start` may fail to create the thread of `UpdateConsole` (27): then
nothing is displayed. The assertion on EPOLLIN is not a guard of `Read`; that it never
fails is the theorem `AssertNeverFails`. What a spinning loop does to its
buffer is not followed here (`ReadSocket`).

### 3.7 `TailQueue` and the code

One action per macro. The address of a pointer is written as the cell that holds
it, so `*elm->tqe_prev = x` is an update of `next` at `prev[elm]`. `TAILQ_LAST` and
`TAILQ_PREV` read an entry through a head's type, as the header does. Entries
of elements that were never inserted hold anything; removed ones keep their
pointers (`_Q_INVALIDATE` is empty). `Visited` is either loop's list of elements: it
follows the pointers the loop follows, for at most one round more than there are elements.
`items` is the sequence the operations stand for.

### 3.8 `LogQueue` and the code

Main thread: `StartLog`, `CreateThreads` (a `NameError` when arguments are given:
`numOfSessions` is assigned only without them), `StartThread`, `JoinThread`, `PutKill`.
Sessions: `Connect`, `SendMessage`, `Recv`, `PutLine` (division by the number of
messages), `CloseSocket`. Log thread: `OpenLog`, `Get`, `Write`, each of which may raise an
`IOError` (`open`, `close`, `write` or `flush`). An exception ends the thread
it is raised in; `StartLog` may fail to start the log thread, which ends the main thread. The
server is outside and may close or reset. Times are not
modelled: the loop of `client_session_length.py` may end at any round.

## 4. Runs

| run | bounds | shows |
|---|---|---|
| `pool_safety` | 2 connections, 2 workers, 2 descriptors, 2 messages, queue of 2 events, 1 failure | all safety invariants of `EpollPool` but its types; `EpollPool` implements `EchoService` |
| `pool_live` | 2 connections, 1 descriptor, 1 message | types, with `accept` failing on a full table; every request is echoed, every departed client's descriptor closed |
| `libevent_safety` | 2 connections, 2 messages longer than `BUFLEN`, pieces, little room, 1 failure (a call, or a socket left in blocking mode) | types; the queue is the unechoed part of the stream; never an empty queue in `on_write`; `LibeventEcho` implements `EchoService` |
| `libevent_live` | 2 connections on 1 descriptor, 2 whole messages of 3 units, room for 3, 1 failure | a queued buffer has a write event or is being written; every message is echoed, every departed client freed, unless a cut client holds the descriptor |
| `libevent_freed` | 1 connection | violation: a freed client's write event is still added |
| `session` | 3 servers, 2 messages of 3 bytes; whole, replies in pieces, or both in pieces | with whole requests one receive and one echo each (implements `EchoService`) and the client displays its message; in any case a worker leaves its loop and closes once the client has gone |
| `console` | both servers, 3 connections on 1 descriptor, 2 workers, any thread not created, 1 message | types; how many clients the edge-triggered listener strands; both implement `EchoService`; all other clients are served |
| `counters` | 2 connections, 2 workers, both ways of counting | the drift of each counter, of the console's total and of its last line |
| `event_loop` | both servers, 3 connections on 2 descriptors, batches of 2 events, messages of 80, 1024 and 1536 bytes, 1 read thread not created | stranded clients; who can make the loop spin; the others are served; the number on display |
| `loop_cut_echo` | `epoll_svr.c`, 1024 bytes | violation: the client never displays its echo |
| `tail_queue` | 3 elements, every initial content of their entries | the links and the loops show the sequence |
| `log_queue` | 2 sessions of at most 2 messages, both programs | lines complete and in order, `'kill'` last, the log closed |

Deadlock is checked but in `session`: there a client that waits for bytes nobody
sends, and a server that spins at `MaxSlip`, have no step. Where a system may
come to rest the modules have a `Rest` step that says so. Three bytes are
the least with a first, a middle and a last piece; `MaxSlip` 2 lets `bp` reach a place
before the buffer and a message land partly outside it.

The bounds let each hazard happen: two connections on one worker (batches of two,
counter overlap), one on each, a descriptor reused while a batch still names it,
a listen queue with more than one client, a table with no free descriptor, one
failing call at each place it can occur; a third client that arrives behind a
pending edge, or while the loop spins on the first; three elements, so that an
element is removed between two others; two sessions, one of which dies. `console`
has two workers, so that one may be missing, and one descriptor, so that a third client
meets a full table behind a pending edge; two connections open at once on two
workers are `pool_safety`'s. In `event_loop` three events (two clients and the listener)
meet batches of two, so one of them is left for the next call. Three units of room in
`libevent_live` let an echo of three come in one piece, two or three. Every pair of a run and a
property it
checks has a mutant, a small plausible bug in the mapped code, that TLC finds.

### Findings

Runs that TLC refutes, with the sentence of the repository they refute:

* `libevent_freed`: `on_read` deletes only `ev_read` before it frees the client.
* `loop_cut_echo`: `epoll_svr.c` echoes 80 bytes of the client's 1024 and closes.

Limits the passing properties state, each as an exception or an error term:

* `CounterDrift`: unlocked updates of a counter are lost when they overlap
  (`EpollServer_Final` 198, 227, 245), and since a connection is live before it is counted in
  (192, 198) the number may be -1 for a while.
* `EchoScheduled` holds for whole messages only: two reads before one write leave
  the second buffer without a write event (`event_add` of an added event does
  nothing), and a client waiting for its echo sends nothing more.
* `WholeIsEchoed`, `WholeIsDisplayed`: with a request in pieces `EpollServer_Final` moves `bp`
  before its buffer (267, `n` is -1) and may send an incomplete echo; NoGUI sends its
  whole buffer, uninitialised bytes included; `ClearSocket` of the GUI server never
  echoes it (174). With an echo in pieces the client waits for ever (132).
* `BacklogStranded`: the edge-triggered listeners lose a client for every arrival
  behind a pending edge and for every failed `accept`.
* `SpinHasCause`: a client that leaves `epoll_svr.c` without a message, or sends a shorter
  one, stops the server; in the GUI server the shorter message does, until its
  sender leaves.
* `EventuallyServed` of `EventLoop`: the GUI server reads 1024 bytes of a longer message,
  or nothing when the read thread is not created, and no event comes for the rest.
* `EventuallyServed` of `ConsoleServers`: the clients of a worker that was not created, and
  those that wait for a descriptor that such clients hold, are not served.
* `EventuallyEchoed`, `EventuallyFreed` of `LibeventEcho`: clients that an echo has reached in
  pieces never close; when they hold all descriptors, nobody else is accepted.
* `EventuallyShown` of `EventLoop`: errors stay counted as clients.
* `LogClosed`, `LineCountsEchoes`: the Python log is not closed when the main thread or the
  log thread dies first; a server that has closed is counted as one that answers.

### Fairness

`pool_live`: weak fairness of the accept thread, of each worker and of each
client's message loop. The threads are kernel threads that block only in
`epoll_wait`, so a thread with something to do is scheduled in the end; a client
process likewise. Nothing makes a client connect or die, or a call fail.
`libevent_live`: weak fairness of the single loop and of each client. libevent
runs every active callback before it polls again, which the model has as state
(`active`), not as an assumption; between connections the order is free, and weak
fairness of the loop is enough because an iteration is finite, and a write that
blocks goes on when its client, which is fair, takes its echo or dies.

`session`: weak fairness of the worker, of the client and of TCP's delivery of
what it has taken; the client need not die, and may at any time.
`console`, `counters`: as `pool_live`, and of the console thread, which only sleeps between
its passes; a thread that was not created has no step to take. `event_loop`, `loop_cut_echo`:
weak fairness of the one loop, of each client
and of the thread that updates the display. `log_queue`: weak fairness of the main
thread, the log thread and each session but for `recv`, which waits for the server.

## 5. Proofs

Every theorem holds for all values of the constants that the module's assumption
allows. The assumptions say that counts are naturals and that a few of them are
not zero (workers, descriptors, the listen queue, the event batch, `BufLen`),
that `NoConn` is no connection, and that the elements of a queue (`TailQueue`) are
finitely many; nothing bounds the number of connections, threads, messages or elements. A proof
module names its inductive invariant first, then has one
lemma for each action, and ends with the theorems. TLC checked every invariant on
the run's instance before it was proved (the number of states is given below).

| theorem | states |
|---|---|
| `EpollPoolProofs!TypeCorrect` | `TypeOK` |
| `EpollPoolProofs!DescriptorsOwned`, `Ownership` | `FdsOwned`, `EventsOwned` |
| `EpollPoolProofs!CounterBounded` | `CounterDrift` of `EpollPool` |
| `EpollPoolProofs!EdgesKept`, `ReadsFounded`, `AssertNeverFails`, `SendsSafe`, `RepliesKept` | `NoEdgeLost`, `NoSpuriousRead`, `AssertHolds`, `NoSigpipe`, `NoReplyLost` |
| `EpollPoolProofs!EventsStillTrue` | what an event says is true when its worker comes to it |
| `EpollPoolProofs!ImplementsEcho` | `EpollPool` implements `EchoService` |
| `LibeventEchoProofs!TypeCorrect`, `EchoInOrder`, `QueueNeverEmpty`, `EchoAlwaysScheduled` | `TypeOK`, `QueueIsUnechoed`, `NeverEmptyQueue`, `EchoScheduled` |
| `LibeventEchoProofs!CallbacksFounded` | an activated callback still has its reason when it runs |
| `LibeventEchoProofs!ImplementsEcho` | `LibeventEcho` implements `EchoService` |
| `ReadSocketProofs!EchoIsDisplayed`, `SessionsEcho` | `WholeIsEchoed`, `EchoSteps` |
| `ConsoleServersProofs!TypeCorrect`, `Stranded` | `TypeOK`, `BacklogStranded` |
| `ConsoleServersProofs!EdgesKept` | no request and no hang-up of an open connection is dropped |
| `ConsoleServersProofs!SendsSafe` | no step of a worker ends the process with SIGPIPE |
| `ConsoleServersProofs!ImplementsEcho` | `ConsoleServers` implements `EchoService` |
| `EventLoopProofs!Stranded`, `SpinsForCause` | `BacklogStranded`, `SpinHasCause` |
| `EventLoopProofs!EdgesKept` | no departure of an open connection is dropped, and no request but what the GUI server leaves unread |
| `EventLoopProofs!AssertNeverFails` | the assertion on EPOLLIN |
| `EventLoopProofs!ClientsCounted` | the GUI server's count: open connections and errors |
| `ClientCountersProofs!DriftBounded` | `CounterDrift` of `ClientCounters` |
| `ClientCountersProofs!TotalBounded` | `TotalDrift` |
| `ClientCountersProofs!NumberPrinted` | how far the printed number is from the open connections |
| `TailQueueProofs!AlwaysLinked` | `Linked` |
| `TailQueueProofs!AlwaysAccessed` | what `TAILQ_FIRST`, `LAST`, `NEXT`, `PREV`, `EMPTY` return |
| `TailQueueProofs!LoopsVisitAll` | `Traversed` |
| `LogQueueProofs!NothingIsLost`, `KillComesLast`, `LinesAreEchoes` | `NothingLost`, `KillIsLast`, `LineCountsEchoes` |

Sums over the workers and the loops over a queue are recursive functions, and
facts about them need induction. The library's induction theorems take an operator
as parameter, which these provers cannot instantiate, so the two modules that need
induction derive it for sets of numbers (`NatSet`: a set that holds 0, and `n + 1`
with `n`, holds every natural) from the well-foundedness of `<` on the naturals.
A recursive function is CHOOSE of a solution of its equation: that one exists is
proved first, by the same induction.

### 5.1 `EpollPool`

* Types (`TypeInv`): the induction needs one fact more than `TypeOK`, that `accept` is
  called only while the listen queue is not empty.
* Ownership (`OwnInv`): descriptors (`FdsInv`: registered ones are open, in one
  instance, and not the one being registered), ready lists within the interest
  lists (`ReadyInv`), the stage of each worker (`StageInv`: the event in hand is an
  unhandled one) and `EventsOwned` itself. The key step is a close: the closing
  worker owns the descriptor, so no other worker holds it, and the closing
  worker's other events are about other descriptors.
* Counter (`Counted`): the counter alone is not inductive. The values loaded and not
  yet stored must be as near to the right number as the counter is, with one overlap
  less while both updates are under way. A store overwrites the other thread's
  update only when the two overlapped, and the overlap was counted at the second load.
* Sessions (`SessionInv`, 669,428 states): a connection is in one place (`PlacesInv`);
  client and server are in lockstep (`CountsInv`); what an event says is still true
  when its worker comes to it (`EventsInv`: this is where edge triggering could go
  wrong, since the state is read by `epoll_wait` and used after other threads and
  clients have moved); what a worker knows of the connection in its hands
  (`HandInv`); every unread message and hang-up is on a ready list or in an
  unhandled event (`EdgesInv`), and every reply in a worker's hands (`RepliesInv`).
  `NoSigpipe` needs that a reset after a FIN follows the last message
  (`Lockstep`): with nothing left to read there is no second send.
  With `SessionInv` each action of the threads, clients and kernel is a step of
  `EchoService` or leaves its variables alone.

### 5.2 The other components

* `LibeventEchoProofs` (`LibeventInv`, 782,721 and 152,111 states): the queue is a
  chain of intervals from what is written to what is read (`IsChain`). That no
  buffer ends after `recvd` follows from the chain by induction over the queue; it is
  simpler as a conjunct of its own, which each append and each removal at the head
    keeps. `Polled` says that an active callback's reason still holds when it runs after other
  callbacks of the same iteration, `Inside` that the loop waits in
  `write` only for a live client whose event is gone, `Whole` that a whole message
  is read at once, which is what keeps the queue of a lockstep client at one buffer.
* `ReadSocketProofs` (`WholeInv`, 356,428 states): both theorems are about requests that
  arrive whole. The server is then between messages or one whole message ahead of its
  replies, with the pointer at the start of its buffer (`ServerInv`); every byte sent
  back is its own number (`BytesInv`); the client has taken all earlier echoes and
  `coff` bytes of the one it waits for (`ClientInv`). It follows that `recv` never
  returns a part or EAGAIN, so the turns of the loops that move `bp` wrongly are not
  taken (`ServerWhole`): they need a message in pieces.
* `ConsoleServersProofs` (`ConsoleInv`, 386,270 states):
  as in 5.1, with the listener (`ListenerInv`: the level-triggered one is called
  only with a client waiting; the edge-triggered one counts what it missed). A worker
  reads and answers in one step, so nothing is ever read and unanswered there.
  `SessionInv` (386,270 states) adds what the clients wait for: every unread
  message and every hang-up of an open connection is on a ready list or in an event
  not handled yet (`EdgesInv`, with `Idle`: a worker in `epoll_wait` has no event in its
  hands), and a socket that a send has broken has nothing left to read (`BrokenInv`),
  so no second send meets it. The hang-up is the delicate one: it may come while the worker
  handles an earlier event of the connection, and counts as a new edge then.
* `EventLoopProofs` (`LoopInv`, 1,707,382 states): `SpinHasCause` follows
  from how much a server may have read of a connection that is open (`Counts`: "gui" takes
  a message whole unless it is longer than its buffer) and from the truth of the
    events in the batch. `EdgesInv` (1,707,382 states) is 5.1's for one loop: "single" closes at
  its only read, so any event
  will do for a departure; "gui" needs one that says the client has left.
* `ClientCountersProofs` (`CountersInv`, 162,945 states with two connections and
  9,970,936 with three): any number of threads may have a counter loaded. The value
  in the counter and every value loaded from it are off by at most the overlaps,
  less one for each update under way but the first (`Near`). A load under another
  update pays for itself, since it is counted; a store moves the right number and
  the stored value together, and the others by one each, for which its own leaving
  pays. The numbers in `Deserved` are cardinalities of sets of threads and
  connections, which a step changes by one element. `PassInv` (162,945 states) is about
  one pass of `UpdateConsole`: what is added up so far is the sum of the counters up to
  the last one read, off by at most `moved`. A store during the pass changes one counter, so the
  sum (`Sums`, by induction) by as much, and `moved` grows by that. `NumberPrinted`
  adds the `CounterDrift` of all workers up, again by induction, and compares with the
  connections that are open; without `moved`, or without the threads between a
  connection and its count, TLC finds it violated.
* `TailQueueProofs` (`QueueInv`, 4,966 states): the items are distinct, and every
  link is right in both directions. Each macro writes up to four pointers; two
  places of the sequence whose cells were the same would be hit by one write,
  and `Distinct` excludes that. The entries of elements outside the queue are arbitrary.
  The loops (`LoopVisits`) end because a queue of distinct elements has at most as many
  as there are; each round's element is the next item, by induction on what is
  left of the queue.
* `LogQueueProofs` (`LogInv`, 52,714 states): for some sequence of lines, the queue is
  these lines, with 'kill' behind them when it has been put and not taken, and file,
  writer's hands and lines make up all that was put (`QueueInv`). That 'kill' is
  last rests on how far the main thread has started and joined the sessions
  (`ThreadsInv`).

### 5.3 Only model-checked

* Liveness (`EventuallyEchoed`, `EventuallyClosed`, `EventuallyFreed`, `EventuallyServed`,
  `EventuallyShown`, `WholeIsDisplayed`, `WorkerReleased`, `LogClosed`): it rests on
  weak fairness, and the prover cannot reason about ENABLED.

Every other property of the passing runs, invariant or refinement, has a theorem.

## 6. Not modelled

* `QTServer/ScalableServer`: with its first read the temporary `QTcpSocket` of `readThrd`
  (mainwindow.cpp:110-124) adopts and closes the descriptor that `_socket` and its
  notifier still use. What is read, what is emitted and what happens to the next
  client that gets the number is decided by Qt's buffers and event dispatcher,
  not by this repository; a model would be one of Qt. `ServerThread` is never started.
* `multi-process-client.c`: arguments, name lookup and forks; its loop once the server is gone.
* The lists of `queue.h` other than `TAILQ`: no program uses them.
* Functions nothing calls (`HandleClient`, `ClientConnect`, `ClientDisconnect`, Qt
  console's `close_fd`), output and layout, the measured times.
* Partial sends, memory (the buffers of a freed client leak), and real time: that
  `app` is assigned (GUI server.cpp:29) before `UpdateConsole` first uses it rests on a
  `sleep(1)` only.
* `QEchoServer` (empty); build files, binaries and measurements.
