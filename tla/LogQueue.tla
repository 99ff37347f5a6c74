------------------------------- MODULE LogQueue -------------------------------
(***************************************************************************)
(* The Python load clients: py-client.py ("count": every session sends a   *)
(* given number of messages) and client_session_length.py ("length": every *)
(* session sends messages for a given time).  The main thread starts a     *)
(* thread that writes the log file, puts the header in its queue, starts   *)
(* and joins the sessions, and puts 'kill'.  A session that ends well puts *)
(* one line.                                                               *)
(*                                                                         *)
(* The server is outside: it may answer, answer no more, close or reset.   *)
(* So are the file system and the threads' creation: open, write, flush,   *)
(* close and start may raise.  An exception ends the thread it is raised   *)
(* in, and no other.                                                       *)
(***************************************************************************)
EXTENDS Naturals, SequencesExt

CONSTANTS
  NumSessions,     \* the number of clients to simulate
  MaxMessages      \* bound on the messages of a session

ASSUME LogAssumption == NumSessions \in Nat /\ MaxMessages \in Nat

Session == 1 .. NumSessions
Header  == [session |-> 0, messages |-> 0]
Kill    == [session |-> 0, messages |-> 1]

VARIABLES
  kind, argv,      \* the program; whether it was given arguments
  wanted,          \* "count": numOfMessages
  mpc, thread,     \* the main thread: place, the session it starts or joins
  spc,             \* the session threads
  messages,        \* messages each has counted
  closed,          \* the server has closed the session's connection
  queue,           \* logFileQueue
  wpc, info,       \* writeToLogFile: place, the entry it has taken
  file,            \* the log file
  puts, echoes     \* history: entries put before 'kill'; echoes received

program  == <<kind, argv, wanted>>
main     == <<mpc, thread>>
sessions == <<spc, messages, closed, echoes>>
writer   == <<wpc, info, file>>
vars     == <<program, main, sessions, queue, writer, puts>>

Ended(s) == spc[s] \in {"done", "dead"}
Goto(s, place) == spc' = [spc EXCEPT ![s] = place]

-----------------------------------------------------------------------------
(* chatSession.                                                            *)

\* connect fails: sys.exit ends the thread.
Connect(s) ==
  /\ spc[s] = "connect"
  /\ Goto(s, "loop") \/ Goto(s, "dead")
  /\ UNCHANGED <<program, main, messages, closed, echoes, queue, writer, puts>>

\* The loop's condition: as many messages as wanted, or until the time is up.
SendMessage(s) ==
  /\ spc[s] = "loop" /\ messages[s] < MaxMessages
  /\ kind = "count" => messages[s] < wanted
  /\ Goto(s, "recv") \/ (closed[s] /\ Goto(s, "dead"))
  /\ UNCHANGED <<program, main, messages, closed, echoes, queue, writer, puts>>

\* Mutant: an error in recv is counted as an answer.
RecvAny(s) ==
  /\ spc[s] = "recv"
  /\ messages' = [messages EXCEPT ![s] = @ + 1]
  /\ Goto(s, "loop")
  /\ echoes' \in {echoes, [echoes EXCEPT ![s] = @ + 1]}
  /\ UNCHANGED <<program, main, closed, queue, writer, puts>>

\* recv returns an echo, or '' once the server has closed, which is counted just
\* the same; or raises.
Recv(s) ==
  /\ spc[s] = "recv"
  /\ \/ /\ ~closed[s]
        /\ echoes' = [echoes EXCEPT ![s] = @ + 1]
        /\ messages' = [messages EXCEPT ![s] = @ + 1] /\ Goto(s, "loop")
        /\ UNCHANGED closed
     \/ /\ closed' = [closed EXCEPT ![s] = TRUE]
        /\ messages' = [messages EXCEPT ![s] = @ + 1] /\ Goto(s, "loop")
        /\ UNCHANGED echoes
     \/ /\ closed' = [closed EXCEPT ![s] = TRUE]
        /\ Goto(s, "dead")
        /\ UNCHANGED <<messages, echoes>>
  /\ UNCHANGED <<program, main, queue, writer, puts>>

\* After the loop: the average divides by the number of messages.
PutLine(s) ==
  /\ spc[s] = "loop"
  /\ IF kind = "count" THEN messages[s] = wanted ELSE TRUE
  /\ IF messages[s] = 0
     THEN Goto(s, "dead") /\ UNCHANGED <<queue, puts>>
     ELSE LET line == [session |-> s, messages |-> messages[s]] IN
          /\ Goto(s, "close")
          /\ queue' = Append(queue, line) /\ puts' = Append(puts, line)
  /\ UNCHANGED <<program, main, messages, closed, echoes, writer>>

\* close; "length" calls shutdown first, which raises when the server has reset.
CloseSocket(s) ==
  /\ spc[s] = "close"
  /\ Goto(s, "done") \/ (kind = "length" /\ closed[s] /\ Goto(s, "dead"))
  /\ UNCHANGED <<program, main, messages, closed, echoes, queue, writer, puts>>

SessionStep(s) == Connect(s) \/ SendMessage(s) \/ PutLine(s) \/ CloseSocket(s)

-----------------------------------------------------------------------------
(* writeToLogFile.                                                         *)

\* open, or the flush behind it, may raise an IOError.
OpenLog ==
  /\ wpc = "open"
  /\ wpc' \in {"get", "dead"}
  /\ UNCHANGED <<program, main, sessions, queue, info, file, puts>>

\* 'kill' ends the loop, and the file is closed, or close raises.
Get ==
  /\ wpc = "get" /\ queue # <<>>
  /\ queue' = Tail(queue)
  /\ IF Head(queue) = Kill THEN wpc' \in {"done", "dead"} /\ UNCHANGED info
                           ELSE wpc' = "write" /\ info' = <<Head(queue)>>
  /\ UNCHANGED <<program, main, sessions, file, puts>>

\* Mutant: the file is opened anew for every line.
WriteAnew ==
  /\ wpc = "write"
  /\ file' = info /\ info' = <<>> /\ wpc' = "get"
  /\ UNCHANGED <<program, main, sessions, queue, puts>>

\* write and flush: the line is in the file, though flush may raise behind it, or
\* it is not (a part of a line counts as none), and the thread has died with it.
Write ==
  /\ wpc = "write"
  /\ \/ file' = file \o info /\ info' = <<>> /\ wpc' \in {"get", "dead"}
     \/ wpc' = "dead" /\ UNCHANGED <<file, info>>
  /\ UNCHANGED <<program, main, sessions, queue, puts>>

LogStep == OpenLog \/ Get \/ Write

-----------------------------------------------------------------------------
(* The main thread.                                                        *)

\* The log thread is started, which the system may refuse, and the header put.
StartLog ==
  /\ mpc = "log"
  /\ \/ /\ wpc' = "open" /\ mpc' = "threads"
        /\ queue' = <<Header>> /\ puts' = <<Header>>
     \/ /\ mpc' = "dead" /\ UNCHANGED <<wpc, queue, puts>>
  /\ UNCHANGED <<program, thread, sessions, info, file>>

\* numOfSessions is assigned only when there are no arguments: a NameError.
CreateThreads ==
  /\ mpc = "threads"
  /\ mpc' = IF argv THEN "dead" ELSE "start"
  /\ UNCHANGED <<program, thread, sessions, queue, writer, puts>>

\* start of every thread; the system may refuse one more.
StartThread ==
  /\ mpc = "start"
  /\ IF thread > NumSessions
     THEN mpc' = "join" /\ thread' = 1 /\ UNCHANGED spc
     ELSE \/ Goto(thread, "connect") /\ thread' = thread + 1 /\ UNCHANGED mpc
          \/ mpc' = "dead" /\ UNCHANGED <<thread, spc>>
  /\ UNCHANGED <<program, messages, closed, echoes, queue, writer, puts>>

\* Mutant: the main thread goes on when the first session has ended.
JoinThreadOnce ==
  /\ mpc = "join" /\ \E s \in Session : Ended(s)
  /\ mpc' = "kill" /\ UNCHANGED thread
  /\ UNCHANGED <<program, sessions, queue, writer, puts>>

JoinThread ==
  /\ mpc = "join"
  /\ \/ thread > NumSessions /\ mpc' = "kill" /\ UNCHANGED thread
     \/ thread \in Session /\ Ended(thread) /\ thread' = thread + 1 /\ UNCHANGED mpc
  /\ UNCHANGED <<program, sessions, queue, writer, puts>>

\* Mutant: the log thread is not told.
PutKillNot ==
  /\ mpc = "kill" /\ mpc' = "done"
  /\ UNCHANGED <<program, thread, sessions, writer, queue, puts>>

PutKill ==
  /\ mpc = "kill" /\ mpc' = "done"
  /\ queue' = Append(queue, Kill)
  /\ UNCHANGED <<program, thread, sessions, writer, puts>>

MainStep == StartLog \/ CreateThreads \/ StartThread \/ JoinThread \/ PutKill

-----------------------------------------------------------------------------
Init ==
  /\ kind \in {"count", "length"} /\ argv \in BOOLEAN
  /\ wanted \in IF kind = "count" THEN 0 .. MaxMessages ELSE {0}
  /\ mpc = "log" /\ thread = 1
  /\ spc = [s \in Session |-> "idle"]
  /\ messages = [s \in Session |-> 0] /\ echoes = messages
  /\ closed = [s \in Session |-> FALSE]
  /\ queue = <<>> /\ wpc = "idle" /\ info = <<>> /\ file = <<>> /\ puts = <<>>

Rest == mpc \in {"done", "dead"} /\ wpc \in {"idle", "get", "done", "dead"} /\ UNCHANGED vars

Next ==
  \/ MainStep \/ LogStep
  \/ \E s \in Session : SessionStep(s) \/ Recv(s)
  \/ Rest

Spec == Init /\ [][Next]_vars

\* The threads keep running; the server need not answer.
FairSpec ==
  /\ Spec /\ WF_vars(MainStep) /\ WF_vars(LogStep)
  /\ \A s \in Session : WF_vars(SessionStep(s))

-----------------------------------------------------------------------------
(* Properties.                                                             *)

\* The lines in the queue: all of it but a 'kill' at its end.
Waiting == IF queue # <<>> /\ Last(queue) = Kill THEN Front(queue) ELSE queue

\* Whatever is put comes to the file once, in the order it was put and after the
\* header; what has not come yet is in the writer's hands or in the queue, also
\* when the log thread has died.
NothingLost ==
  /\ (file \o info) \o Waiting = puts
  /\ puts # <<>> => puts[1] = Header

\* Nothing is put behind 'kill', where the writer would never read it: the main
\* thread puts it only when every session has ended, well or not.
KillIsLast ==
  mpc = "done" => /\ \A s \in Session : Ended(s)
                  /\ \A i \in DOMAIN queue : queue[i] = Kill => i = Len(queue)
                  /\ wpc = "done" => file = puts /\ queue = <<>>

\* A line counts no more messages than were echoed, unless the server closed the
\* connection: recv then returns '' at once, and every round counts.
LineCountsEchoes ==
  \A i \in 2 .. Len(puts) :
    puts[i].messages <= echoes[puts[i].session] \/ closed[puts[i].session]

\* The log file is closed and the program ends, unless the main thread died before
\* it put 'kill' (the log thread, if there is one, then waits for ever), the log
\* thread died of an error of its file, or a session waits for an answer that does
\* not come.
LogClosed ==
  <>[](\/ wpc = "done" \/ wpc = "dead" \/ mpc = "dead"
       \/ \E s \in Session : spc[s] = "recv")
=============================================================================
