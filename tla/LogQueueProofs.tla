---------------------------- MODULE LogQueueProofs ----------------------------
(***************************************************************************)
(* Proofs about LogQueue, for every number of sessions and of messages.    *)
(***************************************************************************)
EXTENDS LogQueue, SequenceTheorems, TLAPS

-----------------------------------------------------------------------------
(* The inductive invariant.                                                *)

Entry == {Header} \cup [session : Session, messages : Nat]

TypeInv ==
  /\ kind \in {"count", "length"} /\ argv \in BOOLEAN /\ wanted \in Nat
  /\ mpc \in {"log", "threads", "start", "join", "kill", "done", "dead"}
  /\ thread \in 1 .. NumSessions + 1
  /\ spc \in [Session -> {"idle", "connect", "loop", "recv", "close", "done", "dead"}]
  /\ messages \in [Session -> Nat] /\ echoes \in [Session -> Nat]
  /\ closed \in [Session -> BOOLEAN]
  /\ wpc \in {"idle", "open", "get", "write", "done", "dead"}
  /\ info \in Seq(Entry) /\ file \in Seq(Entry) /\ puts \in Seq(Entry)

\* How far the main thread is with the sessions.
ThreadsInv ==
  /\ mpc \in {"log", "threads"} \/ wpc = "idle" => \A s \in Session : spc[s] = "idle"
  /\ mpc = "start" => \A s \in Session : s >= thread => spc[s] = "idle"
  /\ mpc = "join" => \A s \in Session : s < thread => Ended(s)
  /\ mpc \in {"kill", "done"} => \A s \in Session : Ended(s)

\* The writer starts with the header in the queue, has an entry in hand while it
\* writes it or has died of that, and ends with 'kill'.
WriterInv ==
  /\ mpc = "log" => wpc = "idle"
  /\ wpc = "idle" => mpc \in {"log", "dead"} /\ puts = <<>> /\ queue = <<>> /\ file = <<>>
  /\ wpc # "idle" => puts # <<>> /\ puts[1] = Header
  /\ wpc \notin {"write", "dead"} => info = <<>>
  /\ wpc = "done" => mpc = "done" /\ queue = <<>>

\* The lines l are in the queue, before 'kill' if that has been put and not taken,
\* and with them the file is complete.
Holds(l) ==
  /\ l \in Seq(Entry)
  /\ \/ queue = l /\ (mpc # "done" \/ wpc \in {"done", "dead"})
     \/ queue = Append(l, Kill) /\ mpc = "done" /\ wpc # "done"
  /\ (file \o info) \o l = puts

QueueInv == \E l : Holds(l)

\* Messages are counted as echoes are received until the server closes, and every
\* entry after the header is the line of a session.
LinesInv ==
  /\ \A s \in Session : messages[s] <= echoes[s] \/ closed[s]
  /\ \A i \in 2 .. Len(puts) :
       /\ puts[i].session \in Session /\ puts[i].messages \in Nat
       /\ puts[i].messages <= echoes[puts[i].session] \/ closed[puts[i].session]

LogInv == TypeInv /\ ThreadsInv /\ WriterInv /\ QueueInv /\ LinesInv


-----------------------------------------------------------------------------
(* Entries and sequences of them.                                          *)

LEMMA EntryFacts ==
  /\ Header \in Entry /\ Header # Kill /\ Kill \notin Entry
  /\ \A s \in Session, n \in Nat : [session |-> s, messages |-> n] \in Entry
<1>1. Header.messages = 0 /\ Kill.messages = 1 /\ Kill.session = 0
  BY DEF Header, Kill
<1>2. Header # Kill
  BY <1>1
<1>3. \A e \in [session : Session, messages : Nat] : e.session # 0
  BY LogAssumption DEF Session
<1> QED BY <1>1, <1>2, <1>3 DEF Entry

\* The first of the lines moves into the writer's hands.
LEMMA TakeOne ==
  ASSUME NEW S, NEW f \in Seq(S), NEW l \in Seq(S), l # <<>>
  PROVE  /\ Head(l) \in S /\ Tail(l) \in Seq(S) /\ <<Head(l)>> \in Seq(S)
         /\ (f \o <<Head(l)>>) \o Tail(l) = (f \o <<>>) \o l
<1>1. Head(l) \in S /\ Tail(l) \in Seq(S) /\ <<Head(l)>> \o Tail(l) = l
  BY HeadTailProperties
<1>2. <<Head(l)>> \in Seq(S)
  BY <1>1
<1>3. (f \o <<Head(l)>>) \o Tail(l) = f \o (<<Head(l)>> \o Tail(l))
  BY <1>1, <1>2, ConcatAssociative
<1>4. f \o <<>> = f
  BY ConcatEmptySeq
<1> QED BY <1>1, <1>2, <1>3, <1>4

LEMMA AppendOne ==
  ASSUME NEW S, NEW g \in Seq(S), NEW l \in Seq(S), NEW e \in S
  PROVE  g \o Append(l, e) = Append(g \o l, e)
<1>1. Append(l, e) = l \o <<e>> /\ <<e>> \in Seq(S)
  BY AppendIsConcat
<1>2. g \o l \in Seq(S)
  BY ConcatProperties
<1>3. Append(g \o l, e) = (g \o l) \o <<e>>
  BY <1>2, AppendIsConcat
<1> QED BY <1>1, <1>3, ConcatAssociative

LEMMA InitLog == Init => LogInv
<1> SUFFICES ASSUME Init PROVE LogInv
  OBVIOUS
<1> USE DEF Init
<1>1. TypeInv
  BY LogAssumption DEF TypeInv, Session
<1>2. ThreadsInv /\ WriterInv
  BY DEF ThreadsInv, WriterInv
<1>3. Holds(<<>>)
  BY DEF Holds
<1>4. LinesInv
  BY DEF LinesInv
<1> QED BY <1>1, <1>2, <1>3, <1>4 DEF LogInv, QueueInv

-----------------------------------------------------------------------------
(* The sessions.                                                           *)

\* A step of a running session moves no other thread.
Running(s) == spc[s] \in {"connect", "loop", "recv", "close"}

LEMMA SessionGoes ==
  ASSUME TypeInv, ThreadsInv, NEW s \in Session, Running(s),
         NEW q, Goto(s, q), mpc' = mpc, thread' = thread, wpc' = wpc
  PROVE  ThreadsInv' /\ mpc \notin {"log", "threads", "kill", "done"} /\ wpc # "idle"
<1>1. /\ spc[s] \in {"connect", "loop", "recv", "close"}
      /\ \A u \in Session : u # s => spc'[u] = spc[u]
  BY DEF Running, Goto, TypeInv
<1>2. mpc \notin {"log", "threads", "kill", "done"} /\ wpc # "idle"
  BY <1>1 DEF ThreadsInv, Ended
<1>3. mpc = "start" => ~(s >= thread)
  BY <1>1 DEF ThreadsInv
<1>4. mpc = "join" => ~(s < thread)
  BY <1>1 DEF ThreadsInv, Ended
<1> QED BY <1>1, <1>2, <1>3, <1>4 DEF ThreadsInv, Ended

\* It leaves the queue alone unless it puts its line.
LEMMA QueueStays ==
  ASSUME WriterInv, QueueInv, queue' = queue, puts' = puts, info' = info, file' = file,
         wpc' = wpc, mpc' = mpc
  PROVE  WriterInv' /\ QueueInv'
<1>1. WriterInv'
  BY DEF WriterInv
<1>2. PICK l : Holds(l)
  BY DEF QueueInv
<1>3. Holds(l)'
  BY <1>2 DEF Holds
<1> QED BY <1>1, <1>3 DEF QueueInv

\* Connect, the sending and the closing of the socket.
LEMMA SessionMoves ==
  ASSUME LogInv, NEW s \in Session, Connect(s) \/ SendMessage(s) \/ CloseSocket(s)
  PROVE  LogInv'
<1> USE DEF LogInv
<1>1. /\ Running(s)
      /\ \E q \in {"loop", "recv", "done", "dead"} : Goto(s, q)
      /\ kind' = kind /\ argv' = argv /\ wanted' = wanted /\ mpc' = mpc /\ thread' = thread
      /\ messages' = messages /\ closed' = closed /\ echoes' = echoes
      /\ queue' = queue /\ wpc' = wpc /\ info' = info /\ file' = file /\ puts' = puts
  BY DEF Connect, SendMessage, CloseSocket, Running, program, main, writer
<1>2. PICK q \in {"loop", "recv", "done", "dead"} : Goto(s, q)
  BY <1>1
<1>3. TypeInv'
  <2>1. spc' \in [Session -> {"idle", "connect", "loop", "recv", "close", "done", "dead"}]
    BY <1>2 DEF TypeInv, Goto
  <2> QED BY <1>1, <2>1 DEF TypeInv
<1>4. ThreadsInv'
  BY <1>1, <1>2, SessionGoes
<1>5. WriterInv' /\ QueueInv'
  BY <1>1, QueueStays
<1>6. LinesInv'
  BY <1>1 DEF LinesInv
<1> QED BY <1>3, <1>4, <1>5, <1>6

LEMMA RecvKeeps ==
  ASSUME LogInv, NEW s \in Session, Recv(s)
  PROVE  LogInv'
<1> USE DEF LogInv
<1>1. /\ Running(s)
      /\ \E q \in {"loop", "dead"} : Goto(s, q)
      /\ kind' = kind /\ argv' = argv /\ wanted' = wanted /\ mpc' = mpc /\ thread' = thread
      /\ queue' = queue /\ wpc' = wpc /\ info' = info /\ file' = file /\ puts' = puts
  BY DEF Recv, Running, program, main, writer
<1>2. PICK q \in {"loop", "dead"} : Goto(s, q)
  BY <1>1
<1>3. \/ /\ messages' = [messages EXCEPT ![s] = @ + 1]
         /\ echoes' = [echoes EXCEPT ![s] = @ + 1] /\ closed' = closed
      \/ /\ messages' = [messages EXCEPT ![s] = @ + 1]
         /\ echoes' = echoes /\ closed' = [closed EXCEPT ![s] = TRUE]
      \/ /\ messages' = messages
         /\ echoes' = echoes /\ closed' = [closed EXCEPT ![s] = TRUE]
  BY DEF Recv
<1>4. TypeInv'
  <2>1. spc' \in [Session -> {"idle", "connect", "loop", "recv", "close", "done", "dead"}]
    BY <1>2 DEF TypeInv, Goto
  <2>2. messages' \in [Session -> Nat] /\ echoes' \in [Session -> Nat]
    <3>1. messages \in [Session -> Nat] /\ echoes \in [Session -> Nat]
      BY DEF TypeInv
    <3>2. /\ [messages EXCEPT ![s] = @ + 1] \in [Session -> Nat]
          /\ [echoes EXCEPT ![s] = @ + 1] \in [Session -> Nat]
      BY <3>1
    <3> QED BY <1>3, <3>1, <3>2, Zenon
  <2>3. closed' \in [Session -> BOOLEAN]
    BY <1>3, Zenon DEF TypeInv
  <2> QED BY <1>1, <2>1, <2>2, <2>3 DEF TypeInv
<1>5. ThreadsInv'
  BY <1>1, <1>2, SessionGoes
<1>6. WriterInv' /\ QueueInv'
  BY <1>1, QueueStays
<1>7. \A u \in Session : /\ echoes[u] \in Nat /\ messages[u] \in Nat
                         /\ echoes'[u] \in Nat /\ messages'[u] \in Nat
  BY <1>4 DEF TypeInv
<1>8. \A u \in Session : echoes[u] <= echoes'[u] /\ (closed[u] => closed'[u])
  <2>1. \A u \in Session : echoes[u] <= echoes'[u]
    <3>1. echoes' = echoes \/ echoes' = [echoes EXCEPT ![s] = @ + 1]
      BY <1>3, Zenon
    <3>2. CASE echoes' = echoes
      BY <1>7, <3>2
    <3>3. CASE echoes' = [echoes EXCEPT ![s] = @ + 1]
      BY <1>7, <3>3 DEF TypeInv
    <3> QED BY <3>1, <3>2, <3>3
  <2>2. \A u \in Session : closed[u] => closed'[u]
    BY <1>3, Zenon DEF TypeInv
  <2> QED BY <2>1, <2>2
<1>9. \A u \in Session : messages'[u] <= echoes'[u] \/ closed'[u]
  <2> SUFFICES ASSUME NEW u \in Session PROVE messages'[u] <= echoes'[u] \/ closed'[u]
    OBVIOUS
  <2>1. messages[u] <= echoes[u] \/ closed[u]
    BY DEF LinesInv
  <2>2. \/ messages'[u] = messages[u]
        \/ messages'[u] = messages[u] + 1 /\ echoes'[u] = echoes[u] + 1
        \/ closed'[u]
    <3>1. CASE u = s
      <4>1. closed' = [closed EXCEPT ![s] = TRUE] => closed'[u]
        BY <3>1, Zenon DEF TypeInv
      <4> QED BY <1>3, <3>1, <4>1 DEF TypeInv
    <3>2. CASE u # s
      BY <1>3, <3>2 DEF TypeInv
    <3> QED BY <3>1, <3>2
  <2> QED BY <1>7, <1>8, <2>1, <2>2
<1>10. LinesInv'
  <2> SUFFICES ASSUME NEW i \in 2 .. Len(puts)
               PROVE  /\ puts[i].session \in Session /\ puts[i].messages \in Nat
                      /\ puts[i].messages <= echoes'[puts[i].session] \/ closed'[puts[i].session]
    BY <1>1, <1>9 DEF LinesInv
  <2> DEFINE u == puts[i].session
             n == puts[i].messages
  <2>1. u \in Session /\ n \in Nat /\ (n <= echoes[u] \/ closed[u])
    BY DEF LinesInv
  <2> HIDE DEF u, n
  <2>2. n <= echoes'[u] \/ closed'[u]
    BY <1>7, <1>8, <2>1
  <2> QED BY <2>1, <2>2 DEF u, n
<1> QED BY <1>4, <1>5, <1>6, <1>10

\* One more line at the end of what was put.
LEMMA LinesAppend ==
  ASSUME TypeInv, LinesInv, puts # <<>>, NEW s \in Session,
         puts' = Append(puts, [session |-> s, messages |-> messages[s]]),
         messages' = messages, echoes' = echoes, closed' = closed
  PROVE  /\ puts' \in Seq(Entry) /\ puts' # <<>> /\ puts'[1] = puts[1]
         /\ LinesInv'
<1> DEFINE line == [session |-> s, messages |-> messages[s]]
<1>1. line \in Entry /\ line.session = s /\ line.messages = messages[s]
  BY EntryFacts DEF TypeInv
<1>2. puts \in Seq(Entry) /\ puts' = Append(puts, line)
  BY DEF TypeInv
<1> HIDE DEF line
<1>3. /\ puts' \in Seq(Entry) /\ puts' # <<>> /\ Len(puts') = Len(puts) + 1
      /\ \A i \in 1 .. Len(puts) : puts'[i] = puts[i]
      /\ puts'[Len(puts) + 1] = line
  BY <1>1, <1>2, AppendProperties
<1>4. Len(puts) \in Nat /\ Len(puts) >= 1
  BY <1>2, EmptySeq
<1>5. ASSUME NEW i \in 2 .. Len(puts')
      PROVE  /\ puts'[i].session \in Session /\ puts'[i].messages \in Nat
             /\ puts'[i].messages <= echoes[puts'[i].session] \/ closed[puts'[i].session]
  <2>1. CASE i <= Len(puts)
    <3>1. i \in 2 .. Len(puts) /\ puts'[i] = puts[i]
      BY <1>3, <1>4, <1>5, <2>1
    <3> QED BY <3>1 DEF LinesInv
  <2>2. CASE ~(i <= Len(puts))
    <3>1. puts'[i] = line
      BY <1>3, <1>4, <1>5, <2>2
    <3>2. messages[s] \in Nat /\ (messages[s] <= echoes[s] \/ closed[s])
      BY DEF TypeInv, LinesInv
    <3> QED BY <1>1, <3>1, <3>2
  <2> QED BY <2>1, <2>2
<1>6. LinesInv'
  BY <1>5 DEF LinesInv
<1> QED BY <1>3, <1>4, <1>6

LEMMA PutLineKeeps ==
  ASSUME LogInv, NEW s \in Session, PutLine(s)
  PROVE  LogInv'
<1> USE DEF LogInv
<1> DEFINE line == [session |-> s, messages |-> messages[s]]
<1>1. /\ Running(s)
      /\ \E q \in {"close", "dead"} : Goto(s, q)
      /\ kind' = kind /\ argv' = argv /\ wanted' = wanted /\ mpc' = mpc /\ thread' = thread
      /\ messages' = messages /\ closed' = closed /\ echoes' = echoes
      /\ wpc' = wpc /\ info' = info /\ file' = file
      /\ \/ queue' = queue /\ puts' = puts
         \/ queue' = Append(queue, line) /\ puts' = Append(puts, line)
  BY DEF PutLine, Running, program, main, writer
<1>2. PICK q \in {"close", "dead"} : Goto(s, q)
  BY <1>1
<1>3. spc' \in [Session -> {"idle", "connect", "loop", "recv", "close", "done", "dead"}]
  BY <1>2 DEF TypeInv, Goto
<1>4. ThreadsInv' /\ mpc \notin {"log", "done"} /\ wpc # "idle"
  BY <1>1, <1>2, SessionGoes
<1>5. CASE queue' = queue /\ puts' = puts
  <2>1. WriterInv' /\ QueueInv'
    BY <1>1, <1>5, QueueStays
  <2>2. TypeInv'
    BY <1>1, <1>3, <1>5 DEF TypeInv
  <2>3. LinesInv'
    BY <1>1, <1>5 DEF LinesInv
  <2> QED BY <1>4, <2>1, <2>2, <2>3
<1>6. CASE queue' = Append(queue, line) /\ puts' = Append(puts, line)
  <2>1. puts # <<>> /\ puts[1] = Header /\ wpc # "done"
    BY <1>4 DEF WriterInv
  <2>2. puts' \in Seq(Entry) /\ puts' # <<>> /\ puts'[1] = puts[1] /\ LinesInv'
    BY <1>1, <1>6, <2>1, LinesAppend
  <2>3. TypeInv'
    BY <1>1, <1>3, <2>2 DEF TypeInv
  <2>4. WriterInv'
    BY <1>1, <1>4, <2>1, <2>2 DEF WriterInv
  <2>5. PICK l : Holds(l)
    BY DEF QueueInv
  <2>6. PICK e \in Entry : e = line
    BY EntryFacts DEF TypeInv
  <2>7. queue = l /\ l \in Seq(Entry) /\ (file \o info) \o l = puts
    BY <1>4, <2>5 DEF Holds
  <2>8. file \o info \in Seq(Entry)
    BY ConcatProperties DEF TypeInv
  <2>9. (file \o info) \o Append(l, e) = Append(puts, e)
    BY <2>7, <2>8, AppendOne
  <2>10. Append(l, e) \in Seq(Entry)
    BY <2>7
  <2>11. queue' = Append(l, e) /\ puts' = Append(puts, e)
    BY <1>6, <2>6, <2>7
  <2>12. Holds(Append(l, e))'
    BY <1>1, <1>4, <2>9, <2>10, <2>11 DEF Holds
  <2> QED BY <1>4, <2>2, <2>3, <2>4, <2>12 DEF QueueInv
<1> QED BY <1>1, <1>5, <1>6

-----------------------------------------------------------------------------
(* The log thread.                                                         *)

LEMMA OpenLogKeeps == LogInv /\ OpenLog => LogInv'
<1> SUFFICES ASSUME LogInv, OpenLog PROVE LogInv'
  OBVIOUS
<1> USE DEF LogInv
<1>1. /\ wpc = "open" /\ wpc' \in {"get", "dead"}
      /\ kind' = kind /\ argv' = argv /\ wanted' = wanted /\ mpc' = mpc /\ thread' = thread
      /\ spc' = spc /\ messages' = messages /\ closed' = closed /\ echoes' = echoes
      /\ queue' = queue /\ info' = info /\ file' = file /\ puts' = puts
  BY DEF OpenLog, program, main, sessions
<1>2. TypeInv' /\ ThreadsInv' /\ LinesInv' /\ WriterInv'
  BY <1>1 DEF TypeInv, ThreadsInv, Ended, LinesInv, WriterInv
<1>3. PICK l : Holds(l)
  BY DEF QueueInv
<1>4. Holds(l)'
  BY <1>1, <1>3 DEF Holds
<1> QED BY <1>2, <1>4 DEF QueueInv

LEMMA GetKeeps == LogInv /\ Get => LogInv'
<1> SUFFICES ASSUME LogInv, Get PROVE LogInv'
  OBVIOUS
<1> USE DEF LogInv
<1>1. /\ wpc = "get" /\ queue # <<>> /\ queue' = Tail(queue)
      /\ IF Head(queue) = Kill THEN wpc' \in {"done", "dead"} /\ info' = info
                               ELSE wpc' = "write" /\ info' = <<Head(queue)>>
      /\ kind' = kind /\ argv' = argv /\ wanted' = wanted /\ mpc' = mpc /\ thread' = thread
      /\ spc' = spc /\ messages' = messages /\ closed' = closed /\ echoes' = echoes
      /\ file' = file /\ puts' = puts
  BY DEF Get, program, main, sessions
<1>2. info = <<>> /\ mpc # "log"
  BY <1>1 DEF WriterInv
<1>3. PICK l : Holds(l)
  BY DEF QueueInv
<1>4. /\ l \in Seq(Entry) /\ (file \o <<>>) \o l = puts
      /\ queue = (IF mpc = "done" THEN Append(l, Kill) ELSE l)
  BY <1>1, <1>2, <1>3 DEF Holds
<1>5. ThreadsInv' /\ LinesInv'
  BY <1>1 DEF ThreadsInv, Ended, LinesInv
<1>6. CASE l = <<>>
  <2>1. mpc = "done" /\ queue = <<Kill>>
    BY <1>1, <1>4, <1>6
  <2>2. Head(queue) = Kill /\ queue' = <<>>
    BY <1>1, <2>1
  <2>3. wpc' \in {"done", "dead"} /\ info' = <<>>
    BY <1>1, <1>2, <2>2
  <2>4. Holds(<<>>)'
    BY <1>1, <1>4, <1>6, <2>2, <2>3 DEF Holds
  <2>5. WriterInv' /\ TypeInv'
    BY <1>1, <1>2, <2>1, <2>2, <2>3 DEF WriterInv, TypeInv
  <2> QED BY <1>5, <2>4, <2>5 DEF QueueInv
<1>7. CASE l # <<>>
  <2>1. /\ Head(l) \in Entry /\ Tail(l) \in Seq(Entry) /\ <<Head(l)>> \in Seq(Entry)
        /\ (file \o <<Head(l)>>) \o Tail(l) = puts
    BY <1>4, <1>7, TakeOne DEF TypeInv
  <2>2. /\ Head(queue) = Head(l)
        /\ Tail(queue) = IF mpc = "done" THEN Append(Tail(l), Kill) ELSE Tail(l)
    <3>1. CASE mpc = "done"
      <4>1. l \in Seq(Entry \cup {Kill}) /\ Kill \in Entry \cup {Kill}
        BY <1>4
      <4> QED BY <1>4, <1>7, <3>1, <4>1, HeadTailAppend
    <3>2. CASE mpc # "done"
      BY <1>4, <3>2
    <3> QED BY <3>1, <3>2
  <2>3. Head(queue) # Kill
    BY <2>1, <2>2, EntryFacts
  <2>4. wpc' = "write" /\ info' = <<Head(l)>>
    BY <1>1, <2>2, <2>3
  <2>5. Holds(Tail(l))'
    BY <1>1, <2>1, <2>2, <2>4 DEF Holds
  <2>6. WriterInv' /\ TypeInv'
    BY <1>1, <1>2, <2>1, <2>4 DEF WriterInv, TypeInv
  <2> QED BY <1>5, <2>5, <2>6 DEF QueueInv
<1> QED BY <1>6, <1>7

LEMMA WriteKeeps == LogInv /\ Write => LogInv'
<1> SUFFICES ASSUME LogInv, Write PROVE LogInv'
  OBVIOUS
<1> USE DEF LogInv
<1>1. /\ wpc = "write" /\ wpc' \in {"get", "dead"}
      /\ \/ file' = file \o info /\ info' = <<>>
         \/ wpc' = "dead" /\ file' = file /\ info' = info
      /\ kind' = kind /\ argv' = argv /\ wanted' = wanted /\ mpc' = mpc /\ thread' = thread
      /\ spc' = spc /\ messages' = messages /\ closed' = closed /\ echoes' = echoes
      /\ queue' = queue /\ puts' = puts
  BY DEF Write, program, main, sessions
<1>2. file \o info \in Seq(Entry)
  BY ConcatProperties DEF TypeInv
<1>3. file' \o info' = file \o info
  <2>1. (file \o info) \o <<>> = file \o info
    BY <1>2, ConcatEmptySeq
  <2> QED BY <1>1, <2>1
<1>4. file' \in Seq(Entry) /\ info' \in Seq(Entry)
  <2>1. <<>> \in Seq(Entry) /\ file \in Seq(Entry) /\ info \in Seq(Entry)
    BY DEF TypeInv
  <2> QED BY <1>1, <1>2, <2>1
<1>5. TypeInv' /\ ThreadsInv' /\ LinesInv'
  BY <1>1, <1>4 DEF TypeInv, ThreadsInv, Ended, LinesInv
<1>6. WriterInv'
  BY <1>1 DEF WriterInv
<1>7. PICK l : Holds(l)
  BY DEF QueueInv
<1>8. Holds(l)'
  BY <1>1, <1>3, <1>7 DEF Holds
<1> QED BY <1>5, <1>6, <1>8 DEF QueueInv

-----------------------------------------------------------------------------
(* The main thread.                                                        *)

LEMMA StartLogKeeps == LogInv /\ StartLog => LogInv'
<1> SUFFICES ASSUME LogInv, StartLog PROVE LogInv'
  OBVIOUS
<1> USE DEF LogInv
<1>1. /\ mpc = "log"
      /\ kind' = kind /\ argv' = argv /\ wanted' = wanted /\ thread' = thread
      /\ spc' = spc /\ messages' = messages /\ closed' = closed /\ echoes' = echoes
      /\ info' = info /\ file' = file
  BY DEF StartLog, program, sessions
<1>2. /\ wpc = "idle" /\ puts = <<>> /\ queue = <<>> /\ info = <<>> /\ file = <<>>
      /\ \A s \in Session : spc[s] = "idle"
  BY <1>1 DEF WriterInv, ThreadsInv
<1>3. CASE /\ wpc' = "open" /\ mpc' = "threads"
           /\ queue' = <<Header>> /\ puts' = <<Header>>
  <2>1. <<Header>> \in Seq(Entry) /\ (<<>> \o <<>>) \o <<Header>> = <<Header>>
    BY EntryFacts
  <2>2. TypeInv' /\ ThreadsInv' /\ WriterInv'
    BY <1>1, <1>2, <1>3, <2>1 DEF TypeInv, ThreadsInv, WriterInv
  <2>3. LinesInv'
    BY <1>1, <1>3 DEF LinesInv
  <2>4. Holds(<<Header>>)'
    BY <1>1, <1>2, <1>3, <2>1 DEF Holds
  <2> QED BY <2>2, <2>3, <2>4 DEF QueueInv
<1>4. CASE mpc' = "dead" /\ wpc' = wpc /\ queue' = queue /\ puts' = puts
  <2>1. TypeInv' /\ ThreadsInv' /\ WriterInv' /\ LinesInv'
    BY <1>1, <1>2, <1>4 DEF TypeInv, ThreadsInv, WriterInv, LinesInv
  <2>2. PICK l : Holds(l)
    BY DEF QueueInv
  <2>3. Holds(l)'
    BY <1>1, <1>4, <2>2 DEF Holds
  <2> QED BY <2>1, <2>3 DEF QueueInv
<1> QED BY <1>3, <1>4 DEF StartLog

\* CreateThreads, StartThread and JoinThread leave the queue alone.
LEMMA MainMoves == LogInv /\ (CreateThreads \/ StartThread \/ JoinThread) => LogInv'
<1> SUFFICES ASSUME LogInv, CreateThreads \/ StartThread \/ JoinThread PROVE LogInv'
  OBVIOUS
<1> USE DEF LogInv
<1>1. /\ mpc \in {"threads", "start", "join"} /\ mpc' \in {"start", "dead", "join", "kill"}
      /\ kind' = kind /\ argv' = argv /\ wanted' = wanted
      /\ messages' = messages /\ closed' = closed /\ echoes' = echoes
      /\ queue' = queue /\ wpc' = wpc /\ info' = info /\ file' = file /\ puts' = puts
  BY DEF CreateThreads, StartThread, JoinThread, program, sessions, writer
<1>2. WriterInv'
  BY <1>1 DEF WriterInv
<1>3. QueueInv'
  <2>1. PICK l : Holds(l)
    BY DEF QueueInv
  <2>2. Holds(l)'
    BY <1>1, <2>1 DEF Holds
  <2> QED BY <2>2 DEF QueueInv
<1>4. LinesInv'
  BY <1>1 DEF LinesInv
<1>5. /\ thread' \in 1 .. NumSessions + 1
      /\ spc' \in [Session -> {"idle", "connect", "loop", "recv", "close", "done", "dead"}]
  <2> USE LogAssumption DEF TypeInv, Session
  <2>1. CASE CreateThreads
    BY <2>1 DEF CreateThreads, sessions
  <2>2. CASE StartThread
    <3>1. CASE thread > NumSessions
      BY <2>2, <3>1 DEF StartThread
    <3>2. CASE ~(thread > NumSessions)
      <4>1. thread + 1 \in 1 .. NumSessions + 1
        BY <3>2
      <4>2. [spc EXCEPT ![thread] = "connect"]
              \in [Session -> {"idle", "connect", "loop", "recv", "close", "done", "dead"}]
        OBVIOUS
      <4>3. \/ spc' = [spc EXCEPT ![thread] = "connect"] /\ thread' = thread + 1
            \/ spc' = spc /\ thread' = thread
        BY <2>2, <3>2 DEF StartThread, Goto
      <4> QED BY <4>1, <4>2, <4>3
    <3> QED BY <3>1, <3>2
  <2>3. CASE JoinThread
    BY <2>3 DEF JoinThread, sessions
  <2> QED BY <2>1, <2>2, <2>3
<1>6. TypeInv'
  BY <1>1, <1>5 DEF TypeInv
<1>7. ThreadsInv'
  <2> USE LogAssumption DEF Session
  <2>0. wpc # "idle" /\ wpc' # "idle"
    BY <1>1 DEF WriterInv
  <2>1. CASE CreateThreads
    BY <2>1, <2>0 DEF CreateThreads, sessions, ThreadsInv
  <2>2. CASE StartThread
    <3>1. CASE thread > NumSessions
      BY <2>2, <2>0, <3>1 DEF StartThread, ThreadsInv, TypeInv
    <3>2. CASE ~(thread > NumSessions)
      <4>1. mpc = "start" /\ thread \in 1 .. NumSessions
        BY <2>2, <3>2 DEF StartThread, TypeInv
      <4>2. CASE Goto(thread, "connect") /\ thread' = thread + 1 /\ mpc' = mpc
        <5>1. \A s \in Session : s # thread => spc'[s] = spc[s]
          BY <4>2 DEF Goto, TypeInv
        <5> QED BY <2>0, <4>1, <4>2, <5>1 DEF ThreadsInv
      <4>3. CASE mpc' = "dead"
        BY <2>0, <4>3 DEF ThreadsInv
      <4> QED BY <2>2, <3>2, <4>2, <4>3 DEF StartThread
    <3> QED BY <3>1, <3>2
  <2>3. CASE JoinThread
    <3>1. mpc = "join" /\ spc' = spc /\ \A s \in Session : Ended(s)' <=> Ended(s)
      BY <2>3 DEF JoinThread, sessions, Ended
    <3>2. CASE thread > NumSessions /\ mpc' = "kill"
      BY <2>0, <3>1, <3>2 DEF ThreadsInv, TypeInv
    <3>3. CASE Ended(thread) /\ thread' = thread + 1 /\ mpc' = mpc
      BY <2>0, <3>1, <3>3 DEF ThreadsInv, TypeInv
    <3> QED BY <2>3, <3>2, <3>3 DEF JoinThread
  <2> QED BY <2>1, <2>2, <2>3
<1> QED BY <1>2, <1>3, <1>4, <1>6, <1>7

LEMMA PutKillKeeps == LogInv /\ PutKill => LogInv'
<1> SUFFICES ASSUME LogInv, PutKill PROVE LogInv'
  OBVIOUS
<1> USE DEF LogInv
<1>1. /\ mpc = "kill" /\ mpc' = "done" /\ queue' = Append(queue, Kill)
      /\ kind' = kind /\ argv' = argv /\ wanted' = wanted /\ thread' = thread
      /\ spc' = spc /\ messages' = messages /\ closed' = closed /\ echoes' = echoes
      /\ wpc' = wpc /\ info' = info /\ file' = file /\ puts' = puts
  BY DEF PutKill, program, sessions, writer
<1>2. TypeInv' /\ ThreadsInv' /\ LinesInv'
  BY <1>1 DEF TypeInv, ThreadsInv, Ended, LinesInv
<1>3. wpc # "done" /\ WriterInv'
  BY <1>1 DEF WriterInv
<1>4. PICK l : Holds(l)
  BY DEF QueueInv
<1>5. Holds(l)'
  BY <1>1, <1>3, <1>4 DEF Holds
<1> QED BY <1>2, <1>3, <1>5 DEF QueueInv

-----------------------------------------------------------------------------
(* The theorems.                                                           *)

LEMMA NextLog == LogInv /\ [Next]_vars => LogInv'
<1> SUFFICES ASSUME LogInv, [Next]_vars PROVE LogInv'
  OBVIOUS
<1>1. ASSUME NEW s \in Session, SessionStep(s) \/ Recv(s) PROVE LogInv'
  BY <1>1, SessionMoves, PutLineKeeps, RecvKeeps DEF SessionStep
<1>2. CASE MainStep
  BY <1>2, StartLogKeeps, MainMoves, PutKillKeeps DEF MainStep
<1>3. CASE LogStep
  BY <1>3, OpenLogKeeps, GetKeeps, WriteKeeps DEF LogStep
<1>4. ASSUME UNCHANGED vars PROVE LogInv'
  <2> USE <1>4 DEF vars, program, main, sessions, writer, LogInv
  <2>1. TypeInv'
    BY DEF TypeInv
  <2>2. ThreadsInv'
    BY DEF ThreadsInv, Ended
  <2>3. WriterInv' /\ QueueInv'
    BY QueueStays
  <2>4. LinesInv'
    BY DEF LinesInv
  <2> QED BY <2>1, <2>2, <2>3, <2>4
<1> QED BY <1>1, <1>2, <1>3, <1>4 DEF Next, Rest

LEMMA AlwaysLog == Spec => []LogInv
  BY InitLog, NextLog, PTL DEF Spec

\* However many sessions there are and however the threads interleave, every entry
\* put on logFileQueue is in the file once and in order, after the header, or still
\* waits for the log thread, whatever that has died of (py-client.py and
\* client_session_length.py, writeToLogFile).
THEOREM NothingIsLost == Spec => []NothingLost
<1>1. LogInv => NothingLost
  <2> SUFFICES ASSUME LogInv PROVE NothingLost
    OBVIOUS
  <2>1. PICK l : Holds(l)
    BY DEF LogInv, QueueInv
  <2>2. /\ l \in Seq(Entry) /\ (file \o info) \o l = puts
        /\ queue = l \/ queue = Append(l, Kill)
    BY <2>1 DEF Holds
  <2>3. CASE queue = l
    <3>1. l # <<>> => Last(l) \in Entry
      BY <2>2, EmptySeq DEF Last
    <3>2. Waiting = l
      BY <2>3, <3>1, EntryFacts DEF Waiting
    <3> QED BY <2>2, <3>2 DEF NothingLost, LogInv, WriterInv
  <2>4. CASE queue = Append(l, Kill)
    <3>1. l \in Seq(Entry \cup {Kill}) /\ Kill \in Entry \cup {Kill}
      BY <2>2
    <3>2. queue # <<>> /\ Last(queue) = Kill /\ Front(queue) = l
      BY <2>4, <3>1, AppendProperties DEF Last, Front
    <3>3. Waiting = l
      BY <3>2 DEF Waiting
    <3> QED BY <2>2, <3>3 DEF NothingLost, LogInv, WriterInv
  <2> QED BY <2>2, <2>3, <2>4
<1> QED BY <1>1, AlwaysLog, PTL

\* 'kill' is put when every session has ended, nothing comes behind it, and the log
\* thread that has read it has written everything, for every number of sessions
\* (py-client.py and client_session_length.py, main).
THEOREM KillComesLast == Spec => []KillIsLast
<1>1. LogInv => KillIsLast
  <2> SUFFICES ASSUME LogInv, mpc = "done"
               PROVE  /\ \A s \in Session : Ended(s)
                      /\ \A i \in DOMAIN queue : queue[i] = Kill => i = Len(queue)
                      /\ wpc = "done" => file = puts /\ queue = <<>>
    BY DEF KillIsLast
  <2>1. \A s \in Session : Ended(s)
    BY DEF LogInv, ThreadsInv
  <2>2. PICK l : Holds(l)
    BY DEF LogInv, QueueInv
  <2>3. CASE wpc = "done"
    <3>1. queue = <<>> /\ info = <<>> /\ l = <<>> /\ (file \o info) \o l = puts
      BY <2>2, <2>3 DEF LogInv, WriterInv, Holds
    <3>2. (file \o <<>>) \o <<>> = file
      BY ConcatEmptySeq DEF LogInv, TypeInv
    <3> QED BY <2>1, <3>1, <3>2
  <2>4. CASE wpc # "done" /\ queue = l
    <3>1. \A k \in DOMAIN l : l[k] # Kill
      BY <2>2, EntryFacts DEF Holds
    <3> QED BY <2>1, <2>4, <3>1
  <2>5. CASE wpc # "done" /\ queue = Append(l, Kill)
    <3>1. l \in Seq(Entry) /\ queue = Append(l, Kill)
      BY <2>2, <2>5 DEF Holds
    <3>2. l \in Seq(Entry \cup {Kill}) /\ Kill \in Entry \cup {Kill}
      BY <3>1
    <3>3. /\ Len(queue) = Len(l) + 1 /\ DOMAIN queue = 1 .. Len(l) + 1
          /\ \A i \in 1 .. Len(l) : queue[i] = l[i]
      BY <3>1, <3>2, AppendProperties
    <3>4. ASSUME NEW i \in DOMAIN queue, queue[i] = Kill PROVE i = Len(queue)
      <4>1. \A k \in 1 .. Len(l) : l[k] # Kill
        BY <3>1, EntryFacts
      <4> QED BY <3>1, <3>3, <3>4, <4>1
    <3> QED BY <2>1, <2>5, <3>4
  <2> QED BY <2>2, <2>3, <2>4, <2>5 DEF Holds
<1> QED BY <1>1, AlwaysLog, PTL

\* A line never claims more messages than the server echoed to its session, unless
\* the server had closed the connection (py-client.py and client_session_length.py,
\* chatSession).
THEOREM LinesAreEchoes == Spec => []LineCountsEchoes
<1>1. LogInv => LineCountsEchoes
  BY DEF LogInv, LinesInv, LineCountsEchoes
<1> QED BY <1>1, AlwaysLog, PTL
=============================================================================
