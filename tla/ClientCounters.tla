---------------------------- MODULE ClientCounters ----------------------------
(***************************************************************************)
(* The client counters of the threaded servers and the console thread that *)
(* prints them.  "nogui" (EpollServer_NoGUI; EpollServer_Final has the     *)
(* same code) counts per worker and adds the counters up while it prints   *)
(* them; "qt" (QTServer_Console) has one numClients that the accept thread *)
(* and all workers update without the worker_mutex declared for it.        *)
(*                                                                         *)
(* Of the accept thread and the workers only the order of their steps on a *)
(* connection is kept: it is made live in a worker's epoll instance and    *)
(* then counted in; it is closed and counted out after a hang-up, counted  *)
(* out and closed after an error.  Which of the two comes is up to the     *)
(* client, and it may come before the connection is counted in.            *)
(***************************************************************************)
EXTENDS Integers, FiniteSets

CONSTANTS
  Conn,            \* the connections clients may open
  NoConn,          \* "no connection"
  NumWorkers       \* NUM_WORKERS

ASSUME CountersAssumption == NoConn \notin Conn /\ NumWorkers \in Nat \ {0}

Worker   == 0 .. NumWorkers - 1
NoWorker == -1

VARIABLES
  kind,            \* which of the programs
  owner,           \* the worker whose epoll instance has the connection
  fresh,           \* connections not accepted yet
  apc, pick, areg, \* the accept thread: place, n, the value loaded by ++
  wpc, cur, wreg,  \* the workers: place, connection, the value loaded by --
  counter,         \* numClientsInThread, or numClients as counter[0]
  cpc, ci, numClients, printed,   \* UpdateConsole: place, i, sum, the lines' sum
  shown,           \* the number of clients last printed
  overlaps,        \* history: loads of a counter during another's update
  moved            \* history: how far the counters moved during the console's pass

conns    == <<owner, fresh>>
acceptor == <<apc, pick, areg>>
workers  == <<wpc, cur, wreg>>
counters == <<counter, overlaps, moved>>
console  == <<cpc, ci, numClients, printed, shown>>
vars     == <<kind, conns, acceptor, workers, counters, console>>

Slot(w) == IF kind = "qt" THEN 0 ELSE w
Slots   == {Slot(w) : w \in Worker}
Open    == {c \in Conn : owner[c] # NoWorker}
Abs(n)  == IF n < 0 THEN -n ELSE n

-----------------------------------------------------------------------------
(* The counters: every ++ and -- is a load and a store.                    *)

Updating(s) == \/ apc = "store" /\ Slot(pick) = s
               \/ \E w \in Worker : wpc[w] \in {"store", "errStore"} /\ Slot(w) = s

Load(s) == /\ overlaps' = IF Updating(s) THEN [overlaps EXCEPT ![s] = @ + 1] ELSE overlaps
           /\ UNCHANGED <<counter, moved>>

Store(s, v) == /\ counter' = [counter EXCEPT ![s] = v]
               /\ moved' = IF cpc = "sleep" THEN 0 ELSE moved + Abs(v - counter[s])
               /\ UNCHANGED overlaps

\* EPOLL_CTL_ADD makes the connection live in the instance of worker n.
Accept(c) ==
  /\ apc = "wait" /\ c \in fresh
  /\ fresh' = fresh \ {c}
  /\ \E n \in Worker : pick' = n /\ owner' = [owner EXCEPT ![c] = n]
  /\ apc' = "load"
  /\ UNCHANGED <<kind, areg, workers, counters, console>>

\* numClientsInThread[n]++ or numClients++.
CountIn ==
  /\ \/ /\ apc = "load" /\ apc' = "store"
        /\ areg' = counter[Slot(pick)] /\ Load(Slot(pick)) /\ UNCHANGED pick
     \/ /\ apc = "store" /\ apc' = "wait"
        /\ Store(Slot(pick), areg + 1) /\ areg' = 0 /\ pick' = 0
  /\ UNCHANGED <<kind, conns, workers, console>>

\* Mutant: Case 1 closes the connection without counting it out.
EventUncounted(w, c) ==
  /\ wpc[w] = "next" /\ owner[c] = w
  /\ cur' = [cur EXCEPT ![w] = c]
  /\ wpc' \in {[wpc EXCEPT ![w] = p] : p \in {"errClose", "close"}}
  /\ UNCHANGED <<kind, conns, acceptor, wreg, counters, console>>

\* An error (Case 1) or a hang-up (Case 3) of a connection of the worker.
Event(w, c) ==
  /\ wpc[w] = "next" /\ owner[c] = w
  /\ cur' = [cur EXCEPT ![w] = c]
  /\ wpc' \in {[wpc EXCEPT ![w] = p] : p \in {"errLoad", "close"}}
  /\ UNCHANGED <<kind, conns, acceptor, wreg, counters, console>>

\* Case 3 closes and then counts out; Case 1 counts out and then closes.
Close(w) ==
  /\ wpc[w] \in {"close", "errClose"}
  /\ owner' = [owner EXCEPT ![cur[w]] = NoWorker]
  /\ cur' = [cur EXCEPT ![w] = NoConn]
  /\ wpc' = [wpc EXCEPT ![w] = IF @ = "close" THEN "load" ELSE "next"]
  /\ UNCHANGED <<kind, fresh, acceptor, wreg, counters, console>>

\* numClientsInThread[index]-- or numClients--.
CountOut(w) ==
  /\ \/ /\ wpc[w] \in {"load", "errLoad"}
        /\ wpc' = [wpc EXCEPT ![w] = IF @ = "load" THEN "store" ELSE "errStore"]
        /\ wreg' = [wreg EXCEPT ![w] = counter[Slot(w)]]
        /\ Load(Slot(w))
     \/ /\ wpc[w] \in {"store", "errStore"}
        /\ wpc' = [wpc EXCEPT ![w] = IF @ = "store" THEN "next" ELSE "errClose"]
        /\ wreg' = [wreg EXCEPT ![w] = 0]
        /\ Store(Slot(w), wreg[w] - 1)
  /\ UNCHANGED <<kind, conns, cur, acceptor, console>>

-----------------------------------------------------------------------------
(* UpdateConsole.                                                          *)

\* Mutant: numClients is not reset before the sum.
ResetTotalNot ==
  /\ kind = "nogui" /\ cpc = "sleep"
  /\ cpc' = "print" /\ moved' = 0
  /\ UNCHANGED <<kind, conns, acceptor, workers, ci, numClients, printed, shown, counter, overlaps>>

ResetTotal ==
  /\ kind = "nogui" /\ cpc = "sleep"
  /\ cpc' = "print" /\ numClients' = 0 /\ moved' = 0
  /\ UNCHANGED <<kind, conns, acceptor, workers, ci, printed, shown, counter, overlaps>>

\* The line of worker ci reads its counter once, the sum reads it again.
PrintLine ==
  /\ ci < NumWorkers
  /\ \/ /\ cpc = "print" /\ cpc' = "add"
        /\ printed' = printed + counter[ci] /\ UNCHANGED <<ci, numClients>>
     \/ /\ cpc = "add" /\ cpc' = "print"
        /\ numClients' = numClients + counter[ci] /\ ci' = ci + 1 /\ UNCHANGED printed
  /\ UNCHANGED <<kind, conns, acceptor, workers, counters, shown>>

\* Mutant: the loop over the workers leaves out the last.
PrintTotalEarly ==
  /\ cpc = "print" /\ ci = NumWorkers - 1
  /\ shown' = numClients
  /\ cpc' = "sleep" /\ ci' = 0 /\ printed' = 0 /\ moved' = 0
  /\ UNCHANGED <<kind, conns, acceptor, workers, numClients, counter, overlaps>>

PrintTotal ==
  /\ cpc = "print" /\ ci = NumWorkers
  /\ shown' = numClients
  /\ cpc' = "sleep" /\ ci' = 0 /\ printed' = 0 /\ moved' = 0
  /\ UNCHANGED <<kind, conns, acceptor, workers, numClients, counter, overlaps>>

\* The console thread of "qt" prints numClients as it finds it.
PrintNumClients ==
  /\ kind = "qt" /\ shown' = counter[0]
  /\ UNCHANGED <<kind, conns, acceptor, workers, counters, cpc, ci, numClients, printed>>

-----------------------------------------------------------------------------
Init ==
  /\ kind \in {"nogui", "qt"}
  /\ owner = [c \in Conn |-> NoWorker] /\ fresh = Conn
  /\ apc = "wait" /\ pick = 0 /\ areg = 0
  /\ wpc = [w \in Worker |-> "next"] /\ cur = [w \in Worker |-> NoConn]
  /\ wreg = [w \in Worker |-> 0]
  /\ counter = [w \in Worker |-> 0] /\ overlaps = counter /\ moved = 0
  /\ cpc = "sleep" /\ ci = 0 /\ numClients = 0 /\ printed = 0 /\ shown = 0

WorkerUpdate(w) == Close(w) \/ CountOut(w)
UpdateConsole   == ResetTotal \/ PrintLine \/ PrintTotal \/ PrintNumClients

Next ==
  \/ \E c \in Conn : Accept(c) \/ \E w \in Worker : Event(w, c)
  \/ CountIn
  \/ \E w \in Worker : WorkerUpdate(w)
  \/ UpdateConsole

\* Every thread keeps being scheduled; no client need come, leave or fail.
Spec == /\ Init /\ [][Next]_vars
        /\ WF_vars(CountIn) /\ WF_vars(UpdateConsole)
        /\ \A w \in Worker : WF_vars(WorkerUpdate(w))

-----------------------------------------------------------------------------
(* Properties.                                                             *)

Within(a, b, d) == Abs(a - b) <= d

\* What the first n counters add up to; all but the first of "qt" stay 0.
Sums(f)  == LET sum[n \in 0 .. NumWorkers] == IF n = 0 THEN 0 ELSE sum[n - 1] + f[n - 1] IN sum
Total(f) == Sums(f)[NumWorkers]

\* What a counter should say: the connections of its workers, less the one not
\* counted in yet, plus those closed and not counted out, less those counted
\* out and not closed.
Deserved(s) ==
  LET mine == {w \in Worker : Slot(w) = s} IN
  Cardinality({c \in Open : owner[c] \in mine})
    - (IF apc # "wait" /\ pick \in mine THEN 1 ELSE 0)
    + Cardinality({w \in mine : wpc[w] \in {"load", "store"}})
    - Cardinality({w \in mine : wpc[w] = "errClose"})

\* Updated without a lock by the accept thread and one worker ("nogui") or by all
\* threads ("qt"), a counter is off by at most one for every load that fell into
\* another thread's update, however many updates ran into each other.
CounterDrift == \A s \in Slots : Within(counter[s], Deserved(s), overlaps[s])

\* UpdateConsole resets numClients and reads every counter twice while the other
\* threads update them: neither the total it prints nor the sum of its lines is
\* off from the counters by more than these have moved during the pass.
TotalDrift ==
  cpc = "print" /\ ci = NumWorkers =>
    /\ Within(numClients, Total(counter), moved)
    /\ Within(printed, Total(counter), moved)

\* The number on the console comes to rest at the number of open connections, or
\* off from it by no more than the overlapped updates.
EventuallyShown == <>[]Within(shown, Cardinality(Open), Total(overlaps))
=============================================================================
