------------------------- MODULE ClientCountersProofs -------------------------
(***************************************************************************)
(* Proofs about ClientCounters: how far a counter that any number of       *)
(* threads update without a lock can be off, for both ways of counting.    *)
(***************************************************************************)
EXTENDS ClientCounters, FiniteSetTheorems, WellFoundedInduction, TLAPS

-----------------------------------------------------------------------------
(* The inductive invariant.                                                *)

TypeInv ==
  /\ kind \in {"nogui", "qt"}
  /\ owner \in [Conn -> Worker \cup {NoWorker}] /\ fresh \in SUBSET Conn
  /\ apc \in {"wait", "load", "store"} /\ pick \in Worker /\ areg \in Int
  /\ wpc \in [Worker -> {"next", "close", "load", "store", "errLoad", "errStore", "errClose"}]
  /\ cur \in [Worker -> Conn \cup {NoConn}] /\ wreg \in [Worker -> Int]
  /\ counter \in [Worker -> Int] /\ overlaps \in [Worker -> Nat]

\* A connection that was not accepted has no worker; the one that a worker is about
\* to close is its own.
PlacesInv ==
  /\ IsFiniteSet(Open)
  /\ \A c \in fresh : owner[c] = NoWorker
  /\ \A w \in Worker : wpc[w] \in {"close", "errLoad", "errStore", "errClose"} =>
       cur[w] \in Conn /\ owner[cur[w]] = w

\* The parts of Deserved.
Mine(s)    == {w \in Worker : Slot(w) = s}
AtPlace(s, P) == {w \in Mine(s) : wpc[w] \in P}
Held(s)    == {c \in Open : owner[c] \in Mine(s)}
Coming(s)  == IF apc # "wait" /\ Slot(pick) = s THEN 1 ELSE 0
Leaving(s) == AtPlace(s, {"load", "store"})
Failing(s) == AtPlace(s, {"errClose"})

\* The threads that have loaded the counter and not stored it.
Adding(s)   == apc = "store" /\ Slot(pick) = s
Removing(s) == AtPlace(s, {"store", "errStore"})
Busy(s)     == Cardinality(Removing(s)) + (IF Adding(s) THEN 1 ELSE 0)

\* Every update under way may move a value one further from what it should be, and
\* all but the first were counted as overlaps.
Near(s, v) == Abs(v - Deserved(s)) + (IF Busy(s) = 0 THEN 0 ELSE Busy(s) - 1) <= overlaps[s]

\* The counter is near to what it should be, and so is every value loaded from it.
DriftAt(s) ==
  /\ Near(s, counter[s])
  /\ Adding(s) => Near(s, areg)
  /\ \A w \in Removing(s) : Near(s, wreg[w])

DriftInv == \A s \in Slots : DriftAt(s)

CountersInv == TypeInv /\ PlacesInv /\ DriftInv

LEMMA WorkerFacts ==
  /\ Worker \subseteq Int /\ NoWorker \notin Worker /\ IsFiniteSet(Worker) /\ 0 \in Worker
  /\ \A w \in Worker : Slot(w) \in Slots /\ Slot(w) \in Worker
<1>1. IsFiniteSet(0 .. NumWorkers - 1)
  BY CountersAssumption, FS_Interval
<1> QED BY <1>1, CountersAssumption DEF Worker, NoWorker, Slot, Slots

LEMMA SlotsFacts == Slots \subseteq Worker
  BY WorkerFacts DEF Slots

\* The sets behind the numbers are finite.
LEMMA Finite ==
  PlacesInv => \A s, P : /\ IsFiniteSet(Held(s)) /\ Cardinality(Held(s)) \in Nat
                         /\ IsFiniteSet(AtPlace(s, P)) /\ Cardinality(AtPlace(s, P)) \in Nat
<1> SUFFICES ASSUME PlacesInv, NEW s, NEW P
             PROVE  /\ IsFiniteSet(Held(s)) /\ Cardinality(Held(s)) \in Nat
                    /\ IsFiniteSet(AtPlace(s, P)) /\ Cardinality(AtPlace(s, P)) \in Nat
  OBVIOUS
<1>1. IsFiniteSet(Held(s))
  <2>1. Held(s) \subseteq Open
    BY DEF Held
  <2> QED BY <2>1, FS_Subset DEF PlacesInv
<1>2. IsFiniteSet(AtPlace(s, P))
  <2>1. AtPlace(s, P) \subseteq Worker
    BY DEF AtPlace, Mine
  <2> QED BY <2>1, WorkerFacts, FS_Subset
<1> QED BY <1>1, <1>2, FS_CardinalityType

\* What a counter should say, part by part.
DeservedParts(s) ==
  /\ Deserved(s) = Cardinality(Held(s)) - Coming(s)
                     + Cardinality(Leaving(s)) - Cardinality(Failing(s))
  /\ Deserved(s) \in Int /\ Busy(s) \in Nat
  /\ Cardinality(Held(s)) \in Nat /\ Coming(s) \in Nat
  /\ Cardinality(Leaving(s)) \in Nat /\ Cardinality(Failing(s)) \in Nat
  /\ Cardinality(Removing(s)) \in Nat

LEMMA DeservedIs == PlacesInv /\ TypeInv => \A s : DeservedParts(s)
<1> SUFFICES ASSUME PlacesInv, TypeInv, NEW s PROVE DeservedParts(s)
  OBVIOUS
<1>1. /\ Cardinality(Held(s)) \in Nat /\ Coming(s) \in Nat
      /\ Cardinality(Leaving(s)) \in Nat /\ Cardinality(Failing(s)) \in Nat
      /\ Cardinality(Removing(s)) \in Nat
  BY Finite DEF Leaving, Failing, Removing, Coming
<1> DEFINE mine == {w \in Worker : Slot(w) = s}
<1>2. /\ {c \in Open : owner[c] \in mine} = Held(s)
      /\ {w \in mine : wpc[w] \in {"load", "store"}} = Leaving(s)
      /\ {w \in mine : wpc[w] = "errClose"} = Failing(s)
      /\ (IF apc # "wait" /\ pick \in mine THEN 1 ELSE 0) = Coming(s)
  BY DEF Held, Leaving, Failing, Coming, AtPlace, Mine, TypeInv
<1>3. Deserved(s) = Cardinality({c \in Open : owner[c] \in mine})
                      - (IF apc # "wait" /\ pick \in mine THEN 1 ELSE 0)
                      + Cardinality({w \in mine : wpc[w] \in {"load", "store"}})
                      - Cardinality({w \in mine : wpc[w] = "errClose"})
  BY DEF Deserved
<1>4. Deserved(s) = Cardinality(Held(s)) - Coming(s)
                      + Cardinality(Leaving(s)) - Cardinality(Failing(s))
  BY <1>2, <1>3, Zenon
<1> QED BY <1>1, <1>4 DEF Busy, DeservedParts

\* A counter is being updated just when a thread has it loaded.
BusyParts(s) ==
  /\ Adding(s) => Busy(s) >= 1
  /\ Removing(s) # {} => Busy(s) >= 1
  /\ Updating(s) <=> Busy(s) # 0

LEMMA BusyIs == PlacesInv => \A s : BusyParts(s)
<1> SUFFICES ASSUME PlacesInv, NEW s PROVE BusyParts(s)
  OBVIOUS
<1>1. IsFiniteSet(Removing(s)) /\ Cardinality(Removing(s)) \in Nat
  BY Finite DEF Removing
<1>2. Removing(s) = {} <=> Cardinality(Removing(s)) = 0
  BY <1>1, FS_EmptySet
<1>3. Updating(s) <=> Adding(s) \/ Removing(s) # {}
  BY DEF Updating, Adding, Removing, AtPlace, Mine
<1> QED BY <1>1, <1>2, <1>3 DEF BusyParts, Busy

LEMMA InitCounters == Init => CountersInv
<1> SUFFICES ASSUME Init PROVE CountersInv
  OBVIOUS
<1>1. TypeInv
  BY WorkerFacts DEF Init, TypeInv
<1>2. PlacesInv
  <2>1. Open = {}
    BY DEF Init, Open
  <2> QED BY <2>1, FS_EmptySet DEF Init, PlacesInv
<1>3. DriftInv
  <2> SUFFICES ASSUME NEW s \in Slots PROVE DriftAt(s)
    BY DEF DriftInv
  <2>1. /\ Held(s) = {} /\ Leaving(s) = {} /\ Failing(s) = {} /\ Removing(s) = {}
        /\ Coming(s) = 0 /\ ~Adding(s) /\ counter[s] = 0 /\ overlaps[s] = 0
    BY SlotsFacts DEF Init, Held, Open, Leaving, Failing, Removing, AtPlace, Mine, Coming, Adding
  <2>2. Cardinality({}) = 0
    BY FS_EmptySet
  <2>3. /\ Cardinality(Held(s)) = 0 /\ Cardinality(Leaving(s)) = 0
        /\ Cardinality(Failing(s)) = 0 /\ Cardinality(Removing(s)) = 0
    BY <2>1, <2>2, Zenon
  <2>4. Deserved(s) = Cardinality(Held(s)) - Coming(s)
                        + Cardinality(Leaving(s)) - Cardinality(Failing(s))
    BY <1>1, <1>2, DeservedIs DEF DeservedParts
  <2>5. Deserved(s) = 0 /\ Busy(s) = 0
    BY <2>1, <2>3, <2>4 DEF Busy
  <2> QED BY <2>1, <2>5 DEF DriftAt, Near, Abs
<1> QED BY <1>1, <1>2, <1>3 DEF CountersInv

-----------------------------------------------------------------------------
(* What a step may do to one counter, and that it stays near.              *)

\* Nothing that matters to it.
Still(s) ==
  /\ Deserved(s)' = Deserved(s) /\ Busy(s)' = Busy(s)
  /\ overlaps'[s] = overlaps[s] /\ counter'[s] = counter[s]
  /\ Adding(s)' => Adding(s) /\ areg' = areg
  /\ \A w \in Removing(s)' : w \in Removing(s) /\ wreg'[w] = wreg[w]

\* One more thread loads it.
Loaded(s) ==
  /\ Deserved(s)' = Deserved(s) /\ Busy(s)' = Busy(s) + 1
  /\ overlaps'[s] = IF Busy(s) = 0 THEN overlaps[s] ELSE overlaps[s] + 1
  /\ counter'[s] = counter[s]
  /\ Adding(s)' => areg' = counter[s] \/ (Adding(s) /\ areg' = areg)
  /\ \A w \in Removing(s)' : wreg'[w] = counter[s] \/ (w \in Removing(s) /\ wreg'[w] = wreg[w])

\* A thread that has loaded r stores the next or the previous number.
Stored(s, r, d) ==
  /\ r \in Int /\ d \in {1, -1} /\ Near(s, r)
  /\ Deserved(s)' = Deserved(s) + d /\ Busy(s) = Busy(s)' + 1
  /\ overlaps'[s] = overlaps[s] /\ counter'[s] = r + d
  /\ Adding(s)' => Adding(s) /\ areg' = areg
  /\ \A w \in Removing(s)' : w \in Removing(s) /\ wreg'[w] = wreg[w]

\* The numbers are integers before and after the step.
Numbers(s) ==
  /\ Deserved(s) \in Int /\ Busy(s) \in Nat /\ overlaps[s] \in Nat
  /\ counter[s] \in Int /\ areg \in Int /\ \A w \in Removing(s) : wreg[w] \in Int

LEMMA StillNear ==
  ASSUME NEW s, DriftAt(s), Still(s)
  PROVE  DriftAt(s)'
<1>1. \A v : Near(s, v)' <=> Near(s, v)
  BY DEF Still, Near, Abs
<1> QED BY DEF Still, DriftAt, Near, Abs

LEMMA LoadedNear ==
  ASSUME NEW s, Numbers(s), DriftAt(s), Loaded(s)
  PROVE  DriftAt(s)'
<1> USE DEF Near, Abs
<1>1. ASSUME NEW v \in Int, Near(s, v) PROVE Near(s, v)'
  BY <1>1 DEF Loaded, Numbers
<1>2. Near(s, counter[s])'
  BY DEF Loaded, Numbers, DriftAt
<1>3. ASSUME Adding(s)' PROVE Near(s, areg)'
  <2>1. CASE areg' = counter[s]
    BY <2>1 DEF Loaded, Numbers, DriftAt
  <2>2. CASE Adding(s) /\ areg' = areg
    BY <2>2 DEF Loaded, Numbers, DriftAt
  <2> QED BY <1>3, <2>1, <2>2 DEF Loaded
<1>4. ASSUME NEW w \in Removing(s)' PROVE Near(s, wreg[w])'
  <2>1. CASE wreg'[w] = counter[s]
    BY <2>1 DEF Loaded, Numbers, DriftAt
  <2>2. CASE w \in Removing(s) /\ wreg'[w] = wreg[w]
    BY <2>2 DEF Loaded, Numbers, DriftAt
  <2> QED BY <1>4, <2>1, <2>2 DEF Loaded
<1> QED BY <1>2, <1>3, <1>4 DEF DriftAt

LEMMA StoredNear ==
  ASSUME NEW s, NEW r, NEW d, Numbers(s), DriftAt(s), Stored(s, r, d),
         BusyParts(s)', Busy(s)' \in Nat
  PROVE  DriftAt(s)'
<1> USE DEF Near, Abs
<1>1. /\ r \in Int /\ d \in {1, -1} /\ Busy(s)' \in Int /\ Deserved(s) \in Int
      /\ overlaps[s] \in Nat
  BY DEF Stored, Numbers
<1>2. Near(s, counter[s])'
  BY <1>1 DEF Stored
<1>3. ASSUME NEW v \in Int, Near(s, v), Busy(s)' >= 1 PROVE Near(s, v)'
  BY <1>1, <1>3 DEF Stored
<1>4. ASSUME Adding(s)' PROVE Near(s, areg)'
  <2>1. Adding(s) /\ areg' = areg /\ Busy(s)' >= 1
    BY <1>4 DEF Stored, BusyParts
  <2> QED BY <1>3, <2>1 DEF Numbers, DriftAt
<1>5. ASSUME NEW w \in Removing(s)' PROVE Near(s, wreg[w])'
  <2>1. w \in Removing(s) /\ wreg'[w] = wreg[w] /\ Busy(s)' >= 1
    BY <1>5 DEF Stored, BusyParts
  <2> QED BY <1>3, <2>1 DEF Numbers, DriftAt
<1> QED BY <1>2, <1>4, <1>5 DEF DriftAt

-----------------------------------------------------------------------------
(* What moves the numbers: a worker's place, a connection's owner.         *)

LEMMA OneMore ==
  ASSUME NEW S, IsFiniteSet(S), NEW x
  PROVE  /\ x \notin S => Cardinality(S \cup {x}) = Cardinality(S) + 1
         /\ x \in S => Cardinality(S \ {x}) = Cardinality(S) - 1
         /\ x \in S => S \cup {x} = S
         /\ x \notin S => S \ {x} = S
  BY FS_AddElement, FS_RemoveElement

Goes(w, q) == wpc' = [wpc EXCEPT ![w] = q]

LEMMA PlaceMoves ==
  ASSUME TypeInv, PlacesInv, kind' = kind, NEW w \in Worker, NEW q, Goes(w, q), NEW s, NEW P
  PROVE  /\ \/ Slot(w) # s
            \/ q \in P /\ wpc[w] \in P
            \/ q \notin P /\ wpc[w] \notin P
            => AtPlace(s, P)' = AtPlace(s, P)
         /\ Slot(w) = s /\ q \in P /\ wpc[w] \notin P =>
              Cardinality(AtPlace(s, P)') = Cardinality(AtPlace(s, P)) + 1
         /\ Slot(w) = s /\ q \notin P /\ wpc[w] \in P =>
              /\ AtPlace(s, P)' \subseteq AtPlace(s, P)
              /\ Cardinality(AtPlace(s, P)') = Cardinality(AtPlace(s, P)) - 1
<1>1. /\ \A u \in Worker : Slot(u)' = Slot(u) /\ wpc'[u] = (IF u = w THEN q ELSE wpc[u])
      /\ IsFiniteSet(AtPlace(s, P))
  BY Finite DEF Slot, TypeInv, Goes
<1>2. /\ AtPlace(s, P) = {u \in Worker : Slot(u) = s /\ wpc[u] \in P}
      /\ AtPlace(s, P)' = {u \in Worker : Slot(u) = s /\ (IF u = w THEN q ELSE wpc[u]) \in P}
  BY <1>1 DEF AtPlace, Mine
<1>3. ASSUME Slot(w) = s, q \in P, wpc[w] \notin P
      PROVE  AtPlace(s, P)' = AtPlace(s, P) \cup {w} /\ w \notin AtPlace(s, P)
  BY <1>2, <1>3
<1>4. ASSUME Slot(w) = s, q \notin P, wpc[w] \in P
      PROVE  AtPlace(s, P)' = AtPlace(s, P) \ {w} /\ w \in AtPlace(s, P)
  BY <1>2, <1>4
<1>5. \/ Slot(w) # s
      \/ q \in P /\ wpc[w] \in P
      \/ q \notin P /\ wpc[w] \notin P
      => AtPlace(s, P)' = AtPlace(s, P)
  BY <1>2
<1> QED BY <1>1, <1>3, <1>4, <1>5, OneMore

LEMMA PlacesStay ==
  ASSUME kind' = kind, wpc' = wpc, NEW s
  PROVE  /\ Leaving(s)' = Leaving(s) /\ Failing(s)' = Failing(s) /\ Removing(s)' = Removing(s)
         /\ Mine(s)' = Mine(s)
  BY DEF Leaving, Failing, Removing, AtPlace, Mine, Slot

LEMMA HeldStays ==
  ASSUME kind' = kind, owner' = owner, NEW s
  PROVE  Held(s)' = Held(s)
  BY DEF Held, Open, Mine, Slot

LEMMA PrimedParts ==
  /\ (PlacesInv /\ TypeInv => \A s : DeservedParts(s))'
  /\ (PlacesInv => \A s : BusyParts(s))'
<1>1. (PlacesInv /\ TypeInv => \A s : DeservedParts(s))'
  BY DeservedIs, PTL
<1>2. (PlacesInv => \A s : BusyParts(s))'
  BY BusyIs, PTL
<1> QED BY <1>1, <1>2

LEMMA DriftKept ==
  ASSUME CountersInv, TypeInv', PlacesInv', kind' = kind,
         \A s \in Slots : Still(s) \/ Loaded(s) \/ \E r, d : Stored(s, r, d)
  PROVE  CountersInv'
<1>1. Slots' = Slots
  BY DEF Slots, Slot
<1>2. ASSUME NEW s \in Slots PROVE DriftAt(s)'
  <2>1. Numbers(s)
    <3>1. DeservedParts(s) /\ s \in Worker
      BY DeservedIs, SlotsFacts DEF CountersInv
    <3> QED BY <3>1 DEF DeservedParts, Numbers, CountersInv, TypeInv, Removing, AtPlace, Mine
  <2>2. DriftAt(s)
    BY DEF CountersInv, DriftInv
  <2>3. DeservedParts(s)' /\ BusyParts(s)'
    BY PrimedParts
  <2>4. Busy(s)' \in Nat
    BY <2>3 DEF DeservedParts
  <2>5. CASE Still(s)
    BY <2>2, <2>5, StillNear
  <2>6. CASE Loaded(s)
    BY <2>1, <2>2, <2>6, LoadedNear
  <2>7. CASE \E r, d : Stored(s, r, d)
    <3>1. PICK r, d : Stored(s, r, d)
      BY <2>7
    <3> QED BY <2>1, <2>2, <2>3, <2>4, <3>1, StoredNear
  <2> QED BY <2>5, <2>6, <2>7
<1>3. DriftInv'
  BY <1>1, <1>2 DEF DriftInv
<1> QED BY <1>3 DEF CountersInv

\* The numbers of a counter stay when its parts do.
LEMMA PartsStay ==
  ASSUME TypeInv, PlacesInv, TypeInv', PlacesInv', NEW s,
         Cardinality(Held(s))' - Coming(s)' + Cardinality(Leaving(s))' - Cardinality(Failing(s))'
           = Cardinality(Held(s)) - Coming(s) + Cardinality(Leaving(s)) - Cardinality(Failing(s))
  PROVE  Deserved(s)' = Deserved(s)
<1>1. DeservedParts(s) /\ DeservedParts(s)'
  BY DeservedIs, PrimedParts
<1>2. /\ Deserved(s) = Cardinality(Held(s)) - Coming(s)
                         + Cardinality(Leaving(s)) - Cardinality(Failing(s))
      /\ Deserved(s)' = Cardinality(Held(s))' - Coming(s)'
                         + Cardinality(Leaving(s))' - Cardinality(Failing(s))'
  BY <1>1 DEF DeservedParts
<1> QED BY <1>2, Zenon

-----------------------------------------------------------------------------
(* One lemma per action.                                                   *)

LEMMA AcceptCounts ==
  ASSUME CountersInv, NEW c \in Conn, Accept(c)
  PROVE  CountersInv'
<1> USE DEF CountersInv
<1>1. PICK n \in Worker : pick' = n /\ owner' = [owner EXCEPT ![c] = n]
  BY DEF Accept
<1>2. /\ apc = "wait" /\ apc' = "load" /\ c \in fresh /\ fresh' = fresh \ {c} /\ areg' = areg
      /\ kind' = kind /\ wpc' = wpc /\ cur' = cur /\ wreg' = wreg
      /\ counter' = counter /\ overlaps' = overlaps
  BY DEF Accept, workers, counters
<1>3. owner[c] = NoWorker /\ c \notin Open
  BY <1>2 DEF PlacesInv, Open
<1>4. TypeInv'
  BY <1>1, <1>2 DEF TypeInv
<1>5. /\ Open' = Open \cup {c} /\ IsFiniteSet(Open \cup {c})
      /\ \A d \in Conn : owner'[d] = IF d = c THEN n ELSE owner[d]
  <2>1. \A d \in Conn : owner'[d] = IF d = c THEN n ELSE owner[d]
    BY <1>1 DEF TypeInv
  <2> QED BY <2>1, WorkerFacts, FS_AddElement DEF Open, PlacesInv
<1>6. PlacesInv'
  <2>1. IsFiniteSet(Open)'
    BY <1>5
  <2>2. \A d \in fresh' : owner'[d] = NoWorker
    BY <1>2, <1>5 DEF PlacesInv, TypeInv
  <2>3. ASSUME NEW w \in Worker, wpc'[w] \in {"close", "errLoad", "errStore", "errClose"}
        PROVE  cur'[w] \in Conn /\ owner'[cur'[w]] = w
    <3>1. cur[w] \in Conn /\ owner[cur[w]] = w
      BY <1>2, <2>3 DEF PlacesInv
    <3> QED BY <1>2, <1>3, <1>5, <3>1, WorkerFacts
  <2> QED BY <2>1, <2>2, <2>3 DEF PlacesInv
<1>7. ASSUME NEW s \in Slots PROVE Still(s)
  <2>1. /\ Leaving(s)' = Leaving(s) /\ Failing(s)' = Failing(s) /\ Removing(s)' = Removing(s)
        /\ Mine(s)' = Mine(s)
    BY <1>2, PlacesStay
  <2>2. Cardinality(Held(s))' - Coming(s)' = Cardinality(Held(s)) - Coming(s)
    <3>1. IsFiniteSet(Held(s)) /\ Cardinality(Held(s)) \in Nat
      BY Finite
    <3>2. Coming(s) = 0 /\ Coming(s)' = IF n \in Mine(s) THEN 1 ELSE 0
      BY <1>1, <1>2 DEF Coming, Mine, Slot
    <3>3. CASE n \in Mine(s)
      <4>1. Held(s)' = Held(s) \cup {c} /\ c \notin Held(s)
        BY <1>3, <1>5, <2>1, <3>3 DEF Held, Open
      <4>2. Cardinality(Held(s) \cup {c}) = Cardinality(Held(s)) + 1
        BY <3>1, <4>1, FS_AddElement
      <4>3. Cardinality(Held(s))' = Cardinality(Held(s)) + 1
        BY <4>1, <4>2, Zenon
      <4> QED BY <3>1, <3>2, <3>3, <4>3
    <3>4. CASE n \notin Mine(s)
      <4>1. Held(s)' = Held(s)
        BY <1>3, <1>5, <2>1, <3>4 DEF Held, Open
      <4> QED BY <3>1, <3>2, <3>4, <4>1
    <3> QED BY <3>3, <3>4
  <2>3. Deserved(s)' = Deserved(s)
    BY <1>4, <1>6, <2>1, <2>2, PartsStay
  <2> QED BY <1>2, <2>1, <2>3 DEF Still, Busy, Adding
<1> QED BY <1>2, <1>4, <1>6, <1>7, DriftKept

LEMMA EventCounts ==
  ASSUME CountersInv, NEW w \in Worker, NEW c \in Conn, Event(w, c)
  PROVE  CountersInv'
<1> USE DEF CountersInv
<1>1. PICK q \in {"errLoad", "close"} : wpc' = [wpc EXCEPT ![w] = q]
  BY DEF Event
<1>2. /\ wpc[w] = "next" /\ owner[c] = w /\ cur' = [cur EXCEPT ![w] = c]
      /\ kind' = kind /\ owner' = owner /\ fresh' = fresh
      /\ apc' = apc /\ pick' = pick /\ areg' = areg /\ wreg' = wreg
      /\ counter' = counter /\ overlaps' = overlaps
  BY DEF Event, conns, acceptor, counters
<1>3. TypeInv'
  BY <1>1, <1>2 DEF TypeInv
<1>4. PlacesInv'
  <2>1. \A u \in Worker : /\ cur'[u] = IF u = w THEN c ELSE cur[u]
                          /\ wpc'[u] = IF u = w THEN q ELSE wpc[u]
    BY <1>1, <1>2 DEF TypeInv
  <2>2. Open' = Open
    BY <1>2 DEF Open
  <2> QED BY <1>2, <2>1, <2>2 DEF PlacesInv
<1>5. ASSUME NEW s \in Slots PROVE Still(s)
  <2>1. Leaving(s)' = Leaving(s) /\ Failing(s)' = Failing(s) /\ Removing(s)' = Removing(s)
    <3>1. ASSUME NEW P, q \notin P, wpc[w] \notin P PROVE AtPlace(s, P)' = AtPlace(s, P)
      <4>1. TypeInv /\ PlacesInv /\ kind' = kind /\ Goes(w, q)
        BY <1>1, <1>2 DEF Goes
      <4> QED BY <3>1, <4>1, PlaceMoves
    <3> QED BY <1>2, <3>1 DEF Leaving, Failing, Removing
  <2>2. Held(s)' = Held(s) /\ Coming(s)' = Coming(s)
    BY <1>2, HeldStays DEF Coming, Slot
  <2>3. Deserved(s)' = Deserved(s)
    BY <1>3, <1>4, <2>1, <2>2, PartsStay
  <2> QED BY <1>2, <2>1, <2>3 DEF Still, Busy, Adding, Slot
<1> QED BY <1>2, <1>3, <1>4, <1>5, DriftKept

LEMMA CloseCounts ==
  ASSUME CountersInv, NEW w \in Worker, Close(w)
  PROVE  CountersInv'
<1> USE DEF CountersInv
<1> DEFINE c == cur[w]
           q == IF wpc[w] = "close" THEN "load" ELSE "next"
<1>1. /\ wpc[w] \in {"close", "errClose"} /\ owner' = [owner EXCEPT ![c] = NoWorker]
      /\ cur' = [cur EXCEPT ![w] = NoConn] /\ wpc' = [wpc EXCEPT ![w] = q]
      /\ kind' = kind /\ fresh' = fresh /\ apc' = apc /\ pick' = pick /\ areg' = areg
      /\ wreg' = wreg /\ counter' = counter /\ overlaps' = overlaps
  BY DEF Close, acceptor, counters, TypeInv
<1>2. c \in Conn /\ owner[c] = w /\ c \in Open
  BY <1>1, WorkerFacts DEF PlacesInv, Open
<1>3. \A d \in Conn : owner'[d] = IF d = c THEN NoWorker ELSE owner[d]
  BY <1>1, <1>2 DEF TypeInv
<1>4. \A u \in Worker : /\ cur'[u] = IF u = w THEN NoConn ELSE cur[u]
                        /\ wpc'[u] = IF u = w THEN q ELSE wpc[u]
  BY <1>1 DEF TypeInv
<1>5. TypeInv'
  <2>1. owner' \in [Conn -> Worker \cup {NoWorker}] /\ cur' \in [Worker -> Conn \cup {NoConn}]
    BY <1>1 DEF TypeInv
  <2>2. wpc' \in [Worker -> {"next", "close", "load", "store", "errLoad", "errStore", "errClose"}]
    BY <1>1 DEF TypeInv
  <2> QED BY <1>1, <2>1, <2>2 DEF TypeInv
<1> HIDE DEF c
<1>6. Open' = Open \ {c}
  BY <1>3 DEF Open
<1>7. PlacesInv'
  <2>1. IsFiniteSet(Open)'
    BY <1>2, <1>6, FS_RemoveElement DEF PlacesInv
  <2>2. \A d \in fresh' : owner'[d] = NoWorker
    BY <1>1, <1>3 DEF PlacesInv, TypeInv
  <2>3. ASSUME NEW u \in Worker, wpc'[u] \in {"close", "errLoad", "errStore", "errClose"}
        PROVE  cur'[u] \in Conn /\ owner'[cur'[u]] = u
    <3>1. u # w
      BY <1>4, <2>3
    <3>2. cur[u] \in Conn /\ owner[cur[u]] = u /\ cur'[u] = cur[u]
      BY <1>4, <2>3, <3>1 DEF PlacesInv
    <3> QED BY <1>2, <1>3, <3>1, <3>2
  <2> QED BY <2>1, <2>2, <2>3 DEF PlacesInv
<1>8. ASSUME NEW s \in Slots PROVE Still(s)
  <2> USE DEF Leaving, Failing, Removing
  <2>1. TypeInv /\ PlacesInv /\ kind' = kind /\ Goes(w, q)
    BY <1>1 DEF Goes
  <2>2. Removing(s)' = Removing(s)
    BY <1>1, <2>1, PlaceMoves
  <2>3. Coming(s)' = Coming(s) /\ Mine(s)' = Mine(s)
    BY <1>1 DEF Coming, Mine, Slot
  <2>4. /\ IsFiniteSet(Held(s)) /\ Cardinality(Held(s)) \in Nat
        /\ Cardinality(Leaving(s)) \in Nat /\ Cardinality(Failing(s)) \in Nat
    BY Finite
  <2>5. CASE Slot(w) # s
    <3>1. Leaving(s)' = Leaving(s) /\ Failing(s)' = Failing(s)
      BY <2>1, <2>5, PlaceMoves
    <3>2. Held(s)' = Held(s)
      BY <1>2, <1>3, <1>6, <2>3, <2>5 DEF Held, Mine, Open
    <3>3. Deserved(s)' = Deserved(s)
      BY <1>5, <1>7, <2>3, <3>1, <3>2, PartsStay
    <3> QED BY <1>1, <2>2, <3>3 DEF Still, Busy, Adding, Slot
  <2>6. CASE Slot(w) = s
    <3>1. Held(s)' = Held(s) \ {c} /\ c \in Held(s)
      BY <1>2, <1>3, <1>6, <2>3, <2>6 DEF Held, Mine, Open
    <3>2. Cardinality(Held(s) \ {c}) = Cardinality(Held(s)) - 1
      BY <2>4, <3>1, FS_RemoveElement
    <3>3. Cardinality(Held(s))' = Cardinality(Held(s)) - 1
      BY <3>1, <3>2, Zenon
    <3>4. Cardinality(Leaving(s))' - Cardinality(Failing(s))'
            = Cardinality(Leaving(s)) - Cardinality(Failing(s)) + 1
      <4>1. CASE wpc[w] = "close"
        <5>1. Failing(s)' = Failing(s)
          BY <2>1, <4>1, PlaceMoves
        <5>2. Cardinality(Leaving(s))' = Cardinality(Leaving(s)) + 1
          BY <2>1, <2>6, <4>1, PlaceMoves
        <5> QED BY <2>4, <5>1, <5>2
      <4>2. CASE wpc[w] = "errClose"
        <5>1. Leaving(s)' = Leaving(s)
          BY <2>1, <4>2, PlaceMoves
        <5>2. Cardinality(Failing(s))' = Cardinality(Failing(s)) - 1
          BY <2>1, <2>6, <4>2, PlaceMoves
        <5> QED BY <2>4, <5>1, <5>2
      <4> QED BY <1>1, <4>1, <4>2
    <3>5. DeservedParts(s) /\ DeservedParts(s)'
      BY <1>5, <1>7, DeservedIs, PrimedParts
    <3>6. Deserved(s)' = Deserved(s)
      BY <2>3, <3>3, <3>4, <3>5 DEF DeservedParts
    <3> QED BY <1>1, <2>2, <3>6 DEF Still, Busy, Adding, Slot
  <2> QED BY <2>5, <2>6
<1> QED BY <1>1, <1>5, <1>7, <1>8, DriftKept

\* numClientsInThread[n]++: the load.
LEMMA CountInLoads ==
  ASSUME CountersInv, CountIn, apc = "load"
  PROVE  CountersInv'
<1> USE DEF CountersInv
<1> DEFINE t == Slot(pick)
<1>1. /\ apc' = "store" /\ areg' = counter[t] /\ pick' = pick /\ counter' = counter
      /\ overlaps' = IF Updating(t) THEN [overlaps EXCEPT ![t] = @ + 1] ELSE overlaps
      /\ kind' = kind /\ owner' = owner /\ fresh' = fresh
      /\ wpc' = wpc /\ cur' = cur /\ wreg' = wreg
  BY DEF CountIn, Load, conns, workers
<1>2. t \in Worker /\ t \in Slots
  BY WorkerFacts DEF TypeInv
<1>3. TypeInv'
  <2>1. areg' \in Int /\ overlaps' \in [Worker -> Nat]
    BY <1>1, <1>2 DEF TypeInv
  <2> QED BY <1>1, <2>1 DEF TypeInv
<1>4. PlacesInv'
  BY <1>1 DEF PlacesInv, Open
<1>5. ASSUME NEW s \in Slots PROVE Still(s) \/ Loaded(s)
  <2>1. /\ Leaving(s)' = Leaving(s) /\ Failing(s)' = Failing(s) /\ Removing(s)' = Removing(s)
        /\ Held(s)' = Held(s) /\ Coming(s)' = Coming(s)
    BY <1>1, PlacesStay, HeldStays DEF Coming, Slot
  <2>2. Deserved(s)' = Deserved(s)
    BY <1>3, <1>4, <2>1, PartsStay
  <2>3. s \in Worker /\ DeservedParts(s) /\ BusyParts(s)
    BY DeservedIs, BusyIs, SlotsFacts
  <2>4. overlaps'[s] = IF s = t /\ Updating(t) THEN overlaps[s] + 1 ELSE overlaps[s]
    BY <1>1, <1>2, <2>3 DEF TypeInv
  <2>5. CASE s = t
    <3>1. ~Adding(s) /\ Adding(s)'
      BY <1>1, <2>5 DEF Adding, Slot
    <3>2. Busy(s)' = Busy(s) + 1
      BY <2>1, <2>3, <3>1 DEF Busy, DeservedParts
    <3> QED BY <1>1, <2>1, <2>2, <2>3, <2>4, <2>5, <3>2 DEF Loaded, BusyParts
  <2>6. CASE s # t
    <3>1. ~Adding(s) /\ ~Adding(s)'
      BY <1>1, <2>6 DEF Adding, Slot
    <3> QED BY <1>1, <2>1, <2>2, <2>4, <2>6, <3>1 DEF Still, Busy
  <2> QED BY <2>5, <2>6
<1> QED BY <1>1, <1>3, <1>4, <1>5, DriftKept

\* numClientsInThread[n]++: the store.
LEMMA CountInStores ==
  ASSUME CountersInv, CountIn, apc = "store"
  PROVE  CountersInv'
<1> USE DEF CountersInv
<1> DEFINE t == Slot(pick)
<1>1. /\ apc' = "wait" /\ areg' = 0 /\ pick' = 0 /\ overlaps' = overlaps
      /\ counter' = [counter EXCEPT ![t] = areg + 1]
      /\ kind' = kind /\ owner' = owner /\ fresh' = fresh
      /\ wpc' = wpc /\ cur' = cur /\ wreg' = wreg
  BY DEF CountIn, Store, conns, workers
<1>2. t \in Worker /\ t \in Slots /\ 0 \in Worker
  BY WorkerFacts DEF TypeInv
<1>3. TypeInv'
  <2>1. counter' \in [Worker -> Int]
    BY <1>1, <1>2 DEF TypeInv
  <2> QED BY <1>1, <1>2, <2>1 DEF TypeInv
<1>4. PlacesInv'
  BY <1>1 DEF PlacesInv, Open
<1>5. ASSUME NEW s \in Slots PROVE Still(s) \/ \E r, d : Stored(s, r, d)
  <2>1. /\ Leaving(s)' = Leaving(s) /\ Failing(s)' = Failing(s) /\ Removing(s)' = Removing(s)
        /\ Held(s)' = Held(s)
    BY <1>1, PlacesStay, HeldStays
  <2>2. s \in Worker /\ DeservedParts(s) /\ DeservedParts(s)'
    BY <1>3, <1>4, DeservedIs, PrimedParts, SlotsFacts
  <2>3. ~Adding(s)' /\ Coming(s)' = 0
    BY <1>1 DEF Adding, Coming
  <2>4. counter'[s] = IF s = t THEN areg + 1 ELSE counter[s]
    BY <1>1, <1>2, <2>2 DEF TypeInv
  <2>5. CASE s = t
    <3>1. Adding(s) /\ Coming(s) = 1
      BY <2>5 DEF Adding, Coming
    <3>2. Deserved(s)' = Deserved(s) + 1
      BY <2>1, <2>2, <2>3, <3>1 DEF DeservedParts
    <3>3. Busy(s) = Busy(s)' + 1
      BY <2>1, <2>2, <2>3, <3>1 DEF DeservedParts, Busy
    <3>4. Near(s, areg) /\ areg \in Int
      BY <3>1 DEF DriftInv, DriftAt, TypeInv
    <3>5. Stored(s, areg, 1)
      BY <1>1, <2>1, <2>3, <2>4, <2>5, <3>2, <3>3, <3>4 DEF Stored
    <3> QED BY <3>5
  <2>6. CASE s # t
    <3>1. ~Adding(s) /\ Coming(s) = 0
      BY <2>6 DEF Adding, Coming
    <3>2. Deserved(s)' = Deserved(s)
      BY <1>3, <1>4, <2>1, <2>3, <3>1, PartsStay
    <3> QED BY <1>1, <2>1, <2>3, <2>4, <2>6, <3>1, <3>2 DEF Still, Busy
  <2> QED BY <2>5, <2>6
<1> QED BY <1>1, <1>3, <1>4, <1>5, DriftKept

LEMMA CountInCounts == CountersInv /\ CountIn => CountersInv'
<1>1. CountIn => apc = "load" \/ apc = "store"
  BY DEF CountIn
<1> QED BY <1>1, CountInLoads, CountInStores

\* What the two halves of CountOut do to the places.
LEMMA CountOutPlaces ==
  ASSUME CountersInv, NEW w \in Worker, CountOut(w)
  PROVE  PlacesInv'
<1> USE DEF CountersInv
<1>1. /\ kind' = kind /\ owner' = owner /\ fresh' = fresh /\ cur' = cur
      /\ \A u \in Worker : wpc'[u] \in {"close", "errLoad", "errStore", "errClose"} =>
           wpc[u] \in {"close", "errLoad", "errStore", "errClose"}
  BY DEF CountOut, conns, TypeInv
<1> QED BY <1>1 DEF PlacesInv, Open

\* numClientsInThread[index]--: the load.
LEMMA CountOutLoads ==
  ASSUME CountersInv, NEW w \in Worker, CountOut(w), wpc[w] \in {"load", "errLoad"}
  PROVE  CountersInv'
<1> USE DEF CountersInv
<1> DEFINE t == Slot(w)
           q == IF wpc[w] = "load" THEN "store" ELSE "errStore"
<1>1. /\ wpc' = [wpc EXCEPT ![w] = q] /\ wreg' = [wreg EXCEPT ![w] = counter[t]]
      /\ overlaps' = IF Updating(t) THEN [overlaps EXCEPT ![t] = @ + 1] ELSE overlaps
      /\ counter' = counter /\ kind' = kind /\ owner' = owner /\ fresh' = fresh /\ cur' = cur
      /\ apc' = apc /\ pick' = pick /\ areg' = areg
  BY DEF CountOut, Load, conns, acceptor, TypeInv
<1>2. t \in Worker /\ t \in Slots
  BY WorkerFacts
<1>3. TypeInv'
  <2>1. overlaps' \in [Worker -> Nat] /\ wreg' \in [Worker -> Int]
    BY <1>1, <1>2 DEF TypeInv
  <2>2. wpc' \in [Worker -> {"next", "close", "load", "store", "errLoad", "errStore", "errClose"}]
    BY <1>1 DEF TypeInv
  <2> QED BY <1>1, <2>1, <2>2 DEF TypeInv
<1>4. PlacesInv'
  BY CountOutPlaces
<1>5. ASSUME NEW s \in Slots PROVE Still(s) \/ Loaded(s)
  <2>1. TypeInv /\ PlacesInv /\ kind' = kind /\ Goes(w, q)
    BY <1>1 DEF Goes
  <2>2. Leaving(s)' = Leaving(s) /\ Failing(s)' = Failing(s)
    BY <2>1, PlaceMoves DEF Leaving, Failing
  <2>3. Held(s)' = Held(s) /\ Coming(s)' = Coming(s) /\ (Adding(s)' <=> Adding(s))
    BY <1>1, HeldStays DEF Coming, Slot, Adding
  <2>4. Deserved(s)' = Deserved(s)
    BY <1>3, <1>4, <2>2, <2>3, PartsStay
  <2>5. s \in Worker /\ DeservedParts(s) /\ BusyParts(s)
    BY DeservedIs, BusyIs, SlotsFacts
  <2>6. overlaps'[s] = IF s = t /\ Updating(t) THEN overlaps[s] + 1 ELSE overlaps[s]
    BY <1>1, <1>2, <2>5 DEF TypeInv
  <2>7. \A u \in Worker : /\ wreg'[u] = IF u = w THEN counter[t] ELSE wreg[u]
                          /\ wpc'[u] = IF u = w THEN q ELSE wpc[u]
    BY <1>1 DEF TypeInv
  <2>8. \A u \in Removing(s)' : (u = w /\ s = t) \/ (u \in Removing(s) /\ wreg'[u] = wreg[u])
    BY <1>1, <2>7 DEF Removing, AtPlace, Mine, Slot
  <2>9. CASE s = t
    <3>1. Cardinality(Removing(s))' = Cardinality(Removing(s)) + 1
      BY <2>1, <2>9, PlaceMoves DEF Removing
    <3>2. Busy(s)' = Busy(s) + 1
      BY <2>3, <2>5, <3>1 DEF Busy, DeservedParts
    <3> QED BY <1>1, <2>3, <2>4, <2>5, <2>6, <2>7, <2>8, <2>9, <3>2 DEF Loaded, BusyParts
  <2>10. CASE s # t
    <3>1. Removing(s)' = Removing(s)
      BY <2>1, <2>10, PlaceMoves DEF Removing
    <3>2. Busy(s)' = Busy(s)
      BY <2>3, <3>1 DEF Busy
    <3> QED BY <1>1, <2>3, <2>4, <2>6, <2>8, <2>10, <3>2 DEF Still
  <2> QED BY <2>9, <2>10
<1> QED BY <1>1, <1>3, <1>4, <1>5, DriftKept

\* numClientsInThread[index]--: the store.
LEMMA CountOutStores ==
  ASSUME CountersInv, NEW w \in Worker, CountOut(w), wpc[w] \in {"store", "errStore"}
  PROVE  CountersInv'
<1> USE DEF CountersInv
<1> DEFINE t == Slot(w)
           q == IF wpc[w] = "store" THEN "next" ELSE "errClose"
<1>1. /\ wpc' = [wpc EXCEPT ![w] = q] /\ wreg' = [wreg EXCEPT ![w] = 0]
      /\ counter' = [counter EXCEPT ![t] = wreg[w] - 1] /\ overlaps' = overlaps
      /\ kind' = kind /\ owner' = owner /\ fresh' = fresh /\ cur' = cur
      /\ apc' = apc /\ pick' = pick /\ areg' = areg
  BY DEF CountOut, Store, conns, acceptor, TypeInv
<1>2. t \in Worker /\ t \in Slots
  BY WorkerFacts
<1>3. TypeInv'
  <2>1. counter' \in [Worker -> Int] /\ wreg' \in [Worker -> Int]
    BY <1>1, <1>2 DEF TypeInv
  <2>2. wpc' \in [Worker -> {"next", "close", "load", "store", "errLoad", "errStore", "errClose"}]
    BY <1>1 DEF TypeInv
  <2> QED BY <1>1, <2>1, <2>2 DEF TypeInv
<1>4. PlacesInv'
  BY CountOutPlaces
<1>5. ASSUME NEW s \in Slots PROVE Still(s) \/ \E r, d : Stored(s, r, d)
  <2>1. TypeInv /\ PlacesInv /\ kind' = kind /\ Goes(w, q)
    BY <1>1 DEF Goes
  <2>2. Held(s)' = Held(s) /\ Coming(s)' = Coming(s) /\ (Adding(s)' <=> Adding(s))
    BY <1>1, HeldStays DEF Coming, Slot, Adding
  <2>3. s \in Worker /\ DeservedParts(s) /\ DeservedParts(s)'
    BY <1>3, <1>4, DeservedIs, PrimedParts, SlotsFacts
  <2>4. counter'[s] = IF s = t THEN wreg[w] - 1 ELSE counter[s]
    BY <1>1, <1>2, <2>3 DEF TypeInv
  <2>5. \A u \in Worker : /\ wreg'[u] = IF u = w THEN 0 ELSE wreg[u]
                          /\ wpc'[u] = IF u = w THEN q ELSE wpc[u]
    BY <1>1 DEF TypeInv
  <2>6. \A u \in Removing(s)' : u \in Removing(s) /\ wreg'[u] = wreg[u]
    BY <1>1, <2>5 DEF Removing, AtPlace, Mine, Slot
  <2>7. CASE s = t
    <3>1. w \in Removing(s)
      BY <2>7 DEF Removing, AtPlace, Mine
    <3>2. Cardinality(Removing(s))' = Cardinality(Removing(s)) - 1
      BY <2>1, <2>7, PlaceMoves DEF Removing
    <3>3. Busy(s) = Busy(s)' + 1
      BY <2>2, <2>3, <3>2 DEF Busy, DeservedParts
    <3>4. Cardinality(Leaving(s))' - Cardinality(Failing(s))'
            = Cardinality(Leaving(s)) - Cardinality(Failing(s)) - 1
      <4>1. CASE wpc[w] = "store"
        <5>1. Failing(s)' = Failing(s)
          BY <2>1, <4>1, PlaceMoves DEF Failing
        <5>2. Cardinality(Leaving(s))' = Cardinality(Leaving(s)) - 1
          BY <2>1, <2>7, <4>1, PlaceMoves DEF Leaving
        <5> QED BY <2>3, <5>1, <5>2 DEF DeservedParts
      <4>2. CASE wpc[w] = "errStore"
        <5>1. Leaving(s)' = Leaving(s)
          BY <2>1, <4>2, PlaceMoves DEF Leaving
        <5>2. Cardinality(Failing(s))' = Cardinality(Failing(s)) + 1
          BY <2>1, <2>7, <4>2, PlaceMoves DEF Failing
        <5> QED BY <2>3, <5>1, <5>2 DEF DeservedParts
      <4> QED BY <4>1, <4>2
    <3>5. Deserved(s)' = Deserved(s) - 1
      BY <2>2, <2>3, <3>4 DEF DeservedParts
    <3>6. Near(s, wreg[w]) /\ wreg[w] \in Int
      BY <3>1 DEF DriftInv, DriftAt, TypeInv
    <3>7. Stored(s, wreg[w], -1)
      BY <1>1, <2>2, <2>4, <2>6, <2>7, <3>3, <3>5, <3>6 DEF Stored
    <3> QED BY <3>7
  <2>8. CASE s # t
    <3>1. Leaving(s)' = Leaving(s) /\ Failing(s)' = Failing(s) /\ Removing(s)' = Removing(s)
      BY <2>1, <2>8, PlaceMoves DEF Leaving, Failing, Removing
    <3>2. Deserved(s)' = Deserved(s)
      BY <1>3, <1>4, <2>2, <3>1, PartsStay
    <3> QED BY <1>1, <2>2, <2>4, <2>6, <2>8, <3>1, <3>2 DEF Still, Busy
  <2> QED BY <2>7, <2>8
<1> QED BY <1>1, <1>3, <1>4, <1>5, DriftKept

LEMMA CountOutCounts ==
  ASSUME CountersInv, NEW w \in Worker, CountOut(w)
  PROVE  CountersInv'
<1>1. wpc[w] \in {"load", "errLoad"} \/ wpc[w] \in {"store", "errStore"}
  BY DEF CountOut
<1> QED BY <1>1, CountOutLoads, CountOutStores

\* The console only reads the counters.
LEMMA NothingCounts ==
  ASSUME CountersInv,
         UNCHANGED <<kind, conns, acceptor, workers, counter, overlaps>>
  PROVE  CountersInv'
<1> USE DEF CountersInv
<1>1. /\ kind' = kind /\ owner' = owner /\ fresh' = fresh
      /\ apc' = apc /\ pick' = pick /\ areg' = areg
      /\ wpc' = wpc /\ cur' = cur /\ wreg' = wreg
      /\ counter' = counter /\ overlaps' = overlaps
  BY DEF conns, acceptor, workers
<1>2. TypeInv'
  BY <1>1 DEF TypeInv
<1>3. PlacesInv'
  BY <1>1 DEF PlacesInv, Open
<1>4. ASSUME NEW s \in Slots PROVE Still(s)
  <2>1. /\ Leaving(s)' = Leaving(s) /\ Failing(s)' = Failing(s) /\ Removing(s)' = Removing(s)
        /\ Held(s)' = Held(s) /\ Coming(s)' = Coming(s) /\ (Adding(s)' <=> Adding(s))
    BY <1>1, PlacesStay, HeldStays DEF Coming, Slot, Adding
  <2>2. Deserved(s)' = Deserved(s)
    BY <1>2, <1>3, <2>1, PartsStay
  <2> QED BY <1>1, <2>1, <2>2 DEF Still, Busy
<1> QED BY <1>1, <1>2, <1>3, <1>4, DriftKept

LEMMA NextCounters == CountersInv /\ [Next]_vars => CountersInv'
<1> SUFFICES ASSUME CountersInv, [Next]_vars PROVE CountersInv'
  OBVIOUS
<1>1. ASSUME NEW c \in Conn, Accept(c) PROVE CountersInv'
  BY <1>1, AcceptCounts
<1>2. ASSUME NEW w \in Worker, NEW c \in Conn, Event(w, c) PROVE CountersInv'
  BY <1>2, EventCounts
<1>3. CASE CountIn
  BY <1>3, CountInCounts
<1>4. ASSUME NEW w \in Worker, WorkerUpdate(w) PROVE CountersInv'
  BY <1>4, CloseCounts, CountOutCounts DEF WorkerUpdate
<1>5. CASE UpdateConsole
  <2>1. UNCHANGED <<kind, conns, acceptor, workers, counter, overlaps>>
    BY <1>5 DEF UpdateConsole, ResetTotal, PrintLine, PrintTotal, PrintNumClients, counters
  <2> QED BY <2>1, NothingCounts
<1>6. CASE UNCHANGED vars
  BY <1>6, NothingCounts DEF vars, counters
<1> QED BY <1>1, <1>2, <1>3, <1>4, <1>5, <1>6 DEF Next

LEMMA AlwaysCounters == Spec => []CountersInv
  BY InitCounters, NextCounters, PTL DEF Spec

-----------------------------------------------------------------------------
\* With any number of clients, of workers and of updates that run into each other,
\* counter and "qt"'s numClients are never further off from the connections they
\* stand for than one for every load that fell into another thread's update
\* (EpollServer_NoGUI/server.cpp, QTServer_Console/QtServer_Console/server.cpp).
THEOREM DriftBounded == Spec => []CounterDrift
<1>1. CountersInv => CounterDrift
  <2> SUFFICES ASSUME CountersInv, NEW s \in Slots
               PROVE  Within(counter[s], Deserved(s), overlaps[s])
    BY DEF CounterDrift
  <2>1. Near(s, counter[s])
    BY DEF CountersInv, DriftInv, DriftAt
  <2>2. /\ Deserved(s) \in Int /\ Busy(s) \in Nat
        /\ counter[s] \in Int /\ overlaps[s] \in Nat
    BY DeservedIs, SlotsFacts DEF CountersInv, TypeInv, DeservedParts
  <2> QED BY <2>1, <2>2 DEF Near, Within, Abs
<1> QED BY <1>1, AlwaysCounters, PTL
-----------------------------------------------------------------------------
(* The console's pass over the counters.                                   *)

\* The places of the pass. What has been added up so far, and what the lines show,
\* is off from the first counters by no more than the counters have moved.
PassInv ==
  /\ cpc # "sleep" => kind = "nogui"
  /\ cpc \in {"sleep", "print", "add"} /\ ci \in 0 .. NumWorkers
  /\ numClients \in Int /\ printed \in Int /\ moved \in Nat
  /\ cpc = "sleep" => ci = 0 /\ printed = 0
  /\ cpc = "add" => ci < NumWorkers /\ Within(printed, Sums(counter)[ci + 1], moved)
  /\ cpc = "print" => Within(printed, Sums(counter)[ci], moved)
  /\ cpc # "sleep" => Within(numClients, Sums(counter)[ci], moved)

\* Induction over the natural numbers, for the set of those that have a property.
LEMMA NatSet ==
  ASSUME NEW T, 0 \in T, \A n \in Nat : n \in T => n + 1 \in T
  PROVE  \A n \in Nat : n \in T
<1> DEFINE R == OpToRel(<, Nat)
           U == Nat \ T
<1>1. SUFFICES ASSUME U # {} PROVE FALSE
  OBVIOUS
<1>2. PICK x \in U : \A y \in U : ~ (<<y, x>> \in R)
  <2>1. IsWellFoundedOn(R, Nat)
    BY NatLessThanWellFounded
  <2>2. U \subseteq Nat
    OBVIOUS
  <2> HIDE DEF R, U
  <2> QED BY <1>1, <2>1, <2>2, WFMin
<1>3. x # 0 /\ x \in Nat
  OBVIOUS
<1>4. x - 1 \in Nat /\ x - 1 \notin T
  BY <1>3
<1>5. <<x - 1, x>> \in R
  BY <1>3, <1>4 DEF OpToRel
<1> QED BY <1>2, <1>4, <1>5

\* There is a function with the values the recursion asks for.
LEMMA SumsExist ==
  ASSUME NEW f
  PROVE  \E g : g = [n \in 0 .. NumWorkers |-> IF n = 0 THEN 0 ELSE g[n - 1] + f[n - 1]]
<1> DEFINE Upto(g, m) == g = [n \in 0 .. m |-> IF n = 0 THEN 0 ELSE g[n - 1] + f[n - 1]]
           T == {m \in Nat : \E g : Upto(g, m)}
<1>1. 0 \in T
  <2>1. Upto([n \in 0 .. 0 |-> 0], 0)
    OBVIOUS
  <2> QED BY <2>1
<1>2. ASSUME NEW m \in Nat, m \in T PROVE m + 1 \in T
  <2>1. PICK g : Upto(g, m)
    BY <1>2
  <2> DEFINE h == [n \in 0 .. m + 1 |-> IF n = m + 1 THEN g[m] + f[m] ELSE g[n]]
  <2>2. \A n \in 0 .. m + 1 : h[n] = IF n = 0 THEN 0 ELSE h[n - 1] + f[n - 1]
    <3> TAKE n \in 0 .. m + 1
    <3>1. CASE n = m + 1
      BY <3>1
    <3>2. CASE n \in 0 .. m
      BY <2>1, <3>2
    <3> QED BY <3>1, <3>2
  <2>3. h = [n \in 0 .. m + 1 |-> h[n]]
    OBVIOUS
  <2> HIDE DEF h
  <2>4. Upto(h, m + 1)
    BY <2>2, <2>3
  <2> QED BY <2>4
<1> HIDE DEF T
<1>3. NumWorkers \in T
  BY <1>1, <1>2, NatSet, CountersAssumption
<1> QED BY <1>3 DEF T

LEMMA SumsDef ==
  ASSUME NEW f
  PROVE  /\ Sums(f)[0] = 0
         /\ \A n \in Worker : Sums(f)[n + 1] = Sums(f)[n] + f[n]
<1>1. Sums(f) = [n \in 0 .. NumWorkers |-> IF n = 0 THEN 0 ELSE Sums(f)[n - 1] + f[n - 1]]
  BY SumsExist DEF Sums
<1> QED BY <1>1, CountersAssumption DEF Worker

LEMMA SumsType ==
  ASSUME NEW f \in [Worker -> Int]
  PROVE  \A n \in 0 .. NumWorkers : Sums(f)[n] \in Int
<1> DEFINE T == {n \in Nat : n <= NumWorkers => Sums(f)[n] \in Int}
<1>1. 0 \in T
  BY SumsDef
<1>2. ASSUME NEW n \in Nat, n \in T PROVE n + 1 \in T
  <2>1. SUFFICES ASSUME n + 1 <= NumWorkers PROVE Sums(f)[n + 1] \in Int
    OBVIOUS
  <2>2. n \in Worker /\ Sums(f)[n] \in Int
    BY <1>2, <2>1, CountersAssumption DEF Worker
  <2> QED BY <2>2, SumsDef
<1> HIDE DEF T
<1>3. \A n \in Nat : n \in T
  BY <1>1, <1>2, NatSet
<1> QED BY <1>3, CountersAssumption DEF T

\* A sum moves with a counter that is among those it adds up.
LEMMA SumsMove ==
  ASSUME NEW f \in [Worker -> Int], NEW s \in Worker, NEW v \in Int
  PROVE  LET g == [f EXCEPT ![s] = v] IN
         \A n \in 0 .. NumWorkers :
            Sums(g)[n] = Sums(f)[n] + (IF s < n THEN v - f[s] ELSE 0)
<1> DEFINE g == [f EXCEPT ![s] = v]
           Moved(n) == Sums(g)[n] = Sums(f)[n] + (IF s < n THEN v - f[s] ELSE 0)
           T == {n \in Nat : n <= NumWorkers => Moved(n)}
<1>0. s \in Int /\ s >= 0
  BY CountersAssumption DEF Worker
<1>1. 0 \in T
  BY <1>0, SumsDef
<1>2. ASSUME NEW n \in Nat, n \in T PROVE n + 1 \in T
  <2>1. SUFFICES ASSUME n + 1 <= NumWorkers PROVE Moved(n + 1)
    OBVIOUS
  <2>2. n \in Worker /\ Moved(n) /\ n \in 0 .. NumWorkers
    BY <1>2, <2>1, CountersAssumption DEF Worker
  <2>3. Sums(f)[n] \in Int /\ f[n] \in Int /\ f[s] \in Int
    BY <2>2, SumsType
  <2>4. g[n] = IF n = s THEN v ELSE f[n]
    BY <2>2
  <2>5. Sums(g)[n + 1] = Sums(g)[n] + g[n] /\ Sums(f)[n + 1] = Sums(f)[n] + f[n]
    BY <2>2, SumsDef
  <2> HIDE DEF g
  <2> QED BY <1>0, <2>2, <2>3, <2>4, <2>5
<1> HIDE DEF T, Moved
<1>3. \A n \in Nat : n \in T
  BY <1>1, <1>2, NatSet
<1>4. \A n \in 0 .. NumWorkers : Moved(n)
  BY <1>3, CountersAssumption DEF T
<1> QED BY <1>4 DEF Moved

LEMMA InitPass == Init => PassInv
  BY CountersAssumption DEF Init, PassInv

\* While the console is under way every store moves the sums no further than moved.
LEMMA StorePass ==
  ASSUME TypeInv, PassInv, NEW s \in Worker, NEW v \in Int, Store(s, v),
         UNCHANGED <<kind, console>>
  PROVE  PassInv'
<1> DEFINE d == v - counter[s]
<1>1. counter \in [Worker -> Int] /\ counter' = [counter EXCEPT ![s] = v] /\ d \in Int
  BY DEF Store, TypeInv
<1>2. cpc' = cpc /\ ci' = ci /\ numClients' = numClients /\ printed' = printed
  BY DEF console
<1>3. moved' = (IF cpc = "sleep" THEN 0 ELSE moved + Abs(d)) /\ moved \in Nat /\ moved' \in Nat
  BY <1>1 DEF Store, PassInv, Abs
<1> HIDE DEF d
<1>4. ASSUME NEW n \in 0 .. NumWorkers, NEW a \in Int, cpc # "sleep",
             Within(a, Sums(counter)[n], moved)
      PROVE  Within(a, Sums(counter')[n], moved')
  <2>1. /\ Sums(counter)[n] \in Int
        /\ Sums(counter')[n] = Sums(counter)[n] + d \/ Sums(counter')[n] = Sums(counter)[n]
    <3>1. Sums(counter')[n] = Sums(counter)[n] + (IF s < n THEN d ELSE 0)
      BY <1>1, SumsMove DEF d
    <3>2. Sums(counter)[n] \in Int
      BY <1>1, SumsType
    <3> QED BY <3>1, <3>2
  <2> QED BY <1>1, <1>3, <1>4, <2>1 DEF Within, Abs
<1>5. cpc = "add" => ci + 1 \in 0 .. NumWorkers
  BY CountersAssumption DEF PassInv
<1>6. /\ cpc = "add" => Within(printed, Sums(counter')[ci + 1], moved')
      /\ cpc = "print" => Within(printed, Sums(counter')[ci], moved')
      /\ cpc # "sleep" => Within(numClients, Sums(counter')[ci], moved')
  BY <1>4, <1>5 DEF PassInv
<1> QED BY <1>2, <1>3, <1>6 DEF PassInv

LEMMA PassStays ==
  ASSUME PassInv, UNCHANGED <<kind, counter, moved, cpc, ci, numClients, printed>>
  PROVE  PassInv'
  BY DEF PassInv

LEMMA ConsolePass ==
  ASSUME TypeInv, PassInv, UpdateConsole
  PROVE  PassInv'
<1>0. NumWorkers \in Nat /\ counter \in [Worker -> Int]
  BY CountersAssumption DEF TypeInv
<1>1. CASE ResetTotal
  <2>1. /\ cpc' = "print" /\ numClients' = 0 /\ moved' = 0 /\ ci' = 0 /\ printed' = 0
        /\ counter' = counter /\ kind' = "nogui"
    BY <1>1 DEF ResetTotal, PassInv
  <2>2. Sums(counter')[0] = 0
    BY SumsDef
  <2> QED BY <1>0, <2>1, <2>2 DEF PassInv, Within, Abs
<1>2. CASE PrintLine
  <2>1. /\ ci \in Worker /\ ci + 1 \in 0 .. NumWorkers
        /\ counter' = counter /\ moved' = moved /\ moved \in Nat
        /\ printed \in Int /\ numClients \in Int
    BY <1>0, <1>2 DEF PrintLine, counters, PassInv, Worker
  <2>2. /\ Sums(counter)[ci + 1] = Sums(counter)[ci] + counter[ci]
        /\ Sums(counter)[ci] \in Int /\ counter[ci] \in Int
    BY <1>0, <2>1, SumsDef, SumsType DEF PassInv
  <2>3. CASE cpc = "print"
    <3>1. cpc' = "add" /\ printed' = printed + counter[ci] /\ UNCHANGED <<ci, numClients>>
      BY <1>2, <2>3 DEF PrintLine
    <3>2. Within(printed', Sums(counter')[ci' + 1], moved') /\ printed' \in Int
      BY <2>1, <2>2, <2>3, <3>1 DEF PassInv, Within, Abs
    <3> QED BY <1>2, <2>1, <2>3, <3>1, <3>2 DEF PassInv, PrintLine
  <2>4. CASE cpc = "add"
    <3>1. /\ cpc' = "print" /\ numClients' = numClients + counter[ci] /\ ci' = ci + 1
          /\ printed' = printed /\ kind' = kind
      BY <1>2, <2>4 DEF PrintLine
    <3>2. Within(numClients', Sums(counter')[ci'], moved') /\ numClients' \in Int
      BY <2>1, <2>2, <2>4, <3>1 DEF PassInv, Within, Abs
    <3> QED BY <2>1, <2>4, <3>1, <3>2 DEF PassInv
  <2> QED BY <1>2, <2>3, <2>4 DEF PrintLine
<1>3. CASE PrintTotal
  BY <1>0, <1>3 DEF PrintTotal, PassInv
<1>4. CASE PrintNumClients
  BY <1>4, PassStays DEF PrintNumClients, counters
<1> QED BY <1>1, <1>2, <1>3, <1>4 DEF UpdateConsole

LEMMA NextPass ==
  ASSUME TypeInv, PassInv, [Next]_vars
  PROVE  PassInv'
<1>1. CASE CountIn
  <2>1. /\ UNCHANGED <<kind, console>>
        /\ \/ UNCHANGED <<counter, moved>>
           \/ Store(Slot(pick), areg + 1)
    BY <1>1 DEF CountIn, Load
  <2>2. Slot(pick) \in Worker /\ areg + 1 \in Int
    BY WorkerFacts DEF TypeInv
  <2> QED BY <2>1, <2>2, StorePass, PassStays DEF console
<1>2. ASSUME NEW w \in Worker, CountOut(w) PROVE PassInv'
  <2>1. /\ UNCHANGED <<kind, console>>
        /\ \/ UNCHANGED <<counter, moved>>
           \/ Store(Slot(w), wreg[w] - 1)
    BY <1>2 DEF CountOut, Load
  <2>2. Slot(w) \in Worker /\ wreg[w] - 1 \in Int
    BY WorkerFacts DEF TypeInv
  <2> QED BY <2>1, <2>2, StorePass, PassStays DEF console
<1>3. ASSUME UNCHANGED <<kind, counters, console>> PROVE PassInv'
  BY <1>3, PassStays DEF counters, console
<1>4. CASE UpdateConsole
  BY <1>4, ConsolePass
<1> QED BY <1>1, <1>2, <1>3, <1>4
        DEF Next, WorkerUpdate, Accept, Event, Close, vars

LEMMA AlwaysPass == Spec => []PassInv
<1>1. CountersInv /\ PassInv /\ [Next]_vars => PassInv'
  BY NextPass DEF CountersInv
<1> QED BY <1>1, InitPass, AlwaysCounters, PTL DEF Spec

\* UpdateConsole reads each of any number of counters twice while the other threads
\* update them, and resets numClients at each pass: neither the total nor the sum of
\* the lines is off from the counters by more than these moved during the pass
\* (EpollServer_NoGUI/server.cpp).
THEOREM TotalBounded == Spec => []TotalDrift
<1>1. PassInv => TotalDrift
  BY DEF PassInv, TotalDrift, Total
<1> QED BY <1>1, AlwaysPass, PTL

-----------------------------------------------------------------------------
(* What the console prints and the connections that are open.              *)

\* The connections and threads of the first n workers.
HeldBelow(n)   == {c \in Open : owner[c] \in Worker /\ owner[c] < n}
MidBelow(n)    == {w \in Worker : w < n /\ wpc[w] \in {"load", "store", "errClose"}}
ComingBelow(n) == IF apc # "wait" /\ pick < n THEN 1 ELSE 0

\* The threads between opening or closing a connection and counting it.
Midway == ComingBelow(NumWorkers) + Cardinality(MidBelow(NumWorkers))

LEMMA FiniteBelow ==
  ASSUME PlacesInv, NEW n
  PROVE  /\ IsFiniteSet(HeldBelow(n)) /\ Cardinality(HeldBelow(n)) \in Nat
         /\ IsFiniteSet(MidBelow(n)) /\ Cardinality(MidBelow(n)) \in Nat
<1>1. HeldBelow(n) \subseteq Open /\ MidBelow(n) \subseteq Worker
  BY DEF HeldBelow, MidBelow
<1> QED BY <1>1, WorkerFacts, FS_Subset, FS_CardinalityType DEF PlacesInv

LEMMA DisjointUnion ==
  ASSUME NEW S, NEW T, IsFiniteSet(S), IsFiniteSet(T), S \cap T = {}
  PROVE  Cardinality(S \cup T) = Cardinality(S) + Cardinality(T)
<1>1. Cardinality(S) \in Nat /\ Cardinality(T) \in Nat /\ Cardinality({}) = 0
  BY FS_CardinalityType, FS_EmptySet
<1>2. Cardinality(S \cup T) = Cardinality(S) + Cardinality(T) - Cardinality(S \cap T)
  BY FS_Union
<1>3. Cardinality(S \cap T) = 0
  BY <1>1
<1> QED BY <1>1, <1>2, <1>3

\* Worker n of "nogui" adds what its own counter is about.
LEMMA OneWorkerMore ==
  ASSUME TypeInv, PlacesInv, kind = "nogui", NEW n \in Worker
  PROVE  /\ Cardinality(HeldBelow(n + 1)) = Cardinality(HeldBelow(n)) + Cardinality(Held(n))
         /\ Cardinality(MidBelow(n + 1))
              = Cardinality(MidBelow(n)) + Cardinality(Leaving(n)) + Cardinality(Failing(n))
         /\ ComingBelow(n + 1) = ComingBelow(n) + Coming(n)
<1>1. /\ \A w \in Worker : w \in Int /\ Slot(w) = w
      /\ n \in Int /\ Mine(n) = {n} /\ pick \in Worker
  BY WorkerFacts DEF Slot, Mine, TypeInv
<1> DEFINE Lt(w, m) == w < m
<1>2. ~Lt(n, n) /\ \A w \in Worker : Lt(w, n + 1) <=> Lt(w, n) \/ w = n
  BY <1>1
<1>3. /\ \A m : HeldBelow(m) = {c \in Open : owner[c] \in Worker /\ Lt(owner[c], m)}
      /\ \A m : MidBelow(m)
                  = {w \in Worker : Lt(w, m) /\ wpc[w] \in {"load", "store", "errClose"}}
  BY DEF HeldBelow, MidBelow
<1>4. /\ Held(n) = {c \in Open : owner[c] = n}
      /\ Leaving(n) = {w \in Worker : w = n /\ wpc[w] \in {"load", "store"}}
      /\ Failing(n) = {w \in Worker : w = n /\ wpc[w] = "errClose"}
  BY <1>1 DEF Held, Leaving, Failing, AtPlace
<1> HIDE DEF Lt
<1>5. HeldBelow(n + 1) = HeldBelow(n) \cup Held(n) /\ HeldBelow(n) \cap Held(n) = {}
  BY <1>2, <1>3, <1>4
<1>6. /\ MidBelow(n + 1) = (MidBelow(n) \cup Leaving(n)) \cup Failing(n)
      /\ MidBelow(n) \cap Leaving(n) = {} /\ (MidBelow(n) \cup Leaving(n)) \cap Failing(n) = {}
  BY <1>2, <1>3, <1>4
<1>7. ComingBelow(n + 1) = ComingBelow(n) + Coming(n)
  BY <1>1 DEF ComingBelow, Coming
<1>8. /\ IsFiniteSet(HeldBelow(n)) /\ IsFiniteSet(MidBelow(n)) /\ IsFiniteSet(Held(n))
      /\ IsFiniteSet(Leaving(n)) /\ IsFiniteSet(Failing(n))
  BY Finite, FiniteBelow DEF Leaving, Failing
<1>9. Cardinality(HeldBelow(n + 1)) = Cardinality(HeldBelow(n)) + Cardinality(Held(n))
  BY <1>5, <1>8, DisjointUnion
<1>10. IsFiniteSet(MidBelow(n) \cup Leaving(n))
  BY <1>8, FS_Union
<1>11. Cardinality(MidBelow(n) \cup Leaving(n)) = Cardinality(MidBelow(n)) + Cardinality(Leaving(n))
  BY <1>6, <1>8, DisjointUnion
<1>12. Cardinality(MidBelow(n + 1))
        = Cardinality(MidBelow(n) \cup Leaving(n)) + Cardinality(Failing(n))
  BY <1>6, <1>8, <1>10, DisjointUnion
<1> QED BY <1>7, <1>9, <1>11, <1>12

\* How far the sum of the first n counters may be from the connections of the first n
\* workers.
NearBelow(n) == Within(Sums(counter)[n], Cardinality(HeldBelow(n)),
                       Sums(overlaps)[n] + Cardinality(MidBelow(n)) + ComingBelow(n))

\* What one counter says and the open connections of its workers.
LEMMA NearHeld ==
  ASSUME TypeInv, PlacesInv, NEW s \in Slots, DriftAt(s)
  PROVE  /\ DeservedParts(s) /\ s \in Worker /\ counter[s] \in Int /\ overlaps[s] \in Nat
         /\ Within(counter[s], Cardinality(Held(s)),
                   overlaps[s] + Cardinality(Leaving(s)) + Cardinality(Failing(s)) + Coming(s))
<1>1. DeservedParts(s) /\ s \in Worker /\ counter[s] \in Int /\ overlaps[s] \in Nat
  BY DeservedIs, SlotsFacts DEF TypeInv
<1>2. Near(s, counter[s])
  BY DEF DriftAt
<1>3. Abs(counter[s] - Deserved(s)) <= overlaps[s]
  BY <1>1, <1>2 DEF Near, DeservedParts, Abs
<1> QED BY <1>1, <1>3 DEF DeservedParts, Within, Abs

LEMMA SumsNear ==
  ASSUME CountersInv, kind = "nogui"
  PROVE  \A n \in 0 .. NumWorkers : NearBelow(n)
<1> USE DEF CountersInv
<1> DEFINE T == {n \in Nat : n <= NumWorkers => NearBelow(n)}
<1>0. counter \in [Worker -> Int] /\ overlaps \in [Worker -> Int] /\ pick \in Worker
  BY DEF TypeInv
<1>1. 0 \in T
  <2>1. HeldBelow(0) = {} /\ MidBelow(0) = {} /\ ComingBelow(0) = 0
    BY <1>0, CountersAssumption DEF HeldBelow, MidBelow, ComingBelow, Worker
  <2>2. Cardinality(HeldBelow(0)) = 0 /\ Cardinality(MidBelow(0)) = 0
    BY <2>1, FS_EmptySet
  <2> QED BY <2>1, <2>2, SumsDef DEF NearBelow, Within, Abs
<1>2. ASSUME NEW n \in Nat, n \in T PROVE n + 1 \in T
  <2>1. SUFFICES ASSUME n + 1 <= NumWorkers PROVE NearBelow(n + 1)
    OBVIOUS
  <2>2. n \in Worker /\ NearBelow(n) /\ n \in 0 .. NumWorkers
    BY <1>2, <2>1, CountersAssumption DEF Worker
  <2>3. n \in Slots /\ DriftAt(n)
    BY <2>2 DEF Slots, Slot, DriftInv
  <2>4. /\ DeservedParts(n) /\ counter[n] \in Int /\ overlaps[n] \in Nat
        /\ Within(counter[n], Cardinality(Held(n)),
                  overlaps[n] + Cardinality(Leaving(n)) + Cardinality(Failing(n)) + Coming(n))
    BY <2>3, NearHeld
  <2>5. /\ Sums(counter)[n] \in Int /\ Sums(overlaps)[n] \in Int
        /\ Sums(counter)[n + 1] = Sums(counter)[n] + counter[n]
        /\ Sums(overlaps)[n + 1] = Sums(overlaps)[n] + overlaps[n]
    BY <1>0, <2>2, SumsDef, SumsType
  <2>6. Cardinality(HeldBelow(n)) \in Nat /\ Cardinality(MidBelow(n)) \in Nat
        /\ ComingBelow(n) \in Nat
    BY FiniteBelow DEF ComingBelow
  <2>7. /\ Cardinality(HeldBelow(n + 1)) = Cardinality(HeldBelow(n)) + Cardinality(Held(n))
        /\ Cardinality(MidBelow(n + 1))
             = Cardinality(MidBelow(n)) + Cardinality(Leaving(n)) + Cardinality(Failing(n))
        /\ ComingBelow(n + 1) = ComingBelow(n) + Coming(n)
    BY <2>2, OneWorkerMore
  <2> QED BY <2>2, <2>4, <2>5, <2>6, <2>7 DEF NearBelow, DeservedParts, Within, Abs
<1> HIDE DEF T
<1>3. \A n \in Nat : n \in T
  BY <1>1, <1>2, NatSet
<1> QED BY <1>3, CountersAssumption DEF T

\* Overlaps are counted, so one of them is no more than all.
LEMMA SumsGrow ==
  ASSUME NEW f \in [Worker -> Nat]
  PROVE  Total(f) \in Int /\ Total(f) >= f[0]
<1> DEFINE T == {n \in Nat : n + 1 <= NumWorkers => Sums(f)[n + 1] >= f[0]}
<1>0. f \in [Worker -> Int] /\ 0 \in Worker /\ f[0] \in Nat
  BY WorkerFacts
<1>1. 0 \in T
  <2>1. Sums(f)[0 + 1] = f[0]
    BY <1>0, SumsDef
  <2> QED BY <1>0, <2>1
<1>2. ASSUME NEW n \in Nat, n \in T PROVE n + 1 \in T
  <2>1. SUFFICES ASSUME n + 2 <= NumWorkers PROVE Sums(f)[n + 2] >= f[0]
    OBVIOUS
  <2>2. n + 1 \in Worker /\ n + 1 \in 0 .. NumWorkers /\ Sums(f)[n + 1] >= f[0]
    BY <1>2, <2>1, CountersAssumption DEF Worker
  <2>3. Sums(f)[(n + 1) + 1] = Sums(f)[n + 1] + f[n + 1] /\ (n + 1) + 1 = n + 2
    BY <2>2, SumsDef
  <2>4. Sums(f)[n + 1] \in Int /\ f[n + 1] \in Nat
    BY <1>0, <2>2, SumsType
  <2> QED BY <1>0, <2>2, <2>3, <2>4
<1> HIDE DEF T
<1>3. NumWorkers - 1 \in T
  BY <1>1, <1>2, NatSet, CountersAssumption
<1>4. Sums(f)[NumWorkers] >= f[0]
  <2>1. (NumWorkers - 1) + 1 = NumWorkers
    BY CountersAssumption
  <2> QED BY <1>3, <2>1 DEF T
<1>5. Sums(f)[NumWorkers] \in Int
  BY <1>0, SumsType, CountersAssumption
<1> QED BY <1>4, <1>5 DEF Total

\* All connections and threads are below NumWorkers.
LEMMA AllBelow ==
  ASSUME TypeInv, PlacesInv
  PROVE  /\ HeldBelow(NumWorkers) = Open
         /\ Cardinality(Open) \in Nat /\ Cardinality(MidBelow(NumWorkers)) \in Nat
         /\ ComingBelow(NumWorkers) \in Nat
<1>1. \A w \in Worker : w < NumWorkers
  BY CountersAssumption DEF Worker
<1>2. HeldBelow(NumWorkers) = Open
  BY <1>1 DEF HeldBelow, Open, TypeInv
<1> QED BY <1>2, FiniteBelow DEF ComingBelow

\* The total of "nogui", when the pass is over.
LEMMA TotalNear ==
  ASSUME CountersInv, PassInv, PrintTotal
  PROVE  Within(shown', Cardinality(Open), moved + Total(overlaps) + Midway)
<1> USE DEF CountersInv
<1>1. /\ cpc = "print" /\ ci = NumWorkers /\ shown' = numClients /\ kind = "nogui"
      /\ numClients \in Int /\ moved \in Nat
      /\ Within(numClients, Sums(counter)[NumWorkers], moved)
  BY DEF PrintTotal, PassInv
<1>2. Within(Sums(counter)[NumWorkers], Cardinality(Open), Total(overlaps) + Midway)
  <2>1. NearBelow(NumWorkers)
    BY <1>1, SumsNear, CountersAssumption
  <2>2. Total(overlaps) \in Int
    BY SumsGrow DEF TypeInv
  <2> QED BY <2>1, <2>2, AllBelow DEF NearBelow, Within, Abs, Total, Midway
<1>3. /\ Sums(counter)[NumWorkers] \in Int /\ Total(overlaps) \in Int
      /\ Cardinality(Open) \in Nat /\ Midway \in Nat
  <2>1. Sums(counter)[NumWorkers] \in Int
    BY SumsType, CountersAssumption DEF TypeInv
  <2>2. Total(overlaps) \in Int
    BY SumsGrow DEF TypeInv
  <2>3. Midway \in Nat
    BY AllBelow DEF Midway
  <2> QED BY <2>1, <2>2, <2>3, AllBelow
<1> QED BY <1>1, <1>2, <1>3 DEF Within, Abs

\* The one number of "qt", at any time.
LEMMA OneNumberNear ==
  ASSUME CountersInv, PassInv, PrintNumClients
  PROVE  Within(shown', Cardinality(Open), moved + Total(overlaps) + Midway)
<1> USE DEF CountersInv
<1>0. kind = "qt" /\ shown' = counter[0] /\ moved \in Nat
  BY DEF PrintNumClients, PassInv
<1>1. /\ \A w \in Worker : Slot(w) = 0 /\ w < NumWorkers
      /\ 0 \in Slots /\ Mine(0) = Worker /\ pick \in Worker
  <2>1. \A w \in Worker : Slot(w) = 0
    BY <1>0 DEF Slot
  <2>2. \A w \in Worker : w < NumWorkers
    BY CountersAssumption DEF Worker
  <2> QED BY <2>1, <2>2, WorkerFacts DEF Slots, Mine, TypeInv
<1>2. Held(0) = Open /\ Coming(0) = ComingBelow(NumWorkers)
  BY <1>1 DEF Held, Open, Coming, ComingBelow, TypeInv
<1>3. Cardinality(MidBelow(NumWorkers)) = Cardinality(Leaving(0)) + Cardinality(Failing(0))
  <2>1. MidBelow(NumWorkers) = Leaving(0) \cup Failing(0) /\ Leaving(0) \cap Failing(0) = {}
    BY <1>1 DEF MidBelow, Leaving, Failing, AtPlace
  <2>2. IsFiniteSet(Leaving(0)) /\ IsFiniteSet(Failing(0))
    BY Finite DEF Leaving, Failing
  <2> QED BY <2>1, <2>2, DisjointUnion
<1>4. /\ DeservedParts(0) /\ counter[0] \in Int /\ overlaps[0] \in Nat
      /\ Within(counter[0], Cardinality(Held(0)),
                overlaps[0] + Cardinality(Leaving(0)) + Cardinality(Failing(0)) + Coming(0))
  BY <1>1, NearHeld DEF DriftInv
<1>5. Total(overlaps) \in Int /\ Total(overlaps) >= overlaps[0]
  BY SumsGrow DEF TypeInv
<1> QED BY <1>0, <1>2, <1>3, <1>4, <1>5, AllBelow DEF Within, Abs, Midway, DeservedParts

\* Whenever UpdateConsole prints a number of clients, it is off from the connections
\* open at that moment by no more than the counters moved since it began to add them
\* up, the updates that ran into each other, and the threads that have opened or
\* closed a connection and not counted it yet or the reverse: no thread's part of
\* the work is missed or taken twice, for any number of workers and either way of
\* counting (EpollServer_NoGUI/server.cpp,
\* QTServer_Console/QtServer_Console/server.cpp).
THEOREM NumberPrinted ==
  Spec => [][PrintTotal \/ PrintNumClients =>
               Within(shown', Cardinality(Open), moved + Total(overlaps) + Midway)]_vars
<1>1. CountersInv /\ PassInv =>
        [PrintTotal \/ PrintNumClients =>
           Within(shown', Cardinality(Open), moved + Total(overlaps) + Midway)]_vars
  BY TotalNear, OneNumberNear
<1> QED BY <1>1, AlwaysPass, AlwaysCounters, PTL DEF Spec
=============================================================================
