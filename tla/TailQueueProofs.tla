---------------------------- MODULE TailQueueProofs ----------------------------
(***************************************************************************)
(* Proofs about TailQueue: what the macros do to the pointers, for any     *)
(* number of elements and any stale pointers in those outside the queue.   *)
(***************************************************************************)
EXTENDS TailQueue, SequenceTheorems, FiniteSetTheorems, WellFoundedInduction, TLAPS

-----------------------------------------------------------------------------
(* The inductive invariant.                                                *)

Entry == Elem \cup {QHead}

\* The cell whose pointer leads to place i + 1, and what it should lead to.
Cell(i) == IF i = 0 THEN QHead ELSE items[i]
At(i)   == IF i \in DOMAIN items THEN items[i] ELSE Nil

TypeInv ==
  /\ next \in [Entry -> Elem \cup {Nil}] /\ prev \in [Entry -> Entry]
  /\ items \in Seq(Elem)

Distinct == \A i, j \in DOMAIN items : items[i] = items[j] => i = j

\* One link: forward from the cell, and back from what it leads to.
Link(i) == next[Cell(i)] = At(i + 1) /\ prev[BackOf(At(i + 1))] = Cell(i)

QueueInv == TypeInv /\ Distinct /\ \A i \in 0 .. Len(items) : Link(i)

\* The queue starts empty.
LEMMA InitQueue == Init => QueueInv
<1> SUFFICES ASSUME Init PROVE QueueInv
  OBVIOUS
<1>1. TypeInv
  BY DEF Init, TypeInv, Entry
<1>2. items = <<>> /\ Len(items) = 0 /\ next[QHead] = Nil /\ prev[QHead] = QHead
  BY DEF Init
<1> QED BY <1>1, <1>2 DEF QueueInv, Distinct, Link, Cell, At, BackOf

\* The cells before and behind every place are entries, and all differ.
LEMMA CellFacts ==
  ASSUME QueueInv
  PROVE  /\ Len(items) \in Nat /\ DOMAIN items = 1 .. Len(items)
         /\ \A i \in 1 .. Len(items) : items[i] \in Elem
         /\ \A i \in 0 .. Len(items) : Cell(i) \in Entry
         /\ \A i, j \in 0 .. Len(items) : Cell(i) = Cell(j) => i = j
         /\ \A i \in 1 .. Len(items) : At(i) = items[i] /\ BackOf(At(i)) = items[i]
         /\ At(Len(items) + 1) = Nil /\ BackOf(Nil) = QHead
         /\ \A i \in 1 .. Len(items) + 1 : BackOf(At(i)) \in Entry
         /\ \A i, j \in 1 .. Len(items) + 1 : BackOf(At(i)) = BackOf(At(j)) => i = j
<1> DEFINE n == Len(items)
<1>1. /\ items \in Seq(Elem) /\ n \in Nat /\ DOMAIN items = 1 .. n
      /\ \A i \in 1 .. n : items[i] \in Elem
  BY DEF QueueInv, TypeInv
<1> HIDE DEF n
<1>2. /\ \A i \in 1 .. n : items[i] # QHead /\ items[i] # Nil
      /\ \A i, j \in 1 .. n : items[i] = items[j] => i = j
  BY <1>1, QueueAssumption DEF QueueInv, Distinct
<1>3. /\ \A i \in 0 .. n : Cell(i) \in Entry
      /\ \A i, j \in 0 .. n : Cell(i) = Cell(j) => i = j
  BY <1>1, <1>2 DEF Cell, Entry
<1>4. /\ \A i \in 1 .. n : At(i) = items[i] /\ BackOf(At(i)) = items[i]
      /\ At(n + 1) = Nil /\ BackOf(Nil) = QHead
  BY <1>1, <1>2 DEF At, BackOf
<1>5. \A i \in 1 .. n + 1 : i \in 1 .. n \/ i = n + 1
  BY <1>1
<1>6. \A i \in 1 .. n + 1 : BackOf(At(i)) \in Entry
  BY <1>1, <1>4, <1>5 DEF Entry
<1>7. \A i, j \in 1 .. n + 1 : BackOf(At(i)) = BackOf(At(j)) => i = j
  BY <1>2, <1>4, <1>5
<1> QED BY <1>1, <1>3, <1>4, <1>6, <1>7 DEF n

\* The place of an element in the queue.
LEMMA PosFacts ==
  ASSUME QueueInv, NEW e \in Elem
  PROVE  /\ e \in Free => \A i \in DOMAIN items : items[i] # e
         /\ e \notin Free => Pos(e) \in 1 .. Len(items) /\ items[Pos(e)] = e
<1>1. items \in Seq(Elem) /\ DOMAIN items = 1 .. Len(items)
  BY DEF QueueInv, TypeInv
<1>2. e \in Free <=> ~ \E i \in DOMAIN items : items[i] = e
  BY DEF Free, ToSet
<1>3. e \notin Free => Pos(e) \in DOMAIN items /\ items[Pos(e)] = e
  BY <1>2 DEF Pos
<1> QED BY <1>1, <1>2, <1>3

-----------------------------------------------------------------------------
(* An element is linked in behind place k.                                 *)

Inserted(e, k) ==
  /\ items' \in Seq(Elem) /\ Len(items') = Len(items) + 1
  /\ \A i \in 1 .. Len(items) + 1 :
       items'[i] = IF i <= k THEN items[i] ELSE IF i = k + 1 THEN e ELSE items[i - 1]
  /\ next' \in [Entry -> Elem \cup {Nil}] /\ prev' \in [Entry -> Entry]
  /\ next'[e] = At(k + 1) /\ next'[Cell(k)] = e
  /\ \A x \in Entry \ {e, Cell(k)} : next'[x] = next[x]
  /\ prev'[e] = Cell(k) /\ prev'[BackOf(At(k + 1))] = e
  /\ \A x \in Entry \ {e, BackOf(At(k + 1))} : prev'[x] = prev[x]

LEMMA InsertedLinks ==
  ASSUME QueueInv, NEW e \in Free, NEW k \in 0 .. Len(items), Inserted(e, k)
  PROVE  QueueInv'
<1> DEFINE n == Len(items)
<1>1. /\ n \in Nat /\ DOMAIN items = 1 .. n /\ k \in 0 .. n /\ e \in Elem /\ e # QHead /\ e # Nil
      /\ \A i \in 1 .. n : items[i] \in Elem /\ items[i] # e
  BY CellFacts, PosFacts, QueueAssumption DEF Free
<1>2. /\ \A i \in 0 .. n : Cell(i) \in Entry /\ Cell(i) # e
      /\ \A i, j \in 0 .. n : Cell(i) = Cell(j) => i = j
  BY <1>1, CellFacts DEF Cell
<1>3. /\ \A i \in 1 .. n : At(i) = items[i]
      /\ At(n + 1) = Nil /\ BackOf(Nil) = QHead
      /\ \A i \in 1 .. n + 1 : BackOf(At(i)) \in Entry
      /\ \A i, j \in 1 .. n + 1 : BackOf(At(i)) = BackOf(At(j)) => i = j
  BY CellFacts
<1>4. \A i \in 1 .. n + 1 : BackOf(At(i)) # e
  BY <1>1, <1>3, CellFacts
<1>5. /\ Len(items') = n + 1 /\ DOMAIN items' = 1 .. n + 1
      /\ \A i \in 1 .. n + 1 : items'[i] = IF i <= k THEN items[i] ELSE IF i = k + 1 THEN e ELSE items[i - 1]
  BY <1>1 DEF Inserted
<1>6. \A i \in 0 .. n + 1 : Cell(i)' = IF i <= k THEN Cell(i) ELSE IF i = k + 1 THEN e ELSE Cell(i - 1)
  <2> SUFFICES ASSUME NEW i \in 0 .. n + 1
               PROVE  Cell(i)' = IF i <= k THEN Cell(i) ELSE IF i = k + 1 THEN e ELSE Cell(i - 1)
    OBVIOUS
  <2> HIDE DEF n
  <2>1. CASE i = 0
    BY <1>1, <2>1 DEF Cell
  <2>2. CASE i # 0
    <3>1. i \in 1 .. n + 1 /\ Cell(i) = items[i] /\ Cell(i)' = items'[i]
      BY <1>1, <2>2 DEF Cell
    <3>2. ~(i <= k) /\ i # k + 1 => Cell(i - 1) = items[i - 1]
      BY <1>1, <3>1 DEF Cell
    <3> QED BY <1>5, <3>1, <3>2
  <2> QED BY <2>1, <2>2
<1>7. \A i \in 1 .. n + 2 : At(i)' = IF i <= k THEN At(i) ELSE IF i = k + 1 THEN e ELSE At(i - 1)
  <2> SUFFICES ASSUME NEW i \in 1 .. n + 2
               PROVE  At(i)' = IF i <= k THEN At(i) ELSE IF i = k + 1 THEN e ELSE At(i - 1)
    OBVIOUS
  <2>1. CASE i = n + 2
    BY <1>1, <1>3, <1>5, <2>1 DEF At
  <2>2. CASE i \in 1 .. n + 1
    BY <1>1, <1>3, <1>5, <2>2 DEF At
  <2> QED BY <1>1, <2>1, <2>2
<1>8. \A i \in 0 .. n : next[Cell(i)] = At(i + 1) /\ prev[BackOf(At(i + 1))] = Cell(i)
  BY DEF QueueInv, Link
<1>9. BackOf(e)' = e /\ \A x : BackOf(x)' = BackOf(x) /\ BackOf(e) = e
  BY <1>1 DEF BackOf
<1>10. TypeInv' /\ Distinct'
  <2>1. TypeInv'
    BY DEF Inserted, TypeInv
  <2>2. Distinct'
    <3> SUFFICES ASSUME NEW i \in 1 .. n + 1, NEW j \in 1 .. n + 1, i < j
                 PROVE  items'[i] # items'[j]
      BY <1>1, <1>5 DEF Distinct
    <3>1. \A a, b \in 1 .. n : items[a] = items[b] => a = b
      BY <1>1 DEF Distinct, QueueInv
    <3> HIDE DEF n
    <3>2. CASE j <= k
      BY <1>1, <1>5, <3>1, <3>2
    <3>3. CASE j = k + 1
      <4>1. i \in 1 .. n /\ i <= k
        BY <1>1, <3>3
      <4> QED BY <1>1, <1>5, <3>3, <4>1
    <3>4. CASE j > k + 1
      <4>1. j - 1 \in 1 .. n /\ items'[j] = items[j - 1]
        BY <1>1, <1>5, <3>4
      <4>2. i <= k => i \in 1 .. n /\ i # j - 1
        BY <1>1, <3>4
      <4>3. i > k + 1 => i - 1 \in 1 .. n /\ i - 1 # j - 1
        BY <1>1, <3>4
      <4> QED BY <1>1, <1>5, <3>1, <4>1, <4>2, <4>3
    <3> QED BY <1>1, <3>2, <3>3, <3>4
  <2> QED BY <2>1, <2>2
<1>11. ASSUME NEW i \in 0 .. n + 1
       PROVE  Link(i)'
  <2> HIDE DEF n
  <2>1. CASE i < k
    <3>1. /\ i \in 0 .. n /\ i + 1 \in 1 .. n + 1 /\ k + 1 \in 1 .. n + 1 /\ i + 1 <= k /\ i + 1 # k + 1
          /\ i + 1 \in 1 .. n + 2
      BY <1>1, <2>1
    <3>2. Cell(i)' = Cell(i) /\ At(i + 1)' = At(i + 1)
      BY <1>6, <1>7, <2>1, <3>1
    <3>3. next'[Cell(i)] = next[Cell(i)]
      BY <1>1, <1>2, <2>1, <3>1 DEF Inserted
    <3>4. prev'[BackOf(At(i + 1))] = prev[BackOf(At(i + 1))]
      BY <1>3, <1>4, <3>1 DEF Inserted
    <3> QED BY <1>8, <1>9, <3>1, <3>2, <3>3, <3>4 DEF Link
  <2>2. CASE i = k
    <3>1. Cell(i)' = Cell(k) /\ At(i + 1)' = e
      BY <1>1, <1>6, <1>7, <2>2
    <3> QED BY <1>9, <3>1 DEF Link, Inserted
  <2>3. CASE i = k + 1
    <3>1. Cell(i)' = e /\ At(i + 1)' = At(k + 1)
      BY <1>1, <1>6, <1>7, <2>3
    <3> QED BY <1>9, <3>1 DEF Link, Inserted
  <2>4. CASE i > k + 1
    <3> DEFINE j == i - 1
    <3>1. /\ j \in 0 .. n /\ j + 1 \in 1 .. n + 1 /\ k + 1 \in 1 .. n + 1 /\ j # k /\ j + 1 # k + 1
          /\ j + 1 = i /\ i + 1 \in 1 .. n + 2 /\ ~(i <= k) /\ i # k + 1 /\ ~(i + 1 <= k) /\ i + 1 # k + 1
          /\ i + 1 - 1 = i
      BY <1>1, <2>4
    <3>2. Cell(i)' = Cell(j) /\ At(i + 1)' = At(j + 1)
      BY <1>6, <1>7, <3>1
    <3> HIDE DEF j
    <3>3. next'[Cell(j)] = next[Cell(j)]
      BY <1>1, <1>2, <3>1 DEF Inserted
    <3>4. prev'[BackOf(At(j + 1))] = prev[BackOf(At(j + 1))]
      BY <1>3, <1>4, <3>1 DEF Inserted
    <3> QED BY <1>8, <1>9, <3>1, <3>2, <3>3, <3>4 DEF Link
  <2> QED BY <1>1, <2>1, <2>2, <2>3, <2>4
<1> QED BY <1>5, <1>10, <1>11 DEF QueueInv

\* InsertAt and RemoveAt, place by place.
LEMMA InsertAtFacts ==
  ASSUME NEW q \in Seq(Elem), NEW e \in Elem, NEW p \in 1 .. Len(q) + 1
  PROVE  /\ InsertAt(q, p, e) \in Seq(Elem) /\ Len(InsertAt(q, p, e)) = Len(q) + 1
         /\ \A i \in 1 .. Len(q) + 1 :
              InsertAt(q, p, e)[i] = IF i < p THEN q[i] ELSE IF i = p THEN e ELSE q[i - 1]
<1> DEFINE n == Len(q)
           a == SubSeq(q, 1, p - 1)
           b == SubSeq(q, p, n)
           f == a \o <<e>>
<1>1. n \in Nat /\ p \in 1 .. n + 1 /\ \A i \in 1 .. n : q[i] \in Elem
  OBVIOUS
<1>2. a \in Seq(Elem) /\ Len(a) = p - 1 /\ \A i \in 1 .. p - 1 : a[i] = q[i]
  BY <1>1, SubSeqProperties
<1>3. b \in Seq(Elem) /\ Len(b) = n - p + 1 /\ \A i \in 1 .. n - p + 1 : b[i] = q[p + i - 1]
  BY <1>1, SubSeqProperties
<1>4. InsertAt(q, p, e) = f \o b
  BY Zenon DEF InsertAt
<1>5. f \in Seq(Elem) /\ Len(f) = p /\ \A i \in 1 .. p : f[i] = IF i < p THEN q[i] ELSE e
  <2>1. <<e>> \in Seq(Elem) /\ Len(<<e>>) = 1 /\ <<e>>[1] = e
    OBVIOUS
  <2> HIDE DEF a
  <2> QED BY <1>1, <1>2, <2>1
<1> HIDE DEF f, b
<1>6. /\ f \o b \in Seq(Elem) /\ Len(f \o b) = n + 1
      /\ \A i \in 1 .. n + 1 : (f \o b)[i] = IF i <= p THEN f[i] ELSE b[i - p]
  <2>1. Len(f) + Len(b) = n + 1
    BY <1>1, <1>3, <1>5
  <2>2. /\ f \o b \in Seq(Elem) /\ Len(f \o b) = Len(f) + Len(b)
        /\ \A i \in 1 .. Len(f) + Len(b) : (f \o b)[i] = IF i <= Len(f) THEN f[i] ELSE b[i - Len(f)]
    BY <1>3, <1>5, ConcatProperties
  <2> QED BY <1>5, <2>1, <2>2
<1> HIDE DEF n
<1>7. ASSUME NEW i \in 1 .. n + 1
      PROVE  (f \o b)[i] = IF i < p THEN q[i] ELSE IF i = p THEN e ELSE q[i - 1]
  <2>1. CASE i <= p
    BY <1>1, <1>5, <1>6, <2>1
  <2>2. CASE i > p
    <3>1. i - p \in 1 .. n - p + 1 /\ p + (i - p) - 1 = i - 1
      BY <1>1, <2>2
    <3> QED BY <1>1, <1>3, <1>6, <2>2, <3>1
  <2>3. i <= p \/ i > p
    BY <1>1
  <2> QED BY <2>1, <2>2, <2>3
<1>8. /\ InsertAt(q, p, e) \in Seq(Elem) /\ Len(InsertAt(q, p, e)) = n + 1
      /\ \A i \in 1 .. n + 1 :
           InsertAt(q, p, e)[i] = IF i < p THEN q[i] ELSE IF i = p THEN e ELSE q[i - 1]
  BY <1>4, <1>6, <1>7
<1> QED BY <1>8 DEF n

LEMMA RemoveAtFacts ==
  ASSUME NEW q \in Seq(Elem), NEW k \in 1 .. Len(q)
  PROVE  /\ RemoveAt(q, k) \in Seq(Elem) /\ Len(RemoveAt(q, k)) = Len(q) - 1
         /\ \A i \in 1 .. Len(q) - 1 : RemoveAt(q, k)[i] = IF i < k THEN q[i] ELSE q[i + 1]
<1> DEFINE n == Len(q)
           a == SubSeq(q, 1, k - 1)
           b == SubSeq(q, k + 1, n)
<1>1. n \in Nat /\ k \in 1 .. n /\ \A i \in 1 .. n : q[i] \in Elem
  OBVIOUS
<1>2. a \in Seq(Elem) /\ Len(a) = k - 1 /\ \A i \in 1 .. k - 1 : a[i] = q[i]
  BY <1>1, SubSeqProperties
<1>3. b \in Seq(Elem) /\ Len(b) = n - k /\ \A i \in 1 .. n - k : b[i] = q[k + i]
  BY <1>1, SubSeqProperties
<1>4. RemoveAt(q, k) = a \o b
  BY DEF RemoveAt
<1> HIDE DEF a, b
<1>5. /\ a \o b \in Seq(Elem) /\ Len(a \o b) = n - 1
      /\ \A i \in 1 .. n - 1 : (a \o b)[i] = IF i <= k - 1 THEN a[i] ELSE b[i - (k - 1)]
  <2>1. Len(a) + Len(b) = n - 1
    BY <1>1, <1>2, <1>3
  <2>2. /\ a \o b \in Seq(Elem) /\ Len(a \o b) = Len(a) + Len(b)
        /\ \A i \in 1 .. Len(a) + Len(b) : (a \o b)[i] = IF i <= Len(a) THEN a[i] ELSE b[i - Len(a)]
    BY <1>2, <1>3, ConcatProperties
  <2> QED BY <1>2, <2>1, <2>2
<1> HIDE DEF n
<1>6. ASSUME NEW i \in 1 .. n - 1
      PROVE  (a \o b)[i] = IF i < k THEN q[i] ELSE q[i + 1]
  <2>1. CASE i < k
    BY <1>1, <1>2, <1>5, <2>1
  <2>2. CASE i >= k
    <3>1. i - (k - 1) \in 1 .. n - k /\ k + (i - (k - 1)) = i + 1 /\ ~(i <= k - 1)
      BY <1>1, <2>2
    <3> QED BY <1>1, <1>3, <1>5, <2>2, <3>1
  <2>3. i < k \/ i >= k
    BY <1>1
  <2> QED BY <2>1, <2>2, <2>3
<1> QED BY <1>4, <1>5, <1>6 DEF n

\* Where an element may be linked in: its neighbours are other entries.
LEMMA Neighbours ==
  ASSUME QueueInv, NEW e \in Free, NEW k \in 0 .. Len(items)
  PROVE  /\ e \in Entry /\ Cell(k) \in Entry /\ e # Cell(k)
         /\ BackOf(At(k + 1)) \in Entry /\ e # BackOf(At(k + 1))
         /\ e \in Elem \cup {Nil} /\ At(k + 1) \in Elem \cup {Nil}
<1>1. /\ e \in Elem /\ e # QHead /\ e # Nil /\ \A i \in 1 .. Len(items) : items[i] \in Elem /\ items[i] # e
      /\ Len(items) \in Nat /\ DOMAIN items = 1 .. Len(items)
  BY CellFacts, PosFacts, QueueAssumption DEF Free
<1> QED BY <1>1 DEF Cell, At, BackOf, Entry

LEMMA LinkedIn ==
  ASSUME QueueInv, NEW e \in Free, NEW k \in 0 .. Len(items),
         \/ next' = [next EXCEPT ![e] = At(k + 1), ![Cell(k)] = e]
         \/ next' = [next EXCEPT ![Cell(k)] = e, ![e] = At(k + 1)],
         \/ prev' = [prev EXCEPT ![e] = Cell(k), ![BackOf(At(k + 1))] = e]
         \/ prev' = [prev EXCEPT ![BackOf(At(k + 1))] = e, ![e] = Cell(k)],
         items' \in Seq(Elem), Len(items') = Len(items) + 1,
         \A i \in 1 .. Len(items) + 1 :
           items'[i] = IF i <= k THEN items[i] ELSE IF i = k + 1 THEN e ELSE items[i - 1]
  PROVE  QueueInv'
<1>1. /\ e \in Entry /\ Cell(k) \in Entry /\ e # Cell(k)
      /\ BackOf(At(k + 1)) \in Entry /\ e # BackOf(At(k + 1))
      /\ e \in Elem \cup {Nil} /\ At(k + 1) \in Elem \cup {Nil}
  BY Neighbours
<1>2. next \in [Entry -> Elem \cup {Nil}] /\ prev \in [Entry -> Entry]
  BY DEF QueueInv, TypeInv
<1>3. /\ next' \in [Entry -> Elem \cup {Nil}] /\ next'[e] = At(k + 1) /\ next'[Cell(k)] = e
      /\ \A x \in Entry \ {e, Cell(k)} : next'[x] = next[x]
  <2> DEFINE c == Cell(k)
             u == At(k + 1)
  <2>1. /\ e \in Entry /\ c \in Entry /\ e # c /\ e \in Elem \cup {Nil} /\ u \in Elem \cup {Nil}
        /\ next' = [next EXCEPT ![e] = u, ![c] = e] \/ next' = [next EXCEPT ![c] = e, ![e] = u]
    BY <1>1
  <2> HIDE DEF c, u
  <2>2. /\ next' \in [Entry -> Elem \cup {Nil}] /\ next'[e] = u /\ next'[c] = e
        /\ \A x \in Entry \ {e, c} : next'[x] = next[x]
    <3>1. CASE next' = [next EXCEPT ![e] = u, ![c] = e]
      BY <1>2, <2>1, <3>1
    <3>2. CASE next' = [next EXCEPT ![c] = e, ![e] = u]
      BY <1>2, <2>1, <3>2
    <3> QED BY <2>1, <3>1, <3>2
  <2> QED BY <2>2 DEF c, u
<1>4. /\ prev' \in [Entry -> Entry] /\ prev'[e] = Cell(k) /\ prev'[BackOf(At(k + 1))] = e
      /\ \A x \in Entry \ {e, BackOf(At(k + 1))} : prev'[x] = prev[x]
  <2> DEFINE c == Cell(k)
             b == BackOf(At(k + 1))
  <2>1. /\ e \in Entry /\ c \in Entry /\ b \in Entry /\ e # b
        /\ prev' = [prev EXCEPT ![e] = c, ![b] = e] \/ prev' = [prev EXCEPT ![b] = e, ![e] = c]
    BY <1>1
  <2> HIDE DEF c, b
  <2>2. /\ prev' \in [Entry -> Entry] /\ prev'[e] = c /\ prev'[b] = e
        /\ \A x \in Entry \ {e, b} : prev'[x] = prev[x]
    <3>1. CASE prev' = [prev EXCEPT ![e] = c, ![b] = e]
      BY <1>2, <2>1, <3>1
    <3>2. CASE prev' = [prev EXCEPT ![b] = e, ![e] = c]
      BY <1>2, <2>1, <3>2
    <3> QED BY <2>1, <3>1, <3>2
  <2> QED BY <2>2 DEF c, b
<1>5. Inserted(e, k)
  BY <1>3, <1>4 DEF Inserted
<1> QED BY <1>5, InsertedLinks

LEMMA HeadInv ==
  ASSUME QueueInv, NEW e \in Elem, TAILQ_INSERT_HEAD(e)
  PROVE  QueueInv'
<1>1. e \in Free /\ 0 \in 0 .. Len(items) /\ Cell(0) = QHead /\ next[QHead] = At(1)
  BY CellFacts DEF TAILQ_INSERT_HEAD, QueueInv, Link, Cell
<1>2. /\ next' = [next EXCEPT ![e] = At(0 + 1), ![Cell(0)] = e]
      /\ prev' = [prev EXCEPT ![BackOf(At(0 + 1))] = e, ![e] = Cell(0)]
  <2>1. 0 + 1 = 1
    OBVIOUS
  <2>2. /\ next' = [next EXCEPT ![e] = At(1), ![Cell(0)] = e]
        /\ prev' = [prev EXCEPT ![BackOf(At(1))] = e, ![e] = Cell(0)]
    BY <1>1 DEF TAILQ_INSERT_HEAD
  <2> QED BY <2>1, <2>2, Zenon
<1>3. /\ items' \in Seq(Elem) /\ Len(items') = Len(items) + 1
      /\ \A i \in 1 .. Len(items) + 1 : items'[i] = IF i <= 1 THEN e ELSE items[i - 1]
  <2>1. items' = <<e>> \o items /\ items \in Seq(Elem) /\ Len(items) \in Nat
    BY DEF TAILQ_INSERT_HEAD, QueueInv, TypeInv
  <2>2. <<e>> \in Seq(Elem) /\ Len(<<e>>) = 1 /\ <<e>>[1] = e
    OBVIOUS
  <2> QED BY <2>1, <2>2, ConcatProperties
<1>4. \A i \in 1 .. Len(items) + 1 :
        items'[i] = IF i <= 0 THEN items[i] ELSE IF i = 0 + 1 THEN e ELSE items[i - 1]
  BY <1>3, CellFacts
<1> QED BY <1>1, <1>2, <1>3, <1>4, LinkedIn

LEMMA TailInv ==
  ASSUME QueueInv, NEW e \in Elem, TAILQ_INSERT_TAIL(e)
  PROVE  QueueInv'
<1> DEFINE n == Len(items)
<1>1. /\ e \in Free /\ n \in 0 .. n /\ n \in Nat /\ At(n + 1) = Nil /\ BackOf(Nil) = QHead
      /\ prev[QHead] = Cell(n)
  BY CellFacts DEF TAILQ_INSERT_TAIL, QueueInv, Link
<1>2. /\ next' = [next EXCEPT ![e] = At(n + 1), ![Cell(n)] = e]
      /\ prev' = [prev EXCEPT ![e] = Cell(n), ![BackOf(At(n + 1))] = e]
  BY <1>1 DEF TAILQ_INSERT_TAIL
<1>3. /\ items' \in Seq(Elem) /\ Len(items') = n + 1
      /\ \A i \in 1 .. n : items'[i] = items[i]
      /\ items'[n + 1] = e
  BY AppendProperties DEF TAILQ_INSERT_TAIL, QueueInv, TypeInv
<1>4. \A i \in 1 .. n + 1 :
        items'[i] = IF i <= n THEN items[i] ELSE IF i = n + 1 THEN e ELSE items[i - 1]
  BY <1>1, <1>3
<1> QED BY <1>1, <1>2, <1>3, <1>4, LinkedIn

LEMMA AfterInv ==
  ASSUME QueueInv, NEW e \in Elem, NEW a \in Elem, TAILQ_INSERT_AFTER(a, e)
  PROVE  QueueInv'
<1> DEFINE k == Pos(a)
           n == Len(items)
<1>1. e \in Free /\ k \in 1 .. n /\ n \in Nat /\ items[k] = a
  BY PosFacts, CellFacts DEF TAILQ_INSERT_AFTER
<1>2. k \in 0 .. n /\ k + 1 \in 1 .. n + 1 /\ Cell(k) = a
  BY <1>1 DEF Cell
<1>3. next[a] = At(k + 1)
  BY <1>2 DEF QueueInv, Link
<1> HIDE DEF k
<1>4. /\ next' = [next EXCEPT ![e] = At(k + 1), ![Cell(k)] = e]
      /\ prev' = [prev EXCEPT ![BackOf(At(k + 1))] = e, ![e] = Cell(k)]
  BY <1>2, <1>3 DEF TAILQ_INSERT_AFTER
<1>5. items' = InsertAt(items, k + 1, e) /\ items \in Seq(Elem)
  BY DEF TAILQ_INSERT_AFTER, QueueInv, TypeInv, k
<1>6. /\ items' \in Seq(Elem) /\ Len(items') = n + 1
      /\ \A i \in 1 .. n + 1 :
           items'[i] = IF i < k + 1 THEN items[i] ELSE IF i = k + 1 THEN e ELSE items[i - 1]
  BY <1>2, <1>5, InsertAtFacts
<1>7. \A i \in 1 .. n + 1 :
        items'[i] = IF i <= k THEN items[i] ELSE IF i = k + 1 THEN e ELSE items[i - 1]
  BY <1>1, <1>6
<1> QED BY <1>1, <1>2, <1>4, <1>6, <1>7, LinkedIn

LEMMA BeforeInv ==
  ASSUME QueueInv, NEW e \in Elem, NEW b \in Elem, TAILQ_INSERT_BEFORE(b, e)
  PROVE  QueueInv'
<1> DEFINE k == Pos(b) - 1
           n == Len(items)
<1>1. e \in Free /\ Pos(b) \in 1 .. n /\ n \in Nat /\ items[Pos(b)] = b
  BY PosFacts, CellFacts DEF TAILQ_INSERT_BEFORE
<1>2. k \in 0 .. n /\ k + 1 = Pos(b) /\ k + 1 \in 1 .. n + 1
  BY <1>1
<1>3. At(k + 1) = b /\ BackOf(At(k + 1)) = b
  BY <1>1, <1>2, CellFacts
<1>4. prev[b] = Cell(k)
  BY <1>2, <1>3 DEF QueueInv, Link
<1> HIDE DEF k
<1>5. /\ next' = [next EXCEPT ![e] = At(k + 1), ![Cell(k)] = e]
      /\ prev' = [prev EXCEPT ![e] = Cell(k), ![BackOf(At(k + 1))] = e]
  BY <1>3, <1>4 DEF TAILQ_INSERT_BEFORE
<1>6. items' = InsertAt(items, k + 1, e) /\ items \in Seq(Elem)
  BY <1>2 DEF TAILQ_INSERT_BEFORE, QueueInv, TypeInv
<1>7. /\ items' \in Seq(Elem) /\ Len(items') = n + 1
      /\ \A i \in 1 .. n + 1 :
           items'[i] = IF i < k + 1 THEN items[i] ELSE IF i = k + 1 THEN e ELSE items[i - 1]
  <2>1. k + 1 \in 1 .. Len(items) + 1
    BY <1>2
  <2> HIDE DEF n
  <2> DEFINE q == InsertAt(items, k + 1, e)
  <2>2. /\ q \in Seq(Elem) /\ Len(q) = Len(items) + 1
        /\ \A i \in 1 .. Len(items) + 1 :
             q[i] = IF i < k + 1 THEN items[i] ELSE IF i = k + 1 THEN e ELSE items[i - 1]
    <3> DEFINE p == k + 1
    <3>1. items \in Seq(Elem) /\ e \in Elem /\ p \in 1 .. Len(items) + 1
      BY <1>1, <1>6, <2>1 DEF Free
    <3> HIDE DEF k, p
    <3>2. /\ InsertAt(items, p, e) \in Seq(Elem)
          /\ Len(InsertAt(items, p, e)) = Len(items) + 1
          /\ \A i \in 1 .. Len(items) + 1 :
               InsertAt(items, p, e)[i] =
                 IF i < p THEN items[i] ELSE IF i = p THEN e ELSE items[i - 1]
      BY <3>1, InsertAtFacts
    <3> QED BY <3>2 DEF p
  <2>3. items' = q
    BY <1>6
  <2> HIDE DEF q
  <2> QED BY <2>2, <2>3 DEF n
<1>8. \A i \in 1 .. n + 1 :
        items'[i] = IF i <= k THEN items[i] ELSE IF i = k + 1 THEN e ELSE items[i - 1]
  BY <1>1, <1>2, <1>7
<1> QED BY <1>1, <1>2, <1>5, <1>7, <1>8, LinkedIn

-----------------------------------------------------------------------------
(* An element is taken out, or another is put in its place.                *)

\* What the pointers of the element at place k name.
LEMMA PointersOf ==
  ASSUME QueueInv, NEW e \in Elem, e \notin Free
  PROVE  \E j \in 0 .. Len(items) - 1 :
           /\ Pos(e) = j + 1 /\ items[j + 1] = e
           /\ prev[e] = Cell(j) /\ next[e] = At(j + 2)
           /\ Cell(j) \in Entry /\ BackOf(At(j + 2)) \in Entry /\ At(j + 2) \in Elem \cup {Nil}
<1> DEFINE j == Pos(e) - 1
           n == Len(items)
<1>1. n \in Nat /\ Pos(e) \in 1 .. n /\ items[Pos(e)] = e
  BY PosFacts, CellFacts
<1>2. /\ j \in 0 .. n - 1 /\ j \in 0 .. n /\ j + 1 = Pos(e) /\ j + 1 \in 0 .. n /\ j + 1 + 1 = j + 2
      /\ j + 2 \in 1 .. n + 1 /\ Pos(e) # 0
  BY <1>1
<1>3. At(j + 1) = e /\ BackOf(At(j + 1)) = e
  BY <1>1, <1>2, CellFacts
<1>4. Cell(j + 1) = e
  BY <1>1, <1>2 DEF Cell
<1> HIDE DEF j
<1>5. prev[e] = Cell(j)
  BY <1>2, <1>3 DEF QueueInv, Link
<1>6. next[e] = At(j + 2)
  BY <1>2, <1>4 DEF QueueInv, Link
<1>7. Cell(j) \in Entry /\ BackOf(At(j + 2)) \in Entry
  BY <1>2, CellFacts
<1>8. At(j + 2) \in Elem \cup {Nil}
  BY CellFacts DEF At
<1> QED BY <1>1, <1>2, <1>5, <1>6, <1>7, <1>8

LEMMA RemoveInv ==
  ASSUME QueueInv, NEW e \in Elem, TAILQ_REMOVE(e)
  PROVE  QueueInv'
<1> DEFINE n == Len(items)
<1>1. PICK j \in 0 .. n - 1 :
        /\ Pos(e) = j + 1 /\ items[j + 1] = e
        /\ prev[e] = Cell(j) /\ next[e] = At(j + 2)
        /\ Cell(j) \in Entry /\ BackOf(At(j + 2)) \in Entry /\ At(j + 2) \in Elem \cup {Nil}
  BY PointersOf DEF TAILQ_REMOVE
<1>2. /\ n \in Nat /\ j \in Nat /\ DOMAIN items = 1 .. n /\ items \in Seq(Elem)
      /\ next \in [Entry -> Elem \cup {Nil}] /\ prev \in [Entry -> Entry]
      /\ \A i, k \in 1 .. n : items[i] = items[k] => i = k
  BY CellFacts DEF QueueInv, TypeInv, Distinct
<1>3. /\ next' \in [Entry -> Elem \cup {Nil}] /\ next'[Cell(j)] = At(j + 2)
      /\ \A x \in Entry \ {Cell(j)} : next'[x] = next[x]
  BY <1>1, <1>2 DEF TAILQ_REMOVE
<1>4. /\ prev' \in [Entry -> Entry] /\ prev'[BackOf(At(j + 2))] = Cell(j)
      /\ \A x \in Entry \ {BackOf(At(j + 2))} : prev'[x] = prev[x]
  BY <1>1, <1>2 DEF TAILQ_REMOVE
<1>5. /\ items' \in Seq(Elem) /\ Len(items') = n - 1 /\ DOMAIN items' = 1 .. n - 1
      /\ \A i \in 1 .. n - 1 : items'[i] = IF i <= j THEN items[i] ELSE items[i + 1]
  <2>1. j + 1 \in 1 .. Len(items) /\ items' = RemoveAt(items, j + 1)
    BY <1>1, <1>2 DEF TAILQ_REMOVE
  <2>2. /\ items' \in Seq(Elem) /\ Len(items') = n - 1
        /\ \A i \in 1 .. n - 1 : items'[i] = IF i < j + 1 THEN items[i] ELSE items[i + 1]
    BY <1>2, <2>1, RemoveAtFacts
  <2> QED BY <1>2, <2>2
<1>6. \A i \in 0 .. n - 1 : Cell(i)' = IF i <= j THEN Cell(i) ELSE Cell(i + 1)
  <2> SUFFICES ASSUME NEW i \in 0 .. n - 1
               PROVE  Cell(i)' = IF i <= j THEN Cell(i) ELSE Cell(i + 1)
    OBVIOUS
  <2> HIDE DEF n
  <2>1. CASE i = 0
    BY <1>1, <2>1 DEF Cell
  <2>2. CASE i # 0
    <3>1. i \in 1 .. n - 1 /\ Cell(i) = items[i] /\ Cell(i)' = items'[i] /\ Cell(i + 1) = items[i + 1]
      BY <1>2, <2>2 DEF Cell
    <3> QED BY <1>5, <3>1
  <2> QED BY <2>1, <2>2
<1>7. \A i \in 1 .. n : At(i)' = IF i <= j THEN At(i) ELSE At(i + 1)
  BY <1>1, <1>2, <1>5 DEF At
<1>8. \A i \in 0 .. n : next[Cell(i)] = At(i + 1) /\ prev[BackOf(At(i + 1))] = Cell(i)
  BY DEF QueueInv, Link
<1>9. \A x : BackOf(x)' = BackOf(x)
  BY DEF BackOf
<1>10. Distinct'
  <2> SUFFICES ASSUME NEW i \in 1 .. n - 1, NEW k \in 1 .. n - 1, i < k
               PROVE  items'[i] # items'[k]
    BY <1>2, <1>5 DEF Distinct
  <2> HIDE DEF n
  <2>1. CASE k <= j
    BY <1>2, <1>5, <2>1
  <2>2. CASE k > j
    <3>1. k + 1 \in 1 .. n /\ items'[k] = items[k + 1]
      BY <1>2, <1>5, <2>2
    <3>2. i \in 1 .. n /\ i # k + 1 /\ i + 1 \in 1 .. n /\ i + 1 # k + 1
      BY <1>2
    <3> QED BY <1>2, <1>5, <3>1, <3>2
  <2> QED BY <1>2, <2>1, <2>2
<1>11. /\ \A i \in 0 .. n : Cell(i) \in Entry
       /\ \A i, k \in 0 .. n : Cell(i) = Cell(k) => i = k
       /\ \A i \in 1 .. n + 1 : BackOf(At(i)) \in Entry
       /\ \A i, k \in 1 .. n + 1 : BackOf(At(i)) = BackOf(At(k)) => i = k
  BY CellFacts
<1>12. ASSUME NEW i \in 0 .. n - 1
       PROVE  Link(i)'
  <2> HIDE DEF n
  <2>0. j + 2 \in 1 .. n + 1 /\ i \in 0 .. n /\ i + 1 \in 1 .. n /\ j \in 0 .. n
    BY <1>1, <1>2
  <2>1. CASE i < j
    <3>1. i + 1 <= j /\ i + 1 # j + 2 /\ i + 1 \in 1 .. n + 1 /\ i <= j /\ i # j
      BY <1>2, <2>0, <2>1
    <3>2. Cell(i)' = Cell(i) /\ At(i + 1)' = At(i + 1)
      BY <1>6, <1>7, <2>0, <3>1
    <3>3. next'[Cell(i)] = next[Cell(i)]
      BY <1>3, <1>11, <2>0, <3>1
    <3>4. prev'[BackOf(At(i + 1))] = prev[BackOf(At(i + 1))]
      BY <1>4, <1>11, <2>0, <3>1
    <3> QED BY <1>8, <1>9, <2>0, <3>2, <3>3, <3>4 DEF Link
  <2>2. CASE i = j
    <3>1. Cell(i)' = Cell(j)
      BY <1>2, <1>6, <2>0, <2>2
    <3>2. At(i + 1)' = At(j + 2)
      <4>1. ~(i + 1 <= j) /\ i + 1 + 1 = j + 2
        BY <1>2, <2>2
      <4> QED BY <1>7, <2>0, <4>1
    <3> QED BY <1>3, <1>4, <1>9, <3>1, <3>2 DEF Link
  <2>3. CASE i > j
    <3> DEFINE m == i + 1
    <3>1. /\ m \in 0 .. n /\ m + 1 \in 1 .. n + 1 /\ m # j /\ m + 1 # j + 2
          /\ ~(i <= j) /\ ~(m <= j) /\ m \in 1 .. n
      BY <1>2, <2>0, <2>3
    <3>2. Cell(i)' = Cell(m) /\ At(m)' = At(m + 1)
      BY <1>6, <1>7, <3>1
    <3> HIDE DEF m
    <3>3. next'[Cell(m)] = next[Cell(m)]
      BY <1>3, <1>11, <2>0, <3>1
    <3>4. prev'[BackOf(At(m + 1))] = prev[BackOf(At(m + 1))]
      BY <1>4, <1>11, <2>0, <3>1
    <3>5. next'[Cell(i)'] = At(m)' /\ prev'[BackOf(At(m)')] = Cell(i)'
      BY <1>8, <3>1, <3>2, <3>3, <3>4
    <3> QED BY <1>9, <3>5 DEF Link, m
  <2> QED BY <1>2, <2>1, <2>2, <2>3
<1>13. TypeInv'
  BY <1>3, <1>4, <1>5 DEF TypeInv
<1> QED BY <1>5, <1>10, <1>12, <1>13 DEF QueueInv

LEMMA ReplaceInv ==
  ASSUME QueueInv, NEW e \in Elem, NEW f \in Elem, TAILQ_REPLACE(e, f)
  PROVE  QueueInv'
<1> DEFINE n == Len(items)
<1>1. PICK j \in 0 .. n - 1 :
        /\ Pos(e) = j + 1 /\ items[j + 1] = e
        /\ prev[e] = Cell(j) /\ next[e] = At(j + 2)
        /\ Cell(j) \in Entry /\ BackOf(At(j + 2)) \in Entry /\ At(j + 2) \in Elem \cup {Nil}
  BY PointersOf DEF TAILQ_REPLACE
<1>2. /\ n \in Nat /\ j \in 0 .. n - 1 /\ j \in Nat /\ DOMAIN items = 1 .. n /\ items \in Seq(Elem)
      /\ next \in [Entry -> Elem \cup {Nil}] /\ prev \in [Entry -> Entry]
      /\ \A i, k \in 1 .. n : items[i] = items[k] => i = k
      /\ f # QHead /\ f # Nil /\ \A i \in 1 .. n : items[i] # f
  BY CellFacts, PosFacts, QueueAssumption DEF QueueInv, TypeInv, Distinct, TAILQ_REPLACE
<1>3. /\ \A i \in 0 .. n : Cell(i) \in Entry /\ Cell(i) # f
      /\ \A i, k \in 0 .. n : Cell(i) = Cell(k) => i = k
  BY <1>2, CellFacts DEF Cell
<1>4. /\ \A i \in 1 .. n + 1 : BackOf(At(i)) \in Entry /\ BackOf(At(i)) # f
      /\ \A i, k \in 1 .. n + 1 : BackOf(At(i)) = BackOf(At(k)) => i = k
  <2>1. \A i \in 1 .. n + 1 : i \in 1 .. n \/ i = n + 1
    BY <1>2
  <2> QED BY <1>2, <2>1, CellFacts
<1> HIDE DEF n
<1>5. j + 2 \in 1 .. n + 1 /\ j \in 0 .. n /\ j + 1 \in 1 .. n
  BY <1>2
<1>6. f \in Entry /\ f # Cell(j) /\ f # BackOf(At(j + 2))
  BY <1>3, <1>4, <1>5 DEF Entry
<1>7. /\ next' \in [Entry -> Elem \cup {Nil}] /\ next'[f] = At(j + 2) /\ next'[Cell(j)] = f
      /\ \A x \in Entry \ {f, Cell(j)} : next'[x] = next[x]
  BY <1>1, <1>2, <1>6 DEF TAILQ_REPLACE
<1>8. /\ prev' \in [Entry -> Entry] /\ prev'[f] = Cell(j) /\ prev'[BackOf(At(j + 2))] = f
      /\ \A x \in Entry \ {f, BackOf(At(j + 2))} : prev'[x] = prev[x]
  BY <1>1, <1>2, <1>6 DEF TAILQ_REPLACE
<1>9. items' = [items EXCEPT ![j + 1] = f]
  BY <1>1 DEF TAILQ_REPLACE
<1>10. /\ items' \in Seq(Elem) /\ Len(items') = n /\ DOMAIN items' = 1 .. n
       /\ \A i \in 1 .. n : items'[i] = IF i = j + 1 THEN f ELSE items[i]
  BY <1>2, <1>5, <1>9, ExceptSeq DEF n
<1>11. \A i \in 0 .. n : Cell(i)' = IF i = j + 1 THEN f ELSE Cell(i)
  <2> SUFFICES ASSUME NEW i \in 0 .. n
               PROVE  Cell(i)' = IF i = j + 1 THEN f ELSE Cell(i)
    OBVIOUS
  <2>1. CASE i = 0
    BY <1>2, <2>1 DEF Cell
  <2>2. CASE i # 0
    BY <1>2, <1>10, <2>2 DEF Cell
  <2> QED BY <2>1, <2>2
<1>12. \A i \in 1 .. n + 1 : At(i)' = IF i = j + 1 THEN f ELSE At(i)
  BY <1>2, <1>5, <1>10 DEF At
<1>13. \A i \in 0 .. n : next[Cell(i)] = At(i + 1) /\ prev[BackOf(At(i + 1))] = Cell(i)
  BY DEF QueueInv, Link, n
<1>14. \A x : BackOf(x)' = BackOf(x) /\ BackOf(f) = f
  BY <1>2 DEF BackOf
<1>15. ASSUME NEW i \in 0 .. n
       PROVE  Link(i)'
  <2>0. i + 1 \in 1 .. n + 1
    BY <1>2
  <2>1. CASE i = j
    <3>1. Cell(i)' = Cell(j) /\ At(i + 1)' = f
      BY <1>2, <1>11, <1>12, <2>0, <2>1
    <3> QED BY <1>7, <1>8, <1>14, <3>1 DEF Link
  <2>2. CASE i = j + 1
    <3>1. i + 1 = j + 2 /\ i + 1 # j + 1
      BY <1>2, <2>2
    <3>2. Cell(i)' = f /\ At(i + 1)' = At(j + 2)
      BY <1>11, <1>12, <2>0, <2>2, <3>1
    <3> QED BY <1>7, <1>8, <1>14, <3>2 DEF Link
  <2>3. CASE i # j /\ i # j + 1
    <3>1. i + 1 # j + 1 /\ i + 1 # j + 2
      BY <1>2, <2>3
    <3>2. Cell(i)' = Cell(i) /\ At(i + 1)' = At(i + 1)
      BY <1>11, <1>12, <2>0, <2>3, <3>1
    <3>3. next'[Cell(i)] = next[Cell(i)]
      BY <1>3, <1>5, <1>7, <2>3
    <3>4. prev'[BackOf(At(i + 1))] = prev[BackOf(At(i + 1))]
      BY <1>4, <1>5, <1>8, <2>0, <3>1
    <3> QED BY <1>13, <1>14, <3>2, <3>3, <3>4 DEF Link
  <2> QED BY <2>1, <2>2, <2>3
<1>16. TypeInv' /\ Distinct'
  BY <1>2, <1>7, <1>8, <1>10 DEF TypeInv, Distinct
<1> QED BY <1>10, <1>15, <1>16 DEF QueueInv

-----------------------------------------------------------------------------
(* The theorems.                                                           *)

LEMMA NextQueue == QueueInv /\ [Next]_vars => QueueInv'
<1> SUFFICES ASSUME QueueInv, [Next]_vars PROVE QueueInv'
  OBVIOUS
<1>1. CASE UNCHANGED vars
  BY <1>1 DEF vars, QueueInv, TypeInv, Distinct, Link, Cell, At, BackOf
<1>2. CASE Next
  <2>1. PICK e \in Elem :
          \/ TAILQ_INSERT_HEAD(e) \/ TAILQ_INSERT_TAIL(e) \/ TAILQ_REMOVE(e)
          \/ \E f \in Elem : TAILQ_INSERT_AFTER(f, e) \/ TAILQ_INSERT_BEFORE(f, e) \/ TAILQ_REPLACE(e, f)
    BY <1>2 DEF Next
  <2>2. CASE TAILQ_INSERT_HEAD(e)
    BY <2>2, HeadInv
  <2>3. CASE TAILQ_INSERT_TAIL(e)
    BY <2>3, TailInv
  <2>4. CASE TAILQ_REMOVE(e)
    BY <2>4, RemoveInv
  <2>5. ASSUME NEW f \in Elem, TAILQ_INSERT_AFTER(f, e) PROVE QueueInv'
    BY <2>5, AfterInv
  <2>6. ASSUME NEW f \in Elem, TAILQ_INSERT_BEFORE(f, e) PROVE QueueInv'
    BY <2>6, BeforeInv
  <2>7. ASSUME NEW f \in Elem, TAILQ_REPLACE(e, f) PROVE QueueInv'
    BY <2>7, ReplaceInv
  <2> QED BY <2>1, <2>2, <2>3, <2>4, <2>5, <2>6, <2>7
<1> QED BY <1>1, <1>2

LEMMA AlwaysQueue == Spec => []QueueInv
  BY InitQueue, NextQueue, PTL DEF Spec

\* After any sequence of the macros, on any number of elements, the pointers link
\* the items both ways and tqh_last names the last tqe_next (queue.h:348-404).
THEOREM AlwaysLinked == Spec => []Linked
<1>1. ASSUME QueueInv
      PROVE  Linked
  <2> DEFINE n == Len(items)
  <2>1. /\ n \in Nat /\ DOMAIN items = 1 .. n
        /\ \A i \in 1 .. n : BackOf(At(i)) = items[i]
        /\ BackOf(At(n + 1)) = QHead
    BY <1>1, CellFacts
  <2>2. \A i \in 0 .. n : next[Cell(i)] = At(i + 1) /\ prev[BackOf(At(i + 1))] = Cell(i)
    BY <1>1 DEF QueueInv, Link
  <2>3. \A i \in 1 .. n : prev[items[i]] = Cell(i - 1)
    <3> SUFFICES ASSUME NEW i \in 1 .. n PROVE prev[items[i]] = Cell(i - 1)
      OBVIOUS
    <3>1. i - 1 \in 0 .. n /\ i - 1 + 1 = i
      BY <2>1
    <3> QED BY <2>1, <2>2, <3>1
  <2>4. prev[QHead] = Cell(n)
    BY <2>1, <2>2
  <2> QED BY <2>1, <2>2, <2>3, <2>4 DEF Linked, Cell, At
<1> QED BY <1>1, AlwaysQueue, PTL

\* What the access macros name: the neighbours in the queue, NULL at its ends.
Accessed ==
  /\ TAILQ_FIRST = At(1) /\ (TAILQ_EMPTY <=> items = <<>>)
  /\ TAILQ_LAST = At(Len(items))
  /\ \A i \in 1 .. Len(items) : next[items[i]] = At(i + 1) /\ TAILQ_PREV(items[i]) = At(i - 1)

LEMMA AccessedIs ==
  ASSUME QueueInv
  PROVE  Accessed
<1> DEFINE n == Len(items)
<1>1. /\ n \in Nat /\ DOMAIN items = 1 .. n /\ items \in Seq(Elem)
      /\ \A i \in 1 .. n : items[i] \in Elem /\ BackOf(At(i)) = items[i] /\ At(i) = items[i]
      /\ At(n + 1) = Nil /\ BackOf(Nil) = QHead
  BY CellFacts DEF QueueInv, TypeInv
<1>2. \A i \in 0 .. n : next[Cell(i)] = At(i + 1) /\ prev[BackOf(At(i + 1))] = Cell(i)
  BY DEF QueueInv, Link
<1>3. Cell(0) = QHead /\ (\A i \in 1 .. n : Cell(i) = items[i]) /\ At(0) = Nil
  BY <1>1 DEF Cell, At
<1>4. TAILQ_FIRST = At(1)
  <2>1. 0 \in 0 .. n /\ 0 + 1 = 1
    BY <1>1
  <2> QED BY <1>2, <1>3, <2>1 DEF TAILQ_FIRST
<1>5. TAILQ_EMPTY <=> items = <<>>
  <2>1. CASE n = 0
    BY <1>1, <1>4, <2>1 DEF TAILQ_EMPTY
  <2>2. CASE n # 0
    <3>1. At(1) \in Elem /\ items # <<>>
      BY <1>1, <2>2
    <3> QED BY <1>4, <3>1, QueueAssumption DEF TAILQ_EMPTY
  <2> QED BY <2>1, <2>2
<1>6. prev[QHead] = Cell(n) /\ next[Cell(n)] = Nil
  BY <1>1, <1>2
<1> HIDE DEF n
<1>7. \A i \in 1 .. n : prev[items[i]] = Cell(i - 1) /\ next[Cell(i - 1)] = At(i)
  <2> SUFFICES ASSUME NEW i \in 1 .. n
               PROVE  prev[items[i]] = Cell(i - 1) /\ next[Cell(i - 1)] = At(i)
    OBVIOUS
  <2>1. i - 1 \in 0 .. n /\ i - 1 + 1 = i
    BY <1>1
  <2> QED BY <1>1, <1>2, <2>1
<1>8. TAILQ_LAST = At(n)
  <2>1. CASE n = 0
    BY <1>2, <1>3, <1>6, <2>1 DEF TAILQ_LAST
  <2>2. CASE n # 0
    <3>1. n \in 1 .. n /\ prev[QHead] = items[n]
      BY <1>1, <1>3, <1>6, <2>2
    <3> QED BY <1>7, <3>1 DEF TAILQ_LAST
  <2> QED BY <2>1, <2>2
<1>9. ASSUME NEW i \in 1 .. n
      PROVE  next[items[i]] = At(i + 1) /\ TAILQ_PREV(items[i]) = At(i - 1)
  <2>1. next[items[i]] = At(i + 1)
    <3>1. i \in 0 .. n
      BY <1>1
    <3> QED BY <1>2, <1>3, <3>1
  <2>2. CASE i = 1
    <3>1. prev[items[i]] = QHead /\ At(i - 1) = Nil
      BY <1>3, <1>7, <2>2
    <3> QED BY <1>6, <2>1, <3>1 DEF TAILQ_PREV
  <2>3. CASE i # 1
    <3>1. i - 1 \in 1 .. n
      BY <1>1, <2>3
    <3>2. prev[items[i]] = items[i - 1]
      BY <1>3, <1>7, <3>1
    <3> QED BY <1>7, <2>1, <3>1, <3>2 DEF TAILQ_PREV
  <2> QED BY <2>2, <2>3
<1> QED BY <1>4, <1>5, <1>8, <1>9 DEF Accessed, n

\* TAILQ_EMPTY, TAILQ_FIRST and TAILQ_NEXT are right in every queue, and so are
\* TAILQ_LAST and TAILQ_PREV, which read an entry as if it were a head
\* (queue.h:324-333).
THEOREM AlwaysAccessed == Spec => []Accessed
<1>1. QueueInv => Accessed
  BY AccessedIs
<1> QED BY <1>1, AlwaysQueue, PTL

-----------------------------------------------------------------------------
(* The loops.                                                              *)

\* Induction over the natural numbers, for the set of those that have a property.
LEMMA NatSet ==
  ASSUME NEW T, 0 \in T, \A n \in Nat : n \in T => n + 1 \in T
  PROVE  \A n \in Nat : n \in T
<1> DEFINE R == OpToRel(<, Nat)
           U == Nat \ T
<1>1. SUFFICES ASSUME U # {} PROVE FALSE
  OBVIOUS
<1>2. PICK x \in U : \A y \in U : ~ (<<y, x>> \in R)
  <2>1. IsWellFoundedOn(R, Nat)
    BY NatLessThanWellFounded
  <2>2. U \subseteq Nat
    OBVIOUS
  <2> HIDE DEF R, U
  <2> QED BY <1>1, <2>1, <2>2, WFMin
<1>3. x # 0 /\ x \in Nat
  OBVIOUS
<1>4. x - 1 \in Nat /\ x - 1 \notin T
  BY <1>3
<1>5. <<x - 1, x>> \in R
  BY <1>3, <1>4 DEF OpToRel
<1> QED BY <1>2, <1>4, <1>5

\* What the loop still visits when it comes to e with n turns left.
Turns(next_of, rest, n) ==
  [e \in Elem \cup {Nil} |->
     IF n = 0 \/ e = Nil THEN <<>> ELSE <<e>> \o rest[n - 1][next_of[e]]]

Longest == Cardinality(Elem) + 1

LEMMA LongestType == Longest \in Nat /\ Cardinality(Elem) \in Nat
  BY QueueAssumption, FS_CardinalityType DEF Longest

\* There is a function with the values the recursion asks for.
LEMMA WalkExists ==
  ASSUME NEW next_of
  PROVE  \E g : g = [n \in 0 .. Longest |-> Turns(next_of, g, n)]
<1> DEFINE Upto(g, m) == g = [n \in 0 .. m |-> Turns(next_of, g, n)]
           T == {m \in Nat : \E g : Upto(g, m)}
<1>1. 0 \in T
  <2> DEFINE h == [n \in 0 .. 0 |-> [e \in Elem \cup {Nil} |-> <<>>]]
  <2>1. Turns(next_of, h, 0) = [e \in Elem \cup {Nil} |-> <<>>]
    BY DEF Turns
  <2>2. Upto(h, 0)
    BY <2>1
  <2> QED BY <2>2
<1>2. ASSUME NEW m \in Nat, m \in T PROVE m + 1 \in T
  <2>1. PICK g : Upto(g, m)
    BY <1>2
  <2> DEFINE h == [n \in 0 .. m + 1 |-> IF n = m + 1 THEN Turns(next_of, g, m + 1) ELSE g[n]]
  <2>2. \A n \in 0 .. m : h[n] = g[n]
    OBVIOUS
  <2>3. \A n \in 0 .. m + 1 : Turns(next_of, h, n) = Turns(next_of, g, n)
    <3> TAKE n \in 0 .. m + 1
    <3>1. n # 0 => h[n - 1] = g[n - 1]
      BY <2>2
    <3> HIDE DEF h
    <3> QED BY <3>1 DEF Turns
  <2>4. \A n \in 0 .. m + 1 : h[n] = Turns(next_of, h, n)
    <3> TAKE n \in 0 .. m + 1
    <3>1. CASE n = m + 1
      BY <2>3, <3>1
    <3>2. CASE n \in 0 .. m
      BY <2>1, <2>2, <2>3, <3>2
    <3> QED BY <3>1, <3>2
  <2>5. h = [n \in 0 .. m + 1 |-> h[n]]
    OBVIOUS
  <2> HIDE DEF h
  <2>6. Upto(h, m + 1)
    BY <2>4, <2>5
  <2> QED BY <2>6
<1> HIDE DEF T
<1>3. Longest \in T
  BY <1>1, <1>2, NatSet, LongestType
<1> QED BY <1>3 DEF T

\* The loop's equation.
Walk(next_of) == CHOOSE g : g = [n \in 0 .. Longest |-> Turns(next_of, g, n)]

LEMMA WalkDef ==
  ASSUME NEW next_of
  PROVE  /\ \A n \in 0 .. Longest : Walk(next_of)[n] = Turns(next_of, Walk(next_of), n)
         /\ \A e : Visited(next_of, e) = Walk(next_of)[Longest][e]
<1>1. Walk(next_of) = [n \in 0 .. Longest |-> Turns(next_of, Walk(next_of), n)]
  BY WalkExists DEF Walk
<1>2. \A e : Visited(next_of, e) = Walk(next_of)[Longest][e]
  BY DEF Visited, Walk, Turns, Longest
<1> QED BY <1>1, <1>2

\* A loop that is led from each element of a sequence to the one behind it, and from
\* the last to NULL, visits the sequence.
LEMMA LoopVisits ==
  ASSUME NEW next_of, NEW q \in Seq(Elem), Len(q) <= Cardinality(Elem),
         \A i \in 1 .. Len(q) :
            next_of[q[i]] = IF i < Len(q) THEN q[i + 1] ELSE Nil
  PROVE  Visited(next_of, IF q = <<>> THEN Nil ELSE q[1]) = q
<1> DEFINE l == Len(q)
           Place(i) == IF i = l + 1 THEN Nil ELSE q[i]
           Suffix(i) == [k \in 1 .. l + 1 - i |-> q[k + i - 1]]
           Rest(n) == \A i \in 1 .. l + 1 : n + i >= l + 1 =>
                         Walk(next_of)[n][Place(i)] = Suffix(i)
           T == {n \in Nat : n <= Longest => Rest(n)}
<1>0. l \in Nat /\ Longest \in Nat /\ l < Longest /\ \A i \in 1 .. l : q[i] \in Elem
  BY LongestType DEF Longest
<1>1. \A i \in 1 .. l + 1 : /\ Place(i) \in Elem \cup {Nil}
                            /\ Place(i) = Nil => i = l + 1
  BY <1>0, QueueAssumption
<1>2. Suffix(l + 1) = <<>>
  BY <1>0
<1>3. \A i \in 1 .. l : Suffix(i) = <<q[i]>> \o Suffix(i + 1)
  <2> TAKE i \in 1 .. l
  <2> DEFINE a == Suffix(i + 1)
  <2>1. a \in Seq(Elem) /\ Len(a) = l - i /\ \A k \in 1 .. l - i : a[k] = q[k + i]
    <3>1. a = [k \in 1 .. l - i |-> q[k + i]] /\ \A k \in 1 .. l - i : q[k + i] \in Elem
      BY <1>0
    <3>2. l - i \in Nat
      BY <1>0
    <3> HIDE DEF a
    <3> QED BY <3>1, <3>2
  <2> HIDE DEF a
  <2>2. /\ Len(<<q[i]>> \o a) = l + 1 - i /\ <<q[i]>> \o a \in Seq(Elem)
        /\ \A k \in 1 .. l + 1 - i : (<<q[i]>> \o a)[k] = q[k + i - 1]
    <3> DEFINE o == <<q[i]>>
               b == o \o a
    <3>1. o \in Seq(Elem) /\ Len(o) = 1 /\ o[1] = q[i]
      BY <1>0
    <3> HIDE DEF o
    <3>2. /\ b \in Seq(Elem) /\ Len(b) = 1 + (l - i)
          /\ \A k \in 1 .. 1 + (l - i) : b[k] = IF k <= 1 THEN o[k] ELSE a[k - 1]
      <4>1. /\ o \o a \in Seq(Elem) /\ Len(o \o a) = Len(o) + Len(a)
            /\ \A k \in 1 .. Len(o) + Len(a) :
                  (o \o a)[k] = IF k <= Len(o) THEN o[k] ELSE a[k - Len(o)]
        BY <2>1, <3>1, ConcatProperties
      <4> QED BY <2>1, <3>1, <4>1
    <3> HIDE DEF b
    <3>3. ASSUME NEW k \in 1 .. l + 1 - i PROVE b[k] = q[k + i - 1]
      <4>1. CASE k = 1
        <5>1. k \in 1 .. 1 + (l - i) /\ k <= 1 /\ k + i - 1 = i
          BY <1>0, <4>1
        <5>2. b[k] = o[k]
          BY <3>2, <5>1
        <5> QED BY <3>1, <4>1, <5>1, <5>2
      <4>2. CASE k # 1
        <5>1. k - 1 \in 1 .. l - i /\ k - 1 + i = k + i - 1 /\ k \in 1 .. 1 + (l - i)
          BY <1>0, <4>2
        <5>2. b[k] = a[k - 1]
          BY <3>2, <5>1
        <5> QED BY <2>1, <5>1, <5>2
      <4> QED BY <4>1, <4>2
    <3>4. /\ Len(b) = l + 1 - i /\ b \in Seq(Elem)
          /\ \A k \in 1 .. l + 1 - i : b[k] = q[k + i - 1]
      BY <1>0, <3>2, <3>3
    <3> QED BY <3>4 DEF b, o
  <2>3. <<q[i]>> \o a = Suffix(i)
    <3> DEFINE b == <<q[i]>> \o a
    <3>1. b = [k \in 1 .. l + 1 - i |-> b[k]]
      BY <2>2
    <3> HIDE DEF b
    <3> QED BY <2>2, <3>1 DEF b
  <2> QED BY <2>3 DEF a
<1>4. \A i \in 1 .. l : next_of[q[i]] = Place(i + 1)
  BY <1>0
<1> HIDE DEF Suffix
<1>5. 0 \in T
  <2> SUFFICES ASSUME NEW i \in 1 .. l + 1, 0 + i >= l + 1
               PROVE  Walk(next_of)[0][Place(i)] = Suffix(i)
    OBVIOUS
  <2>1. i = l + 1 /\ Place(i) = Nil
    BY <1>0
  <2>2. Walk(next_of)[0] = Turns(next_of, Walk(next_of), 0)
    BY <1>0, WalkDef
  <2>3. Walk(next_of)[0][Nil] = <<>>
    BY <2>2 DEF Turns
  <2> QED BY <1>2, <2>1, <2>3
<1>6. ASSUME NEW n \in Nat, n \in T PROVE n + 1 \in T
  <2> SUFFICES ASSUME n + 1 <= Longest, NEW i \in 1 .. l + 1, n + 1 + i >= l + 1
               PROVE  Walk(next_of)[n + 1][Place(i)] = Suffix(i)
    OBVIOUS
  <2>1. Walk(next_of)[n + 1] = Turns(next_of, Walk(next_of), n + 1)
    BY <1>0, WalkDef
  <2>2. Rest(n)
    BY <1>0, <1>6
  <2>3. CASE i = l + 1
    <3>1. Walk(next_of)[n + 1][Nil] = <<>>
      BY <2>1 DEF Turns
    <3> QED BY <1>2, <2>3, <3>1
  <2>4. CASE i \in 1 .. l
    <3>1. Place(i) \in Elem /\ Place(i) # Nil /\ Place(i) = q[i]
      BY <1>0, <2>4, QueueAssumption
    <3>2. Walk(next_of)[n + 1][Place(i)] = <<q[i]>> \o Walk(next_of)[n][next_of[q[i]]]
      BY <2>1, <3>1 DEF Turns
    <3>3. Walk(next_of)[n][Place(i + 1)] = Suffix(i + 1)
      BY <1>0, <2>2, <2>4
    <3> HIDE DEF Place
    <3> QED BY <1>3, <1>4, <2>4, <3>2, <3>3
  <2> QED BY <1>0, <2>3, <2>4
<1>7. Rest(Longest)
  <2> HIDE DEF T
  <2>1. Longest \in T
    BY <1>0, <1>5, <1>6, NatSet
  <2> HIDE DEF Rest
  <2> QED BY <1>0, <2>1 DEF T
<1>8. Walk(next_of)[Longest][Place(1)] = Suffix(1)
  BY <1>0, <1>7
<1>9. Suffix(1) = q
  BY <1>0 DEF Suffix
<1>10. Place(1) = IF q = <<>> THEN Nil ELSE q[1]
  BY <1>0
<1> HIDE DEF Place
<1> QED BY <1>8, <1>9, <1>10, WalkDef

\* The queue is no longer than there are elements.
LEMMA QueueFits ==
  ASSUME QueueInv
  PROVE  Len(items) <= Cardinality(Elem)
<1> DEFINE n == Len(items)
<1>1. n \in Nat /\ items \in Seq(Elem) /\ DOMAIN items = 1 .. n
  BY DEF QueueInv, TypeInv
<1>2. IsFiniteSet(1 .. n) /\ Cardinality(1 .. n) = n
  BY <1>1, FS_Interval
<1>3. items \in Injection(1 .. n, Elem)
  BY <1>1 DEF Injection, IsInjective, QueueInv, Distinct
<1>4. Cardinality(1 .. n) <= Cardinality(Elem)
  BY <1>2, <1>3, QueueAssumption, FS_Injection
<1> QED BY <1>2, <1>4

\* TAILQ_FOREACH visits the elements in the order of the queue and TAILQ_FOREACH_REVERSE
\* in the reverse order, each once, and both end, after any sequence of the macros on
\* any number of elements (queue.h:335-343).
THEOREM LoopsVisitAll == Spec => []Traversed
<1>1. ASSUME QueueInv
      PROVE  Traversed
  <2> DEFINE n == Len(items)
  <2>1. /\ n \in Nat /\ items \in Seq(Elem) /\ n <= Cardinality(Elem)
        /\ \A i \in 1 .. n : items[i] \in Elem /\ At(i) = items[i]
        /\ At(n + 1) = Nil /\ At(0) = Nil
    BY <1>1, CellFacts, QueueFits DEF QueueInv, TypeInv, At
  <2>2. /\ TAILQ_FIRST = At(1) /\ (TAILQ_EMPTY <=> items = <<>>) /\ TAILQ_LAST = At(n)
        /\ \A i \in 1 .. n : next[items[i]] = At(i + 1) /\ TAILQ_PREV(items[i]) = At(i - 1)
    BY <1>1, AccessedIs DEF Accessed
  <2> HIDE DEF n
  <2>3. TAILQ_FOREACH = items
    <3> DEFINE f == [e \in Elem |-> next[e]]
    <3>1. \A i \in 1 .. n : f[items[i]] = IF i < n THEN items[i + 1] ELSE Nil
      BY <2>1, <2>2
    <3>2. TAILQ_FIRST = IF items = <<>> THEN Nil ELSE items[1]
      BY <2>1, <2>2 DEF n
    <3> HIDE DEF f
    <3>3. Visited(f, TAILQ_FIRST) = items
      BY <2>1, <3>1, <3>2, LoopVisits DEF n
    <3> QED BY <3>3 DEF TAILQ_FOREACH, f
  <2>4. TAILQ_FOREACH_REVERSE = Reverse(items)
    <3> DEFINE f == [e \in Elem |-> TAILQ_PREV(e)]
               r == Reverse(items)
    <3>1. r \in Seq(Elem) /\ Len(r) = n /\ \A i \in 1 .. n : r[i] = items[n - i + 1]
      <4>1. r = [i \in 1 .. n |-> items[n - i + 1]] /\ \A i \in 1 .. n : items[n - i + 1] \in Elem
        BY <2>1 DEF Reverse, n
      <4> HIDE DEF r
      <4> QED BY <2>1, <4>1
    <3> HIDE DEF r
    <3>2. \A i \in 1 .. n : f[r[i]] = IF i < n THEN r[i + 1] ELSE Nil
      <4> TAKE i \in 1 .. n
      <4>1. n - i + 1 \in 1 .. n /\ r[i] = items[n - i + 1] /\ r[i] \in Elem
        BY <2>1, <3>1
      <4>2. f[r[i]] = At(n - i)
        BY <2>1, <2>2, <4>1
      <4>3. CASE i < n
        <5>1. n - i \in 1 .. n /\ i + 1 \in 1 .. n /\ r[i + 1] = items[n - i]
          BY <2>1, <3>1, <4>3
        <5> QED BY <2>1, <4>2, <4>3, <5>1
      <4>4. CASE i = n
        BY <2>1, <4>2, <4>4
      <4> QED BY <2>1, <4>3, <4>4
    <3> HIDE DEF f
    <3>3. TAILQ_LAST = IF r = <<>> THEN Nil ELSE r[1]
      BY <2>1, <2>2, <3>1
    <3>4. Visited(f, TAILQ_LAST) = r
      BY <2>1, <3>1, <3>2, <3>3, LoopVisits
    <3> QED BY <3>4 DEF TAILQ_FOREACH_REVERSE, f, r
  <2> QED BY <2>2, <2>3, <2>4 DEF Traversed
<1> QED BY <1>1, AlwaysQueue, PTL
=============================================================================
