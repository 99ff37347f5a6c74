------------------------------- MODULE TailQueue -------------------------------
(***************************************************************************)
(* The tail queue of queue.h, in which the libevent servers keep the       *)
(* buffers they have to write (TAILQ_HEAD(, bufferq) writeq).              *)
(*                                                                         *)
(* Memory is modelled pointer by pointer.  A tqe_prev, like tqh_last, is   *)
(* the address of a pointer: of the tqe_next of an element, written as     *)
(* that element, or of tqh_first, written as QHead.  So next[QHead] is      *)
(* tqh_first and prev[QHead] is tqh_last.  A removed element keeps its     *)
(* pointers (_Q_INVALIDATE is empty) and may be inserted again.            *)
(***************************************************************************)
EXTENDS Naturals, SequencesExt

CONSTANTS Elem, QHead, Nil      \* the elements, the head, NULL

ASSUME QueueAssumption ==
  /\ QHead \notin Elem /\ Nil \notin Elem /\ QHead # Nil
  /\ IsFiniteSet(Elem)             \* memory is finite

VARIABLES
  next,            \* tqh_first and the tqe_next
  prev,            \* tqh_last and the tqe_prev
  items            \* history: what the queue should hold

vars == <<next, prev, items>>

Free   == Elem \ ToSet(items)
Pos(e) == CHOOSE i \in DOMAIN items : items[i] = e

\* Where the address of the pointer before n is kept, n being an element or
\* the end of the queue: in n itself, or in tqh_last.
BackOf(n) == IF n = Nil THEN QHead ELSE n

-----------------------------------------------------------------------------
(* The access macros.  TAILQ_LAST and TAILQ_PREV read the entry that holds *)
(* the pointer at an address as if it were a head: both begin with two     *)
(* pointers of the same kinds.                                             *)

TAILQ_FIRST   == next[QHead]
TAILQ_EMPTY   == TAILQ_FIRST = Nil
TAILQ_LAST    == next[prev[prev[QHead]]]
TAILQ_PREV(e) == next[prev[prev[e]]]

\* What a loop visits that begins with first and goes on with what next_of says, for
\* at most one element more than there are.
Visited(next_of, first) ==
  LET walk[n \in 0 .. Cardinality(Elem) + 1] ==
        [e \in Elem \cup {Nil} |->
           IF n = 0 \/ e = Nil THEN <<>> ELSE <<e>> \o walk[n - 1][next_of[e]]]
  IN  walk[Cardinality(Elem) + 1][first]

TAILQ_FOREACH         == Visited([e \in Elem |-> next[e]], TAILQ_FIRST)
TAILQ_FOREACH_REVERSE == Visited([e \in Elem |-> TAILQ_PREV(e)], TAILQ_LAST)

-----------------------------------------------------------------------------
(* The macros that change the queue.                                       *)

TAILQ_INSERT_HEAD(e) ==
  /\ e \in Free
  /\ next' = [next EXCEPT ![e] = next[QHead], ![QHead] = e]
  /\ prev' = [prev EXCEPT ![BackOf(next[QHead])] = e, ![e] = QHead]
  /\ items' = <<e>> \o items

\* Mutant: tqh_last is not moved to the new element.
InsertTailLost(e) ==
  /\ e \in Free
  /\ next' = [next EXCEPT ![e] = Nil, ![prev[QHead]] = e]
  /\ prev' = [prev EXCEPT ![e] = prev[QHead]]
  /\ items' = Append(items, e)

TAILQ_INSERT_TAIL(e) ==
  /\ e \in Free
  /\ next' = [next EXCEPT ![e] = Nil, ![prev[QHead]] = e]
  /\ prev' = [prev EXCEPT ![e] = prev[QHead], ![QHead] = e]
  /\ items' = Append(items, e)

TAILQ_INSERT_AFTER(a, e) ==
  /\ e \in Free /\ a \notin Free
  /\ next' = [next EXCEPT ![e] = next[a], ![a] = e]
  /\ prev' = [prev EXCEPT ![BackOf(next[a])] = e, ![e] = a]
  /\ items' = InsertAt(items, Pos(a) + 1, e)

TAILQ_INSERT_BEFORE(b, e) ==
  /\ e \in Free /\ b \notin Free
  /\ next' = [next EXCEPT ![e] = b, ![prev[b]] = e]
  /\ prev' = [prev EXCEPT ![e] = prev[b], ![b] = e]
  /\ items' = InsertAt(items, Pos(b), e)

\* Mutant: removing the last element leaves tqh_last where it was.
RemoveLastLost(e) ==
  /\ e \notin Free
  /\ next' = [next EXCEPT ![prev[e]] = next[e]]
  /\ prev' = IF next[e] = Nil THEN prev ELSE [prev EXCEPT ![next[e]] = prev[e]]
  /\ items' = RemoveAt(items, Pos(e))

TAILQ_REMOVE(e) ==
  /\ e \notin Free
  /\ next' = [next EXCEPT ![prev[e]] = next[e]]
  /\ prev' = [prev EXCEPT ![BackOf(next[e])] = prev[e]]
  /\ items' = RemoveAt(items, Pos(e))

TAILQ_REPLACE(e, f) ==
  /\ e \notin Free /\ f \in Free
  /\ next' = [next EXCEPT ![f] = next[e], ![prev[e]] = f]
  /\ prev' = [prev EXCEPT ![BackOf(next[e])] = f, ![f] = prev[e]]
  /\ items' = [items EXCEPT ![Pos(e)] = f]

\* TAILQ_INIT; the entries of fresh elements are not initialised.
Init ==
  /\ next \in [Elem \cup {QHead} -> Elem \cup {Nil}]
  /\ prev \in [Elem \cup {QHead} -> Elem \cup {QHead}]
  /\ next[QHead] = Nil /\ prev[QHead] = QHead
  /\ items = <<>>

Next ==
  \E e \in Elem :
    \/ TAILQ_INSERT_HEAD(e) \/ TAILQ_INSERT_TAIL(e) \/ TAILQ_REMOVE(e)
    \/ \E f \in Elem : TAILQ_INSERT_AFTER(f, e) \/ TAILQ_INSERT_BEFORE(f, e) \/ TAILQ_REPLACE(e, f)

Spec == Init /\ [][Next]_vars

-----------------------------------------------------------------------------
(* Properties.                                                             *)

\* The pointers link the items in order, both ways: every element is reached
\* through the pointer its tqe_prev names, and tqh_last names the last tqe_next,
\* whatever stale pointers removed elements keep.
Linked ==
  LET at(i) == IF i \in DOMAIN items THEN items[i] ELSE Nil
      cell(i) == IF i = 0 THEN QHead ELSE items[i]
  IN
  /\ \A i \in 0 .. Len(items) : next[cell(i)] = at(i + 1)
  /\ \A i \in 1 .. Len(items) : prev[items[i]] = cell(i - 1)
  /\ prev[QHead] = cell(Len(items))

\* The two loops visit the items in order and in reverse order, TAILQ_LAST and
\* TAILQ_EMPTY included: reading an entry as a head is right everywhere.
Traversed ==
  /\ TAILQ_FOREACH = items /\ TAILQ_FOREACH_REVERSE = Reverse(items)
  /\ TAILQ_EMPTY <=> items = <<>>
=============================================================================
