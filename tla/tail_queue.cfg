\* Every sequence of TAILQ operations on three elements, with stale pointers in removed ones: the links and both loops show the sequence the operations stand for.
SPECIFICATION Spec
CONSTANTS
  e1 = e1
  e2 = e2
  e3 = e3
  QHead = QHead
  Nil = Nil
  Elem = {e1, e2, e3}
INVARIANTS
  Linked
  Traversed
