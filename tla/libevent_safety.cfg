\* Fragmented messages, partial writes, client deaths, failing accepts and a socket left in blocking mode: the write queue is exactly the unechoed data in order, on_write always finds a buffer, and the callbacks implement the abstract echo service.
SPECIFICATION Spec
CONSTANTS
  c1 = c1
  c2 = c2
  NoConn = NoConn
  Conn = {c1, c2}
  BufLen = 2
  MsgLen = 3
  NumMessages = 2
  Room = 2
  MaxOpen = 2
  Fragments = TRUE
  MaxFaults = 1
INVARIANTS
  TypeOK
  QueueIsUnechoed
  NeverEmptyQueue
PROPERTY EchoSpec
SYMMETRY ConnSymmetry
