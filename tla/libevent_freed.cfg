\* A client that closes while its echo waits for the write event is freed with the event still added.
SPECIFICATION Spec
CONSTANTS
  c1 = c1
  c2 = c2
  NoConn = NoConn
  Conn = {c1}
  BufLen = 2
  MsgLen = 2
  NumMessages = 1
  Room = 2
  MaxOpen = 1
  Fragments = FALSE
  MaxFaults = 0
INVARIANT NoFreedEvent
