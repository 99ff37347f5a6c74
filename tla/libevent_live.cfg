\* When messages arrive whole every message is echoed, through partial writes, a write that blocks the loop and fewer descriptors than clients, and every departed client is freed, unless clients stopped by an echo in pieces hold all descriptors.
SPECIFICATION FairSpec
CONSTANTS
  c1 = c1
  c2 = c2
  NoConn = NoConn
  Conn = {c1, c2}
  BufLen = 3
  MsgLen = 3
  NumMessages = 2
  Room = 3
  MaxOpen = 1
  Fragments = FALSE
  MaxFaults = 1
INVARIANT EchoScheduled
PROPERTIES
  EventuallyEchoed
  EventuallyFreed
