\* Two workers with two connections, every interleaving of the threads, client deaths and failing system calls: descriptors, events, requests and counters stay consistent, and the threads together implement the abstract echo service.
SPECIFICATION Spec
CONSTANTS
  c1 = c1
  c2 = c2
  c3 = c3
  NoConn = NoConn
  Conn = {c1, c2}
  NumWorkers = 2
  MaxFd = 2
  NumMessages = 2
  Backlog = 2
  QueueLen = 2
  MaxFaults = 1
INVARIANTS
  FdsOwned
  EventsOwned
  NoEdgeLost
  NoSpuriousRead
  AssertHolds
  NoSigpipe
  NoReplyLost
  CounterDrift
PROPERTY EchoSpec
SYMMETRY ConnSymmetry
