\* With more clients than descriptors accept copes with the exhausted table, every request is echoed and every departed client's connection is closed in the end.
SPECIFICATION FairSpec
CONSTANTS
  c1 = c1
  c2 = c2
  c3 = c3
  NoConn = NoConn
  Conn = {c1, c2}
  NumWorkers = 2
  MaxFd = 1
  NumMessages = 1
  Backlog = 2
  QueueLen = 2
  MaxFaults = 0
INVARIANT TypeOK
PROPERTIES
  EventuallyEchoed
  EventuallyClosed
