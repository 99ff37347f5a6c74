\* The servers with a console, on a table with fewer descriptors than clients: each client is admitted, echoed and closed as the abstract service says and served in the end, but for those that the edge-triggered listener of the Qt server strands, which are counted, and those of threads that were never created.
SPECIFICATION FairSpec
CONSTANTS
  Conn = {1, 2, 3}
  NoConn = 0
  NumWorkers = 2
  MaxOpen = 1
  NumMessages = 1
INVARIANTS
  TypeOK
  BacklogStranded
PROPERTIES
  EchoSpec
  EventuallyServed
