\* Accept thread, workers and console race on the counters without a lock: no number is further off than the overlapped updates explain, and the console comes to rest that near to the open connections.
SPECIFICATION Spec
CONSTANTS
  c1 = c1
  c2 = c2
  c3 = c3
  NoConn = NoConn
  Conn = {c1, c2}
  NumWorkers = 2
INVARIANTS
  CounterDrift
  TotalDrift
PROPERTY EventuallyShown
