\* Three receive loops against the client's. Requests that arrive whole are received and echoed as the abstract service says, and the client displays what it sent; in whatever pieces requests and replies come, a worker leaves its loop and closes the connection once the client has gone.
SPECIFICATION FairSpec
CONSTANTS
  Kinds = {"final", "gui", "nogui"}
  BufLen = 3
  NumMessages = 2
  Splits = {{}, {"replies"}, {"requests", "replies"}}
  MaxSlip = 2
INVARIANTS
  WholeIsEchoed
PROPERTIES
  EchoSteps
  WholeIsDisplayed
  WorkerReleased
\* A client that waits for the rest of an echo, or a server that spins, is stuck.
CHECK_DEADLOCK FALSE
