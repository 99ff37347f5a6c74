\* The two servers with one event loop: who is stranded in the backlog, which client can hold up the only thread, and that everybody else is served, but for requests left unread by a read of 1024 bytes or a thread that was not created, and the GUI shows the open connections and the errors it never counted out.
SPECIFICATION FairSpec
CONSTANTS
  NoConn = 0
  Conn = {1, 2, 3}
  Kinds = {"single", "gui"}
  MsgLens = {80, 1024, 1536}
  NumMessages = 1
  MaxOpen = 2
  QueueLen = 2
  MaxSkipped = 1
INVARIANTS
  BacklogStranded
  SpinHasCause
PROPERTIES
  EventuallyServed
  EventuallyShown
