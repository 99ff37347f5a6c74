\* The single-threaded server echoes the first 80 bytes of the client's 1024 and closes: the client never displays an echo.
SPECIFICATION FairSpec
CONSTANTS
  NoConn = 0
  Conn = {1, 2, 3}
  Kinds = {"single"}
  MsgLens = {1024}
  NumMessages = 1
  MaxOpen = 2
  QueueLen = 2
  MaxSkipped = 0
PROPERTY EventuallyDisplayed
