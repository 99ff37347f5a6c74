\* Sessions, log thread and main thread of the Python clients against a server that may close or reset: every line put is written in order, 'kill' comes last, and the log is closed unless a thread died, the log thread included, or waits for an answer.
SPECIFICATION FairSpec
CONSTANTS
  NumSessions = 2
  MaxMessages = 2
INVARIANTS
  NothingLost
  KillIsLast
  LineCountsEchoes
PROPERTY LogClosed
