\* Four requests for two slots: the queue holds two while the table is full.
SPECIFICATION FairSchedSpec
CONSTANTS
  MaxRequests = 4
  MaxInFlight = 2
  Sessions = {s1, s2}
  NoSession = NoSession
  Waiters = {w1}
CHECK_DEADLOCK TRUE
INVARIANTS
  SchedTypeOK
  BooksAgree
  NoLostIdleWakeup
  NoStalledDispatch
PROPERTIES
  ImplementsRequestLifecycle
  QueuedRequestsMoveOn
