\* An ended prompt is cancelled during a model reset; then a prompt and a drain.
SPECIFICATION FairSpec
CONSTANTS
  MaxRequests = 2
  MaxInFlight = 2
  NoSession = NoSession
  Waiters = {w1}
  MaxQueueSize = 1
  InitAttempts = 2
  Calls <- MCCalls
  Sessions = {s1}
  SessionResets = 0
  ModelResets = 1
  Shutdowns = 1
  Cancels = 1
  Faults = {}
  MaxFaults = 0
  CancelEnded = TRUE
  ResetUnready = FALSE
CHECK_DEADLOCK FALSE
PROPERTY QueuedWorkDrains
