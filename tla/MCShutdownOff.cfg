\* A prompt that has ended is cancelled after the shutdown.
SPECIFICATION Spec
CONSTANTS
  MaxRequests = 2
  MaxInFlight = 2
  NoSession = NoSession
  Waiters = {w1}
  MaxQueueSize = 1
  InitAttempts = 2
  Calls <- MCCalls
  Sessions = {s1}
  SessionResets = 0
  ModelResets = 0
  Shutdowns = 1
  Cancels = 1
  Faults = {}
  MaxFaults = 0
  CancelEnded = TRUE
  ResetUnready = FALSE
CHECK_DEADLOCK FALSE
INVARIANT ShutdownRemainsOff
