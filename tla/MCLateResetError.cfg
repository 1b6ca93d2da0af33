\* A session reset times out, and then fails in the worker.
SPECIFICATION Spec
CONSTANTS
  MaxRequests = 2
  MaxInFlight = 2
  NoSession = NoSession
  Waiters = {w1}
  MaxQueueSize = 1
  InitAttempts = 2
  Calls <- MCCalls
  Sessions = {s1}
  SessionResets = 1
  ModelResets = 0
  Shutdowns = 0
  Cancels = 0
  Faults = {"dispose", "hardStop"}
  MaxFaults = 2
  CancelEnded = FALSE
  ResetUnready = FALSE
CHECK_DEADLOCK FALSE
PROPERTY LateResetErrorUnblocks
