\* Two sessions; any call at any time, and one failure or timeout of any kind. Calls run out.
SPECIFICATION Spec
CONSTANTS
  MaxRequests = 2
  MaxInFlight = 2
  NoSession = NoSession
  Waiters = {w1}
  MaxQueueSize = 1
  InitAttempts = 2
  Calls <- MCCalls
  Sessions = {s1, s2}
  SessionResets = 1
  ModelResets = 1
  Shutdowns = 1
  Cancels = 1
  Faults = {"plan", "load", "dispose", "readyTimeout", "hardStop"}
  MaxFaults = 1
  CancelEnded = TRUE
  ResetUnready = TRUE
CHECK_DEADLOCK FALSE
SYMMETRY Symmetry
INVARIANTS
  LifeTypeOK
  RunningIsSomewhere
  NoOrphanPrompt
  SessionQuietAfterReset
  BoundaryIsQuiet
  SessionOrder
PROPERTIES
  OneInitCycle
  ImplementsScheduler
