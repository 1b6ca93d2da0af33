\* One session and two failures of initialization; nothing is reset before it is ready. Calls run out.
SPECIFICATION FairSpec
CONSTANTS
  MaxRequests = 2
  MaxInFlight = 2
  NoSession = NoSession
  Waiters = {w1}
  MaxQueueSize = 1
  InitAttempts = 2
  Calls <- MCCalls
  Sessions = {s1}
  SessionResets = 1
  ModelResets = 1
  Shutdowns = 1
  Cancels = 1
  Faults = {"plan", "load", "readyTimeout"}
  MaxFaults = 2
  CancelEnded = FALSE
  ResetUnready = FALSE
CHECK_DEADLOCK FALSE
INVARIANT ResolvedMeansReady
PROPERTIES
  AcceptedPromptsEnd
  PromptCallsReturn
  BoundariesEnd
