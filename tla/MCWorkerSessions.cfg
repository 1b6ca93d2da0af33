\* Two sessions, and a Map that holds one or both. Prompts and resets run out.
SPECIFICATION FairSpec
CONSTANTS
  MaxRequests = 3
  MaxInFlight = 2
  Sessions = {s1, s2}
  NoSession = NoSession
  MaxCounts = {1, 2}
  Profiles = 2
  MaxResets = 2
  MaxFaults = 1
CHECK_DEADLOCK FALSE
INVARIANTS
  SessionsTypeOK
  RoomyContextsAreLive
  RoomyContextsAreKept
PROPERTIES
  NoDisposalUnderUse
  ResetStartsAfresh
  PromptsEnd
  ResetsAreAnswered
