\* One context too few: a session is evicted while its next prompt arrives.
SPECIFICATION Spec
CONSTANTS
  MaxRequests = 3
  MaxInFlight = 2
  Sessions = {s1, s2}
  NoSession = NoSession
  MaxCounts = {1}
  Profiles = 2
  MaxResets = 0
  MaxFaults = 0
CHECK_DEADLOCK FALSE
INVARIANT EvictedContextsAreUnused
