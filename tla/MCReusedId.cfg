\* Two runs of one action, the second one under the id of the first.
SPECIFICATION BusSpec
CONSTANTS
  Capabilities = {"text.generate", "other.capability"}
  PathLike = {"c:/x"}
  Padded <- MCPadded
  DraftIds = {"a1"}
  MaxChanges = 0
  Actions = {"a1"}
  MaxListeners = 1
  MaxEvents = 3
  Asks <- MCAsks
  NoLimit = NoLimit
  AnyField = AnyField
  LogOptions <- MCLogOptions
  MaxRuns = 2
  MaxDeltas = 1
  MaxRejects = 1
  MaxExtras = 1
  Errors <- MCErrors
CHECK_DEADLOCK FALSE
INVARIANT EveryRunIsAnnounced
