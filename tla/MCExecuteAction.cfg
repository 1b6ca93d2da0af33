\* Two runs, their listeners and a log; a draft is changed twice. Calls run out.
SPECIFICATION BusFairSpec
CONSTANTS
  Capabilities = {"text.generate", "other.capability"}
  PathLike = {"c:/x"}
  Padded <- MCPadded
  DraftIds = {"a1"}
  MaxChanges = 2
  Actions = {"a1", "a2"}
  MaxListeners = 2
  MaxEvents = 2
  Asks <- MCAsks
  NoLimit = NoLimit
  AnyField = AnyField
  LogOptions <- MCLogOptions
  MaxExtras = 2
  MaxRuns = 2
  MaxDeltas = 1
  MaxRejects = 1
  Errors <- MCErrors
CHECK_DEADLOCK FALSE
INVARIANTS
  BusTypeOK
  ActiveIdsHaveOneRun
  ListenersSeeTheFeed
  ReadersMissOnlyTheEvicted
  FreshRunsAreAnnounced
  LogFollowsTheFeed
  OnlyCoherentActionsRun
PROPERTY IdsAreReleased
