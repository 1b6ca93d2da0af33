\* One request (others have buffers and streams of their own) of up to five tokens. They run out.
SPECIFICATION FairSpec
CONSTANTS
  Requests = {r1}
  MaxTokens = 5
  Tokens <- MCTokens
  Length <- MCLength
  Breaks <- MCBreaks
  MaxBufferedChars = 3
  MinBoundaryFlushChars = 2
  FlushOnBoundary = TRUE
  ConsumersLeave = TRUE
CHECK_DEADLOCK FALSE
INVARIANTS
  StreamTypeOK
  NothingIsLost
  DoneIsShown
  HeldTextIsTimed
  OnlyCallersCrashIt
PROPERTIES
  ImplementsTokenStream
  TokensAreShown
