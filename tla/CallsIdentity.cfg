SPECIFICATION CallsSpec
CONSTANTS
  User = {a, b}
  Caller = {a}
  MaxCalls = 1
  MaxStreams <- OneEach
  MaxAsks = 1
  MaxCallTroubles = 0
INVARIANTS
  OwnIdentity
CHECK_DEADLOCK FALSE
