SPECIFICATION FairSpec
CONSTANTS
  Jobs = {j1}
  Consumers = {c1, c2}
  MaxAttempts = 2
  MaxTroubles = 2
INVARIANTS
  NoEntryLost
  DeadLetterJustified
  OneVerdictWhenCalm
PROPERTIES
  ImplementsDelivery
  EveryJobSettles
CHECK_DEADLOCK FALSE
