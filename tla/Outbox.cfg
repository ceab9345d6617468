SPECIFICATION FairSpec
CONSTANTS
  Events = {1, 2, 3, 4}
  Silent = {4}
  Unknown = {1}
  Detached = {3}
  Dispatchers = {d1, d2}
  NoOne = NoOne
  MaxAttempts = 2
  BatchSize = 2
  MaxTroubles = 1
INVARIANTS
  PublishedWasSent
  AbandonedJustified
  LeaseExclusive
PROPERTY StoredEventsPublished
CHECK_DEADLOCK FALSE
