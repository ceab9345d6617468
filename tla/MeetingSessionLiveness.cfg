SPECIFICATION FairSpec
CONSTANTS
  Requests = {r1}
  Sweepers = {s1}
  MaxRooms = 2
  MaxTroubles = 1
PROPERTIES
  AbandonedSessionEnds
CHECK_DEADLOCK FALSE
