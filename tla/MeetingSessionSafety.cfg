SPECIFICATION Spec
CONSTANTS
  Requests = {r1, r2}
  Sweepers = {s1}
  MaxRooms = 1
  MaxTroubles = 1
SYMMETRY Symmetry
INVARIANTS
  ActiveHasSession
  AnnouncedOnce
  EndedAfterRoom
CHECK_DEADLOCK FALSE
