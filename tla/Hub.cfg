SPECIFICATION FairSpec
CONSTANTS
  Clients = {c1}
  Callers = {p1, p2}
  Capacity = 1
  MaxEvents = 3
INVARIANTS
  NoPanic
PROPERTIES
  NoGap
CHECK_DEADLOCK FALSE
