SPECIFICATION CallPagesSpec
CONSTANTS
  User = {a, b}
  Caller = {a}
  MaxCalls = 1
  MaxStreams <- TwoForTheCalled
  MaxAsks = 1
  MaxCallTroubles = 1
  p = p
  q = q
  Page = {p, q}
  Identity = {i, j}
  Video = {p}
  MaxVisits <- Visits
  MaxRoomTroubles = 1
INVARIANTS
  
  RingsOnChat
  TogetherUnlessFailed
  GoneIsSilent
  ShowsWhatIs
  NoPhantoms
PROPERTIES
  DialEnds
  SpinnerEnds
CHECK_DEADLOCK FALSE
