SPECIFICATION Spec
CONSTANTS
  Workspace = {1, 2}
  MaxItems = 2
  MaxRequests = 2
  MaxSwitches = 2
  MaxTroubles = 1
  Key = {1, 2}
  MaxEdits = 2
  MaxLoads = 2
  MaxFailures = 1
  User = {1, 2}
  Former = 1
  MaxSignIns = 2
  MaxLapses = 2
INVARIANTS
  OwnWorkspaceOnly
  CreatedShownOnce
  EditsAreStored
  OwnDataOnly
  SessionHasTokens
CHECK_DEADLOCK FALSE
