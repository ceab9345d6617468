SPECIFICATION ChatFairSpec
CONSTANTS
    MaxPipe = 1
    MaxTroubles = 1
    MaxPosts = 1
    MaxChanges = 1
    MaxLoads = 2
INVARIANTS
    QuietViewIsCurrent
    NoEndlessRestoring
    ClaimIsHonest
PROPERTIES
    ComesBack
CHECK_DEADLOCK FALSE
