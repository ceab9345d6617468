SPECIFICATION FairSpec
CONSTANTS
    t1 = t1
    t2 = t2
    Tabs <- TwoTabs
    MaxTokens = 3
    MaxSessions = 2
    MaxTroubles = 1
INVARIANTS
    OneLossForgiven
PROPERTIES
    RevivedOnlyByOverlap
    WaitingEnds
CHECK_DEADLOCK FALSE
