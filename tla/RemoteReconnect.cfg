SPECIFICATION FairSpec
CONSTANTS
    MaxMissed = 5
    MaxAttempts = 3
INVARIANTS ConnectionSound
PROPERTIES TroubleEnds DeadIsNoticed
CHECK_DEADLOCK FALSE
