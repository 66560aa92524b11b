SPECIFICATION Spec
CONSTANTS
    Lines = {l1, l2}
    MaxAgent = 1
    MaxUser = 1
    MaxSessions = 1
    MaxCommits = 1
    MaxDisk = 1
    MaxOthers = 2
    MaxQueue = 2
    AllowUndo = TRUE
SYMMETRY Symmetry
INVARIANTS ReviewSound QuietAgrees CommitSettles AgentChangesReviewable KeepSticks
PROPERTIES RejectSparesUser
CHECK_DEADLOCK FALSE
