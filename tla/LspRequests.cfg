SPECIFICATION FairSpec
CONSTANTS
    complete = complete
    format = format
    Shutdown = Shutdown
    Request <- JustOne
    Timed <- None
    MaxEdits = 2
    MayHang = TRUE
    MayExit = TRUE
INVARIANTS HandlersSound AnsweredByOwn
PROPERTIES EditsFit ExitSettles ShutdownEnds
CHECK_DEADLOCK FALSE
