SPECIFICATION Spec
CONSTANTS
    Projects = {p1, p2}
    NoProject = NoProject
    MaxOpens = 2
    MaxEdits = 2
    MaxPending = 2
    Disturbances <- Calm
INVARIANTS SnapshotOwn ShownProjectRuns
PROPERTIES OpenedIsBooted EditsReachStore
CHECK_DEADLOCK FALSE
