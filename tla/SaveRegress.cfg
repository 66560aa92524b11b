SPECIFICATION Spec
CONSTANTS
    Projects = {p1, p2}
    NoProject = NoProject
    MaxOpens = 2
    MaxEdits = 1
    MaxPending = 2
    Disturbances <- Calm
PROPERTIES SavesNeverRegress
CHECK_DEADLOCK FALSE
