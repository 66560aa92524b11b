SPECIFICATION Spec
CONSTANTS
    MaxTurns = 2
    Tool = {x1}
    MayRefuse = TRUE
    MaxStops = 1
INVARIANTS TurnsSound UsesHaveResults StatusHonest CancelledTurnsMove
CHECK_DEADLOCK FALSE
