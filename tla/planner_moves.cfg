\* Several actions on one block.
CONSTANTS
    Grid = 2
    DayMinutes = 18
    None = None
    DefaultDuration = 4
    Turns <- Chains
    MaxActions = 2
SPECIFICATION PlanSpec
INVARIANT MovesKeepLength
CHECK_DEADLOCK FALSE
