\* One identity run by two handlers, the planner on days of 18 minutes, one open question.
CONSTANTS
    Requests = {r1}
    Handlers = {h1, h2}
    MaxRevision = 1
    MaxPolicy = 1
    MaxFaults = 2
    Grid = 2
    DayMinutes = 18
    None = None
    DefaultDuration = 4
    MaxActions = 3
    Turns <- SomeTurns
    Tabs = {t1}
    Ids = {i1}
    Tasks = {b1}
    Values = {0, 1, 2}
    MaxItems = 2
    MaxVersion = 2
    MaxContext = 1
SPECIFICATION MCSpec
INVARIANTS
    ReceiptTellsEffect
    AnswersAgree
    PlanSound
    VerdictsTrue
PROPERTIES
    AppliedOnlyFresh
    ImplementsExactlyOnce
    EverySettles
    
