\* The schedule page with its writes and reads, and what runs beside it.
CONSTANTS
    Dates = {d1, d2}
    Slots = {r1, r2}
    MaxRevision = 3
    MaxGeneration = 2
    MaxUndo = 2
    MaxChecks = 1
    None = None
    Reads = {r1, r2}
    MaxToken = 3
    MaxStamp = 4
    Kinds = {"todoist", "habitica", "caldav"}
    Requests = {r1, r2}
    Secrets = {a, b}
    Zones = {"west", "east"}
    Items <- SomeItems
    LastDay = 1
    MaxVersion = 3
    Loads = {r1, r2}
    Calendar = {d1, d2}
    Contexts = {x, y}
    Tasks = {t1}
    MaxAccount = 3
    MaxChanges = 4
    Calls = {r1, r2}
    Limit = 2
    Attempts = 3
    MaxWindows = 4
    MaxCount = 5
    Clicks = {r1, r2}
    MaxImports = 5
    Users = {u, v}
    Asks = {a1, a2, a3}
    MaxEpoch = 3
    Slugs = {"other", "gym"}
    Sink = "other"
    Seeds = {"other", "gym"}
    MaxCategories = 2
    Types = {"weekday", "weekend"}
    Bodies <- SomeBodies
    Spans <- SomeSpans
    Themes = {"classic", "strategic"}
    Gaps = {0, 5}
    DefaultPreferences <- UsualPreferences
    Priorities = {0, 2}
    MaxRules = 3
    MaxTravel = 1
    MaxOrder = 1
    Edits = {r1, r2}
    MaxId = 4
    Unset = Unset
    Nil = None
    FirstDate = d1
    FirstContext = x
SPECIFICATION MCSpec
SYMMETRY MCSymmetry
INVARIANTS
    VisibleIsReal
    WritersSeeOwnWrites
    OneWriter
    NeverStuck
    IntentOnSeenDay
    AccountsTrue
    ListTrue
    WithinBudget
    ImportTrue
    WindowSound
    ListsSound
PROPERTIES
    NotTakenBack
    
    RulesInOrder
CHECK_DEADLOCK FALSE
