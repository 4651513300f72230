\* One day with every interval of three minutes, and blocks dragged over days of two to five.
CONSTANTS
    Clients = {c1}
    Dates = {d1}
    Slugs = {"other", "work"}
    Sink = "other"
    Seeds = {"other", "work"}
    SeedDefault = "other"
    MaxCategories = 2
    Horizon = 2
    MaxRevision = 3
    Grid = 2
    DayMinutes = 20
    Days <- AllDays
    Windows <- AllWindows
    Pointers <- AllPointers
    Places <- FewPlaces
    Stub = 3
    MaxScans = 40
    MaxWrites = 2
    None = None
SPECIFICATION MCSpec
INVARIANTS
    DisjointBlocks
    CascadeSound
PROPERTIES
    DropSound
