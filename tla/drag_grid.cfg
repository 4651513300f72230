\* Days whose sort_order need not agree with the times.
SPECIFICATION SmallSpec
CONSTANTS
    Grid = 2
    DayMinutes = 20
    Days <- AllDays
    Windows <- AllWindows
    Pointers <- AllPointers
    Places <- FewPlaces
    Stub = 3
    MaxScans = 40
    MaxWrites = 2
    None = None
INVARIANT ShiftsOnGrid
CHECK_DEADLOCK FALSE
