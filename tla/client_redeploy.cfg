SPECIFICATION Spec
CONSTANTS
    Requests = {r1, r2}
    Dates = {d1, d2}
    MaxReleases = 1
    None = None
INVARIANTS RecordKeptUntilKnown
