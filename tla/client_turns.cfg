\* Two turns over two days, or one turn with a deployment under the open tab.
SPECIFICATION SmallSpec
CONSTANTS
    Requests = {r1, r2}
    Dates = {d1, d2}
    MaxReleases = 1
    None = None
INVARIANTS
    RecordKeptWithoutDeploy
    ThreadIsTrue
PROPERTIES
    OneOpenTurn
    PendingSettles
