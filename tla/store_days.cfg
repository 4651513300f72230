\* One client edits and reviews two days, or two clients race on one day.
CONSTANTS
    Clients = {c1, c2}
    Dates = {d1, d2}
    Slugs = {"other", "work", "gym"}
    Sink = "other"
    Seeds = {"other", "work"}
    SeedDefault = "work"
    MaxCategories = 2
    Horizon = 1
    MaxRevision = 4
SYMMETRY Symmetry
SPECIFICATION SmallSpec
INVARIANTS FrozenSnapshotFaithful ReviewMapsInCatalog CatalogCovers RevisionIdentifiesState
PROPERTIES OnlyReviewMakesCurrent HistoryConserved ImplementsOptimisticDays
