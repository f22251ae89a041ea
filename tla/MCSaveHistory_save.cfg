SPECIFICATION HistorySpec
CONSTANTS
    Users = {alice, bob}
    Keys = {plain}
    PreviewIds = {p1, p2}
    NoPreview = NoPreview
    Savers = {s1, s2}
    HistoryMax = 1
    MaxRowId = 2
SYMMETRY Symmetry
CHECK_DEADLOCK FALSE
INVARIANTS
    OneRowPerPreview
    ConflictMeansSaved
PROPERTIES
    ImplementsLedger
    PruneSparesOwnRow
    PruneReachesCap
