SPECIFICATION HistorySpec
CONSTANTS
    Users = {alice}
    Keys = {plain}
    PreviewIds = {p1, p2}
    NoPreview = NoPreview
    Savers = {s1}
    HistoryMax = 1
    MaxRowId = 2
SYMMETRY Symmetry
CHECK_DEADLOCK FALSE
PROPERTIES
    FavoritesNeverPruned
