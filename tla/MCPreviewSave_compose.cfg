SPECIFICATION FairSpec
CONSTANTS
    Users = {alice}
    Keys = {adultOnly}
    PreviewIds = {p1, p2}
    NoPreview = NoPreview
    Malformed = {}
    Restricted = {adultOnly}
    Injected = {}
    Previewers = {r1}
    Savers = {s1}
    HistoryMax = 1
    MaxRowId = 2
CHECK_DEADLOCK FALSE
CONSTRAINT GatesSettle
INVARIANTS
    SavedMeansConsumed
    GatesOutrankCache
PROPERTIES
    EveryPreviewIsAnswered
    LivePreviewStaysCached
    HistorySpec
