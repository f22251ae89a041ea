SPECIFICATION Spec
CONSTANTS
    Rows = {1, 2, 3}
    CreatedAt <- MCCreatedAt
    Keys <- MCKeys
    Calls = {m1}
    Nothing = Nothing
    PageSize = 1
    MaxChanges = 1
CHECK_DEADLOCK FALSE
CONSTRAINTS
    OneList
    AtRest
    NewestToCome
    OneQueryLoads
INVARIANTS
    NoRowTwice
    NothingIsSkipped
    SettledListIsTrue
