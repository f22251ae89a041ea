SPECIFICATION FairPanelSpec
CONSTANTS
    Tokens = {t1}
    Nothing = Nothing
CONSTRAINTS
    TwoInFlight
    OneError
INVARIANTS
    RefreshIsShared
PROPERTIES
    PanelNeedsPassword
    LoginIsAnswered
