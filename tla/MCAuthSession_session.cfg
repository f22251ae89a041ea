SPECIFICATION Spec
CONSTANTS
    Callers = {c1, c2}
    MaxTokenId = 3
SYMMETRY Symmetry
CHECK_DEADLOCK FALSE
INVARIANTS
    RotatedOnce
    OnlyNewestLives
PROPERTIES
    NoRotationAfterLogout
    RevokedStaysOut
