SPECIFICATION ShareSpec
CONSTANTS
    Texts = {hello}
    Styles = {plain, rough}
    Restricted = {rough}
    Nothing = Nothing
    MaxAttempts = 2
    MaxEdits = 2
    MaxRetries = 1
CHECK_DEADLOCK FALSE
INVARIANTS
    SentMeansSeen
