SPECIFICATION FairSpec
CONSTANTS
    Calls = {c1, c2}
    KeyCount = 2
    Cooldown <- Cooldowns
    MaxAttempts = 2
    MaxTime = 3
CHECK_DEADLOCK FALSE
INVARIANTS
    
    UntriedMeansParked
PROPERTIES
    LeaseHonoursCooldowns
    EveryCallEnds
