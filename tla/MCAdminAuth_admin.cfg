SPECIFICATION Spec
CONSTANTS
    ann = ann
    bob = bob
    Users = {ann, bob}
    Tokens = {t1}
    Nobody = Nobody
    Calls = {c1, c2}
    MaxFailures = 2
    Lockout = 2
    IdleTTL = 1
    AbsoluteTTL = 2
    MaxTime = 4
    MaxCount = 3
SYMMETRY Symmetry
CHECK_DEADLOCK FALSE
CONSTRAINTS
    OneEntersPasswords
    ListOfOneOrTwo
INVARIANTS
    GuessesAreBounded
    CounterFades
PROPERTIES
    ImplementsSessions
