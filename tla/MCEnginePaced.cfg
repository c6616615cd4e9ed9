CONSTANTS
    c1 = c1
    c2 = c2
    c3 = c3
    c4 = c4
    a = a
    b = b
    f1 = f1
    f2 = f2
    Claim = Claim
    NoSong = NoSong
    Unanswered = Unanswered
    Calls = {c1, c2, c3, c4}
    Songs = {a, b}
    Prints = {f1, f2}
    PrimarySize = 1
    CacheSize = 12
    Operations = {"load", "find", "delete"}
    Paced = TRUE
    Faults = FALSE
    Stops = FALSE
    MaxCrashes = 0
SPECIFICATION Spec
SYMMETRY Symmetry
INVARIANT SettledIsConsistent
PROPERTY ImplementsStore
CHECK_DEADLOCK FALSE
