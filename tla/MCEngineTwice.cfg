CONSTANTS
    c1 = c1
    c2 = c2
    c3 = c3
    c4 = c4
    a = a
    b = b
    f1 = f1
    f2 = f2
    Claim = Claim
    NoSong = NoSong
    Unanswered = Unanswered
    Calls = {c1, c2}
    Songs = {a}
    Prints = {f1, f2}
    PrimarySize = 2
    CacheSize = 2
    Operations = {"load"}
    Paced = FALSE
    Faults = FALSE
    Stops = FALSE
    MaxCrashes = 0
SPECIFICATION Spec
INVARIANT NotLoadedTwice
CHECK_DEADLOCK FALSE
