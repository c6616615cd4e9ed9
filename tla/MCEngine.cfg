CONSTANTS
    c1 = c1
    c2 = c2
    c3 = c3
    c4 = c4
    a = a
    b = b
    f1 = f1
    f2 = f2
    Claim = Claim
    NoSong = NoSong
    Unanswered = Unanswered
    Calls = {c1, c2}
    Songs = {a}
    Prints = {f1}
    PrimarySize = 1
    CacheSize = 1
    Operations = {"load", "find", "delete"}
    Paced = FALSE
    Faults = TRUE
    Stops = TRUE
    MaxCrashes = 2
SPECIFICATION FairSpec
INVARIANTS
    EngineOutlivesItsTasks
    ClaimIsALock
CHECK_DEADLOCK FALSE
 
