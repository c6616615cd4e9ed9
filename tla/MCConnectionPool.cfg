CONSTANTS
    b1 = b1  b2 = b2  b3 = b3
    n1 = n1  n2 = n2  n3 = n3
    NoConnection = NoConnection
    Borrowers <- MCBorrowers
    Connections <- MCConnections
    PoolSize = 2
    Wrap = 16
    Faults = TRUE
    MaxRequests = 3
SPECIFICATION FairSpec
INVARIANTS
    CounterFollowsQueue
    GrowthIsBounded
    CloseCheckHolds
PROPERTIES ImplementsLending GetReturns
CHECK_DEADLOCK FALSE
