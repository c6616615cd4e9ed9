CONSTANTS
    p1 = p1  p2 = p2
    c1 = c1  c2 = c2  c3 = c3
    k1 = k1  k2 = k2
    v1 = v1  v2 = v2
    Free = Free
    Nothing = Nothing
    Refused = Refused
    Producers <- MCProducers
    Consumers <- MCConsumers
    Closers <- MCClosers
    Values <- MCValues
    MaxPushes = 4
SPECIFICATION FairSpec
INVARIANTS
    TypeOK
    SizeTracksTasks
    NoStrandedValue
PROPERTIES
    ImplementsFifo
    QueueDrains
CHECK_DEADLOCK FALSE
