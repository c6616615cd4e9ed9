CONSTANTS
    t1 = t1  t2 = t2 
    q1 = q1
    None = None
    Methods = {"find"}
    Threads = {t1, t2}
    Queues = {q1}
    QueueOf <- MCQueueOf
    MaxCalls = 2
SPECIFICATION FairSpec
INVARIANTS
    TagsAreValid
    ObjectsHaveOneOwner
    NoMethodGoesDeaf
    ClosedQueuesAreQuiet
PROPERTIES
    
    ShutDownEnds
CHECK_DEADLOCK FALSE
