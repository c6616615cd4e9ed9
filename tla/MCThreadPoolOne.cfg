CONSTANTS
    w1 = w1
    w2 = w2
    w3 = w3
    s1 = s1
    s2 = s2
    j1 = j1
    j2 = j2
    j3 = j3
    n1 = n1
    Nobody = Nobody
    Queues <- MCQueues
    Workers = {w1, w2}
    QueueOf <- MCQueueOf
    Submitters = {s1}
    Jobs = {j1, j2, j3}
    NestedJobs = {}
    IsGraceful = TRUE
    MaxPauses = 0
SPECIFICATION FairSpec
 
PROPERTY EveryJobRuns
CHECK_DEADLOCK FALSE
