CONSTANTS
    w1 = w1
    w2 = w2
    w3 = w3
    s1 = s1
    s2 = s2
    j1 = j1
    j2 = j2
    j3 = j3
    n1 = n1
    Nobody = Nobody
    Queues <- MCQueues
    Workers = {w1, w2, w3}
    QueueOf <- MCQueueOfThree
    Submitters = {s1, s2}
    Jobs = {j1, j2}
    NestedJobs = {n1}
    IsGraceful = TRUE
    MaxPauses = 1
SPECIFICATION Spec
SYMMETRY CallerSymmetry
INVARIANTS
    JobInOnePlace
    CountersAccount
    GracefulRunsJobs
    
CHECK_DEADLOCK FALSE
