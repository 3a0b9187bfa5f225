SPECIFICATION LiveSpec
CONSTANTS
    j1 = j1
    j2 = j2
    j3 = j3
    j4 = j4
    w1 = w1
    w2 = w2
    w3 = w3
    None = None
    Jobs <- MCJobs
    Awaited <- MCAwaited
    Workers <- MCWorkers
    MaxThreads = 2
    Capacity = 2
CHECK_DEADLOCK FALSE
INVARIANTS JobsAreSeen
PROPERTIES IsAQueue ThreadsEnd
