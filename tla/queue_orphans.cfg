CONSTANTS
    w1 = w1
    w2 = w2
    NoJob = NoJob
    Workers <- OneWorker
    NJobs = 2
    Malformed <- LastMalformed
    MaxFaults = 1
SPECIFICATION Spec
INVARIANTS OrphansAreRecovered
CHECK_DEADLOCK FALSE
