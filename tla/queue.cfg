CONSTANTS
    w1 = w1
    w2 = w2
    NoJob = NoJob
    Workers <- TwoWorkers
    NJobs = 3
    Malformed <- LastMalformed
    MaxFaults = 2
SPECIFICATION FairSpec
INVARIANTS InOrder NoSilentDrop
PROPERTIES EveryJobIsTaken
CHECK_DEADLOCK FALSE
