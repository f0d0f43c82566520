SPECIFICATION FairSpec
CONSTANTS
    w1 = w1
    w2 = w2
    NoWorker = NoWorker
    Workers <- TwoWorkers
    AttemptLimit = 2
    FailureLimit = 2
    MaxMessages = 1
    MaxChanges = 1
INVARIANTS FollowupsDiffer IdleMeansNoneQueued
PROPERTIES EndedRunsStay RunsEnd FollowupCatchesUp
CHECK_DEADLOCK FALSE
