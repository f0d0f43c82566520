SPECIFICATION FairSpec
CONSTANTS
    j1 = j1
    j2 = j2
    s1 = s1
    s2 = s2
    Jobs <- TwoJobs
    Slots <- TwoSlots
    RetrySafe <- OneJob
    NoJob = NoJob
    MaxAttempts = 3
INVARIANTS
    OnlyNewestAttemptPublishes
PROPERTIES
    ImplementsOutcome
    RetrySafeJobsEnd
CHECK_DEADLOCK FALSE
