SPECIFICATION FairSpec
CONSTANTS
    i1 = i1
    i2 = i2
    m1 = m1
    r1 = r1
    r2 = r2
    None = None
    Items <- TwoItems
    Missions <- OneMission
    Runs <- TwoRuns
    MaxInputs = 2
INVARIANTS
    AnswersKnowTheThread
    OneCardPerMission
    ProposalIsOpen
PROPERTIES
    OnlyNewestInputActs
    WaitingItemsAreTaken
CHECK_DEADLOCK FALSE
