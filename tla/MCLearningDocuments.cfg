SPECIFICATION Spec
SYMMETRY Symmetries
CONSTANTS
    e1 = e1
    e2 = e2
    p1 = p1
    p2 = p2
    c1 = c1
    c2 = c2
    w1 = w1
    w2 = w2
    r1 = r1
    None = None
    Events <- TwoEvents
    Episodes <- OneEpisode
    Concepts <- OneConcept
    Workers <- OneWorker
    Runs <- OneRun
    Enough = 1
    MaxVersion = 1
    MaxRevision = 1
PROPERTIES ToolCallsAreChecked
CHECK_DEADLOCK FALSE
