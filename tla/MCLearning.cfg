SPECIFICATION Spec
SYMMETRY Symmetries
CONSTANTS
    e1 = e1
    e2 = e2
    p1 = p1
    p2 = p2
    c1 = c1
    c2 = c2
    w1 = w1
    w2 = w2
    r1 = r1
    None = None
    Events <- TwoEvents
    Episodes <- OneEpisode
    Concepts <- TwoConcepts
    Workers <- TwoWorkers
    Runs <- OneRun
    Enough = 1
    MaxVersion = 2
    MaxRevision = 2
INVARIANTS ActiveOnConsent
PROPERTIES ModelAskedOnce ForgottenStaysForgotten RunsUseWhatIsAllowed
CHECK_DEADLOCK FALSE
