SPECIFICATION Spec
SYMMETRY Symmetries
CONSTANTS
    q1 = q1
    p1 = p1
    p2 = p2
    b1 = b1
    b2 = b2
    NoPublisher = NoPublisher
    NoBuilder = NoBuilder
    Requests <- OneRequest
    Publishers <- TwoPublishers
    Builders <- TwoBuilders
    Window = 1
    Total = 2
    MaxRevision = 2
    MaxRetries = 1
    ErrorLimit = 2
INVARIANTS PublishedIsFound NoReceiptIsInvalid
CHECK_DEADLOCK FALSE
