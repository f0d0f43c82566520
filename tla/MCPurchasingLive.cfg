SPECIFICATION SyncedSpec
CONSTANTS
    o1 = o1
    o2 = o2
    m1 = m1
    m2 = m2
    w1 = w1
    w2 = w2
    None = None
    Orders <- OneOrder
    Qty <- Singles
    UnitPrice = 1
    InitialCash = 3
    InitialStock = 0
    MaxEvents = 1
    Missions <- OneMission
    MissionOf <- ToFirst
    Assisted <- NoOrder
    Workers <- TwoWorkers
    CashFloor <- Floors
    GarbledReplies = FALSE
PROPERTIES
    ApprovedPurchasesEnd
    AcceptedPurchasesAreBooked
CHECK_DEADLOCK FALSE
