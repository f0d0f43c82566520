SPECIFICATION Spec
CONSTANTS
    o1 = o1
    o2 = o2
    m1 = m1
    m2 = m2
    w1 = w1
    w2 = w2
    None = None
    Orders <- TwoOrders
    Qty <- PairForOwner
    UnitPrice = 1
    InitialCash = 3
    InitialStock = 0
    MaxEvents = 0
    Missions <- TwoMissions
    MissionOf <- OneEach
    Assisted <- SecondOrder
    Workers <- OneWorker
    CashFloor <- Floors
    GarbledReplies = TRUE
INVARIANTS
    OneOpenPurchase
    ReservedWhileSent
    BooksBalance
PROPERTIES
    FloorKept
    SentAsPlanned
    ImplementsAgreement
CHECK_DEADLOCK FALSE
