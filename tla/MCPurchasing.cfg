SPECIFICATION Spec
CONSTANTS
    o1 = o1
    o2 = o2
    m1 = m1
    m2 = m2
    w1 = w1
    w2 = w2
    None = None
    Orders <- OneOrder
    Qty <- Units
    UnitPrice = 1
    InitialCash = 3
    InitialStock = 0
    MaxEvents = 4
    Missions <- OneMission
    MissionOf <- ToFirst
    Assisted <- NoOrder
    Workers <- TwoWorkers
    CashFloor <- Floors
    GarbledReplies = FALSE
SYMMETRY WorkerSymmetry
INVARIANTS
    SupplierAgrees
    NoFalseConflict
    NextEventFits
    LogTellsWorld
    BooksBalance
CHECK_DEADLOCK FALSE
