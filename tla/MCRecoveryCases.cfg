SPECIFICATION Spec
CONSTANTS
    c1 = c1
    c2 = c2
    p1 = p1
    p2 = p2
    p3 = p3
    Original = Original
    NoCase = NoCase
    NoPlan = NoPlan
    Cases <- OneCase
    Plans <- ThreePlans
SYMMETRY Symmetries
INVARIANTS OneEmergencyPurchase NoRoutineBesideCase ResolvedMeansReceived
PROPERTIES SentForItsCase
CHECK_DEADLOCK FALSE
