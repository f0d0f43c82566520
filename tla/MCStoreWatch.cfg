SPECIFICATION Spec
CONSTANTS
    m1 = m1
    Missions <- OneMission
    MaxLog = 2
    PageSize = 1
INVARIANTS
    RequestedSyncsAreRead
    RequestsAreAnswered
    StaleAlertIsChecked
PROPERTIES
    ManualRequestsAreSeen
