SPECIFICATION EventSpec
CONSTANTS
    None = None
    DayLength = 2
    LastInstant = 6
    Schedules <- MCSchedules
    CollaboratorSets <- MCNoCollaborators
    Bookabilities = {TRUE}
    Requests = {r1, r2}
    Capacities = {1, 2}
    SeatLimits = {1, 2}
INVARIANTS
    BookingRulesConsistent
PROPERTIES
    RemovedStaysGone
    LifecycleCatchesUp
CHECK_DEADLOCK FALSE
