SPECIFICATION Spec
CONSTANTS
    alice = alice
    bob = bob
    carol = carol
    None = None
    DayLength = 1
    LastInstant = 2
    Schedules <- MCSchedules
    CollaboratorSets <- MCNoCollaborators
    Bookabilities = {TRUE, FALSE}
    Requests = {r1}
    BookingIds = {b1, b2}
    Users <- MCThreeUsers
    Organiser = alice
    Capacities = {2, None}
    SeatLimits = {1, 2}
    MaxCapacity = 2
    MaxSeats = 2
SYMMETRY MCSymmetry
INVARIANTS
    TypeOK
    NoOrphanBooking
PROPERTIES
    CapacityRespected
    CancelledIsFinal
    NotificationsTruthful
    ImplementsLedger
CHECK_DEADLOCK FALSE
