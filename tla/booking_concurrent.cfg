SPECIFICATION Spec
CONSTANTS
    alice = alice
    bob = bob
    carol = carol
    None = None
    DayLength = 1
    LastInstant = 0
    Schedules <- MCSchedules
    CollaboratorSets <- MCNoCollaborators
    Bookabilities = {TRUE, FALSE}
    Requests = {r1, r2}
    BookingIds = {b1, b2, b3}
    Users <- MCThreeUsers
    Organiser = alice
    Capacities = {1}
    SeatLimits = {1}
    MaxCapacity = 1
    MaxSeats = 1
SYMMETRY MCSymmetry
INVARIANTS
    DuplicatesBounded
    OverbookingBounded
CHECK_DEADLOCK FALSE
