SPECIFICATION Spec
CONSTANTS
    alice = alice
    bob = bob
    carol = carol
    None = None
    DayLength = 1
    LastInstant = 0
    Schedules <- MCSchedules
    CollaboratorSets <- MCNoCollaborators
    Bookabilities = {TRUE, FALSE}
    Requests = {r1, r2}
    BookingIds = {b1, b2, b3}
    Users <- MCThreeUsers
    Organiser = alice
    Capacities = {2}
    SeatLimits = {2}
    MaxCapacity = 2
    MaxSeats = 2
PROPERTIES
    CapacityRespected
CHECK_DEADLOCK FALSE
