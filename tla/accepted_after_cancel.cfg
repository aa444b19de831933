SPECIFICATION Spec
CONSTANTS
    bob = bob
    carol = carol
    None = None
    DayLength = 1
    LastInstant = 2
    Schedules <- MCSchedules
    CollaboratorSets <- MCCollaboratorSets
    Creators <- MCCreators
    Bookabilities = {FALSE}
    Requests = {r1}
    Items = {i1}
    InvitationIds = {d1, d2}
    Capacities = {None}
    SeatLimits = {1}
PROPERTIES
    OnlyPendingAccepted
CHECK_DEADLOCK FALSE
