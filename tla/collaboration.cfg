SPECIFICATION Spec
CONSTANTS
    bob = bob
    carol = carol
    None = None
    DayLength = 1
    LastInstant = 2
    Schedules <- MCOneSchedule
    CollaboratorSets <- MCCollaboratorSets
    Creators <- MCTwoCreators
    Bookabilities = {FALSE}
    Requests = {r1}
    Items = {i1}
    InvitationIds = {d1, d2}
    Capacities = {None}
    SeatLimits = {1}
SYMMETRY MCSymmetry
INVARIANTS
    TypeOK
    InvitationsBounded
    NoOrphanInvitation
PROPERTIES
    AcceptedIsKept
    AcceptanceTruthful
CHECK_DEADLOCK FALSE
