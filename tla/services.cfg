SPECIFICATION ServiceSpec
CONSTANTS
    None = None
    Requests = {r1, r2}
    alone = r1
    Users = {ann, bob}
    Admins = {ann}
    Places = {farm}
    Events = {fair}
    Served <- someRoutes
    Positions = {centre, edge}
    Boxes = {{centre}, {centre, edge}}
    FewBoxes = {{centre}}
    Rounded <- oneKey
    Schedules <- someSchedules
    Days = {11, 12, 13, 14, 15}
INVARIANTS
    ServiceTypeOK
    ActorKnown
    WeekShown
PROPERTIES
    Answered
    EventuallyFresh
CHECK_DEADLOCK FALSE
