----------------------------- MODULE WeekSchedule -----------------------------
(***************************************************************************)
(* The events of a place on the days of the current week, as the page of   *)
(* the place shows them.  GetPlaceById asks the clock which week it is,    *)
(* reads the events of that week, and then asks the clock again to lay     *)
(* them out on its days: the week may turn in between.  Days are numbered, *)
(* 0 a Monday; hours, which neither step tells apart, are left out.        *)
(***************************************************************************)
EXTENDS Integers, FiniteSets

CONSTANTS
    Events,
    Schedules,   \* the schedules events have, as sets of periods
    Days,        \* the days the clock goes through
    Requests, None

\* What is asked of the constants; the module of each run asserts it of its values.
WeekAssumption ==
    /\ Days \subseteq Nat
    /\ \A s \in Schedules : s \subseteq [startDate : Nat, endDate : Nat]

VARIABLES
    event,  \* the events at the place
    today,  \* what the server's clock says
    req     \* the requests in flight

vars == <<event, today, req>>

EventDocs == [schedule : Schedules, cancelled : BOOLEAN, deleted : BOOLEAN]

WeekDays == {"monday", "tuesday", "wednesday", "thursday", "friday", "saturday", "sunday"}

NoEvents == [d \in WeekDays |-> {}]

\* start is the first day of the week whose events were read, monday that of the
\* week they were laid out on.
Idle == [pc |-> "idle", start |-> 0, found |-> {}, monday |-> 0, shown |-> NoEvents]

TypeOK ==
    /\ event \in [Events -> EventDocs]
    /\ today \in Days
    /\ \A r \in Requests :
        /\ req[r].pc \in {"idle", "events", "group", "answered"}
        /\ req[r].start \in Int /\ req[r].monday \in Int
        /\ req[r].found \subseteq Events
        /\ req[r].shown \in [WeekDays -> SUBSET Events]

Init ==
    /\ event \in [Events -> EventDocs]
    /\ today \in Days
    /\ req = [r \in Requests |-> Idle]

-----------------------------------------------------------------------------
(* placeScheduleWithEvents                                                 *)

\* Date.getDay: 0 is a Sunday.
getDay(d) == (d + 1) % 7

getDayOfWeek(d) ==
    CASE getDay(d) = 0 -> "sunday"
      [] getDay(d) = 1 -> "monday"
      [] getDay(d) = 2 -> "tuesday"
      [] getDay(d) = 3 -> "wednesday"
      [] getDay(d) = 4 -> "thursday"
      [] getDay(d) = 5 -> "friday"
      [] getDay(d) = 6 -> "saturday"

\* Faulty variant: a Sunday counts as the first day of the week to come.
getCurrentWeekRangeSundayFirst(now) ==
    LET monday == now + 1 - getDay(now)
    IN  [start |-> monday, end |-> monday + 6]

getCurrentWeekRange(now) ==
    LET diff   == IF getDay(now) = 0 THEN -6 ELSE 1 - getDay(now)
        monday == now + diff
    IN  [start |-> monday, end |-> monday + 6]

getDatesBetween(first, last) == first .. last

later(a, b)   == IF a > b THEN a ELSE b
earlier(a, b) == IF a < b THEN a ELSE b

groupEventsByDay(E, week) ==
    [day \in WeekDays |->
        {e \in E :
            /\ ~event[e].deleted /\ ~event[e].cancelled
            /\ \E p \in event[e].schedule :
                \E d \in getDatesBetween(later(p.startDate, week.start),
                                         earlier(p.endDate, week.end)) :
                    getDayOfWeek(d) = day}]

findByPlaceInDateRange(week) ==
    {e \in Events :
        /\ ~event[e].deleted
        /\ \E p \in event[e].schedule :
            \/ p.startDate <= week.end /\ p.endDate >= week.start
            \/ p.startDate \in week.start .. week.end}

-----------------------------------------------------------------------------
(* GetPlaceById                                                            *)

become(r, l) == req' = [req EXCEPT ![r] = l]

Start(r) ==
    /\ req[r].pc \in {"idle", "answered"}
    /\ become(r, [Idle EXCEPT !.pc = "events", !.start = getCurrentWeekRange(today).start])
    /\ UNCHANGED <<event, today>>

FindEvents(r) ==
    /\ req[r].pc = "events"
    /\ become(r, [req[r] EXCEPT !.pc = "group",
            !.found = findByPlaceInDateRange([start |-> req[r].start, end |-> req[r].start + 6])])
    /\ UNCHANGED <<event, today>>

Group(r) ==
    LET week == getCurrentWeekRange(today)
    IN  /\ req[r].pc = "group"
        /\ become(r, [req[r] EXCEPT !.pc = "answered", !.monday = week.start,
                                    !.shown = groupEventsByDay(req[r].found, week)])
        /\ UNCHANGED <<event, today>>

\* The place is gone or out of view, or an operation throws.
RequestFail(r) ==
    /\ req[r].pc \in {"events", "group"}
    /\ become(r, Idle)
    /\ UNCHANGED <<event, today>>

Tick ==
    /\ today + 1 \in Days
    /\ today' = today + 1
    /\ UNCHANGED <<event, req>>

Next == Tick \/ \E r \in Requests : Start(r) \/ FindEvents(r) \/ Group(r) \/ RequestFail(r)

Spec == Init /\ [][Next]_vars

-----------------------------------------------------------------------------
(* Safety                                                                  *)

\* The events in view that are on at the place on a day.
on(d) ==
    {e \in Events : /\ ~event[e].deleted /\ ~event[e].cancelled
                    /\ \E p \in event[e].schedule : p.startDate <= d /\ d <= p.endDate}

daysFrom(monday) == monday .. monday + 6

\* A page shows on each day of a week, which begins on a Monday and was current
\* when the page was made, the events that are on that day and no other; when the
\* week turned between the two readings of the clock some may be missing, but none
\* is on a wrong day (GetPlaceById.usecase.ts:42-49, placeScheduleWithEvents.ts).
WeekShown ==
    \A r \in Requests : req[r].pc = "answered" =>
        /\ getDay(req[r].monday) = 1 /\ req[r].monday <= today
        /\ \A d \in daysFrom(req[r].monday) :
            /\ req[r].shown[getDayOfWeek(d)] \subseteq on(d)
            /\ req[r].start = req[r].monday => on(d) \subseteq req[r].shown[getDayOfWeek(d)]
=============================================================================
