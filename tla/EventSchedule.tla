---------------------------- MODULE EventSchedule ----------------------------
(***************************************************************************)
(* The pure functions of domain/value-objects/EventSchedule.vo.ts.         *)
(*                                                                         *)
(* An instant is a natural number of ticks; DayLength ticks make a day and *)
(* 0 is the epoch, which the code uses as "no date".  A period is a record *)
(* [startDate, endDate].  The code sorts the dates it collects, so the     *)
(* order of the periods never matters and a schedule is a set of periods.  *)
(***************************************************************************)
EXTENDS Integers, FiniteSetsExt

CONSTANT DayLength

ASSUME DayLengthAssumption == DayLength \in Nat \ {0}

Lifecycles == {"upcoming", "ongoing", "completed", "unvalid"}

\* setHours(0, 0, 0, 0)
midnight(t) == t - (t % DayLength)

allDates(schedule) == UNION {{p.startDate, p.endDate} : p \in schedule}

getEventDateRange(schedule) ==
    IF schedule = {}
    THEN [firstDate |-> 0, latestDate |-> 0]
    ELSE [firstDate  |-> Min(allDates(schedule)),
          latestDate |-> Max(allDates(schedule))]

\* Every date is truncated to its midnight, so the first and the last day of
\* the range both count as "ongoing" from beginning to end.
getLifecycleStatus(range, now) ==
    LET today == midnight(now)
        first == midnight(range.firstDate)
        last  == midnight(range.latestDate)
    IN  CASE range.firstDate = 0                -> "unvalid"
          [] range.firstDate # 0 /\ first > today -> "upcoming"
          [] range.firstDate # 0 /\ first <= today /\ today <= last -> "ongoing"
          [] OTHER                              -> "completed"

=============================================================================
