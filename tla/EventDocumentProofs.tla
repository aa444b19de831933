------------------------- MODULE EventDocumentProofs -------------------------
(***************************************************************************)
(* Proofs about EventSchedule and EventDocument, for every set of requests,*)
(* schedules and booking rules, and any length of the day.                 *)
(***************************************************************************)
EXTENDS EventDocument, TLAPS

-----------------------------------------------------------------------------
(* Operators                                                               *)

\* The lifecycle function returns one of the four statuses.
LEMMA LifecycleType ==
    ASSUME NEW range, NEW t
    PROVE  getLifecycleStatus(range, t) \in Lifecycles
BY DEF getLifecycleStatus, Lifecycles

\* The document UpdateEvent stores is an event, whatever copy it starts from.
LEMMA PersistedType ==
    ASSUME NEW e \in Event
    PROVE  persisted(e) \in Event
BY LifecycleType DEF persisted, Event

\* Truncating two instants to their midnights compares their days.
LEMMA DayNumber ==
    ASSUME NEW t \in Nat
    PROVE  /\ t \div DayLength \in Nat /\ t % DayLength \in 0 .. DayLength - 1
           /\ t = DayLength * (t \div DayLength) + (t % DayLength)
BY DayLengthAssumption

LEMMA MidnightOfDay ==
    ASSUME NEW t \in Nat
    PROVE  midnight(t) = DayLength * (t \div DayLength)
BY DayNumber, DayLengthAssumption DEF midnight

LEMMA ScaledOrder ==
    ASSUME NEW m \in Nat, NEW n \in Nat
    PROVE  DayLength * m < DayLength * n <=> m < n
BY DayLengthAssumption

LEMMA DayOrder ==
    ASSUME NEW s \in Nat, NEW t \in Nat, s <= t
    PROVE  s \div DayLength <= t \div DayLength
<1> DEFINE m == s \div DayLength
           n == t \div DayLength
<1>1. /\ m \in Nat /\ s % DayLength \in 0 .. DayLength - 1
      /\ n \in Nat /\ t % DayLength \in 0 .. DayLength - 1
      /\ s = DayLength * m + (s % DayLength) /\ t = DayLength * n + (t % DayLength)
  BY DayNumber
<1> HIDE DEF m, n
<1>2. DayLength * m \in Nat /\ DayLength * n \in Nat
      /\ DayLength * (n + 1) = DayLength * n + DayLength
  BY <1>1, DayLengthAssumption
<1>3. DayLength * m < DayLength * (n + 1)
  BY <1>1, <1>2, DayLengthAssumption
<1>4. m < n + 1
  BY <1>1, <1>3, ScaledOrder
<1> QED BY <1>1, <1>4 DEF m, n

\* The comparison of midnights in getLifecycleStatus is the comparison of days:
\* an event is upcoming until its first day begins, and completed once its last
\* day is over (EventSchedule.vo.ts:54-83).
THEOREM LifecycleOfDays ==
    ASSUME NEW range \in [firstDate : Nat \ {0}, latestDate : Nat],
           range.firstDate <= range.latestDate, NEW t \in Nat
    PROVE  getLifecycleStatus(range, t) = lifecycleOnDay(range, t \div DayLength)
<1> DEFINE day(u) == u \div DayLength
<1>1. /\ range.firstDate \in Nat /\ range.firstDate # 0 /\ range.latestDate \in Nat
      /\ day(t) \in Nat /\ day(range.firstDate) \in Nat /\ day(range.latestDate) \in Nat
  BY DayNumber
<1>2. /\ midnight(range.firstDate) > midnight(t) <=> day(t) < day(range.firstDate)
      /\ midnight(t) > midnight(range.latestDate) <=> day(t) > day(range.latestDate)
      /\ midnight(range.firstDate) \in Nat /\ midnight(range.latestDate) \in Nat
      /\ midnight(t) \in Nat
  <2>1. /\ midnight(range.firstDate) = DayLength * day(range.firstDate)
        /\ midnight(range.latestDate) = DayLength * day(range.latestDate)
        /\ midnight(t) = DayLength * day(t)
    BY <1>1, MidnightOfDay
  <2> HIDE DEF day
  <2>2. /\ DayLength * day(t) < DayLength * day(range.firstDate)
              <=> day(t) < day(range.firstDate)
        /\ DayLength * day(range.latestDate) < DayLength * day(t)
              <=> day(range.latestDate) < day(t)
    BY <1>1, ScaledOrder
  <2>3. \A n \in Nat : DayLength * n \in Nat
    BY DayLengthAssumption
  <2> QED BY <1>1, <2>1, <2>2, <2>3
<1>3. day(range.firstDate) <= day(range.latestDate)
  BY <1>1, DayOrder
<1> HIDE DEF day
<1>4. getLifecycleStatus(range, t) =
        IF midnight(range.firstDate) > midnight(t) THEN "upcoming"
        ELSE IF midnight(t) > midnight(range.latestDate) THEN "completed" ELSE "ongoing"
  BY <1>1, <1>2 DEF getLifecycleStatus
<1>5. lifecycleOnDay(range, day(t)) =
        IF day(t) < day(range.firstDate) THEN "upcoming"
        ELSE IF day(t) > day(range.latestDate) THEN "completed" ELSE "ongoing"
  BY <1>1, <1>3 DEF lifecycleOnDay, day
<1> QED BY <1>1, <1>2, <1>4, <1>5 DEF day

-----------------------------------------------------------------------------
(* Type correctness                                                        *)

LEMMA EventInitType == EventInit => EventTypeOK
BY EventAssumption DEF EventInit, CreatedEvents, EventTypeOK

\* The organiser's edits, the cron, the administrators and the clock keep the
\* types of the event and of what is read from it.
LEMMA EventStepsType ==
    ASSUME EventTypeOK,
           \/ \E r \in Requests : \/ UpdateEventFind(r) \/ UpdateEventWrite(r)
                                   \/ UpdateEventFail(r)
           \/ \E deleted \in BOOLEAN : AdminSoftDelete(deleted)
           \/ RemoveEvent
           \/ CronFind \/ CronWrite \/ CronDone \/ CronFail
           \/ Tick
           \/ UNCHANGED eventVars
    PROVE  EventTypeOK'
<1> USE EventAssumption, NoneAssumption DEF EventTypeOK
<1>1. ASSUME NEW r \in Requests, UpdateEventFind(r) PROVE EventTypeOK'
  <2>1. PICK e \in Event : edits' = [edits EXCEPT ![r] = e]
    BY <1>1 DEF UpdateEventFind, updatesOf
  <2> QED BY <1>1, <2>1 DEF UpdateEventFind
<1>2. ASSUME NEW r \in Requests, UpdateEventWrite(r) PROVE EventTypeOK'
  <2>1. edits[r] \in Event
    BY <1>2 DEF UpdateEventWrite
  <2>2. persisted(edits[r]) \in Event
    BY <2>1, PersistedType
  <2> QED BY <1>2, <2>2 DEF UpdateEventWrite
<1>3. ASSUME NEW r \in Requests, UpdateEventFail(r) PROVE EventTypeOK'
  BY <1>3 DEF UpdateEventFail
<1>4. ASSUME NEW deleted \in BOOLEAN, AdminSoftDelete(deleted) PROVE EventTypeOK'
  BY <1>4 DEF AdminSoftDelete, Event
<1>5. CASE RemoveEvent
  BY <1>5 DEF RemoveEvent, Event
<1>6. CASE CronFind
  BY <1>6 DEF CronFind, Event, CronSlice
<1>7. CASE CronWrite
  BY <1>7, LifecycleType DEF CronWrite, Event, CronSlice
<1>8. CASE CronDone \/ CronFail
  BY <1>8 DEF CronDone, CronFail
<1>9. CASE Tick
  BY <1>9 DEF Tick
<1>10. CASE UNCHANGED eventVars
  BY <1>10 DEF eventVars
<1> QED BY <1>1, <1>2, <1>3, <1>4, <1>5, <1>6, <1>7, <1>8, <1>9, <1>10

LEMMA EventNextType == EventTypeOK /\ [EventNext]_eventVars => EventTypeOK'
BY EventStepsType DEF EventNext

\* The document, what the requests and the cron hold of it, and the clock keep
\* their types; a stored lifecycle is always one of the four statuses.
THEOREM EventTypeCorrect == EventSpec => []EventTypeOK
BY EventInitType, EventNextType, PTL DEF EventSpec

-----------------------------------------------------------------------------
(* The booking rules of the event                                          *)

\* Every copy of the event in flight obeys the rules too: a write cannot break
\* them, whichever of the copies it stores and in whatever order.
BookingRulesInv ==
    /\ BookingRulesConsistent
    /\ \A r \in Requests : edits[r] # None =>
         assertBookingCapacity(edits[r].bookable, edits[r].capacity, edits[r].maxSeats)

\* The constraint Event.assertBookingCapacity checks, as the property says it.
LEMMA CapacityRule ==
    ASSUME NEW e \in Event
    PROVE  assertBookingCapacity(e.bookable, e.capacity, e.maxSeats)
             <=> (e.bookable /\ e.capacity # None => e.maxSeats <= e.capacity)
<1>1. e.maxSeats \in Nat /\ (e.capacity # None => e.capacity \in Nat)
  BY EventAssumption DEF Event
<1> QED BY <1>1 DEF assertBookingCapacity

LEMMA InitBookingRules == EventInit => BookingRulesInv
<1> SUFFICES ASSUME EventInit PROVE BookingRulesInv
  OBVIOUS
<1>1. /\ event \in Event
      /\ assertBookingCapacity(event.bookable, event.capacity, event.maxSeats)
  BY DEF EventInit, CreatedEvents
<1>2. \A r \in Requests : edits[r] = None
  BY DEF EventInit
<1> QED BY <1>1, <1>2, CapacityRule DEF BookingRulesInv, BookingRulesConsistent

LEMMA NextBookingRules ==
    EventTypeOK /\ BookingRulesInv /\ [EventNext]_eventVars => BookingRulesInv'
<1> SUFFICES ASSUME EventTypeOK, BookingRulesInv, [EventNext]_eventVars
             PROVE  BookingRulesInv'
  OBVIOUS
\* The steps that write no booking rule.
<1>1. ASSUME UNCHANGED edits, event'.bookable = event.bookable,
             event'.capacity = event.capacity, event'.maxSeats = event.maxSeats
      PROVE  BookingRulesInv'
  BY <1>1 DEF BookingRulesInv, BookingRulesConsistent
<1>2. ASSUME NEW r \in Requests, UpdateEventFind(r) PROVE BookingRulesInv'
  <2>1. PICK e \in Event :
            /\ edits' = [edits EXCEPT ![r] = e]
            /\ assertBookingCapacity(e.bookable, e.capacity, e.maxSeats)
    BY <1>2 DEF UpdateEventFind, updatesOf
  <2>2. \A q \in Requests : edits'[q] = IF q = r THEN e ELSE edits[q]
    BY <2>1 DEF EventTypeOK
  <2> QED BY <1>2, <2>1, <2>2
          DEF UpdateEventFind, BookingRulesInv, BookingRulesConsistent
<1>3. ASSUME NEW r \in Requests, UpdateEventWrite(r) \/ UpdateEventFail(r)
      PROVE  BookingRulesInv'
  <2>1. \A q \in Requests : edits'[q] = IF q = r THEN None ELSE edits[q]
    BY <1>3 DEF UpdateEventWrite, UpdateEventFail, EventTypeOK
  <2>2. edits[r] \in Event
    BY <1>3 DEF UpdateEventWrite, UpdateEventFail, EventTypeOK
  <2>3. assertBookingCapacity(edits[r].bookable, edits[r].capacity, edits[r].maxSeats)
    BY <1>3 DEF UpdateEventWrite, UpdateEventFail, BookingRulesInv
  <2>4. /\ persisted(edits[r]).bookable = edits[r].bookable
        /\ persisted(edits[r]).capacity = edits[r].capacity
        /\ persisted(edits[r]).maxSeats = edits[r].maxSeats
    BY <2>2 DEF persisted, Event
  <2>5. \/ event' = event
        \/ /\ event'.bookable = edits[r].bookable
           /\ event'.capacity = edits[r].capacity
           /\ event'.maxSeats = edits[r].maxSeats
    BY <1>3, <2>4 DEF UpdateEventWrite, UpdateEventFail
  <2>6. BookingRulesConsistent'
    BY <2>2, <2>3, <2>5, CapacityRule DEF BookingRulesInv, BookingRulesConsistent
  <2> QED BY <2>1, <2>6 DEF BookingRulesInv
<1>4. ASSUME NEW deleted \in BOOLEAN, AdminSoftDelete(deleted) PROVE BookingRulesInv'
  BY <1>1, <1>4 DEF AdminSoftDelete, EventTypeOK, Event
<1>5. CASE RemoveEvent
  BY <1>1, <1>5 DEF RemoveEvent, EventTypeOK, Event
<1>6. CASE CronWrite
  BY <1>1, <1>6 DEF CronWrite, EventTypeOK, Event
<1>7. CASE CronFind \/ CronDone \/ CronFail \/ Tick \/ UNCHANGED eventVars
  BY <1>1, <1>7 DEF CronFind, CronDone, CronFail, Tick, eventVars
<1> QED BY <1>2, <1>3, <1>4, <1>5, <1>6, <1>7 DEF EventNext

\* However many edits overlap, a bookable event never ends up with a limit per
\* booking above its capacity (Event.entity.ts:207-212, 330-349).
THEOREM BookingRulesAlwaysConsistent == EventSpec => []BookingRulesConsistent
<1>1. BookingRulesInv => BookingRulesConsistent
  BY DEF BookingRulesInv
<1> QED BY <1>1, EventInitType, EventNextType, InitBookingRules, NextBookingRules, PTL
        DEF EventSpec

-----------------------------------------------------------------------------
(* Removal                                                                 *)

LEMMA GoneForGood ==
    EventTypeOK /\ [EventNext]_eventVars
        => (event.state = "gone" => event'.state = "gone")
<1> SUFFICES ASSUME EventTypeOK, [EventNext]_eventVars, event.state = "gone"
             PROVE  event'.state = "gone"
  OBVIOUS
<1>1. ASSUME NEW r \in Requests,
             UpdateEventFind(r) \/ UpdateEventWrite(r) \/ UpdateEventFail(r)
      PROVE  event' = event
  BY <1>1 DEF UpdateEventFind, UpdateEventWrite, UpdateEventFail
<1>2. ASSUME NEW deleted \in BOOLEAN, AdminSoftDelete(deleted) PROVE FALSE
  BY <1>2 DEF AdminSoftDelete
<1>3. CASE RemoveEvent
  BY <1>3 DEF RemoveEvent, EventTypeOK, Event
<1>4. CASE CronFind \/ CronWrite \/ CronDone \/ CronFail \/ Tick \/ UNCHANGED eventVars
  BY <1>4 DEF CronFind, CronWrite, CronDone, CronFail, Tick, eventVars
<1> QED BY <1>1, <1>2, <1>3, <1>4 DEF EventNext

\* No write brings a removed event back (MongooseEventRepository:83-89, 294-314).
THEOREM RemovedForGood == EventSpec => RemovedStaysGone
BY EventInitType, EventNextType, GoneForGood, PTL DEF EventSpec, RemovedStaysGone

=============================================================================
