---------------------------- MODULE EventDocument ----------------------------
(***************************************************************************)
(* One document of the `events` collection and everything that writes it:  *)
(* the organiser's UpdateEvent requests, the lifecycle cron, the           *)
(* administrators' soft delete and restore, and the clock that makes the   *)
(* stored lifecycle status stale.                                          *)
(*                                                                         *)
(* The store has no transactions: a handler is a sequence of database      *)
(* operations with an `await` between them, and each operation is one step *)
(* here.  What a handler read stays in its local copy until it writes.     *)
(*                                                                         *)
(* The model begins when CreateEvent has saved the document.  Components   *)
(* that share the event (bookings, invitations) EXTEND this module and     *)
(* conjoin its actions with their own.                                     *)
(***************************************************************************)
EXTENDS EventSchedule

CONSTANTS
    Requests,          \* the requests the server may have in flight at once
    Bookabilities,     \* values of isBookable an organiser may choose
    Capacities,        \* capacities an organiser may choose; None: no limit
    SeatLimits,        \* values of maxSeatsPerBooking
    Schedules,         \* schedules an organiser may choose
    CollaboratorSets,  \* the collaborators a schedule may name
    LastInstant,       \* bound of the clock
    None

VARIABLES
    event,  \* the document
    edits,  \* edits[r]: the document request r is about to write, or None
    cron,   \* the slice the lifecycle cron works on, or None
    now     \* the clock

eventVars == <<event, edits, cron, now>>

ASSUME EventAssumption ==
    /\ IsFiniteSet(Requests) /\ Requests # {}
    /\ None \notin Nat
    /\ Bookabilities \subseteq BOOLEAN
    /\ Capacities \subseteq (Nat \ {0}) \cup {None}
    /\ SeatLimits \subseteq Nat \ {0}
    /\ \A schedule \in Schedules :
        schedule # {} /\ schedule \subseteq [startDate : Nat, endDate : Nat]
    /\ LastInstant \in Nat

\* Of a schedule the document keeps what the properties tell apart: the range the
\* code derives from it, and its collaborators.
DateRanges == {getEventDateRange(schedule) : schedule \in Schedules}

\* "gone": hard-deleted.  "deleted": soft-deleted by an administrator.
Event ==
    [state      : {"live", "deleted", "gone"},
     bookable   : Bookabilities,
     capacity   : Capacities,
     maxSeats   : SeatLimits,
     dateRange  : DateRanges,
     lifecycle  : Lifecycles,
     collaborators : CollaboratorSets]

\* What findAllForLifecycleUpdate selects; "ended" holds the ids the run
\* returns: those it moved to completed or unvalid.
CronSlice ==
    [pc : {"read"}, dateRange : DateRanges, lifecycle : Lifecycles]
        \cup [pc : {"ended"}]

Ended == {"completed", "unvalid"}

ASSUME NoneAssumption == None \notin Event /\ None \notin CronSlice

EventTypeOK ==
    /\ event \in Event
    /\ edits \in [Requests -> Event \cup {None}]
    /\ cron \in CronSlice \cup {None}
    /\ now \in 0 .. LastInstant

-----------------------------------------------------------------------------

areBookingsOpen(e) == e.lifecycle \in {"upcoming", "ongoing"}

\* SeatLimits holds no value below 1, the first check of the code.
assertBookingCapacity(bookable, capacity, maxSeats) ==
    bookable /\ capacity # None => capacity >= maxSeats

\* What the schema's pre-hook makes of an update that holds a schedule: the
\* lifecycle is derived from that schedule.
persisted(e) ==
    [e EXCEPT !.lifecycle = getLifecycleStatus(e.dateRange, now)]

\* Event.create followed by save.
CreatedEvents ==
    {e \in Event :
        /\ e.state = "live"
        /\ assertBookingCapacity(e.bookable, e.capacity, e.maxSeats)
        /\ e.lifecycle = getLifecycleStatus(e.dateRange, 0)}

EventInit ==
    /\ now = 0
    /\ event \in CreatedEvents
    /\ edits = [r \in Requests |-> None]
    /\ cron = None

-----------------------------------------------------------------------------
(* UpdateEvent: read, check, build the new entity, write all of it.        *)

\* Event.update.  A parameter the request leaves out keeps its old value, which
\* is one of the choices.  Without a schedule the lifecycle is the old one, with
\* a schedule it is computed.
updatesOf(old) ==
    {e \in Event :
        /\ e.state = old.state
        /\ assertBookingCapacity(e.bookable, e.capacity, e.maxSeats)
        /\ \/ e.lifecycle = getLifecycleStatus(e.dateRange, now)
           \/ e.dateRange = old.dateRange /\ e.lifecycle = old.lifecycle}

\* The actor is the owner.
UpdateEventFind(r) ==
    /\ edits[r] = None
    /\ event.state = "live"
    /\ \E e \in updatesOf(event) : edits' = [edits EXCEPT ![r] = e]
    /\ UNCHANGED <<event, cron, now>>

\* Faulty variant: the write inserts the document when it is missing.
UpdateEventUpsert(r) ==
    /\ edits[r] # None
    /\ event' \in {edits[r], persisted(edits[r])}
    /\ edits' = [edits EXCEPT ![r] = None]
    /\ UNCHANGED <<cron, now>>

\* Faulty variant: the capacity is left out of the fields that are written.
UpdateEventWritePartly(r) ==
    /\ edits[r] # None
    /\ event' \in IF event.state = "gone" THEN {event}
                  ELSE {[persisted(edits[r]) EXCEPT !.capacity = event.capacity]}
    /\ edits' = [edits EXCEPT ![r] = None]
    /\ UNCHANGED <<cron, now>>

\* The whole entity is written, lifecycle included, while the pre-hook adds the
\* lifecycle it derives to the $set of the same update; which of the two values
\* is stored is the library's choice.  Nothing happens when the document has
\* been removed.
UpdateEventWrite(r) ==
    /\ edits[r] # None
    /\ event' \in IF event.state = "gone" THEN {event}
                  ELSE {edits[r], persisted(edits[r])}
    /\ edits' = [edits EXCEPT ![r] = None]
    /\ UNCHANGED <<cron, now>>

\* A rejected write or a crash: nothing is stored and the request is over.
UpdateEventFail(r) ==
    /\ edits[r] # None
    /\ edits' = [edits EXCEPT ![r] = None]
    /\ UNCHANGED <<event, cron, now>>

\* applyAdminResourceSoftDelete: the lookup only tells whether the document is
\* there, and $set on a missing document does nothing, so one step does both.
AdminSoftDelete(deleted) ==
    /\ event.state # "gone"
    /\ event' = [event EXCEPT !.state = IF deleted THEN "deleted" ELSE "live"]
    /\ UNCHANGED <<edits, cron, now>>

\* deleteManyByIds, the last operation of the cascade.
RemoveEvent ==
    /\ event' = [event EXCEPT !.state = "gone"]
    /\ UNCHANGED <<edits, cron, now>>

-----------------------------------------------------------------------------
(* The cron: one run at a time, every ten minutes.                         *)

CronFind ==
    /\ cron = None
    /\ event.state = "live"
    /\ cron' = [pc |-> "read",
                dateRange |-> event.dateRange, lifecycle |-> event.lifecycle]
    /\ UNCHANGED <<event, edits, now>>

\* Faulty variant: only the statuses that end the event are stored.
CronWriteEndedOnly ==
    /\ cron # None /\ cron.pc = "read"
    /\ LET status  == getLifecycleStatus(cron.dateRange, now)
           changed == status # cron.lifecycle /\ status \in Ended
       IN  /\ event' = IF changed /\ event.state # "gone"
                       THEN [event EXCEPT !.lifecycle = status] ELSE event
           /\ cron' = IF changed THEN [pc |-> "ended"] ELSE None
    /\ UNCHANGED <<edits, now>>

\* The new status is computed from the slice, and compared with the slice.
CronWrite ==
    /\ cron # None /\ cron.pc = "read"
    /\ LET status  == getLifecycleStatus(cron.dateRange, now)
           changed == status # cron.lifecycle
       IN  /\ event' = IF changed /\ event.state # "gone"
                       THEN [event EXCEPT !.lifecycle = status]
                       ELSE event
           /\ cron' = IF changed /\ status \in Ended
                      THEN [pc |-> "ended"] ELSE None
    /\ UNCHANGED <<edits, now>>

\* The run handed its ids over; what it does with them is conjoined by the
\* module of the invitations.
CronDone ==
    /\ cron # None /\ cron.pc = "ended"
    /\ cron' = None
    /\ UNCHANGED <<event, edits, now>>

\* An operation of the run fails or the server stops: the ids are lost.
CronFail ==
    /\ cron # None
    /\ cron' = None
    /\ UNCHANGED <<event, edits, now>>

Tick ==
    /\ now < LastInstant
    /\ now' = now + 1
    /\ UNCHANGED <<event, edits, cron>>

-----------------------------------------------------------------------------
(* The event on its own                                                    *)

EventNext ==
    \/ \E r \in Requests : UpdateEventFind(r) \/ UpdateEventWrite(r) \/ UpdateEventFail(r)
    \/ \E deleted \in BOOLEAN : AdminSoftDelete(deleted)
    \/ RemoveEvent
    \/ CronFind \/ CronWrite \/ CronDone \/ CronFail
    \/ Tick

\* node-cron starts a run every ten minutes, and no operation fails for ever:
\* a run that is started again and again is carried through again and again.
EventSpec ==
    /\ EventInit /\ [][EventNext]_eventVars
    /\ WF_eventVars(CronFind)
    /\ SF_eventVars(CronWrite) /\ SF_eventVars(CronDone)

-----------------------------------------------------------------------------

\* However the edits of several requests overlap, a bookable event never ends up
\* with a limit per booking above its capacity: every request checks and writes
\* both fields together (Event.entity.ts:207-212).
BookingRulesConsistent ==
    event.bookable /\ event.capacity # None => event.maxSeats <= event.capacity

\* A removed event never comes back, whatever was read from it before: neither
\* an edit nor the cron nor an administrator inserts a document
\* (MongooseEventRepository:83-89, 294-314).
RemovedStaysGone ==
    [][event.state = "gone" => event'.state = "gone"]_eventVars

\* What the lifecycle of a schedule means: it is over when its last day is, and
\* has begun when its first day has.
lifecycleOnDay(range, day) ==
    CASE day < range.firstDate \div DayLength  -> "upcoming"
      [] day > range.latestDate \div DayLength -> "completed"
      [] OTHER                                 -> "ongoing"

\* Once the organiser and the administrators leave a live event alone, its
\* lifecycle agrees with its schedule and the clock for good, whatever a run
\* that read an older schedule or an edit that read an older status has stored
\* in between (UpdateEventLifecycleStatus:11-57).
LifecycleCatchesUp ==
    <>[](event.state = "live" /\ \A r \in Requests : edits[r] = None)
        => <>[](event.lifecycle = lifecycleOnDay(event.dateRange, now \div DayLength))

=============================================================================
