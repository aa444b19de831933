---------------------------- MODULE EventBooking ----------------------------
(***************************************************************************)
(* The bookings of one event: the Create, Update and Cancel use cases, the *)
(* removal of bookings by the event cascade and by the deletion of an      *)
(* account, run by concurrent requests over a store without transactions.  *)
(*                                                                         *)
(* Each request slot r \in Requests runs one handler at a time; req[r].pc  *)
(* names the database operation the handler is about to issue, and the     *)
(* other fields are the handler's local variables that are still needed.   *)
(* An action is one database operation with the synchronous code up to the *)
(* next one.  RequestFail stands for every early return and every throw.   *)
(***************************************************************************)
EXTENDS EventDocument

CONSTANTS
    Users,
    Organiser,    \* the owner of the event
    BookingIds,   \* the ids the store can hand out
    MaxCapacity,  \* bound of the numeric capacities
    MaxSeats      \* bound of the seat limits

ASSUME BookingAssumption ==
    /\ Organiser \in Users /\ None \notin Users
    /\ IsFiniteSet(BookingIds) /\ None \notin BookingIds
    /\ MaxCapacity \in Nat /\ MaxSeats \in Nat
    /\ \A c \in Capacities : c # None => c <= MaxCapacity
    /\ \A m \in SeatLimits : m <= MaxSeats

VARIABLES
    bookings,  \* the documents of the collection
    req,       \* the requests in flight
    notified   \* users told that the organiser cancelled their booking

bookingVars == <<bookings, req, notified>>
vars == <<event, edits, cron, now, bookings, req, notified>>

\* Any request may ask for one seat more than every limit allows.
SeatCounts == 1 .. (MaxSeats + 1)

Absent == [status |-> "none", user |-> None, seats |-> 0]
Removed == [status |-> "removed", user |-> None, seats |-> 0]

Booking ==
    [status : {"confirmed", "cancelled"}, user : Users, seats : 1 .. MaxSeats]
        \cup {Absent, Removed}

\* The part of an event a booking handler keeps across an await.
Rules == [capacity : Capacities, maxSeats : SeatLimits]
rulesOf(e) == [capacity |-> e.capacity, maxSeats |-> e.maxSeats]

CreatePcs == {"create:existing", "create:sum", "create:save"}
UpdatePcs == {"update:event", "update:sum", "update:write"}
CancelPcs == {"cancel:event", "cancel:write", "cancel:notify"}
DeletePcs == {"delete:bookings", "delete:event"}

Idle == [pc |-> "idle", user |-> None, booking |-> None, found |-> Absent,
         seats |-> 1, rules |-> None]

Local ==
    [pc      : {"idle"} \cup CreatePcs \cup UpdatePcs \cup CancelPcs \cup DeletePcs,
     user    : Users \cup {None},       \* the authenticated user
     booking : BookingIds \cup {None},  \* the id of the request
     found   : Booking,                 \* the booking as it was read
     seats   : SeatCounts,              \* the seats of the request
     rules   : Rules \cup {None}]       \* the event as it was read

TypeOK ==
    /\ EventTypeOK
    /\ bookings \in [BookingIds -> Booking]
    /\ req \in [Requests -> Local]
    /\ notified \subseteq Users

Init ==
    /\ EventInit
    /\ bookings = [b \in BookingIds |-> Absent]
    /\ req = [r \in Requests |-> Idle]
    /\ notified = {}

-----------------------------------------------------------------------------
(* Repository operations                                                   *)

confirmed(b) == bookings[b].status = "confirmed"
stored(b)    == bookings[b].status \in {"confirmed", "cancelled"}

findConfirmedByEventAndUser(u) ==
    {b \in BookingIds : confirmed(b) /\ bookings[b].user = u}

\* The seats of the confirmed bookings other than `excluded`, one element per
\* seat, so that the $sum of the aggregation is a cardinality.
confirmedSeats(excluded) ==
    {s \in BookingIds \X (1 .. MaxSeats) :
        /\ confirmed(s[1]) /\ s[1] # excluded
        /\ s[2] <= bookings[s[1]].seats}

sumConfirmedSeats(excluded) == Cardinality(confirmedSeats(excluded))

\* Faulty variant: one seat too many.
fitsOffByOne(rules, excluded, seats) ==
    sumConfirmedSeats(excluded) + seats <= rules.capacity + 1

fits(rules, excluded, seats) ==
    sumConfirmedSeats(excluded) + seats <= rules.capacity

\* Faulty variant: the limit itself is one seat too many.
seatsAllowedOffByOne(seats, maxSeats) == seats <= maxSeats + 1

seatsAllowed(seats, maxSeats) == seats <= maxSeats

\* Faulty variant: the status is left out of the fields that are set.
updateWithoutStatus(b, seats, status) ==
    bookings' = IF stored(b) THEN [bookings EXCEPT ![b].seats = seats] ELSE bookings

\* updateOne: nothing happens when the document has been removed.
update(b, seats, status) ==
    bookings' = IF stored(b)
                THEN [bookings EXCEPT ![b].seats = seats, ![b].status = status]
                ELSE bookings

deleteMany(B) ==
    bookings' = [b \in BookingIds |->
                    IF b \in B /\ stored(b) THEN Removed ELSE bookings[b]]

-----------------------------------------------------------------------------
(* Requests                                                                *)

free(r) == req[r] = Idle /\ edits[r] = None

goto(r, pc) == req' = [req EXCEPT ![r].pc = pc]
\* Before the write of a handler: what it read of the event is not needed any more.
gotoWrite(r, pc) ==
    req' = [req EXCEPT ![r].pc = pc, ![r].rules = None]
finish(r)   == req' = [req EXCEPT ![r] = Idle]

RequestFail(r) ==
    /\ req[r] # Idle
    /\ finish(r)
    /\ UNCHANGED <<eventVars, bookings, notified>>

(* CreateEventBooking *)

CreateFindEvent(r) ==
    /\ free(r)
    /\ event.state = "live"
    /\ event.bookable
    /\ areBookingsOpen(event)
    /\ \E u \in Users \ {Organiser}, seats \in SeatCounts :
        req' = [req EXCEPT ![r] = [Idle EXCEPT !.pc = "create:existing",
                    !.user = u, !.seats = seats, !.rules = rulesOf(event)]]
    /\ UNCHANGED <<eventVars, bookings, notified>>

\* Faulty variant: the existing booking is not looked at.
CreateFindExistingUnchecked(r) ==
    /\ req[r].pc = "create:existing"
    /\ seatsAllowed(req[r].seats, req[r].rules.maxSeats)
    /\ IF req[r].rules.capacity = None
       THEN gotoWrite(r, "create:save") ELSE goto(r, "create:sum")
    /\ UNCHANGED <<eventVars, bookings, notified>>

CreateFindExisting(r) ==
    /\ req[r].pc = "create:existing"
    /\ findConfirmedByEventAndUser(req[r].user) = {}
    /\ seatsAllowed(req[r].seats, req[r].rules.maxSeats)
    /\ IF req[r].rules.capacity = None
       THEN gotoWrite(r, "create:save") ELSE goto(r, "create:sum")
    /\ UNCHANGED <<eventVars, bookings, notified>>

CreateSum(r) ==
    /\ req[r].pc = "create:sum"
    /\ fits(req[r].rules, None, req[r].seats)
    /\ gotoWrite(r, "create:save")
    /\ UNCHANGED <<eventVars, bookings, notified>>

\* Faulty variant: the document of a cancelled booking is used again.
CreateSaveOverCancelled(r) ==
    /\ req[r].pc = "create:save"
    /\ \E b \in BookingIds :
        /\ bookings[b].status \in {"none", "cancelled"}
        /\ bookings' = [bookings EXCEPT ![b] =
                [status |-> "confirmed", user |-> req[r].user,
                 seats |-> req[r].seats]]
    /\ finish(r)
    /\ UNCHANGED <<eventVars, notified>>

\* Faulty variant: the insert is sent again, as if its answer had been lost.
CreateSaveRetried(r) ==
    /\ req[r].pc = "create:save"
    /\ \E b \in BookingIds :
        /\ bookings[b] = Absent
        /\ bookings' = [bookings EXCEPT ![b] =
                [status |-> "confirmed", user |-> req[r].user,
                 seats |-> req[r].seats]]
    /\ UNCHANGED <<eventVars, req, notified>>

CreateSave(r) ==
    /\ req[r].pc = "create:save"
    /\ \E b \in BookingIds :
        /\ bookings[b] = Absent
        /\ bookings' = [bookings EXCEPT ![b] =
                [status |-> "confirmed", user |-> req[r].user,
                 seats |-> req[r].seats]]
    /\ finish(r)
    /\ UNCHANGED <<eventVars, notified>>

(* UpdateEventBooking *)

UpdateFindBooking(r) ==
    /\ free(r)
    /\ \E b \in BookingIds, u \in Users, seats \in SeatCounts :
        /\ confirmed(b)
        /\ req' = [req EXCEPT ![r] = [Idle EXCEPT !.pc = "update:event",
                    !.user = u, !.booking = b, !.found = bookings[b],
                    !.seats = seats]]
    /\ UNCHANGED <<eventVars, bookings, notified>>

\* The handler refuses a removed event, not a soft-deleted one.
UpdateFindEvent(r) ==
    /\ req[r].pc = "update:event"
    /\ event.state # "gone"
    /\ req[r].user \in {req[r].found.user, Organiser}
    /\ areBookingsOpen(event)
    /\ seatsAllowed(req[r].seats, event.maxSeats)
    /\ req' = [req EXCEPT ![r].user = None,
                ![r].pc = IF event.capacity = None
                          THEN "update:write" ELSE "update:sum",
                ![r].rules = IF event.capacity = None
                             THEN None ELSE rulesOf(event)]
    /\ UNCHANGED <<eventVars, bookings, notified>>

UpdateSum(r) ==
    /\ req[r].pc = "update:sum"
    /\ fits(req[r].rules, req[r].booking, req[r].seats)
    /\ gotoWrite(r, "update:write")
    /\ UNCHANGED <<eventVars, bookings, notified>>

\* The entity was read as confirmed, and update writes its status back.
UpdateWrite(r) ==
    /\ req[r].pc = "update:write"
    /\ update(req[r].booking, req[r].seats, req[r].found.status)
    /\ finish(r)
    /\ UNCHANGED <<eventVars, notified>>

(* CancelEventBooking *)

\* A cancelled booking returns at once.
CancelFindBooking(r) ==
    /\ free(r)
    /\ \E b \in BookingIds, u \in Users :
        /\ confirmed(b)
        /\ req' = [req EXCEPT ![r] = [Idle EXCEPT !.pc = "cancel:event",
                    !.user = u, !.booking = b, !.found = bookings[b]]]
    /\ UNCHANGED <<eventVars, bookings, notified>>

\* Without the event only the holder may cancel, and nothing is closed.
CancelFindEvent(r) ==
    /\ req[r].pc = "cancel:event"
    /\ \/ req[r].user = req[r].found.user
       \/ event.state # "gone" /\ req[r].user = Organiser
    /\ event.state # "gone" => areBookingsOpen(event)
    /\ goto(r, "cancel:write")
    /\ UNCHANGED <<eventVars, bookings, notified>>

\* Only an organiser who is not the holder notifies.
CancelWrite(r) ==
    /\ req[r].pc = "cancel:write"
    /\ update(req[r].booking, req[r].found.seats, "cancelled")
    /\ IF req[r].user = req[r].found.user
       THEN finish(r) ELSE goto(r, "cancel:notify")
    /\ UNCHANGED <<eventVars, notified>>

\* The notification names the receiver and the event, not the booking.
CancelNotify(r) ==
    /\ req[r].pc = "cancel:notify"
    /\ notified' = notified \cup {req[r].found.user}
    /\ finish(r)
    /\ UNCHANGED <<eventVars, bookings>>

(* DeleteEvent (the cascade removes the bookings long before the event) *)

\* Faulty variant: the cascade forgets the bookings.
DeleteFindEventOnly(r) ==
    /\ free(r)
    /\ event.state # "gone"
    /\ req' = [req EXCEPT ![r] = [Idle EXCEPT !.pc = "delete:event",
                                              !.user = Organiser]]
    /\ UNCHANGED <<eventVars, bookings, notified>>

DeleteFindEvent(r) ==
    /\ free(r)
    /\ event.state # "gone"
    /\ req' = [req EXCEPT ![r] = [Idle EXCEPT !.pc = "delete:bookings",
                                              !.user = Organiser]]
    /\ UNCHANGED <<eventVars, bookings, notified>>

deleteManyByEventIds(r) ==
    /\ req[r].pc = "delete:bookings"
    /\ deleteMany(BookingIds)
    /\ goto(r, "delete:event")
    /\ UNCHANGED <<eventVars, notified>>

DeleteEventDocument(r) ==
    /\ req[r].pc = "delete:event"
    /\ RemoveEvent
    /\ finish(r)
    /\ UNCHANGED <<bookings, notified>>

(* DeleteAccount: one deleteMany over the bookings of the user *)

deleteManyByUserId(u) ==
    /\ \E b \in BookingIds : bookings[b].user = u
    /\ deleteMany({b \in BookingIds : bookings[b].user = u})
    /\ UNCHANGED <<eventVars, req, notified>>

-----------------------------------------------------------------------------

RequestStep(r) ==
    \/ CreateFindEvent(r) \/ CreateFindExisting(r) \/ CreateSum(r) \/ CreateSave(r)
    \/ UpdateFindBooking(r) \/ UpdateFindEvent(r) \/ UpdateSum(r) \/ UpdateWrite(r)
    \/ CancelFindBooking(r) \/ CancelFindEvent(r) \/ CancelWrite(r) \/ CancelNotify(r)
    \/ DeleteFindEvent(r) \/ deleteManyByEventIds(r) \/ DeleteEventDocument(r)
    \/ RequestFail(r)

EditStep(r) ==
    /\ \/ free(r) /\ UpdateEventFind(r)
       \/ UpdateEventWrite(r)
       \/ UpdateEventFail(r)
    /\ UNCHANGED bookingVars

BackgroundStep ==
    /\ \/ \E deleted \in BOOLEAN : AdminSoftDelete(deleted)
       \/ CronFind \/ CronWrite \/ CronDone \/ CronFail
       \/ Tick
    /\ UNCHANGED bookingVars

Next ==
    \/ \E r \in Requests : RequestStep(r) \/ EditStep(r)
    \/ \E u \in Users : deleteManyByUserId(u)
    \/ BackgroundStep

Spec == Init /\ [][Next]_vars

-----------------------------------------------------------------------------
(* Properties of any number of concurrent requests                         *)

\* A user never holds more confirmed bookings of the event than the server
\* has requests in flight: findConfirmedByEventAndUser sees every booking that
\* was saved before it, so only handlers that passed it together can duplicate.
\* With a single request this is the rule of one booking per user.
DuplicatesBounded ==
    \A u \in Users :
        Cardinality(findConfirmedByEventAndUser(u)) <= Cardinality(Requests)

\* When every event is limited, the confirmed seats exceed the largest capacity
\* by at most one full booking per additional request: each handler that has
\* summed the seats and has not yet written was within the capacity when it
\* did.  With a single request nothing is ever overbooked.
OverbookingBounded ==
    None \notin Capacities =>
        sumConfirmedSeats(None)
            <= MaxCapacity + (Cardinality(Requests) - 1) * MaxSeats

-----------------------------------------------------------------------------
(* What makes the two bounds inductive                                     *)

\* The locals a handler still relies on have been set by the steps before, and
\* a booking read earlier has kept its holder: an id is never issued twice.
LocalOK(l, store) ==
    /\ l.pc \in CreatePcs => l.user \in Users
    /\ l.pc \in {"create:existing", "create:sum", "update:sum"} => l.rules \in Rules
    /\ l.pc \in {"create:sum", "update:sum"} => l.rules.capacity # None
    /\ l.pc \in {"create:sum", "create:save", "update:sum", "update:write"}
         => l.seats <= MaxSeats
    /\ l.pc \in UpdatePcs \cup CancelPcs
         => /\ l.booking \in BookingIds
            /\ l.found.status = "confirmed"
            /\ store[l.booking] # Absent
            /\ \/ store[l.booking] = Removed
               \/ store[l.booking].user = l.found.user

LocalsOK == \A r \in Requests : LocalOK(req[r], bookings)

\* Every booking u holds or may hold again through an update in flight, and
\* every request that has seen u without a booking and may still save one.
heldOrRevivable(u) ==
    {b \in BookingIds :
        \/ confirmed(b) /\ bookings[b].user = u
        \/ \E r \in Requests : /\ req[r].pc \in UpdatePcs
                                /\ req[r].booking = b
                                /\ req[r].found.user = u}

mayCreate(u) ==
    {r \in Requests : req[r].pc \in {"create:sum", "create:save"} /\ req[r].user = u}

DuplicatesInv ==
    \A u \in Users :
        Cardinality(heldOrRevivable(u)) + Cardinality(mayCreate(u))
            <= Cardinality(Requests)

\* Every seat that is taken or that a request past its check may still take.
seatClaims ==
    {c \in {"booking"} \X BookingIds \X (1 .. MaxSeats) :
        \/ confirmed(c[2]) /\ c[3] <= bookings[c[2]].seats
        \/ \E r \in Requests : /\ req[r].pc = "update:write"
                                /\ req[r].booking = c[2]
                                /\ c[3] <= req[r].seats}
    \cup
    {c \in {"request"} \X Requests \X (1 .. MaxSeats) :
        req[c[2]].pc = "create:save" /\ c[3] <= req[c[2]].seats}

OverbookingInv ==
    None \notin Capacities =>
        Cardinality(seatClaims)
            <= MaxCapacity + (Cardinality(Requests) - 1) * MaxSeats

-----------------------------------------------------------------------------
(* Properties of the handlers run one at a time                            *)

\* No booking outlives the event: the cascade removes the bookings first and the
\* document last, and nothing books an event that is not there
\* (CascadeDelete:125-143, CreateEventBooking:26-32).
NoOrphanBooking == event.state = "gone" => \A b \in BookingIds : ~ stored(b)

\* An update that takes seats never takes more than the capacity the event
\* has at that moment (CreateEventBooking:76-86, UpdateEventBooking:63-74).
CapacityRespected ==
    [][sumConfirmedSeats(None)' > sumConfirmedSeats(None) /\ event.capacity # None
        => sumConfirmedSeats(None)' <= event.capacity]_vars

\* A cancelled booking is never confirmed again: updateSeats refuses a booking
\* that is not confirmed (EventBooking.entity.ts:67-71).
CancelledIsFinal ==
    [][\A b \in BookingIds :
        bookings[b].status = "cancelled" => ~ confirmed(b)']_vars

\* When a user is told that the organiser cancelled the booking, the user holds
\* no booking of the event any more (CancelEventBooking:56-69).
NotificationsTruthful ==
    [][\A u \in notified' \ notified : findConfirmedByEventAndUser(u) = {}]_vars

\* With one request at a time the handlers implement the atomic ledger.
Ledger == INSTANCE BookingLedger WITH ledger <- bookings, rules <- rulesOf(event)
ImplementsLedger == Ledger!LedgerSpec

-----------------------------------------------------------------------------
(* What makes them inductive, when a handler runs alone                    *)

hasRoom(excluded, seats) ==
    event.capacity # None => fits(rulesOf(event), excluded, seats)

\* What a handler that runs alone has read still holds: beside it only the clock,
\* the cron, an administrator or the deletion of an account takes a step, and
\* none of them confirms a booking, changes a rule or removes the event.
AloneOK(l) ==
    /\ l.pc \in CreatePcs => event.state # "gone" /\ l.user # Organiser
    /\ l.pc \in {"create:existing", "create:sum", "update:sum"}
         => l.rules = rulesOf(event)
    /\ l.pc \in {"create:sum", "create:save"}
         => findConfirmedByEventAndUser(l.user) = {}
    /\ l.pc \in {"create:sum", "create:save", "update:sum", "update:write"}
         => seatsAllowed(l.seats, event.maxSeats)
    /\ l.pc = "create:save" => hasRoom(None, l.seats)
    /\ l.pc = "update:write" => hasRoom(l.booking, l.seats)
    /\ l.pc \in UpdatePcs \cup {"cancel:event", "cancel:write"}
         => bookings[l.booking] \in {l.found, Removed}
    /\ l.pc \in {"cancel:event", "cancel:write"}
         => findConfirmedByEventAndUser(l.found.user) \subseteq {l.booking}
    /\ l.pc = "cancel:notify" => findConfirmedByEventAndUser(l.found.user) = {}
    /\ l.pc = "delete:event" => \A b \in BookingIds : ~ stored(b)

\* A slot serves an edit of the event or a request on a booking, never both.
AloneInv ==
    /\ NoOrphanBooking
    /\ \A r \in Requests : AloneOK(req[r]) /\ (req[r] # Idle => edits[r] = None)

=============================================================================
