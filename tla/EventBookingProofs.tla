------------------------- MODULE EventBookingProofs -------------------------
(***************************************************************************)
(* Proofs about EventBooking, for every set of requests, users, bookings,  *)
(* capacities and seat limits: the types, the bounds that concurrency      *)
(* leaves of the two booking rules, and, with one request at a time, that  *)
(* the code implements BookingLedger.                                      *)
(***************************************************************************)
EXTENDS EventBooking, EventDocumentProofs, FiniteSetTheorems

\* A set covered by a function of a finite set is no larger than it.
LEMMA Covered ==
    ASSUME NEW P, IsFiniteSet(P), NEW f, NEW H, \A h \in H : \E p \in P : f[p] = h
    PROVE  IsFiniteSet(H) /\ Cardinality(H) <= Cardinality(P)
<1> DEFINE P0 == {p \in P : f[p] \in H}
           g  == [p \in P0 |-> f[p]]
<1>1. IsFiniteSet(P0) /\ Cardinality(P0) <= Cardinality(P)
  BY FS_Subset
<1>2. g \in Surjection(P0, H)
  BY DEF Surjection
<1>3. IsFiniteSet(H) /\ Cardinality(H) <= Cardinality(P0)
  <2> HIDE DEF P0, g
  <2> QED BY <1>1, <1>2, FS_Surjection
<1>4. /\ Cardinality(H) \in Nat /\ Cardinality(P0) \in Nat
      /\ Cardinality(P) \in Nat
  BY <1>1, <1>3, FS_CardinalityType
<1> QED BY <1>1, <1>3, <1>4

Inv == TypeOK /\ LocalsOK

-----------------------------------------------------------------------------
(* Operators                                                               *)

\* None of the placeholder constants is a value of the type it stands in for.
LEMMA NoneFacts ==
    /\ None \notin Nat /\ None \notin Users /\ None \notin BookingIds
    /\ None \notin Event /\ None \notin CronSlice
BY EventAssumption, BookingAssumption, NoneAssumption

\* A request for no more seats than some limit is within MaxSeats.
LEMMA WithinLimit ==
    ASSUME NEW limit \in SeatLimits, NEW seats \in SeatCounts, seats <= limit
    PROVE  seats <= MaxSeats
<1>1. limit \in Nat /\ limit <= MaxSeats
  BY EventAssumption, BookingAssumption
<1>2. MaxSeats \in Nat /\ seats \in Nat
  BY BookingAssumption DEF SeatCounts
<1> QED BY <1>1, <1>2

-----------------------------------------------------------------------------
(* Type correctness                                                        *)

\* A free slot holds well-formed locals, whatever the store.
LEMMA IdleOK ==
    ASSUME NEW store
    PROVE  Idle \in Local /\ LocalOK(Idle, store)
BY BookingAssumption DEF Idle, Local, LocalOK, SeatCounts, Booking, Absent,
                         CreatePcs, UpdatePcs, CancelPcs

LEMMA InitInv == Init => Inv
<1> SUFFICES ASSUME Init PROVE Inv
  OBVIOUS
<1> USE EventAssumption, BookingAssumption
<1>1. EventTypeOK
  BY DEF Init, EventInit, CreatedEvents, EventTypeOK
<1>2. bookings \in [BookingIds -> Booking]
  BY DEF Init, Booking, Absent
<1>3. req \in [Requests -> Local] /\ notified \subseteq Users /\ LocalsOK
  BY IdleOK DEF Init, LocalsOK
<1> QED BY <1>1, <1>2, <1>3 DEF Inv, TypeOK

\* What a step may do to a booking while a request holds its id: no document
\* disappears from the history of ids and none changes its holder.
Kept(old, new) ==
    \/ old = Absent
    \/ new = Removed
    \/ old # Removed /\ new # Absent /\ new.user = old.user

\* A step of request r is harmless when its own new locals are well formed and
\* every booking is kept.
LEMMA StepInv ==
    ASSUME Inv, EventTypeOK', notified' \subseteq Users,
           bookings' \in [BookingIds -> Booking],
           \A b \in BookingIds : Kept(bookings[b], bookings'[b]),
           NEW r \in Requests, NEW l \in Local, LocalOK(l, bookings'),
           req' = [req EXCEPT ![r] = l]
    PROVE  Inv'
<1>1. req' \in [Requests -> Local]
  BY DEF Inv, TypeOK
<1>2. ASSUME NEW q \in Requests PROVE LocalOK(req'[q], bookings')
  <2>1. CASE q = r
    BY <2>1 DEF Inv, TypeOK
  <2>2. CASE q # r
    <3>1. req'[q] = req[q] /\ LocalOK(req[q], bookings)
      BY <2>2 DEF Inv, TypeOK, LocalsOK
    <3> QED BY <3>1 DEF LocalOK, Kept, Absent, Removed
  <2> QED BY <2>1, <2>2
<1> QED BY <1>1, <1>2 DEF Inv, TypeOK, LocalsOK

\* The steps that only move a handler on.
LEMMA MoveInv ==
    ASSUME Inv, UNCHANGED <<eventVars, bookings, notified>>,
           NEW r \in Requests, NEW l \in Local, LocalOK(l, bookings),
           req' = [req EXCEPT ![r] = l]
    PROVE  Inv'
<1>1. EventTypeOK' /\ notified' \subseteq Users /\ bookings' \in [BookingIds -> Booking]
  BY EventStepsType DEF Inv, TypeOK
<1>2. \A b \in BookingIds : Kept(bookings[b], bookings'[b])
  BY DEF Kept, Absent, Removed
<1> QED BY <1>1, <1>2, StepInv

\* What a handler may rely on when it resumes.
LEMMA ResumeOK ==
    ASSUME Inv, NEW r \in Requests
    PROVE  req[r] \in Local /\ LocalOK(req[r], bookings)
BY DEF Inv, TypeOK, LocalsOK

-----------------------------------------------------------------------------
(* The create handler                                                      *)

LEMMA CreateFindEventInv ==
    ASSUME Inv, NEW r \in Requests, CreateFindEvent(r)
    PROVE  Inv'
<1>1. PICK u \in Users, seats \in SeatCounts :
        req' = [req EXCEPT ![r] = [Idle EXCEPT !.pc = "create:existing",
                    !.user = u, !.seats = seats, !.rules = rulesOf(event)]]
  BY DEF CreateFindEvent
<1> DEFINE l == [Idle EXCEPT !.pc = "create:existing",
                    !.user = u, !.seats = seats, !.rules = rulesOf(event)]
<1>2. rulesOf(event) \in Rules
  BY DEF Inv, TypeOK, EventTypeOK, Event, Rules, rulesOf
<1>3. l.pc = "create:existing" /\ l.user = u /\ l.rules = rulesOf(event)
  BY DEF Idle
<1>4. l \in Local
  BY <1>2, IdleOK DEF Local, CreatePcs
<1>5. LocalOK(l, bookings)
  BY <1>2, <1>3 DEF LocalOK, UpdatePcs, CancelPcs
<1> HIDE DEF l
<1> QED BY <1>1, <1>4, <1>5, MoveInv DEF CreateFindEvent, l

LEMMA CreateFindExistingInv ==
    ASSUME Inv, NEW r \in Requests, CreateFindExisting(r)
    PROVE  Inv'
<1>1. /\ req[r] \in Local /\ req[r].user \in Users /\ req[r].rules \in Rules
      /\ req[r].seats <= req[r].rules.maxSeats
  BY ResumeOK DEF CreateFindExisting, seatsAllowed, LocalOK, CreatePcs
<1>2. req[r].seats <= MaxSeats
  <2>1. req[r].rules.maxSeats \in SeatLimits /\ req[r].seats \in SeatCounts
    BY <1>1 DEF Rules, Local
  <2> QED BY <1>1, <2>1, WithinLimit
<1>3. CASE req[r].rules.capacity = None
  <2> DEFINE l == [req[r] EXCEPT !.pc = "create:save", !.rules = None]
  <2>1. req' = [req EXCEPT ![r] = l]
    BY <1>3 DEF CreateFindExisting, gotoWrite, Inv, TypeOK
  <2>2. l \in Local
    BY <1>1 DEF Local, CreatePcs
  <2>3. l.pc = "create:save" /\ l.user = req[r].user /\ l.seats = req[r].seats
    BY <1>1 DEF Local
  <2>4. LocalOK(l, bookings)
    BY <1>1, <1>2, <2>3 DEF LocalOK, UpdatePcs, CancelPcs
  <2> HIDE DEF l
  <2> QED BY <2>1, <2>2, <2>4, MoveInv DEF CreateFindExisting
<1>4. CASE req[r].rules.capacity # None
  <2> DEFINE l == [req[r] EXCEPT !.pc = "create:sum"]
  <2>1. req' = [req EXCEPT ![r] = l]
    BY <1>4 DEF CreateFindExisting, goto, Inv, TypeOK
  <2>2. l \in Local
    BY <1>1 DEF Local, CreatePcs
  <2>3. /\ l.pc = "create:sum" /\ l.user = req[r].user
        /\ l.seats = req[r].seats /\ l.rules = req[r].rules
    BY <1>1 DEF Local
  <2>4. LocalOK(l, bookings)
    BY <1>1, <1>2, <1>4, <2>3 DEF LocalOK, UpdatePcs, CancelPcs
  <2> HIDE DEF l
  <2> QED BY <2>1, <2>2, <2>4, MoveInv DEF CreateFindExisting
<1> QED BY <1>3, <1>4

LEMMA CreateSumInv ==
    ASSUME Inv, NEW r \in Requests, CreateSum(r)
    PROVE  Inv'
<1> DEFINE l == [req[r] EXCEPT !.pc = "create:save", !.rules = None]
<1>1. req' = [req EXCEPT ![r] = l]
  BY DEF CreateSum, gotoWrite, Inv, TypeOK
<1>2. req[r] \in Local /\ req[r].user \in Users /\ req[r].seats <= MaxSeats
  BY ResumeOK DEF CreateSum, LocalOK, CreatePcs
<1>3. l \in Local
  BY <1>2 DEF Local, CreatePcs
<1>4. l.pc = "create:save" /\ l.user = req[r].user /\ l.seats = req[r].seats
  BY <1>2 DEF Local
<1>5. LocalOK(l, bookings)
  BY <1>2, <1>4 DEF LocalOK, UpdatePcs, CancelPcs
<1> HIDE DEF l
<1> QED BY <1>1, <1>3, <1>5, MoveInv DEF CreateSum

LEMMA CreateSaveInv ==
    ASSUME Inv, NEW r \in Requests, CreateSave(r)
    PROVE  Inv'
<1>1. PICK b \in BookingIds :
        /\ bookings[b] = Absent
        /\ bookings' = [bookings EXCEPT ![b] =
                [status |-> "confirmed", user |-> req[r].user,
                 seats |-> req[r].seats]]
  BY DEF CreateSave
<1>2. req[r].user \in Users /\ req[r].seats \in 1 .. MaxSeats
  BY ResumeOK, BookingAssumption
     DEF CreateSave, LocalOK, CreatePcs, Local, SeatCounts
<1>3. bookings' \in [BookingIds -> Booking]
  BY <1>1, <1>2 DEF Booking, Inv, TypeOK
<1>4. \A c \in BookingIds : Kept(bookings[c], bookings'[c])
  BY <1>1 DEF Kept, Inv, TypeOK, Absent, Removed
<1>5. EventTypeOK' /\ notified' \subseteq Users /\ req' = [req EXCEPT ![r] = Idle]
  BY EventStepsType DEF CreateSave, finish, Inv, TypeOK, eventVars
<1> QED BY <1>3, <1>4, <1>5, IdleOK, StepInv

-----------------------------------------------------------------------------
(* The update handler                                                      *)

LEMMA UpdateFindBookingInv ==
    ASSUME Inv, NEW r \in Requests, UpdateFindBooking(r)
    PROVE  Inv'
<1>1. PICK b \in BookingIds, u \in Users, seats \in SeatCounts :
        /\ confirmed(b)
        /\ req' = [req EXCEPT ![r] = [Idle EXCEPT !.pc = "update:event",
                    !.user = u, !.booking = b, !.found = bookings[b],
                    !.seats = seats]]
  BY DEF UpdateFindBooking
<1> DEFINE l == [Idle EXCEPT !.pc = "update:event", !.user = u,
                    !.booking = b, !.found = bookings[b], !.seats = seats]
<1>2. l.pc = "update:event" /\ l.booking = b /\ l.found = bookings[b]
  BY DEF Idle
<1>3. l \in Local
  BY IdleOK DEF Local, UpdatePcs, Inv, TypeOK
<1>4. LocalOK(l, bookings)
  BY <1>1, <1>2 DEF LocalOK, CreatePcs, UpdatePcs, CancelPcs, confirmed, Absent
<1> HIDE DEF l
<1> QED BY <1>1, <1>3, <1>4, MoveInv DEF UpdateFindBooking, l

LEMMA UpdateFindEventInv ==
    ASSUME Inv, NEW r \in Requests, UpdateFindEvent(r)
    PROVE  Inv'
<1> DEFINE limited   == [req[r] EXCEPT !.user = None, !.pc = "update:sum",
                                       !.rules = rulesOf(event)]
           unlimited == [req[r] EXCEPT !.user = None, !.pc = "update:write",
                                       !.rules = None]
<1>1. req[r].pc = "update:event" /\ req[r].seats <= event.maxSeats
  BY DEF UpdateFindEvent, seatsAllowed
<1>2. req[r] \in Local /\ LocalOK(req[r], bookings)
  BY ResumeOK
<1>3. rulesOf(event) \in Rules /\ rulesOf(event).capacity = event.capacity
  BY DEF Inv, TypeOK, EventTypeOK, Event, Rules, rulesOf
<1>4. req[r].seats <= MaxSeats
  <2>1. event.maxSeats \in SeatLimits /\ req[r].seats \in SeatCounts
    BY <1>2 DEF Inv, TypeOK, EventTypeOK, Event, Local
  <2> QED BY <1>1, <2>1, WithinLimit
<1>5. CASE event.capacity = None
  <2>1. req' = [req EXCEPT ![r] = unlimited]
    BY <1>5 DEF UpdateFindEvent
  <2>2. unlimited \in Local
    BY <1>2 DEF Local, UpdatePcs
  <2>3. /\ unlimited.pc = "update:write" /\ unlimited.seats = req[r].seats
        /\ unlimited.booking = req[r].booking /\ unlimited.found = req[r].found
    BY <1>2 DEF Local
  <2>4. LocalOK(unlimited, bookings)
    BY <1>1, <1>2, <1>4, <2>3 DEF LocalOK, CreatePcs, UpdatePcs, CancelPcs
  <2> HIDE DEF unlimited
  <2> QED BY <2>1, <2>2, <2>4, MoveInv DEF UpdateFindEvent
<1>6. CASE event.capacity # None
  <2>1. req' = [req EXCEPT ![r] = limited]
    BY <1>6 DEF UpdateFindEvent
  <2>2. limited \in Local
    BY <1>2, <1>3 DEF Local, UpdatePcs
  <2>3. /\ limited.pc = "update:sum" /\ limited.seats = req[r].seats
        /\ limited.booking = req[r].booking /\ limited.found = req[r].found
        /\ limited.rules = rulesOf(event)
    BY <1>2 DEF Local
  <2>4. LocalOK(limited, bookings)
    BY <1>1, <1>2, <1>3, <1>4, <1>6, <2>3
       DEF LocalOK, CreatePcs, UpdatePcs, CancelPcs
  <2> HIDE DEF limited
  <2> QED BY <2>1, <2>2, <2>4, MoveInv DEF UpdateFindEvent
<1> QED BY <1>5, <1>6

LEMMA UpdateSumInv ==
    ASSUME Inv, NEW r \in Requests, UpdateSum(r)
    PROVE  Inv'
<1> DEFINE l == [req[r] EXCEPT !.pc = "update:write", !.rules = None]
<1>1. req' = [req EXCEPT ![r] = l]
  BY DEF UpdateSum, gotoWrite, Inv, TypeOK
<1>2. req[r] \in Local /\ LocalOK(req[r], bookings) /\ req[r].pc = "update:sum"
  BY ResumeOK DEF UpdateSum
<1>3. l \in Local
  BY <1>2 DEF Local, UpdatePcs
<1>4. /\ l.pc = "update:write" /\ l.seats = req[r].seats
      /\ l.booking = req[r].booking /\ l.found = req[r].found
  BY <1>2 DEF Local
<1>5. LocalOK(l, bookings)
  BY <1>2, <1>4 DEF LocalOK, CreatePcs, UpdatePcs, CancelPcs
<1> HIDE DEF l
<1> QED BY <1>1, <1>3, <1>5, MoveInv DEF UpdateSum

\* updateOne keeps the types and the holders, and creates no document.
LEMMA UpdateOneType ==
    ASSUME bookings \in [BookingIds -> Booking], NEW b \in BookingIds,
           NEW seats \in 1 .. MaxSeats, NEW status \in {"confirmed", "cancelled"},
           update(b, seats, status)
    PROVE  /\ bookings' \in [BookingIds -> Booking]
           /\ \A c \in BookingIds : Kept(bookings[c], bookings'[c])
<1>1. CASE stored(b)
  <2>1. bookings[b] \in [status : {"confirmed", "cancelled"}, user : Users,
                         seats : 1 .. MaxSeats]
    BY <1>1 DEF stored, Booking, Absent, Removed
  <2> DEFINE new == [bookings[b] EXCEPT !.seats = seats, !.status = status]
  <2>2. bookings' = [bookings EXCEPT ![b] = new]
    BY <1>1 DEF update
  <2>3. new \in Booking
    BY <2>1 DEF Booking
  <2>4. new.status = status /\ new.user = bookings[b].user
    BY <2>1
  <2>5. Kept(bookings[b], new)
    <3>1. bookings[b] # Removed
      BY <1>1 DEF stored, Removed
    <3>2. new # Absent
      BY <2>4 DEF Absent
    <3> HIDE DEF new
    <3> QED BY <2>4, <3>1, <3>2 DEF Kept
  <2>6. \A c \in BookingIds : Kept(bookings[c], bookings[c])
    BY DEF Kept, Absent, Removed
  <2> HIDE DEF new
  <2> QED BY <2>2, <2>3, <2>5, <2>6
<1>2. CASE ~ stored(b)
  BY <1>2 DEF update, Kept, Absent, Removed
<1> QED BY <1>1, <1>2

LEMMA UpdateWriteInv ==
    ASSUME Inv, NEW r \in Requests, UpdateWrite(r)
    PROVE  Inv'
<1>1. /\ req[r].booking \in BookingIds /\ req[r].seats \in 1 .. MaxSeats
      /\ req[r].found.status = "confirmed"
  BY ResumeOK, BookingAssumption
     DEF UpdateWrite, LocalOK, UpdatePcs, Local, SeatCounts
<1>2. /\ bookings' \in [BookingIds -> Booking]
      /\ \A c \in BookingIds : Kept(bookings[c], bookings'[c])
  BY <1>1, UpdateOneType DEF UpdateWrite, Inv, TypeOK
<1>3. EventTypeOK' /\ notified' \subseteq Users /\ req' = [req EXCEPT ![r] = Idle]
  BY EventStepsType DEF UpdateWrite, finish, Inv, TypeOK
<1> QED BY <1>2, <1>3, IdleOK, StepInv

-----------------------------------------------------------------------------
(* The cancel handler                                                      *)

LEMMA CancelFindBookingInv ==
    ASSUME Inv, NEW r \in Requests, CancelFindBooking(r)
    PROVE  Inv'
<1>1. PICK b \in BookingIds, u \in Users :
        /\ confirmed(b)
        /\ req' = [req EXCEPT ![r] = [Idle EXCEPT !.pc = "cancel:event",
                    !.user = u, !.booking = b, !.found = bookings[b]]]
  BY DEF CancelFindBooking
<1> DEFINE l == [Idle EXCEPT !.pc = "cancel:event", !.user = u,
                    !.booking = b, !.found = bookings[b]]
<1>2. l.pc = "cancel:event" /\ l.booking = b /\ l.found = bookings[b]
  BY DEF Idle
<1>3. l \in Local
  BY IdleOK DEF Local, CancelPcs, Inv, TypeOK
<1>4. LocalOK(l, bookings)
  BY <1>1, <1>2 DEF LocalOK, CreatePcs, UpdatePcs, CancelPcs, confirmed, Absent
<1> HIDE DEF l
<1> QED BY <1>1, <1>3, <1>4, MoveInv DEF CancelFindBooking, l

\* A cancellation that goes on keeps the booking it read.
LEMMA CancelMoveOK ==
    ASSUME NEW store, NEW l \in Local, LocalOK(l, store), l.pc \in CancelPcs,
           NEW pc \in CancelPcs
    PROVE  /\ [l EXCEPT !.pc = pc] \in Local
           /\ LocalOK([l EXCEPT !.pc = pc], store)
<1> DEFINE m == [l EXCEPT !.pc = pc]
<1>1. m \in Local
  BY DEF Local
<1>2. m.pc = pc /\ m.booking = l.booking /\ m.found = l.found
  BY DEF Local
<1>3. LocalOK(m, store)
  <2> HIDE DEF m
  <2> QED BY <1>2 DEF LocalOK, CreatePcs, UpdatePcs, CancelPcs
<1> QED BY <1>1, <1>3

LEMMA CancelFindEventInv ==
    ASSUME Inv, NEW r \in Requests, CancelFindEvent(r)
    PROVE  Inv'
<1> DEFINE l == [req[r] EXCEPT !.pc = "cancel:write"]
<1>1. req' = [req EXCEPT ![r] = l]
  BY DEF CancelFindEvent, goto, Inv, TypeOK
<1>2. req[r].pc \in CancelPcs /\ "cancel:write" \in CancelPcs
  BY DEF CancelFindEvent, CancelPcs
<1>3. l \in Local /\ LocalOK(l, bookings)
  BY <1>2, ResumeOK, CancelMoveOK
<1> HIDE DEF l
<1> QED BY <1>1, <1>3, MoveInv DEF CancelFindEvent

LEMMA CancelWriteInv ==
    ASSUME Inv, NEW r \in Requests, CancelWrite(r)
    PROVE  Inv'
<1>1. req[r] \in Local /\ LocalOK(req[r], bookings) /\ req[r].pc = "cancel:write"
  BY ResumeOK DEF CancelWrite
<1>2. req[r].booking \in BookingIds /\ req[r].found.seats \in 1 .. MaxSeats
  BY <1>1 DEF LocalOK, CancelPcs, Local, Booking, Absent, Removed
<1>3. /\ bookings' \in [BookingIds -> Booking]
      /\ \A c \in BookingIds : Kept(bookings[c], bookings'[c])
  BY <1>2, UpdateOneType DEF CancelWrite, Inv, TypeOK
<1>4. EventTypeOK' /\ notified' \subseteq Users
  BY EventStepsType DEF CancelWrite, Inv, TypeOK
<1>5. CASE req' = [req EXCEPT ![r] = Idle]
  BY <1>3, <1>4, <1>5, IdleOK, StepInv
<1>6. CASE goto(r, "cancel:notify")
  <2> DEFINE l == [req[r] EXCEPT !.pc = "cancel:notify"]
  <2>1. req' = [req EXCEPT ![r] = l]
    BY <1>6 DEF goto, Inv, TypeOK
  <2>2. l \in Local /\ LocalOK(l, bookings)
    BY <1>1, CancelMoveOK DEF CancelPcs
  <2>3. LocalOK(l, bookings')
    <3> HIDE DEF l
    <3> QED BY <1>3, <2>2 DEF LocalOK, Kept, Absent, Removed
  <2> HIDE DEF l
  <2> QED BY <1>3, <1>4, <2>1, <2>2, <2>3, StepInv
<1> QED BY <1>5, <1>6 DEF CancelWrite, finish

LEMMA CancelNotifyInv ==
    ASSUME Inv, NEW r \in Requests, CancelNotify(r)
    PROVE  Inv'
<1>1. req[r].found.user \in Users
  BY ResumeOK DEF CancelNotify, LocalOK, CancelPcs, Local, Booking, Absent, Removed
<1>2. /\ EventTypeOK' /\ notified' \subseteq Users
      /\ bookings' \in [BookingIds -> Booking]
  BY <1>1, EventStepsType DEF CancelNotify, Inv, TypeOK
<1>3. \A b \in BookingIds : Kept(bookings[b], bookings'[b])
  BY DEF CancelNotify, Kept, Absent, Removed
<1>4. req' = [req EXCEPT ![r] = Idle]
  BY DEF CancelNotify, finish
<1> QED BY <1>2, <1>3, <1>4, IdleOK, StepInv

-----------------------------------------------------------------------------
(* The cascade of the event, the deletion of an account, the other steps   *)

\* A deleteMany keeps the types, and every booking it leaves in place.
LEMMA DeleteManyType ==
    ASSUME bookings \in [BookingIds -> Booking], NEW B, deleteMany(B)
    PROVE  /\ bookings' \in [BookingIds -> Booking]
           /\ \A c \in BookingIds : Kept(bookings[c], bookings'[c])
BY DEF deleteMany, Kept, Booking, Absent, Removed

LEMMA DeleteEventInv ==
    ASSUME Inv, NEW r \in Requests,
           DeleteFindEvent(r) \/ deleteManyByEventIds(r) \/ DeleteEventDocument(r)
    PROVE  Inv'
<1>1. CASE DeleteFindEvent(r)
  <2> DEFINE l == [Idle EXCEPT !.pc = "delete:bookings", !.user = Organiser]
  <2>1. req' = [req EXCEPT ![r] = l]
    BY <1>1 DEF DeleteFindEvent
  <2>2. l \in Local
    BY IdleOK, BookingAssumption DEF Local, DeletePcs
  <2>3. l.pc = "delete:bookings"
    BY DEF Idle
  <2>4. LocalOK(l, bookings)
    BY <2>3 DEF LocalOK, CreatePcs, UpdatePcs, CancelPcs
  <2> HIDE DEF l
  <2> QED BY <1>1, <2>1, <2>2, <2>4, MoveInv DEF DeleteFindEvent
<1>2. CASE deleteManyByEventIds(r)
  <2> DEFINE l == [req[r] EXCEPT !.pc = "delete:event"]
  <2>1. /\ bookings' \in [BookingIds -> Booking]
        /\ \A c \in BookingIds : Kept(bookings[c], bookings'[c])
    BY <1>2, DeleteManyType DEF deleteManyByEventIds, Inv, TypeOK
  <2>2. req' = [req EXCEPT ![r] = l]
    BY <1>2 DEF deleteManyByEventIds, goto, Inv, TypeOK
  <2>3. l \in Local /\ l.pc = "delete:event"
    BY ResumeOK DEF Local, DeletePcs
  <2>4. LocalOK(l, bookings')
    BY <2>3 DEF LocalOK, CreatePcs, UpdatePcs, CancelPcs
  <2>5. EventTypeOK' /\ notified' \subseteq Users
    BY <1>2, EventStepsType DEF deleteManyByEventIds, Inv, TypeOK
  <2> HIDE DEF l
  <2> QED BY <2>1, <2>2, <2>3, <2>4, <2>5, StepInv
<1>3. CASE DeleteEventDocument(r)
  <2>1. /\ EventTypeOK' /\ notified' \subseteq Users
        /\ bookings' \in [BookingIds -> Booking]
    BY <1>3, EventStepsType DEF DeleteEventDocument, Inv, TypeOK
  <2>2. \A b \in BookingIds : Kept(bookings[b], bookings'[b])
    BY <1>3 DEF DeleteEventDocument, Kept, Absent, Removed
  <2>3. req' = [req EXCEPT ![r] = Idle]
    BY <1>3 DEF DeleteEventDocument, finish
  <2> QED BY <2>1, <2>2, <2>3, IdleOK, StepInv
<1> QED BY <1>1, <1>2, <1>3

\* Steps that leave every handler where it is.
LEMMA StoreStepInv ==
    ASSUME Inv, EventTypeOK', UNCHANGED <<req, notified>>,
           bookings' \in [BookingIds -> Booking],
           \A b \in BookingIds : Kept(bookings[b], bookings'[b])
    PROVE  Inv'
<1>1. ASSUME NEW q \in Requests PROVE LocalOK(req'[q], bookings')
  <2>1. req'[q] = req[q] /\ LocalOK(req[q], bookings)
    BY DEF Inv, LocalsOK
  <2> QED BY <2>1 DEF LocalOK, Kept, Absent, Removed
<1> QED BY <1>1 DEF Inv, TypeOK, LocalsOK

LEMMA NextInv == Inv /\ [Next]_vars => Inv'
<1> SUFFICES ASSUME Inv, [Next]_vars PROVE Inv'
  OBVIOUS
<1>1. ASSUME NEW r \in Requests, RequestStep(r) PROVE Inv'
  <2>1. CASE RequestFail(r)
    BY <2>1, IdleOK, MoveInv DEF RequestFail, finish
  <2> QED BY <1>1, <2>1, CreateFindEventInv, CreateFindExistingInv, CreateSumInv,
             CreateSaveInv, UpdateFindBookingInv, UpdateFindEventInv, UpdateSumInv,
             UpdateWriteInv, CancelFindBookingInv, CancelFindEventInv,
             CancelWriteInv, CancelNotifyInv, DeleteEventInv DEF RequestStep
<1>2. ASSUME NEW u \in Users, deleteManyByUserId(u) PROVE Inv'
  <2>1. /\ bookings' \in [BookingIds -> Booking]
        /\ \A c \in BookingIds : Kept(bookings[c], bookings'[c])
    BY <1>2, DeleteManyType DEF deleteManyByUserId, Inv, TypeOK
  <2> QED BY <1>2, <2>1, EventStepsType, StoreStepInv
          DEF deleteManyByUserId, Inv, TypeOK
<1>3. ASSUME EventTypeOK', UNCHANGED bookingVars PROVE Inv'
  <2>1. /\ bookings' \in [BookingIds -> Booking]
        /\ \A b \in BookingIds : Kept(bookings[b], bookings'[b])
    BY <1>3 DEF bookingVars, Inv, TypeOK, Kept, Absent, Removed
  <2> QED BY <1>3, <2>1, StoreStepInv DEF bookingVars
<1>4. ASSUME NEW r \in Requests, EditStep(r) PROVE Inv'
  BY <1>3, <1>4, EventStepsType DEF EditStep, Inv, TypeOK
<1>5. CASE BackgroundStep
  BY <1>3, <1>5, EventStepsType DEF BackgroundStep, Inv, TypeOK
<1>6. CASE UNCHANGED vars
  BY <1>3, <1>6, EventStepsType DEF vars, eventVars, bookingVars, Inv, TypeOK
<1> QED BY <1>1, <1>2, <1>4, <1>5, <1>6 DEF Next

\* Every variable keeps its type: in particular no stored booking holds fewer
\* than one seat or more than the largest limit, whatever the interleaving.
THEOREM TypeCorrect == Spec => []TypeOK
<1>1. Inv => TypeOK
  BY DEF Inv
<1> QED BY <1>1, InitInv, NextInv, PTL DEF Spec

-----------------------------------------------------------------------------
(* The bound on duplicate bookings                                         *)

LEMMA ClaimsFinite ==
    ASSUME NEW u
    PROVE  /\ IsFiniteSet(heldOrRevivable(u)) /\ Cardinality(heldOrRevivable(u)) \in Nat
           /\ IsFiniteSet(mayCreate(u)) /\ Cardinality(mayCreate(u)) \in Nat
           /\ IsFiniteSet(Requests) /\ Cardinality(Requests) \in Nat
<1>1. heldOrRevivable(u) \subseteq BookingIds /\ mayCreate(u) \subseteq Requests
  BY DEF heldOrRevivable, mayCreate
<1> QED BY <1>1, EventAssumption, BookingAssumption, FS_Subset, FS_CardinalityType

LEMMA ClaimsFiniteNext ==
    ASSUME NEW u
    PROVE  /\ IsFiniteSet(heldOrRevivable(u)') /\ Cardinality(heldOrRevivable(u)') \in Nat
           /\ IsFiniteSet(mayCreate(u)') /\ Cardinality(mayCreate(u)') \in Nat
<1>1. heldOrRevivable(u)' \subseteq BookingIds /\ mayCreate(u)' \subseteq Requests
  BY DEF heldOrRevivable, mayCreate
<1> QED BY <1>1, EventAssumption, BookingAssumption, FS_Subset, FS_CardinalityType

LEMMA InitDuplicates == Init => DuplicatesInv
<1> SUFFICES ASSUME Init, NEW u \in Users
             PROVE  Cardinality(heldOrRevivable(u)) + Cardinality(mayCreate(u))
                        <= Cardinality(Requests)
  BY DEF DuplicatesInv
<1>1. heldOrRevivable(u) = {} /\ mayCreate(u) = {}
  BY DEF Init, heldOrRevivable, mayCreate, confirmed, Idle, Absent, UpdatePcs
<1>2. Cardinality(heldOrRevivable(u)) = 0 /\ Cardinality(mayCreate(u)) = 0
  BY <1>1, FS_EmptySet
<1> QED BY <1>2, ClaimsFinite

\* A step is quiet when every booking or request that counts for a user after
\* it counted for the same user before.
LEMMA QuietStep ==
    ASSUME DuplicatesInv,
           \A b \in BookingIds :
               bookings'[b].status = "confirmed"
                   => b \in heldOrRevivable(bookings'[b].user),
           \A q \in Requests :
               req'[q].pc \in UpdatePcs /\ req'[q].booking \in BookingIds
                   => req'[q].booking \in heldOrRevivable(req'[q].found.user),
           \A q \in Requests :
               req'[q].pc \in {"create:sum", "create:save"} => q \in mayCreate(req'[q].user)
    PROVE  DuplicatesInv'
<1> SUFFICES ASSUME NEW u \in Users
             PROVE  Cardinality(heldOrRevivable(u)') + Cardinality(mayCreate(u)')
                        <= Cardinality(Requests)
  BY DEF DuplicatesInv
<1>1. heldOrRevivable(u)' \subseteq heldOrRevivable(u)
  <2> SUFFICES ASSUME NEW b \in heldOrRevivable(u)' PROVE b \in heldOrRevivable(u)
    OBVIOUS
  <2>1. b \in BookingIds
    BY DEF heldOrRevivable
  <2>2. CASE bookings'[b].status = "confirmed" /\ bookings'[b].user = u
    BY <2>1, <2>2
  <2>3. CASE \E q \in Requests : /\ req'[q].pc \in UpdatePcs
                                 /\ req'[q].booking = b /\ req'[q].found.user = u
    BY <2>1, <2>3
  <2> QED BY <2>2, <2>3 DEF heldOrRevivable, confirmed
<1>2. mayCreate(u)' \subseteq mayCreate(u)
  BY DEF mayCreate
<1>3. /\ Cardinality(heldOrRevivable(u)') <= Cardinality(heldOrRevivable(u))
      /\ Cardinality(mayCreate(u)') <= Cardinality(mayCreate(u))
  BY <1>1, <1>2, ClaimsFinite, FS_Subset
<1>4. Cardinality(heldOrRevivable(u)) + Cardinality(mayCreate(u))
          <= Cardinality(Requests)
  BY DEF DuplicatesInv
<1> QED BY <1>3, <1>4, ClaimsFinite, ClaimsFiniteNext

\* The quiet moves of a handler.
LEMMA QuietMove ==
    ASSUME Inv, DuplicatesInv, UNCHANGED bookings, NEW r \in Requests, NEW l,
           req' = [req EXCEPT ![r] = l],
           l.pc \in UpdatePcs => l.booking \in heldOrRevivable(l.found.user),
           l.pc \in {"create:sum", "create:save"} => r \in mayCreate(l.user)
    PROVE  DuplicatesInv'
<1>1. \A q \in Requests : req'[q] = IF q = r THEN l ELSE req[q]
  BY DEF Inv, TypeOK
<1>2. \A b \in BookingIds :
        bookings'[b].status = "confirmed" => b \in heldOrRevivable(bookings'[b].user)
  BY DEF heldOrRevivable, confirmed
<1>3. ASSUME NEW q \in Requests, req'[q].pc \in UpdatePcs, req'[q].booking \in BookingIds
      PROVE  req'[q].booking \in heldOrRevivable(req'[q].found.user)
  <2>1. CASE q = r
    BY <1>1, <1>3, <2>1
  <2>2. CASE q # r
    BY <1>1, <1>3, <2>2 DEF heldOrRevivable
  <2> QED BY <2>1, <2>2
<1>4. \A q \in Requests :
        req'[q].pc \in {"create:sum", "create:save"} => q \in mayCreate(req'[q].user)
  BY <1>1 DEF mayCreate
<1> QED BY <1>2, <1>3, <1>4, QuietStep

\* A step that leaves the requests alone and confirms nothing is quiet.
LEMMA QuietStore ==
    ASSUME DuplicatesInv, UNCHANGED req,
           \A b \in BookingIds : bookings'[b] = bookings[b] \/ bookings'[b] = Removed
    PROVE  DuplicatesInv'
<1>1. \A b \in BookingIds :
        bookings'[b].status = "confirmed" => b \in heldOrRevivable(bookings'[b].user)
  BY DEF heldOrRevivable, confirmed, Removed
<1>2. \A q \in Requests :
        req'[q].pc \in UpdatePcs /\ req'[q].booking \in BookingIds
            => req'[q].booking \in heldOrRevivable(req'[q].found.user)
  BY DEF heldOrRevivable
<1>3. \A q \in Requests :
        req'[q].pc \in {"create:sum", "create:save"} => q \in mayCreate(req'[q].user)
  BY DEF mayCreate
<1> QED BY <1>1, <1>2, <1>3, QuietStep

\* A request that ends is quiet, whatever it wrote, when what it wrote is.
LEMMA QuietEnd ==
    ASSUME Inv, DuplicatesInv, NEW r \in Requests, finish(r),
           \A b \in BookingIds :
               bookings'[b].status = "confirmed"
                   => b \in heldOrRevivable(bookings'[b].user)
    PROVE  DuplicatesInv'
<1>1. \A q \in Requests : req'[q] = IF q = r THEN Idle ELSE req[q]
  BY DEF finish, Inv, TypeOK
<1>2. \A q \in Requests :
        req'[q].pc \in UpdatePcs /\ req'[q].booking \in BookingIds
            => req'[q].booking \in heldOrRevivable(req'[q].found.user)
  BY <1>1 DEF heldOrRevivable, Idle, UpdatePcs
<1>3. \A q \in Requests :
        req'[q].pc \in {"create:sum", "create:save"} => q \in mayCreate(req'[q].user)
  BY <1>1 DEF mayCreate, Idle
<1> QED BY <1>2, <1>3, QuietStep

\* findConfirmedByEventAndUser saw no booking, so whatever the user may still
\* hold is the work of other requests, and this one takes a place of its own.
LEMMA CreateFindExistingDuplicates ==
    ASSUME Inv, DuplicatesInv, NEW r \in Requests, CreateFindExisting(r)
    PROVE  DuplicatesInv'
<1>1. req[r] \in Local /\ req[r].pc = "create:existing"
  BY ResumeOK DEF CreateFindExisting
<1>2. PICK l : /\ req' = [req EXCEPT ![r] = l] /\ l.user = req[r].user
               /\ l.pc \in {"create:sum", "create:save"}
  <2>1. CASE req[r].rules.capacity = None
    <3> DEFINE l == [req[r] EXCEPT !.pc = "create:save", !.rules = None]
    <3>1. req' = [req EXCEPT ![r] = l]
      BY <2>1 DEF CreateFindExisting, gotoWrite, Inv, TypeOK
    <3>2. l.user = req[r].user /\ l.pc = "create:save"
      BY <1>1 DEF Local
    <3> HIDE DEF l
    <3> QED BY <3>1, <3>2
  <2>2. CASE req[r].rules.capacity # None
    <3> DEFINE l == [req[r] EXCEPT !.pc = "create:sum"]
    <3>1. req' = [req EXCEPT ![r] = l]
      BY <2>2 DEF CreateFindExisting, goto, Inv, TypeOK
    <3>2. l.user = req[r].user /\ l.pc = "create:sum"
      BY <1>1 DEF Local
    <3> HIDE DEF l
    <3> QED BY <3>1, <3>2
  <2> QED BY <2>1, <2>2
<1>3. \A q \in Requests : req'[q] = IF q = r THEN l ELSE req[q]
  BY <1>2 DEF Inv, TypeOK
<1>4. UNCHANGED bookings /\ findConfirmedByEventAndUser(req[r].user) = {}
  BY DEF CreateFindExisting
<1> SUFFICES ASSUME NEW u \in Users
             PROVE  Cardinality(heldOrRevivable(u)') + Cardinality(mayCreate(u)')
                        <= Cardinality(Requests)
  BY DEF DuplicatesInv
<1>5. CASE u = req[r].user
  <2> DEFINE writers  == {q \in Requests : req'[q].pc \in UpdatePcs}
             target   == [q \in Requests |-> req'[q].booking]
             held     == heldOrRevivable(u)'
             creators == mayCreate(u)'
  <2>1. \A b \in held : \E q \in writers : target[q] = b
    BY <1>4, <1>5 DEF heldOrRevivable, findConfirmedByEventAndUser, confirmed
  <2>2. writers \cap creators = {} /\ creators \subseteq Requests
    BY DEF mayCreate, UpdatePcs
  <2>3. IsFiniteSet(writers) /\ IsFiniteSet(creators) /\ IsFiniteSet(Requests)
    BY <2>2, EventAssumption, FS_Subset
  <2>4. Cardinality(held) <= Cardinality(writers)
    <3> HIDE DEF writers, target, held
    <3> QED BY <2>1, <2>3, Covered
  <2>5. Cardinality(writers \cup creators) <= Cardinality(Requests)
    BY <2>2, <2>3, FS_Subset
  <2>6. Cardinality(writers \cup creators) = Cardinality(writers) + Cardinality(creators)
    <3> HIDE DEF writers, creators
    <3>1. /\ Cardinality(writers) \in Nat /\ Cardinality(creators) \in Nat
          /\ Cardinality(writers \cap creators) = 0
      BY <2>2, <2>3, FS_CardinalityType, FS_EmptySet
    <3>2. Cardinality(writers \cup creators)
            = Cardinality(writers) + Cardinality(creators)
                - Cardinality(writers \cap creators)
      BY <2>3, FS_Union
    <3>3. \A x, y \in Nat : x + y - 0 = x + y
      OBVIOUS
    <3> QED BY <3>1, <3>2, <3>3
  <2>7. /\ Cardinality(held) \in Nat /\ Cardinality(creators) \in Nat
        /\ Cardinality(writers) \in Nat /\ Cardinality(Requests) \in Nat
    BY <2>3, ClaimsFiniteNext, FS_CardinalityType
  <2> HIDE DEF writers, held, creators
  <2>8. Cardinality(held) + Cardinality(creators) <= Cardinality(Requests)
    BY <2>4, <2>5, <2>6, <2>7
  <2> QED BY <2>8 DEF held, creators
<1>6. CASE u # req[r].user
  <2>1. heldOrRevivable(u)' \subseteq heldOrRevivable(u)
    BY <1>2, <1>3, <1>4 DEF heldOrRevivable, confirmed, UpdatePcs
  <2>2. mayCreate(u)' \subseteq mayCreate(u)
    BY <1>2, <1>3, <1>6 DEF mayCreate
  <2>3. /\ Cardinality(heldOrRevivable(u)') <= Cardinality(heldOrRevivable(u))
        /\ Cardinality(mayCreate(u)') <= Cardinality(mayCreate(u))
    BY <2>1, <2>2, ClaimsFinite, FS_Subset
  <2>4. Cardinality(heldOrRevivable(u)) + Cardinality(mayCreate(u))
            <= Cardinality(Requests)
    BY DEF DuplicatesInv
  <2> QED BY <2>3, <2>4, ClaimsFinite, ClaimsFiniteNext
<1> QED BY <1>5, <1>6

\* The request trades its claim for the booking it saves.
LEMMA CreateSaveDuplicates ==
    ASSUME Inv, DuplicatesInv, NEW r \in Requests, CreateSave(r)
    PROVE  DuplicatesInv'
<1>1. PICK b \in BookingIds :
        bookings' = [bookings EXCEPT ![b] =
            [status |-> "confirmed", user |-> req[r].user, seats |-> req[r].seats]]
  BY DEF CreateSave
<1>2. \A c \in BookingIds :
        bookings'[c] = IF c = b THEN [status |-> "confirmed", user |-> req[r].user,
                                      seats |-> req[r].seats]
                                ELSE bookings[c]
  BY <1>1 DEF Inv, TypeOK
<1>3. \A q \in Requests : req'[q] = IF q = r THEN Idle ELSE req[q]
  BY DEF CreateSave, finish, Inv, TypeOK
<1> SUFFICES ASSUME NEW u \in Users
             PROVE  Cardinality(heldOrRevivable(u)') + Cardinality(mayCreate(u)')
                        <= Cardinality(Requests)
  BY DEF DuplicatesInv
<1>4. Cardinality(heldOrRevivable(u)) + Cardinality(mayCreate(u))
          <= Cardinality(Requests)
  BY DEF DuplicatesInv
<1>5. CASE u = req[r].user
  <2>1. heldOrRevivable(u)' \subseteq heldOrRevivable(u) \cup {b}
    BY <1>2, <1>3 DEF heldOrRevivable, confirmed, Idle, UpdatePcs
  <2>2. mayCreate(u)' = mayCreate(u) \ {r} /\ r \in mayCreate(u)
    BY <1>3, <1>5 DEF mayCreate, CreateSave, Idle
  <2>3. Cardinality(heldOrRevivable(u)') <= Cardinality(heldOrRevivable(u)) + 1
    <3>1. /\ IsFiniteSet(heldOrRevivable(u) \cup {b})
          /\ Cardinality(heldOrRevivable(u) \cup {b}) <= Cardinality(heldOrRevivable(u)) + 1
      <4> DEFINE held == heldOrRevivable(u)
      <4>1. IsFiniteSet(held) /\ Cardinality(held) \in Nat
        BY ClaimsFinite
      <4> HIDE DEF held
      <4>2. /\ IsFiniteSet(held \cup {b})
            /\ Cardinality(held \cup {b}) <= Cardinality(held) + 1
        BY <4>1, FS_AddElement
      <4> QED BY <4>2 DEF held
    <3>2. /\ Cardinality(heldOrRevivable(u)') <= Cardinality(heldOrRevivable(u) \cup {b})
          /\ Cardinality(heldOrRevivable(u) \cup {b}) \in Nat
      BY <2>1, <3>1, FS_Subset, FS_CardinalityType
    <3> QED BY <3>1, <3>2, ClaimsFinite, ClaimsFiniteNext
  <2>4. Cardinality(mayCreate(u)') = Cardinality(mayCreate(u)) - 1
    BY <2>2, ClaimsFinite, FS_RemoveElement
  <2> QED BY <1>4, <2>3, <2>4, ClaimsFinite, ClaimsFiniteNext
<1>6. CASE u # req[r].user
  <2>1. heldOrRevivable(u)' \subseteq heldOrRevivable(u)
    BY <1>2, <1>3, <1>6 DEF heldOrRevivable, confirmed, Idle, UpdatePcs
  <2>2. mayCreate(u)' \subseteq mayCreate(u)
    BY <1>3 DEF mayCreate, Idle
  <2>3. /\ Cardinality(heldOrRevivable(u)') <= Cardinality(heldOrRevivable(u))
        /\ Cardinality(mayCreate(u)') <= Cardinality(mayCreate(u))
    BY <2>1, <2>2, ClaimsFinite, FS_Subset
  <2> QED BY <1>4, <2>3, ClaimsFinite, ClaimsFiniteNext
<1> QED BY <1>5, <1>6

\* The other steps of a create change nobody's claims.
LEMMA CreateDuplicates ==
    ASSUME Inv, DuplicatesInv, NEW r \in Requests, CreateFindEvent(r) \/ CreateSum(r)
    PROVE  DuplicatesInv'
<1>1. CASE CreateFindEvent(r)
  <2>1. PICK u \in Users, seats \in SeatCounts :
            req' = [req EXCEPT ![r] = [Idle EXCEPT !.pc = "create:existing",
                        !.user = u, !.seats = seats, !.rules = rulesOf(event)]]
    BY <1>1 DEF CreateFindEvent
  <2> DEFINE l == [Idle EXCEPT !.pc = "create:existing",
                        !.user = u, !.seats = seats, !.rules = rulesOf(event)]
  <2>2. l.pc = "create:existing"
    BY DEF Idle
  <2>3. req' = [req EXCEPT ![r] = l]
    BY <2>1
  <2> HIDE DEF l
  <2> QED BY <1>1, <2>2, <2>3, QuietMove DEF CreateFindEvent, UpdatePcs
<1>2. CASE CreateSum(r)
  <2> DEFINE l == [req[r] EXCEPT !.pc = "create:save", !.rules = None]
  <2>1. req' = [req EXCEPT ![r] = l]
    BY <1>2 DEF CreateSum, gotoWrite, Inv, TypeOK
  <2>2. l.pc = "create:save" /\ l.user = req[r].user
    BY ResumeOK DEF Local
  <2>3. r \in mayCreate(req[r].user)
    BY <1>2 DEF mayCreate, CreateSum
  <2> HIDE DEF l
  <2> QED BY <1>2, <2>1, <2>2, <2>3, QuietMove DEF CreateSum, UpdatePcs
<1> QED BY <1>1, <1>2

\* An update claims a booking only while that booking is held, or claimed
\* already by the same update.
LEMMA UpdateDuplicates ==
    ASSUME Inv, DuplicatesInv, NEW r \in Requests,
           \/ UpdateFindBooking(r) \/ UpdateFindEvent(r)
           \/ UpdateSum(r) \/ UpdateWrite(r)
    PROVE  DuplicatesInv'
<1>0. /\ req[r] \in Local /\ LocalOK(req[r], bookings)
      /\ req[r].pc \in UpdatePcs =>
           /\ req[r].booking \in BookingIds
           /\ req[r].booking \in heldOrRevivable(req[r].found.user)
  BY ResumeOK DEF LocalOK, heldOrRevivable
<1>1. CASE UpdateFindBooking(r)
  <2>1. PICK b \in BookingIds, u \in Users, seats \in SeatCounts :
            /\ confirmed(b)
            /\ req' = [req EXCEPT ![r] = [Idle EXCEPT !.pc = "update:event",
                        !.user = u, !.booking = b, !.found = bookings[b],
                        !.seats = seats]]
    BY <1>1 DEF UpdateFindBooking
  <2> DEFINE l == [Idle EXCEPT !.pc = "update:event", !.user = u,
                        !.booking = b, !.found = bookings[b], !.seats = seats]
  <2>2. l.pc = "update:event" /\ l.booking = b /\ l.found = bookings[b]
    BY DEF Idle
  <2>3. b \in heldOrRevivable(bookings[b].user) /\ req' = [req EXCEPT ![r] = l]
    BY <2>1 DEF heldOrRevivable
  <2> HIDE DEF l
  <2> QED BY <1>1, <2>2, <2>3, QuietMove DEF UpdateFindBooking
<1>2. CASE UpdateFindEvent(r)
  <2> DEFINE limited   == [req[r] EXCEPT !.user = None, !.pc = "update:sum",
                                         !.rules = rulesOf(event)]
             unlimited == [req[r] EXCEPT !.user = None, !.pc = "update:write",
                                         !.rules = None]
  <2>1. req' = [req EXCEPT ![r] = unlimited] \/ req' = [req EXCEPT ![r] = limited]
    <3>1. CASE event.capacity = None
      BY <1>2, <3>1 DEF UpdateFindEvent
    <3>2. CASE event.capacity # None
      BY <1>2, <3>2 DEF UpdateFindEvent
    <3> QED BY <3>1, <3>2
  <2>2. /\ limited.pc = "update:sum" /\ unlimited.pc = "update:write"
        /\ limited.booking = req[r].booking /\ limited.found = req[r].found
        /\ unlimited.booking = req[r].booking /\ unlimited.found = req[r].found
    BY <1>0 DEF Local
  <2>3. req[r].booking \in heldOrRevivable(req[r].found.user) /\ UNCHANGED bookings
    BY <1>0, <1>2 DEF UpdateFindEvent, UpdatePcs
  <2> HIDE DEF limited, unlimited
  <2> QED BY <2>1, <2>2, <2>3, QuietMove
<1>3. CASE UpdateSum(r)
  <2> DEFINE l == [req[r] EXCEPT !.pc = "update:write", !.rules = None]
  <2>1. req' = [req EXCEPT ![r] = l]
    BY <1>3 DEF UpdateSum, gotoWrite, Inv, TypeOK
  <2>2. l.pc = "update:write" /\ l.booking = req[r].booking /\ l.found = req[r].found
    BY <1>0 DEF Local
  <2>3. req[r].booking \in heldOrRevivable(req[r].found.user) /\ UNCHANGED bookings
    BY <1>0, <1>3 DEF UpdateSum, UpdatePcs
  <2> HIDE DEF l
  <2> QED BY <2>1, <2>2, <2>3, QuietMove
<1>4. CASE UpdateWrite(r)
  <2>1. /\ req[r].booking \in heldOrRevivable(req[r].found.user)
        /\ req[r].booking \in BookingIds
        /\ \/ bookings[req[r].booking] = Removed
           \/ bookings[req[r].booking].user = req[r].found.user
    BY <1>0, <1>4 DEF UpdateWrite, UpdatePcs, LocalOK
  <2>2. update(req[r].booking, req[r].seats, req[r].found.status) /\ finish(r)
    BY <1>4 DEF UpdateWrite
  <2>3. ASSUME NEW c \in BookingIds, bookings'[c].status = "confirmed"
        PROVE  c \in heldOrRevivable(bookings'[c].user)
    <3>1. CASE bookings'[c] = bookings[c]
      BY <2>3, <3>1 DEF heldOrRevivable, confirmed
    <3>2. CASE bookings'[c] # bookings[c]
      <4>1. stored(c) /\ c = req[r].booking
        BY <2>2, <3>2 DEF update, Inv, TypeOK
      <4>2. bookings[c] \in [status : {"confirmed", "cancelled"}, user : Users,
                             seats : 1 .. MaxSeats]
        BY <4>1 DEF stored, Booking, Absent, Removed, Inv, TypeOK
      <4>3. bookings' = [bookings EXCEPT ![c] = [bookings[c] EXCEPT
                              !.seats = req[r].seats, !.status = req[r].found.status]]
        BY <2>2, <4>1 DEF update
      <4>4. bookings'[c].user = bookings[c].user
        BY <4>2, <4>3 DEF Inv, TypeOK
      <4>5. bookings[c] # Removed
        BY <4>1 DEF stored, Removed
      <4> QED BY <2>1, <4>1, <4>4, <4>5
    <3> QED BY <3>1, <3>2
  <2> QED BY <2>2, <2>3, QuietEnd
<1> QED BY <1>1, <1>2, <1>3, <1>4

\* A cancellation claims nothing and confirms nothing.
LEMMA CancelDuplicates ==
    ASSUME Inv, DuplicatesInv, NEW r \in Requests,
           \/ CancelFindBooking(r) \/ CancelFindEvent(r)
           \/ CancelWrite(r) \/ CancelNotify(r)
    PROVE  DuplicatesInv'
<1>1. CASE CancelFindBooking(r)
  <2>1. PICK b \in BookingIds, u \in Users :
            req' = [req EXCEPT ![r] = [Idle EXCEPT !.pc = "cancel:event",
                        !.user = u, !.booking = b, !.found = bookings[b]]]
    BY <1>1 DEF CancelFindBooking
  <2> DEFINE l == [Idle EXCEPT !.pc = "cancel:event", !.user = u,
                        !.booking = b, !.found = bookings[b]]
  <2>2. l.pc = "cancel:event" /\ req' = [req EXCEPT ![r] = l]
    BY <2>1 DEF Idle
  <2> HIDE DEF l
  <2> QED BY <1>1, <2>2, QuietMove DEF CancelFindBooking, UpdatePcs
<1>2. ASSUME NEW pc \in CancelPcs, goto(r, pc),
             \A b \in BookingIds :
                 bookings'[b].status = "confirmed" => bookings'[b] = bookings[b]
      PROVE  DuplicatesInv'
  <2>1. \A q \in Requests :
          req'[q] = IF q = r THEN [req[r] EXCEPT !.pc = pc] ELSE req[q]
    BY <1>2 DEF goto, Inv, TypeOK
  <2>2. [req[r] EXCEPT !.pc = pc].pc = pc
    BY ResumeOK DEF Local
  <2>3. \A b \in BookingIds :
          bookings'[b].status = "confirmed" => b \in heldOrRevivable(bookings'[b].user)
    BY <1>2 DEF heldOrRevivable, confirmed
  <2>4. \A q \in Requests :
          req'[q].pc \in UpdatePcs \cup {"create:sum", "create:save"} => req'[q] = req[q]
    BY <2>1, <2>2 DEF UpdatePcs, CancelPcs
  <2>5. \A q \in Requests :
          req'[q].pc \in UpdatePcs /\ req'[q].booking \in BookingIds
              => req'[q].booking \in heldOrRevivable(req'[q].found.user)
    BY <2>4 DEF heldOrRevivable
  <2>6. \A q \in Requests :
          req'[q].pc \in {"create:sum", "create:save"} => q \in mayCreate(req'[q].user)
    BY <2>4 DEF mayCreate
  <2> QED BY <2>3, <2>5, <2>6, QuietStep
<1>3. CASE CancelFindEvent(r)
  BY <1>2, <1>3 DEF CancelFindEvent, CancelPcs
<1>4. CASE CancelWrite(r)
  <2>1. \A b \in BookingIds :
          bookings'[b].status = "confirmed" => bookings'[b] = bookings[b]
    <3> SUFFICES ASSUME NEW b \in BookingIds, bookings'[b] # bookings[b]
                 PROVE  bookings'[b].status = "cancelled"
      OBVIOUS
    <3>1. /\ stored(b)
          /\ bookings' = [bookings EXCEPT ![b] = [bookings[b] EXCEPT
                              !.seats = req[r].found.seats, !.status = "cancelled"]]
      BY <1>4 DEF CancelWrite, update, Inv, TypeOK
    <3>2. bookings[b] \in [status : {"confirmed", "cancelled"}, user : Users,
                           seats : 1 .. MaxSeats]
      BY <3>1 DEF stored, Booking, Absent, Removed, Inv, TypeOK
    <3> QED BY <3>1, <3>2 DEF Inv, TypeOK
  <2>2. CASE finish(r)
    BY <2>1, <2>2, QuietEnd DEF heldOrRevivable, confirmed
  <2>3. CASE goto(r, "cancel:notify")
    BY <1>2, <2>1, <2>3 DEF CancelPcs
  <2> QED BY <1>4, <2>2, <2>3 DEF CancelWrite
<1>5. CASE CancelNotify(r)
  BY <1>5, QuietEnd DEF CancelNotify, heldOrRevivable, confirmed
<1> QED BY <1>1, <1>3, <1>4, <1>5

LEMMA DeleteEventDuplicates ==
    ASSUME Inv, DuplicatesInv, NEW r \in Requests,
           DeleteFindEvent(r) \/ deleteManyByEventIds(r) \/ DeleteEventDocument(r)
    PROVE  DuplicatesInv'
<1>1. CASE DeleteFindEvent(r)
  <2> DEFINE l == [Idle EXCEPT !.pc = "delete:bookings", !.user = Organiser]
  <2>1. l.pc = "delete:bookings" /\ req' = [req EXCEPT ![r] = l]
    BY <1>1 DEF DeleteFindEvent, Idle
  <2> HIDE DEF l
  <2> QED BY <1>1, <2>1, QuietMove DEF DeleteFindEvent, UpdatePcs
<1>2. CASE deleteManyByEventIds(r)
  <2>1. \A b \in BookingIds : bookings'[b] = bookings[b] \/ bookings'[b] = Removed
    BY <1>2 DEF deleteManyByEventIds, deleteMany
  <2>2. \A q \in Requests :
          req'[q].pc \in UpdatePcs \cup {"create:sum", "create:save"} => req'[q] = req[q]
    <3>1. [req[r] EXCEPT !.pc = "delete:event"].pc = "delete:event"
      BY ResumeOK DEF Local
    <3>2. \A q \in Requests :
            req'[q] = IF q = r THEN [req[r] EXCEPT !.pc = "delete:event"] ELSE req[q]
      BY <1>2 DEF deleteManyByEventIds, goto, Inv, TypeOK
    <3> QED BY <3>1, <3>2 DEF UpdatePcs
  <2>3. \A b \in BookingIds :
          bookings'[b].status = "confirmed" => b \in heldOrRevivable(bookings'[b].user)
    BY <2>1 DEF heldOrRevivable, confirmed, Removed
  <2>4. \A q \in Requests :
          req'[q].pc \in UpdatePcs /\ req'[q].booking \in BookingIds
              => req'[q].booking \in heldOrRevivable(req'[q].found.user)
    BY <2>2 DEF heldOrRevivable
  <2>5. \A q \in Requests :
          req'[q].pc \in {"create:sum", "create:save"} => q \in mayCreate(req'[q].user)
    BY <2>2 DEF mayCreate
  <2> QED BY <2>3, <2>4, <2>5, QuietStep
<1>3. CASE DeleteEventDocument(r)
  BY <1>3, QuietEnd DEF DeleteEventDocument, heldOrRevivable, confirmed
<1> QED BY <1>1, <1>2, <1>3

LEMMA NextDuplicates == Inv /\ DuplicatesInv /\ [Next]_vars => DuplicatesInv'
<1> SUFFICES ASSUME Inv, DuplicatesInv, [Next]_vars PROVE DuplicatesInv'
  OBVIOUS
<1>1. ASSUME NEW r \in Requests, RequestStep(r) PROVE DuplicatesInv'
  <2>1. CASE RequestFail(r)
    BY <2>1, QuietEnd DEF RequestFail, heldOrRevivable, confirmed
  <2> QED BY <1>1, <2>1, CreateDuplicates, CreateFindExistingDuplicates,
             CreateSaveDuplicates, UpdateDuplicates, CancelDuplicates,
             DeleteEventDuplicates DEF RequestStep
<1>2. ASSUME NEW u \in Users, deleteManyByUserId(u) PROVE DuplicatesInv'
  BY <1>2, QuietStore DEF deleteManyByUserId, deleteMany
<1>3. CASE UNCHANGED bookingVars
  BY <1>3, QuietStore DEF bookingVars
<1> QED BY <1>1, <1>2, <1>3 DEF Next, EditStep, BackgroundStep, vars, bookingVars

\* Whatever the interleaving, a user holds at most as many confirmed bookings
\* of the event as the server runs requests at once (CreateEventBooking:57-64).
THEOREM DuplicatesBound == Spec => []DuplicatesBounded
<1>1. DuplicatesInv => DuplicatesBounded
  <2> SUFFICES ASSUME DuplicatesInv, NEW u \in Users
               PROVE  Cardinality(findConfirmedByEventAndUser(u)) <= Cardinality(Requests)
    BY DEF DuplicatesBounded
  <2>1. findConfirmedByEventAndUser(u) \subseteq heldOrRevivable(u)
    BY DEF findConfirmedByEventAndUser, heldOrRevivable
  <2>2. /\ IsFiniteSet(findConfirmedByEventAndUser(u))
        /\ Cardinality(findConfirmedByEventAndUser(u)) <= Cardinality(heldOrRevivable(u))
    BY <2>1, ClaimsFinite, FS_Subset
  <2>3. /\ Cardinality(findConfirmedByEventAndUser(u)) \in Nat
        /\ Cardinality(heldOrRevivable(u)) + Cardinality(mayCreate(u))
              <= Cardinality(Requests)
    BY <2>2, FS_CardinalityType DEF DuplicatesInv
  <2> QED BY <2>2, <2>3, ClaimsFinite
<1> QED BY <1>1, InitInv, NextInv, InitDuplicates, NextDuplicates, PTL DEF Spec

\* With one request at a time, a user never holds two confirmed bookings.
THEOREM OneBookingPerUser ==
    ASSUME Cardinality(Requests) = 1
    PROVE  Spec => [](\A u \in Users : Cardinality(findConfirmedByEventAndUser(u)) <= 1)
<1>1. DuplicatesBounded => \A u \in Users : Cardinality(findConfirmedByEventAndUser(u)) <= 1
  BY DEF DuplicatesBounded
<1> QED BY <1>1, DuplicatesBound, PTL

-----------------------------------------------------------------------------
(* The bound on overbooking                                                *)
(*                                                                         *)
(* The argument counts claims: the seats that confirmed bookings hold, and *)
(* those that a request past its check of the capacity is about to write.  *)
(* At the moment a request passes its check, what it asks for and what the *)
(* others hold fit in the capacity it read, and each of the other requests *)
(* claims at most one booking.  No other step adds a claim.                *)

Claims == ({"booking"} \X BookingIds \X (1 .. MaxSeats))
            \cup ({"request"} \X Requests \X (1 .. MaxSeats))

\* The claims of the confirmed bookings but one, and of the requests but one.
heldClaims(excluded) ==
    {<<"booking", s[1], s[2]>> : s \in confirmedSeats(excluded)}

otherClaims(r) ==
    {c \in Claims : \E q \in Requests \ {r} :
        \/ req[q].pc = "create:save" /\ c[1] = "request" /\ c[2] = q
        \/ /\ req[q].pc = "update:write"
           /\ c[1] = "booking" /\ c[2] = req[q].booking}

-----------------------------------------------------------------------------
(* Finite sets                                                             *)

LEMMA ConstantsFinite ==
    /\ IsFiniteSet(1 .. MaxSeats) /\ Cardinality(1 .. MaxSeats) = MaxSeats
    /\ MaxSeats \in Nat /\ MaxCapacity \in Nat
    /\ IsFiniteSet(Requests) /\ IsFiniteSet(BookingIds)
    /\ Cardinality(Requests) \in Nat \ {0}
<1>1. MaxSeats \in Nat /\ MaxCapacity \in Nat
  BY BookingAssumption
<1>2. IsFiniteSet(1 .. MaxSeats) /\ Cardinality(1 .. MaxSeats) = MaxSeats
  BY <1>1, FS_Interval
<1>3. /\ IsFiniteSet(Requests) /\ IsFiniteSet(BookingIds)
      /\ Cardinality(Requests) \in Nat /\ Cardinality(Requests) # 0
  BY EventAssumption, BookingAssumption, FS_CardinalityType, FS_EmptySet
<1> QED BY <1>1, <1>2, <1>3

\* One full booking for every request but one.
LEMMA SlackType ==
    (Cardinality(Requests) - 1) * MaxSeats \in Nat
<1>1. Cardinality(Requests) - 1 \in Nat /\ MaxSeats \in Nat
  BY ConstantsFinite
<1> QED BY <1>1

LEMMA ClaimsFiniteSet ==
    ASSUME NEW C \in SUBSET Claims
    PROVE  IsFiniteSet(C) /\ Cardinality(C) \in Nat
<1> DEFINE P == BookingIds \X (1 .. MaxSeats)
           Q == Requests \X (1 .. MaxSeats)
           f == [p \in P |-> <<"booking", p[1], p[2]>>]
           g == [p \in Q |-> <<"request", p[1], p[2]>>]
           A == {"booking"} \X BookingIds \X (1 .. MaxSeats)
           B == {"request"} \X Requests \X (1 .. MaxSeats)
<1>1. IsFiniteSet(P) /\ IsFiniteSet(Q)
  BY ConstantsFinite, FS_Product
<1>2. \A a \in A : \E p \in P : f[p] = a
  <2> SUFFICES ASSUME NEW a \in A PROVE \E p \in P : f[p] = a
    OBVIOUS
  <2>1. PICK b \in BookingIds, s \in 1 .. MaxSeats : a = <<"booking", b, s>>
    OBVIOUS
  <2>2. <<b, s>> \in P
    OBVIOUS
  <2>3. f[<<b, s>>] = <<"booking", b, s>>
    BY <2>2
  <2> HIDE DEF P, f
  <2> QED BY <2>1, <2>2, <2>3
<1>3. \A c \in B : \E p \in Q : g[p] = c
  <2> SUFFICES ASSUME NEW c \in B PROVE \E p \in Q : g[p] = c
    OBVIOUS
  <2>1. PICK r \in Requests, s \in 1 .. MaxSeats : c = <<"request", r, s>>
    OBVIOUS
  <2>2. <<r, s>> \in Q
    OBVIOUS
  <2>3. g[<<r, s>>] = <<"request", r, s>>
    BY <2>2
  <2> HIDE DEF Q, g
  <2> QED BY <2>1, <2>2, <2>3
<1>4. IsFiniteSet(A) /\ IsFiniteSet(B)
  <2> HIDE DEF P, Q, f, g, A, B
  <2> QED BY <1>1, <1>2, <1>3, Covered
<1>5. Claims = A \cup B
  BY DEF Claims
<1>6. IsFiniteSet(Claims)
  <2> HIDE DEF A, B
  <2> QED BY <1>4, <1>5, FS_Union
<1> QED BY <1>6, FS_Subset, FS_CardinalityType

LEMMA SeatClaimsType ==
    /\ seatClaims \in SUBSET Claims /\ seatClaims' \in SUBSET Claims
    /\ IsFiniteSet(seatClaims) /\ Cardinality(seatClaims) \in Nat
    /\ IsFiniteSet(seatClaims') /\ Cardinality(seatClaims') \in Nat
<1>1. seatClaims \in SUBSET Claims
  BY DEF seatClaims, Claims
<1>2. seatClaims' \in SUBSET Claims
  BY DEF seatClaims, Claims
<1> QED BY <1>1, <1>2, ClaimsFiniteSet

LEMMA UnionBound ==
    ASSUME NEW A, IsFiniteSet(A), NEW B, IsFiniteSet(B)
    PROVE  /\ IsFiniteSet(A \cup B)
           /\ Cardinality(A \cup B) <= Cardinality(A) + Cardinality(B)
<1>1. /\ IsFiniteSet(A \cup B)
      /\ Cardinality(A \cup B) = Cardinality(A) + Cardinality(B) - Cardinality(A \cap B)
  BY FS_Union
<1>2. Cardinality(A \cap B) \in Nat /\ Cardinality(A) \in Nat /\ Cardinality(B) \in Nat
  BY FS_Intersection, FS_CardinalityType
<1> QED BY <1>1, <1>2

\* The requests but one claim no more than a full booking each.
LEMMA OtherClaimsBound ==
    ASSUME NEW r \in Requests
    PROVE  /\ IsFiniteSet(otherClaims(r))
           /\ Cardinality(otherClaims(r)) <= (Cardinality(Requests) - 1) * MaxSeats
<1> DEFINE Q == Requests \ {r}
           P == Q \X (1 .. MaxSeats)
           f == [p \in P |-> IF req[p[1]].pc = "create:save"
                             THEN <<"request", p[1], p[2]>>
                             ELSE <<"booking", req[p[1]].booking, p[2]>>]
<1>1. IsFiniteSet(Q) /\ Cardinality(Q) = Cardinality(Requests) - 1
  BY ConstantsFinite, FS_RemoveElement
<1>2. IsFiniteSet(P) /\ Cardinality(P) = (Cardinality(Requests) - 1) * MaxSeats
  <2> HIDE DEF Q
  <2>1. IsFiniteSet(1 .. MaxSeats) /\ Cardinality(1 .. MaxSeats) = MaxSeats
    BY ConstantsFinite
  <2>2. /\ IsFiniteSet(Q \X (1 .. MaxSeats))
        /\ Cardinality(Q \X (1 .. MaxSeats)) = Cardinality(Q) * Cardinality(1 .. MaxSeats)
    BY <1>1, <2>1, FS_Product
  <2> QED BY <1>1, <2>1, <2>2
<1>3. ASSUME NEW c \in otherClaims(r) PROVE \E p \in P : f[p] = c
  <2>1. PICK q \in Q :
            \/ req[q].pc = "create:save" /\ c[1] = "request" /\ c[2] = q
            \/ /\ req[q].pc = "update:write"
               /\ c[1] = "booking" /\ c[2] = req[q].booking
    BY <1>3 DEF otherClaims
  <2>2. c[3] \in 1 .. MaxSeats /\ c = <<c[1], c[2], c[3]>>
    BY <1>3 DEF otherClaims, Claims
  <2>3. <<q, c[3]>> \in P
    BY <2>2
  <2>4. f[<<q, c[3]>>] = IF req[q].pc = "create:save"
                         THEN <<"request", q, c[3]>>
                         ELSE <<"booking", req[q].booking, c[3]>>
    BY <2>3
  <2>5. f[<<q, c[3]>>] = c
    BY <2>1, <2>2, <2>4
  <2> QED BY <2>3, <2>5
<1> HIDE DEF P, Q, f
<1> QED BY <1>2, <1>3, Covered

\* The confirmed bookings claim what the aggregation sums.
LEMMA HeldClaimsBound ==
    ASSUME NEW excluded
    PROVE  /\ IsFiniteSet(heldClaims(excluded))
           /\ Cardinality(heldClaims(excluded)) <= sumConfirmedSeats(excluded)
           /\ sumConfirmedSeats(excluded) \in Nat
<1> DEFINE P == confirmedSeats(excluded)
           f == [p \in P |-> <<"booking", p[1], p[2]>>]
<1>1. P \subseteq BookingIds \X (1 .. MaxSeats)
  BY DEF confirmedSeats
<1>2. IsFiniteSet(BookingIds \X (1 .. MaxSeats))
  BY ConstantsFinite, FS_Product
<1>3. IsFiniteSet(P)
  BY <1>1, <1>2, FS_Subset
<1>4. \A c \in heldClaims(excluded) : \E p \in P : f[p] = c
  BY DEF heldClaims
<1> HIDE DEF P, f
<1>5. /\ IsFiniteSet(heldClaims(excluded))
      /\ Cardinality(heldClaims(excluded)) <= Cardinality(P)
  BY <1>3, <1>4, Covered
<1> QED BY <1>3, <1>5, FS_CardinalityType DEF P, sumConfirmedSeats

\* The claims of one target: a booking, or a request.
LEMMA OwnClaimsBound ==
    ASSUME NEW kind, NEW target, NEW n \in Nat
    PROVE  /\ IsFiniteSet({kind} \X {target} \X (1 .. n))
           /\ Cardinality({kind} \X {target} \X (1 .. n)) <= n
<1> DEFINE f == [s \in 1 .. n |-> <<kind, target, s>>]
           H == {kind} \X {target} \X (1 .. n)
<1>1. \A h \in H : \E s \in 1 .. n : f[s] = h
  OBVIOUS
<1>2. IsFiniteSet(1 .. n) /\ Cardinality(1 .. n) = n
  BY FS_Interval
<1> HIDE DEF f, H
<1>3. IsFiniteSet(H) /\ Cardinality(H) <= Cardinality(1 .. n)
  BY <1>1, <1>2, Covered
<1> QED BY <1>2, <1>3 DEF H

-----------------------------------------------------------------------------
(* Steps                                                                   *)

LEMMA InitOverbooking == Init => OverbookingInv
<1> SUFFICES ASSUME Init PROVE OverbookingInv
  OBVIOUS
<1>1. seatClaims = {}
  BY DEF Init, seatClaims, confirmed, Absent, Idle
<1>2. Cardinality(seatClaims) = 0
  BY <1>1, FS_EmptySet
<1>3. MaxCapacity + (Cardinality(Requests) - 1) * MaxSeats >= 0
  BY ConstantsFinite, SlackType
<1> QED BY <1>2, <1>3 DEF OverbookingInv

\* A step that adds no claim keeps the bound.
LEMMA NoNewClaim ==
    ASSUME OverbookingInv, seatClaims' \subseteq seatClaims
    PROVE  OverbookingInv'
<1>1. Cardinality(seatClaims') <= Cardinality(seatClaims)
  BY SeatClaimsType, FS_Subset
<1>2. MaxCapacity + (Cardinality(Requests) - 1) * MaxSeats \in Nat
  BY ConstantsFinite, SlackType
<1>3. (OverbookingInv)' <=>
        (None \notin Capacities =>
            Cardinality(seatClaims')
                <= MaxCapacity + (Cardinality(Requests) - 1) * MaxSeats)
  BY DEF OverbookingInv
<1> QED BY <1>1, <1>2, <1>3, SeatClaimsType DEF OverbookingInv

\* Nothing is claimed by a step that confirms no booking and brings no request
\* past its check.
LEMMA NothingConfirmed ==
    ASSUME OverbookingInv,
           \A b \in BookingIds :
               bookings'[b] = bookings[b] \/ bookings'[b].status # "confirmed",
           \A q \in Requests :
               req'[q] = req[q] \/ req'[q].pc \notin {"update:write", "create:save"}
    PROVE  OverbookingInv'
<1>1. ASSUME NEW c \in seatClaims' PROVE c \in seatClaims
  <2>1. CASE /\ c \in {"booking"} \X BookingIds \X (1 .. MaxSeats)
             /\ confirmed(c[2])' /\ c[3] <= bookings'[c[2]].seats
    <3>1. bookings'[c[2]] = bookings[c[2]]
      BY <2>1 DEF confirmed
    <3> QED BY <2>1, <3>1 DEF seatClaims, confirmed
  <2>2. CASE /\ c \in {"booking"} \X BookingIds \X (1 .. MaxSeats)
             /\ \E q \in Requests : /\ req'[q].pc = "update:write"
                                     /\ req'[q].booking = c[2]
                                     /\ c[3] <= req'[q].seats
    <3>1. \E q \in Requests : /\ req[q].pc = "update:write"
                               /\ req[q].booking = c[2]
                               /\ c[3] <= req[q].seats
      BY <2>2
    <3> QED BY <2>2, <3>1 DEF seatClaims
  <2>3. CASE /\ c \in {"request"} \X Requests \X (1 .. MaxSeats)
             /\ req'[c[2]].pc = "create:save" /\ c[3] <= req'[c[2]].seats
    <3>1. req'[c[2]] = req[c[2]]
      BY <2>3
    <3> QED BY <2>3, <3>1 DEF seatClaims
  <2> QED BY <1>1, <2>1, <2>2, <2>3 DEF seatClaims
<1> QED BY <1>1, NoNewClaim

\* A request that moves on, or ends, short of its write.
LEMMA MoveClaims ==
    ASSUME Inv, OverbookingInv, NEW r \in Requests, NEW l,
           req' = [req EXCEPT ![r] = l], l.pc \notin {"update:write", "create:save"},
           \A b \in BookingIds :
               bookings'[b] = bookings[b] \/ bookings'[b].status # "confirmed"
    PROVE  OverbookingInv'
<1>1. \A q \in Requests : req'[q] = IF q = r THEN l ELSE req[q]
  BY DEF Inv, TypeOK
<1>2. \A q \in Requests :
        req'[q] = req[q] \/ req'[q].pc \notin {"update:write", "create:save"}
  BY <1>1
<1> QED BY <1>2, NothingConfirmed

\* What a request adds when it passes its check fits in the capacity it read;
\* the others had their place before.
LEMMA CheckedClaims ==
    ASSUME NEW r \in Requests, NEW excluded, NEW n \in Nat, NEW kind, NEW target,
           sumConfirmedSeats(excluded) + n <= MaxCapacity,
           seatClaims' \subseteq heldClaims(excluded)
                                    \cup ({kind} \X {target} \X (1 .. n))
                                    \cup otherClaims(r)
    PROVE  OverbookingInv'
<1> DEFINE A == heldClaims(excluded)
           B == {kind} \X {target} \X (1 .. n)
           C == otherClaims(r)
           slack == (Cardinality(Requests) - 1) * MaxSeats
           taken == sumConfirmedSeats(excluded)
<1>1. /\ IsFiniteSet(A) /\ Cardinality(A) <= taken /\ taken \in Nat
      /\ IsFiniteSet(B) /\ Cardinality(B) <= n
      /\ IsFiniteSet(C) /\ Cardinality(C) <= slack /\ slack \in Nat
      /\ MaxCapacity \in Nat
  BY HeldClaimsBound, OwnClaimsBound, OtherClaimsBound, SlackType, ConstantsFinite
<1>2. seatClaims' \subseteq (A \cup B) \cup C
  OBVIOUS
<1>3. taken + n <= MaxCapacity
  OBVIOUS
<1> HIDE DEF A, B, C, slack, taken
<1>4. /\ IsFiniteSet(A \cup B)
      /\ Cardinality(A \cup B) <= Cardinality(A) + Cardinality(B)
  BY <1>1, UnionBound
<1>5. /\ IsFiniteSet((A \cup B) \cup C)
      /\ Cardinality((A \cup B) \cup C) <= Cardinality(A \cup B) + Cardinality(C)
  BY <1>1, <1>4, UnionBound
<1>6. Cardinality(seatClaims') <= Cardinality((A \cup B) \cup C)
  BY <1>2, <1>5, FS_Subset
<1>7. /\ Cardinality(A) \in Nat /\ Cardinality(B) \in Nat /\ Cardinality(C) \in Nat
      /\ Cardinality(A \cup B) \in Nat /\ Cardinality((A \cup B) \cup C) \in Nat
      /\ Cardinality(seatClaims') \in Nat
  BY <1>1, <1>4, <1>5, FS_CardinalityType, SeatClaimsType
<1>8. Cardinality(seatClaims') <= MaxCapacity + slack
  BY <1>1, <1>3, <1>4, <1>5, <1>6, <1>7
<1> QED BY <1>8 DEF OverbookingInv, slack

-----------------------------------------------------------------------------
(* The two checks of the capacity, and the two writes that follow them     *)

\* What a check that passed has established.
LEMMA FitsCapacity ==
    ASSUME None \notin Capacities, NEW rules \in Rules, NEW excluded,
           NEW seats \in Nat, fits(rules, excluded, seats)
    PROVE  sumConfirmedSeats(excluded) + seats <= MaxCapacity
<1>1. rules.capacity \in Nat /\ rules.capacity <= MaxCapacity
  BY EventAssumption, BookingAssumption DEF Rules
<1>2. sumConfirmedSeats(excluded) + seats <= rules.capacity
  BY DEF fits
<1>3. sumConfirmedSeats(excluded) \in Nat /\ MaxCapacity \in Nat
  BY HeldClaimsBound, ConstantsFinite
<1> QED BY <1>1, <1>2, <1>3

LEMMA CreateSumOverbooking ==
    ASSUME Inv, None \notin Capacities, NEW r \in Requests, CreateSum(r)
    PROVE  OverbookingInv'
<1>1. /\ req[r] \in Local /\ req[r].rules \in Rules
      /\ req[r].seats \in Nat /\ UNCHANGED bookings
  BY ResumeOK, BookingAssumption DEF CreateSum, LocalOK, Local, SeatCounts
<1> DEFINE l == [req[r] EXCEPT !.pc = "create:save", !.rules = None]
           own == {"request"} \X {r} \X (1 .. req[r].seats)
<1>2. \A q \in Requests : req'[q] = IF q = r THEN l ELSE req[q]
  BY DEF CreateSum, gotoWrite, Inv, TypeOK
<1>3. l.pc = "create:save" /\ l.seats = req[r].seats
  BY <1>1 DEF Local
<1> HIDE DEF l
<1>4. ASSUME NEW c \in seatClaims'
      PROVE  c \in heldClaims(None) \cup own \cup otherClaims(r)
  <2>0. c \in Claims /\ c = <<c[1], c[2], c[3]>>
    BY <1>4, SeatClaimsType DEF Claims
  <2>1. CASE /\ c \in {"booking"} \X BookingIds \X (1 .. MaxSeats)
             /\ confirmed(c[2]) /\ c[3] <= bookings[c[2]].seats
    <3>1. <<c[2], c[3]>> \in confirmedSeats(None)
      BY <2>1, NoneFacts DEF confirmedSeats
    <3>2. c = <<"booking", c[2], c[3]>>
      BY <2>0, <2>1
    <3>3. c = <<"booking", <<c[2], c[3]>>[1], <<c[2], c[3]>>[2]>>
      BY <3>2
    <3> QED BY <3>1, <3>3 DEF heldClaims
  <2>2. CASE /\ c \in {"booking"} \X BookingIds \X (1 .. MaxSeats)
             /\ \E q \in Requests : /\ req'[q].pc = "update:write"
                                     /\ req'[q].booking = c[2]
                                     /\ c[3] <= req'[q].seats
    <3>1. \E q \in Requests \ {r} : /\ req[q].pc = "update:write"
                                     /\ c[2] = req[q].booking
      BY <1>2, <1>3, <2>2
    <3> QED BY <2>0, <2>2, <3>1 DEF otherClaims
  <2>3. CASE /\ c \in {"request"} \X Requests \X (1 .. MaxSeats)
             /\ req'[c[2]].pc = "create:save" /\ c[3] <= req'[c[2]].seats
    <3>1. CASE c[2] = r
      BY <1>1, <1>2, <1>3, <2>0, <2>3, <3>1
    <3>2. CASE c[2] # r
      <4>1. c[2] \in Requests \ {r} /\ req[c[2]].pc = "create:save"
        BY <1>2, <2>3, <3>2
      <4> QED BY <2>0, <2>3, <4>1 DEF otherClaims
    <3> QED BY <3>1, <3>2
  <2> QED BY <1>1, <1>4, <2>1, <2>2, <2>3 DEF seatClaims, confirmed
<1>5. sumConfirmedSeats(None) + req[r].seats <= MaxCapacity
  BY <1>1, FitsCapacity DEF CreateSum
<1> QED BY <1>1, <1>4, <1>5, CheckedClaims

LEMMA UpdateSumOverbooking ==
    ASSUME Inv, OverbookingInv, None \notin Capacities, NEW r \in Requests, UpdateSum(r)
    PROVE  OverbookingInv'
<1>1. /\ req[r] \in Local /\ req[r].rules \in Rules /\ req[r].booking \in BookingIds
      /\ req[r].seats \in Nat /\ UNCHANGED bookings
  BY ResumeOK, BookingAssumption DEF UpdateSum, LocalOK, UpdatePcs, Local, SeatCounts
<1> DEFINE b == req[r].booking
           l == [req[r] EXCEPT !.pc = "update:write", !.rules = None]
           own == {"booking"} \X {b} \X (1 .. req[r].seats)
<1>2. \A q \in Requests : req'[q] = IF q = r THEN l ELSE req[q]
  BY DEF UpdateSum, gotoWrite, Inv, TypeOK
<1>3. l.pc = "update:write" /\ l.seats = req[r].seats /\ l.booking = b
  BY <1>1 DEF Local
<1> HIDE DEF l
<1>4. CASE confirmed(b) /\ req[r].seats <= bookings[b].seats
  <2>1. ASSUME NEW c \in seatClaims' PROVE c \in seatClaims
    <3>0. c \in Claims /\ c = <<c[1], c[2], c[3]>>
      BY <2>1, SeatClaimsType DEF Claims
    <3>1. CASE /\ c \in {"booking"} \X BookingIds \X (1 .. MaxSeats)
               /\ confirmed(c[2]) /\ c[3] <= bookings[c[2]].seats
      BY <3>1 DEF seatClaims
    <3>2. CASE /\ c \in {"booking"} \X BookingIds \X (1 .. MaxSeats)
               /\ \E q \in Requests : /\ req'[q].pc = "update:write"
                                       /\ req'[q].booking = c[2]
                                       /\ c[3] <= req'[q].seats
      <4>1. PICK q \in Requests : /\ req'[q].pc = "update:write"
                                  /\ req'[q].booking = c[2] /\ c[3] <= req'[q].seats
        BY <3>2
      <4>2. CASE q = r
        <5>1. c[2] = b /\ c[3] <= req[r].seats
          BY <1>2, <1>3, <4>1, <4>2
        <5>2. c[3] \in Nat /\ bookings[b].seats \in Nat
          BY <1>1, <3>2, BookingAssumption
             DEF Inv, TypeOK, Booking, Absent, Removed
        <5>3. c[3] <= bookings[c[2]].seats
          BY <1>1, <1>4, <5>1, <5>2
        <5> QED BY <1>4, <3>2, <5>1, <5>3 DEF seatClaims
      <4>3. CASE q # r
        BY <1>2, <3>2, <4>1, <4>3 DEF seatClaims
      <4> QED BY <4>2, <4>3
    <3>3. CASE /\ c \in {"request"} \X Requests \X (1 .. MaxSeats)
               /\ req'[c[2]].pc = "create:save" /\ c[3] <= req'[c[2]].seats
      BY <1>2, <1>3, <3>3 DEF seatClaims
    <3> QED BY <1>1, <2>1, <3>1, <3>2, <3>3 DEF seatClaims, confirmed
  <2> QED BY <2>1, NoNewClaim
<1>5. CASE ~ (confirmed(b) /\ req[r].seats <= bookings[b].seats)
  <2>1. ASSUME NEW c \in seatClaims'
        PROVE  c \in heldClaims(b) \cup own \cup otherClaims(r)
    <3>0. c \in Claims /\ c = <<c[1], c[2], c[3]>>
      BY <2>1, SeatClaimsType DEF Claims
    <3>1. CASE /\ c \in {"booking"} \X BookingIds \X (1 .. MaxSeats)
               /\ confirmed(c[2]) /\ c[3] <= bookings[c[2]].seats
      <4>1. CASE c[2] = b
        <5>1. c[3] \in Nat /\ c[3] >= 1 /\ bookings[b].seats \in Nat
          BY <1>1, <3>1, BookingAssumption
             DEF Inv, TypeOK, Booking, Absent, Removed
        <5>2. c[3] <= req[r].seats
          BY <1>1, <1>5, <3>1, <4>1, <5>1
        <5>3. c[3] \in 1 .. req[r].seats
          BY <1>1, <5>1, <5>2
        <5> QED BY <3>0, <3>1, <4>1, <5>3
      <4>2. CASE c[2] # b
        <5>1. <<c[2], c[3]>> \in confirmedSeats(b)
          BY <3>1, <4>2 DEF confirmedSeats
        <5>2. c = <<"booking", c[2], c[3]>>
          BY <3>0, <3>1
        <5>3. c = <<"booking", <<c[2], c[3]>>[1], <<c[2], c[3]>>[2]>>
          BY <5>2
        <5> QED BY <5>1, <5>3 DEF heldClaims
      <4> QED BY <4>1, <4>2
    <3>2. CASE /\ c \in {"booking"} \X BookingIds \X (1 .. MaxSeats)
               /\ \E q \in Requests : /\ req'[q].pc = "update:write"
                                       /\ req'[q].booking = c[2]
                                       /\ c[3] <= req'[q].seats
      <4>1. PICK q \in Requests : /\ req'[q].pc = "update:write"
                                  /\ req'[q].booking = c[2] /\ c[3] <= req'[q].seats
        BY <3>2
      <4>2. CASE q = r
        <5>1. c[2] = b /\ c[3] \in 1 .. req[r].seats
          BY <1>1, <1>2, <1>3, <3>2, <4>1, <4>2
        <5> QED BY <3>0, <3>2, <5>1
      <4>3. CASE q # r
        <5>1. \E p \in Requests \ {r} : /\ req[p].pc = "update:write"
                                         /\ c[2] = req[p].booking
          BY <1>2, <4>1, <4>3
        <5> QED BY <3>0, <3>2, <5>1 DEF otherClaims
      <4> QED BY <4>2, <4>3
    <3>3. CASE /\ c \in {"request"} \X Requests \X (1 .. MaxSeats)
               /\ req'[c[2]].pc = "create:save" /\ c[3] <= req'[c[2]].seats
      <4>1. c[2] \in Requests \ {r} /\ req[c[2]].pc = "create:save"
        BY <1>2, <1>3, <3>3
      <4> QED BY <3>0, <3>3, <4>1 DEF otherClaims
    <3> QED BY <1>1, <2>1, <3>1, <3>2, <3>3 DEF seatClaims, confirmed
  <2>2. sumConfirmedSeats(b) + req[r].seats <= MaxCapacity
    BY <1>1, FitsCapacity DEF UpdateSum
  <2> HIDE DEF b
  <2> QED BY <1>1, <2>1, <2>2, CheckedClaims
<1> QED BY <1>4, <1>5

\* The insert turns the claims of the request into those of its booking.
LEMMA CreateSaveOverbooking ==
    ASSUME Inv, OverbookingInv, NEW r \in Requests, CreateSave(r)
    PROVE  OverbookingInv'
<1>1. PICK b \in BookingIds :
        /\ bookings[b] = Absent
        /\ bookings' = [bookings EXCEPT ![b] =
                [status |-> "confirmed", user |-> req[r].user,
                 seats |-> req[r].seats]]
  BY DEF CreateSave
<1>2. \A c \in BookingIds : bookings'[c] = IF c = b
                THEN [status |-> "confirmed", user |-> req[r].user,
                      seats |-> req[r].seats]
                ELSE bookings[c]
  BY <1>1 DEF Inv, TypeOK
<1>3. \A q \in Requests : req'[q] = IF q = r THEN Idle ELSE req[q]
  BY DEF CreateSave, finish, Inv, TypeOK
<1>4. \A q \in Requests : req[q].pc = "update:write" => req[q].booking # b
  BY <1>1 DEF Inv, LocalsOK, LocalOK, UpdatePcs
<1> DEFINE f == [c \in seatClaims |-> IF c[1] = "request" /\ c[2] = r
                                      THEN <<"booking", b, c[3]>> ELSE c]
<1>5. ASSUME NEW c \in seatClaims' PROVE \E d \in seatClaims : f[d] = c
  <2>0. c \in Claims /\ c = <<c[1], c[2], c[3]>> /\ c[3] \in 1 .. MaxSeats
    BY <1>5, SeatClaimsType DEF Claims
  <2>1. CASE c[1] = "booking" /\ c[2] = b
    <3> DEFINE d == <<"request", r, c[3]>>
    <3>1. c[3] <= req[r].seats
      BY <1>2, <1>3, <1>4, <1>5, <2>1 DEF seatClaims, confirmed, Idle
    <3>2. d \in seatClaims
      BY <2>0, <3>1 DEF seatClaims, CreateSave
    <3>3. f[d] = <<"booking", b, c[3]>>
      BY <3>2
    <3> HIDE DEF d, f
    <3> QED BY <2>0, <2>1, <3>2, <3>3
  <2>2. CASE c[1] = "booking" /\ c[2] # b
    <3>1. c \in seatClaims
      BY <1>2, <1>3, <1>5, <2>2 DEF seatClaims, confirmed, Idle
    <3>2. f[c] = c
      BY <2>2, <3>1
    <3> HIDE DEF f
    <3> QED BY <3>1, <3>2
  <2>3. CASE c[1] = "request"
    <3>1. c[2] # r /\ c \in seatClaims
      BY <1>3, <1>5, <2>3 DEF seatClaims, Idle
    <3>2. f[c] = c
      BY <3>1
    <3> HIDE DEF f
    <3> QED BY <3>1, <3>2
  <2> QED BY <2>0, <2>1, <2>2, <2>3 DEF Claims
<1> HIDE DEF f
<1>6. Cardinality(seatClaims') <= Cardinality(seatClaims)
  BY <1>5, SeatClaimsType, Covered
<1>7. MaxCapacity + (Cardinality(Requests) - 1) * MaxSeats \in Nat
  BY ConstantsFinite, SlackType
<1>8. (OverbookingInv)' <=>
        (None \notin Capacities =>
            Cardinality(seatClaims')
                <= MaxCapacity + (Cardinality(Requests) - 1) * MaxSeats)
  BY DEF OverbookingInv
<1> QED BY <1>6, <1>7, <1>8, SeatClaimsType DEF OverbookingInv

\* The seats an update stores were claimed when it passed its check.
LEMMA UpdateWriteOverbooking ==
    ASSUME Inv, OverbookingInv, NEW r \in Requests, UpdateWrite(r)
    PROVE  OverbookingInv'
<1>1. /\ req[r].pc = "update:write" /\ req[r].booking \in BookingIds
      /\ update(req[r].booking, req[r].seats, req[r].found.status)
  BY ResumeOK DEF UpdateWrite, LocalOK, UpdatePcs
<1>2. \A q \in Requests : req'[q] = IF q = r THEN Idle ELSE req[q]
  BY DEF UpdateWrite, finish, Inv, TypeOK
<1>3. ASSUME NEW b \in BookingIds, bookings'[b] # bookings[b]
      PROVE  b = req[r].booking /\ bookings'[b].seats = req[r].seats
  <2>1. stored(b) /\ b = req[r].booking
    BY <1>1, <1>3 DEF update, Inv, TypeOK
  <2>2. bookings[b] \in [status : {"confirmed", "cancelled"}, user : Users,
                         seats : 1 .. MaxSeats]
    BY <2>1 DEF stored, Booking, Absent, Removed, Inv, TypeOK
  <2>3. bookings' = [bookings EXCEPT ![b] = [bookings[b] EXCEPT
                          !.seats = req[r].seats, !.status = req[r].found.status]]
    BY <1>1, <2>1 DEF update
  <2> QED BY <2>1, <2>2, <2>3 DEF Inv, TypeOK
<1>4. ASSUME NEW c \in seatClaims' PROVE c \in seatClaims
  <2>1. CASE /\ c \in {"booking"} \X BookingIds \X (1 .. MaxSeats)
             /\ confirmed(c[2])' /\ c[3] <= bookings'[c[2]].seats
    <3>1. CASE bookings'[c[2]] = bookings[c[2]]
      BY <2>1, <3>1 DEF seatClaims, confirmed
    <3>2. CASE bookings'[c[2]] # bookings[c[2]]
      <4>1. c[2] = req[r].booking /\ c[3] <= req[r].seats
        BY <1>3, <2>1, <3>2
      <4> QED BY <1>1, <2>1, <4>1 DEF seatClaims
    <3> QED BY <3>1, <3>2
  <2>2. CASE /\ c \in {"booking"} \X BookingIds \X (1 .. MaxSeats)
             /\ \E q \in Requests : /\ req'[q].pc = "update:write"
                                     /\ req'[q].booking = c[2]
                                     /\ c[3] <= req'[q].seats
    BY <1>2, <2>2 DEF seatClaims, Idle
  <2>3. CASE /\ c \in {"request"} \X Requests \X (1 .. MaxSeats)
             /\ req'[c[2]].pc = "create:save" /\ c[3] <= req'[c[2]].seats
    BY <1>2, <2>3 DEF seatClaims, Idle
  <2> QED BY <1>4, <2>1, <2>2, <2>3 DEF seatClaims
<1> QED BY <1>4, NoNewClaim

-----------------------------------------------------------------------------
(* The steps that claim nothing                                            *)

\* The moves of the create and of the update before their checks: with every
\* capacity limited, none of them goes straight to its write.
LEMMA MovesOverbooking ==
    ASSUME Inv, OverbookingInv, None \notin Capacities, NEW r \in Requests,
           \/ CreateFindEvent(r) \/ CreateFindExisting(r)
           \/ UpdateFindBooking(r) \/ UpdateFindEvent(r)
    PROVE  OverbookingInv'
<1>0. req[r] \in Local /\ LocalOK(req[r], bookings)
  BY ResumeOK
<1>1. CASE CreateFindEvent(r)
  <2>1. PICK u \in Users, seats \in SeatCounts :
            req' = [req EXCEPT ![r] = [Idle EXCEPT !.pc = "create:existing",
                        !.user = u, !.seats = seats, !.rules = rulesOf(event)]]
    BY <1>1 DEF CreateFindEvent
  <2> DEFINE l == [Idle EXCEPT !.pc = "create:existing",
                        !.user = u, !.seats = seats, !.rules = rulesOf(event)]
  <2>2. l.pc = "create:existing" /\ req' = [req EXCEPT ![r] = l]
    BY <2>1 DEF Idle
  <2> HIDE DEF l
  <2> QED BY <1>1, <2>2, MoveClaims DEF CreateFindEvent
<1>2. CASE CreateFindExisting(r)
  <2> DEFINE l == [req[r] EXCEPT !.pc = "create:sum"]
  <2>1. req[r].rules.capacity # None
    BY <1>0, <1>2 DEF CreateFindExisting, LocalOK, Rules
  <2>2. req' = [req EXCEPT ![r] = l]
    BY <1>2, <2>1 DEF CreateFindExisting, goto, Inv, TypeOK
  <2>3. l.pc = "create:sum"
    BY <1>0 DEF Local
  <2> HIDE DEF l
  <2> QED BY <1>2, <2>2, <2>3, MoveClaims DEF CreateFindExisting
<1>3. CASE UpdateFindBooking(r)
  <2>1. PICK b \in BookingIds, u \in Users, seats \in SeatCounts :
            req' = [req EXCEPT ![r] = [Idle EXCEPT !.pc = "update:event",
                        !.user = u, !.booking = b, !.found = bookings[b],
                        !.seats = seats]]
    BY <1>3 DEF UpdateFindBooking
  <2> DEFINE l == [Idle EXCEPT !.pc = "update:event", !.user = u,
                        !.booking = b, !.found = bookings[b], !.seats = seats]
  <2>2. l.pc = "update:event" /\ req' = [req EXCEPT ![r] = l]
    BY <2>1 DEF Idle
  <2> HIDE DEF l
  <2> QED BY <1>3, <2>2, MoveClaims DEF UpdateFindBooking
<1>4. CASE UpdateFindEvent(r)
  <2> DEFINE l == [req[r] EXCEPT !.user = None, !.pc = "update:sum",
                                 !.rules = rulesOf(event)]
  <2>1. event.capacity # None
    BY DEF Inv, TypeOK, EventTypeOK, Event
  <2>2. req' = [req EXCEPT ![r] = l]
    BY <1>4, <2>1 DEF UpdateFindEvent
  <2>3. l.pc = "update:sum"
    BY <1>0 DEF Local
  <2> HIDE DEF l
  <2> QED BY <1>4, <2>2, <2>3, MoveClaims DEF UpdateFindEvent
<1> QED BY <1>1, <1>2, <1>3, <1>4

\* A cancellation confirms nothing.
LEMMA CancelOverbooking ==
    ASSUME Inv, OverbookingInv, NEW r \in Requests,
           \/ CancelFindBooking(r) \/ CancelFindEvent(r)
           \/ CancelWrite(r) \/ CancelNotify(r)
    PROVE  OverbookingInv'
<1>1. CASE CancelFindBooking(r)
  <2>1. PICK b \in BookingIds, u \in Users :
            req' = [req EXCEPT ![r] = [Idle EXCEPT !.pc = "cancel:event",
                        !.user = u, !.booking = b, !.found = bookings[b]]]
    BY <1>1 DEF CancelFindBooking
  <2> DEFINE l == [Idle EXCEPT !.pc = "cancel:event", !.user = u,
                        !.booking = b, !.found = bookings[b]]
  <2>2. l.pc = "cancel:event" /\ req' = [req EXCEPT ![r] = l]
    BY <2>1 DEF Idle
  <2> HIDE DEF l
  <2> QED BY <1>1, <2>2, MoveClaims DEF CancelFindBooking
<1>2. ASSUME NEW pc \in CancelPcs, goto(r, pc),
             \A b \in BookingIds :
                 bookings'[b] = bookings[b] \/ bookings'[b].status # "confirmed"
      PROVE  OverbookingInv'
  <2> DEFINE l == [req[r] EXCEPT !.pc = pc]
  <2>1. req' = [req EXCEPT ![r] = l]
    BY <1>2 DEF goto, Inv, TypeOK
  <2>2. l.pc = pc /\ pc \notin {"update:write", "create:save"}
    BY <1>2, ResumeOK DEF Local, CancelPcs
  <2> HIDE DEF l
  <2> QED BY <1>2, <2>1, <2>2, MoveClaims
<1>3. CASE CancelFindEvent(r)
  BY <1>2, <1>3 DEF CancelFindEvent, CancelPcs
<1>4. CASE CancelWrite(r)
  <2>1. ASSUME NEW b \in BookingIds, bookings'[b] # bookings[b]
        PROVE  bookings'[b].status = "cancelled"
    <3>1. /\ stored(b)
          /\ bookings' = [bookings EXCEPT ![b] = [bookings[b] EXCEPT
                              !.seats = req[r].found.seats, !.status = "cancelled"]]
      BY <1>4, <2>1 DEF CancelWrite, update, Inv, TypeOK
    <3>2. bookings[b] \in [status : {"confirmed", "cancelled"}, user : Users,
                           seats : 1 .. MaxSeats]
      BY <3>1 DEF stored, Booking, Absent, Removed, Inv, TypeOK
    <3> QED BY <3>1, <3>2 DEF Inv, TypeOK
  <2>2. CASE finish(r)
    BY <2>1, <2>2, MoveClaims DEF finish, Idle
  <2>3. CASE goto(r, "cancel:notify")
    BY <1>2, <2>1, <2>3 DEF CancelPcs
  <2> QED BY <1>4, <2>2, <2>3 DEF CancelWrite
<1>5. CASE CancelNotify(r)
  BY <1>5, MoveClaims DEF CancelNotify, finish, Idle
<1> QED BY <1>1, <1>3, <1>4, <1>5

LEMMA DeleteEventOverbooking ==
    ASSUME Inv, OverbookingInv, NEW r \in Requests,
           DeleteFindEvent(r) \/ deleteManyByEventIds(r) \/ DeleteEventDocument(r)
    PROVE  OverbookingInv'
<1>1. CASE DeleteFindEvent(r)
  <2> DEFINE l == [Idle EXCEPT !.pc = "delete:bookings", !.user = Organiser]
  <2>1. l.pc = "delete:bookings" /\ req' = [req EXCEPT ![r] = l]
    BY <1>1 DEF DeleteFindEvent, Idle
  <2> HIDE DEF l
  <2> QED BY <1>1, <2>1, MoveClaims DEF DeleteFindEvent
<1>2. CASE deleteManyByEventIds(r)
  <2> DEFINE l == [req[r] EXCEPT !.pc = "delete:event"]
  <2>1. \A b \in BookingIds :
          bookings'[b] = bookings[b] \/ bookings'[b].status # "confirmed"
    BY <1>2 DEF deleteManyByEventIds, deleteMany, Removed
  <2>2. l.pc = "delete:event" /\ req' = [req EXCEPT ![r] = l]
    BY <1>2, ResumeOK DEF deleteManyByEventIds, goto, Local, Inv, TypeOK
  <2> HIDE DEF l
  <2> QED BY <2>1, <2>2, MoveClaims
<1>3. CASE DeleteEventDocument(r)
  BY <1>3, MoveClaims DEF DeleteEventDocument, finish, Idle
<1> QED BY <1>1, <1>2, <1>3

LEMMA NextOverbooking == Inv /\ OverbookingInv /\ [Next]_vars => OverbookingInv'
<1> SUFFICES ASSUME Inv, OverbookingInv, [Next]_vars PROVE OverbookingInv'
  OBVIOUS
<1>1. CASE None \in Capacities
  BY <1>1 DEF OverbookingInv
<1>2. CASE None \notin Capacities
  <2>1. ASSUME NEW r \in Requests, RequestStep(r) PROVE OverbookingInv'
    <3>1. CASE RequestFail(r)
      BY <3>1, MoveClaims DEF RequestFail, finish, Idle
    <3> QED BY <1>2, <2>1, <3>1, MovesOverbooking, CreateSumOverbooking,
               CreateSaveOverbooking, UpdateSumOverbooking, UpdateWriteOverbooking,
               CancelOverbooking, DeleteEventOverbooking DEF RequestStep
  <2>2. ASSUME NEW u \in Users, deleteManyByUserId(u) PROVE OverbookingInv'
    BY <2>2, NothingConfirmed DEF deleteManyByUserId, deleteMany, Removed
  <2>3. CASE UNCHANGED bookingVars
    BY <2>3, NothingConfirmed DEF bookingVars
  <2> QED BY <2>1, <2>2, <2>3 DEF Next, EditStep, BackgroundStep, vars, bookingVars
<1> QED BY <1>1, <1>2

-----------------------------------------------------------------------------

\* When every event is limited, the confirmed seats never exceed the largest
\* capacity by more than one full booking per additional request in flight,
\* whatever the interleaving (CreateEventBooking:76-93, UpdateEventBooking:63-76).
THEOREM OverbookingBound == Spec => []OverbookingBounded
<1>1. OverbookingInv => OverbookingBounded
  <2> SUFFICES ASSUME OverbookingInv, None \notin Capacities
               PROVE  sumConfirmedSeats(None)
                        <= MaxCapacity + (Cardinality(Requests) - 1) * MaxSeats
    BY DEF OverbookingBounded
  <2> DEFINE f == [c \in seatClaims |-> <<c[2], c[3]>>]
  <2>1. ASSUME NEW s \in confirmedSeats(None) PROVE \E c \in seatClaims : f[c] = s
    <3>1. s = <<s[1], s[2]>> /\ <<"booking", s[1], s[2]>> \in seatClaims
      BY <2>1 DEF confirmedSeats, seatClaims
    <3>2. f[<<"booking", s[1], s[2]>>] = <<s[1], s[2]>>
      BY <3>1
    <3> HIDE DEF f
    <3> QED BY <3>1, <3>2
  <2> HIDE DEF f
  <2>2. Cardinality(confirmedSeats(None)) <= Cardinality(seatClaims)
    BY <2>1, SeatClaimsType, Covered
  <2>3. Cardinality(seatClaims)
            <= MaxCapacity + (Cardinality(Requests) - 1) * MaxSeats
    BY DEF OverbookingInv
  <2>4. /\ sumConfirmedSeats(None) \in Nat /\ Cardinality(seatClaims) \in Nat
        /\ MaxCapacity + (Cardinality(Requests) - 1) * MaxSeats \in Nat
    BY HeldClaimsBound, SeatClaimsType, ConstantsFinite, SlackType
  <2> QED BY <2>2, <2>3, <2>4 DEF sumConfirmedSeats
<1> QED BY <1>1, InitInv, NextInv, InitOverbooking, NextOverbooking, PTL DEF Spec

\* With one request at a time, the event is never booked beyond the largest
\* capacity it may have.
THEOREM NeverOverbookedAlone ==
    ASSUME Cardinality(Requests) = 1, None \notin Capacities
    PROVE  Spec => [](sumConfirmedSeats(None) <= MaxCapacity)
<1>1. OverbookingBounded => sumConfirmedSeats(None) <= MaxCapacity
  <2>1. (Cardinality(Requests) - 1) * MaxSeats = 0
    BY ConstantsFinite
  <2> QED BY <2>1, HeldClaimsBound, ConstantsFinite DEF OverbookingBounded
<1> QED BY <1>1, OverbookingBound, PTL

-----------------------------------------------------------------------------
(* The requests served one at a time                                       *)
(*                                                                         *)
(* What a handler has read still holds when it writes, so that each        *)
(* handler is one operation of BookingLedger, and the promises of the      *)
(* ledger are those of the code.                                           *)

\* An edit under way writes back the state of the event in view that it read.
EditsLive == \A r \in Requests : edits[r] # None => edits[r].state = "live"

\* What the steps of a handler that runs alone rely on.
SerialInv == Inv /\ DuplicatesInv /\ EditsLive /\ AloneInv

-----------------------------------------------------------------------------
(* Operators                                                               *)

LEMMA SeatsFinite ==
    ASSUME NEW x
    PROVE  IsFiniteSet(confirmedSeats(x)) /\ sumConfirmedSeats(x) \in Nat
<1>1. IsFiniteSet(BookingIds \X (1 .. MaxSeats))
  BY ConstantsFinite, FS_Product
<1>2. confirmedSeats(x) \subseteq BookingIds \X (1 .. MaxSeats)
  BY DEF confirmedSeats
<1> QED BY <1>1, <1>2, FS_Subset, FS_CardinalityType DEF sumConfirmedSeats

LEMMA SeatsFiniteNext ==
    ASSUME NEW x
    PROVE  IsFiniteSet(confirmedSeats(x)') /\ sumConfirmedSeats(x)' \in Nat
<1>1. IsFiniteSet(BookingIds \X (1 .. MaxSeats))
  BY ConstantsFinite, FS_Product
<1>2. confirmedSeats(x)' \subseteq BookingIds \X (1 .. MaxSeats)
  BY DEF confirmedSeats
<1> QED BY <1>1, <1>2, FS_Subset, FS_CardinalityType DEF sumConfirmedSeats

\* A step that confirms nothing and adds no seat takes no seat.
LEMMA FewerSeats ==
    ASSUME NEW x,
           \A b \in BookingIds : bookings'[b].status = "confirmed" =>
               /\ bookings[b].status = "confirmed"
               /\ bookings'[b].seats = bookings[b].seats
    PROVE  sumConfirmedSeats(x)' <= sumConfirmedSeats(x)
<1>1. confirmedSeats(x)' \subseteq confirmedSeats(x)
  BY DEF confirmedSeats, confirmed
<1> QED BY <1>1, SeatsFinite, FS_Subset DEF sumConfirmedSeats

\* One request at a time, a confirmed booking is the only one of its holder.
LEMMA OnlyBooking ==
    ASSUME DuplicatesInv, NEW r, Requests = {r}, NEW u \in Users,
           NEW b \in findConfirmedByEventAndUser(u)
    PROVE  findConfirmedByEventAndUser(u) \subseteq {b}
<1>1. Cardinality(Requests) = 1
  BY FS_Singleton
<1>2. findConfirmedByEventAndUser(u) \subseteq heldOrRevivable(u)
  BY DEF findConfirmedByEventAndUser, heldOrRevivable
<1>3. Cardinality(heldOrRevivable(u)) <= 1
  <2>1. Cardinality(heldOrRevivable(u)) + Cardinality(mayCreate(u)) <= 1
    BY <1>1 DEF DuplicatesInv
  <2> QED BY <2>1, ClaimsFinite
<1>4. ASSUME NEW c \in findConfirmedByEventAndUser(u), c # b PROVE FALSE
  <2>1. {b, c} \subseteq heldOrRevivable(u)
    BY <1>2, <1>4
  <2>2. Cardinality({b, c}) = 2
    <3>1. {b, c} = {b} \cup {c} /\ c \notin {b}
      BY <1>4
    <3>2. IsFiniteSet({b}) /\ Cardinality({b}) = 1
      BY FS_Singleton
    <3>3. Cardinality({b} \cup {c}) = 1 + 1
      BY <3>1, <3>2, FS_AddElement
    <3> QED BY <3>1, <3>3
  <2>3. Cardinality({b, c}) <= Cardinality(heldOrRevivable(u))
    BY <2>1, ClaimsFinite, FS_Subset
  <2> QED BY <1>3, <2>2, <2>3, ClaimsFinite
<1> QED BY <1>4

-----------------------------------------------------------------------------
(* A handler that runs alone                                               *)

LEMMA InitAlone == Init => AloneInv
BY DEF Init, EventInit, CreatedEvents, AloneInv, AloneOK, NoOrphanBooking, Idle,
       CreatePcs, UpdatePcs, CancelPcs, Absent, stored

\* A free slot relies on nothing.
LEMMA FinishAlone ==
    ASSUME NEW r, Requests = {r}, req'[r] = Idle, NoOrphanBooking'
    PROVE  AloneInv'
BY DEF AloneInv, AloneOK, Idle, CreatePcs, UpdatePcs, CancelPcs

\* A handler that reads, and goes on with l.
LEMMA MoveAlone ==
    ASSUME AloneInv, NEW r, Requests = {r}, UNCHANGED <<eventVars, bookings>>,
           req \in [Requests -> Local], edits[r] = None,
           NEW l, req' = [req EXCEPT ![r] = l], AloneOK(l)
    PROVE  AloneInv'
<1>1. req'[r] = l /\ edits'[r] = None /\ event' = event
  BY DEF eventVars
<1>2. NoOrphanBooking'
  BY <1>1 DEF AloneInv, NoOrphanBooking, stored
<1>3. AloneOK(req[r])'
  BY <1>1 DEF AloneOK, findConfirmedByEventAndUser, confirmed, stored, hasRoom,
              fits, sumConfirmedSeats, confirmedSeats
<1> QED BY <1>1, <1>2, <1>3 DEF AloneInv

\* Steps beside the handler: they may remove bookings, close the event and hide
\* it, and nothing else the handler relies on changes.
LEMMA BesideAlone ==
    ASSUME Inv, AloneInv, NEW r, Requests = {r}, UNCHANGED req,
           req[r] # Idle => edits'[r] = None,
           rulesOf(event') = rulesOf(event), event'.state = "gone" <=> event.state = "gone",
           \A b \in BookingIds : bookings'[b] \in {bookings[b], Removed}
    PROVE  AloneInv'
<1>1. /\ event'.capacity = event.capacity /\ event'.maxSeats = event.maxSeats
      /\ req'[r] = req[r]
  BY DEF rulesOf
<1>2. \A x : sumConfirmedSeats(x)' <= sumConfirmedSeats(x)
  BY FewerSeats DEF Removed
<1>3. \A u : findConfirmedByEventAndUser(u)' \subseteq findConfirmedByEventAndUser(u)
  BY DEF findConfirmedByEventAndUser, confirmed, Removed
<1>4. \A b \in BookingIds : stored(b)' => stored(b)
  BY DEF stored, Removed
<1>5. NoOrphanBooking'
  BY <1>4 DEF AloneInv, NoOrphanBooking
<1>6. AloneOK(req[r]) /\ req[r] \in Local /\ LocalOK(req[r], bookings)
  BY ResumeOK DEF AloneInv
<1>7. ASSUME NEW x, hasRoom(x, req[r].seats) PROVE hasRoom(x, req[r].seats)'
  <2>1. /\ sumConfirmedSeats(x)' <= sumConfirmedSeats(x)
        /\ sumConfirmedSeats(x) \in Nat /\ sumConfirmedSeats(x)' \in Nat
        /\ req[r].seats \in Nat
    BY <1>2, <1>6, SeatsFinite, SeatsFiniteNext DEF Local, SeatCounts
  <2>2. event.capacity # None => event.capacity \in Nat
    BY EventAssumption DEF Inv, TypeOK, EventTypeOK, Event
  <2> QED BY <1>1, <1>7, <2>1, <2>2 DEF hasRoom, fits, rulesOf
<1>8. AloneOK(req[r])'
  <2>1. req[r].pc \in UpdatePcs \cup {"cancel:event", "cancel:write"}
          => bookings'[req[r].booking] \in {req[r].found, Removed}
    BY <1>6 DEF AloneOK, LocalOK, UpdatePcs, CancelPcs
  <2> QED BY <1>1, <1>3, <1>4, <1>6, <1>7, <2>1
          DEF AloneOK, rulesOf
<1> QED BY <1>1, <1>5, <1>8 DEF AloneInv

\* What a handler that runs alone may rely on when it resumes.
LEMMA ResumeAlone ==
    ASSUME SerialInv, NEW r, Requests = {r}
    PROVE  /\ req[r] \in Local /\ LocalOK(req[r], bookings) /\ AloneOK(req[r])
           /\ req \in [Requests -> Local] /\ NoOrphanBooking
           /\ req[r] # Idle => edits[r] = None
           /\ event \in Event /\ bookings \in [BookingIds -> Booking]
BY ResumeOK DEF SerialInv, AloneInv, Inv, TypeOK, EventTypeOK

LEMMA CreateAlone ==
    ASSUME SerialInv, NEW r, Requests = {r},
           \/ CreateFindEvent(r) \/ CreateFindExisting(r)
           \/ CreateSum(r) \/ CreateSave(r)
    PROVE  AloneInv'
<1>0. r \in Requests
  OBVIOUS
<1>1. CASE CreateFindEvent(r)
  <2>1. PICK u \in Users \ {Organiser}, seats \in SeatCounts :
            req' = [req EXCEPT ![r] = [Idle EXCEPT !.pc = "create:existing",
                        !.user = u, !.seats = seats, !.rules = rulesOf(event)]]
    BY <1>1 DEF CreateFindEvent
  <2> DEFINE l == [Idle EXCEPT !.pc = "create:existing",
                        !.user = u, !.seats = seats, !.rules = rulesOf(event)]
  <2>2. l.pc = "create:existing" /\ l.user = u /\ l.rules = rulesOf(event)
    BY DEF Idle
  <2>3. req' = [req EXCEPT ![r] = l]
    BY <2>1
  <2> HIDE DEF l
  <2>4. AloneOK(l)
    BY <1>1, <2>2 DEF AloneOK, CreateFindEvent, UpdatePcs, CancelPcs
  <2> QED BY <1>1, <2>3, <2>4, ResumeAlone, MoveAlone
          DEF SerialInv, CreateFindEvent, free
<1>2. CASE CreateFindExisting(r)
  <2>1. /\ req[r].user \in Users /\ req[r].user # Organiser /\ event.state # "gone"
        /\ findConfirmedByEventAndUser(req[r].user) = {}
        /\ req[r].rules = rulesOf(event) /\ seatsAllowed(req[r].seats, event.maxSeats)
    BY <1>2, ResumeAlone
       DEF CreateFindExisting, AloneOK, LocalOK, CreatePcs, rulesOf
  <2>2. edits[r] = None /\ UNCHANGED <<eventVars, bookings>>
    BY <1>2, ResumeAlone DEF CreateFindExisting, Idle
  <2> DEFINE unlimited == [req[r] EXCEPT !.pc = "create:save", !.rules = None]
             limited   == [req[r] EXCEPT !.pc = "create:sum"]
  <2>3. /\ unlimited.pc = "create:save" /\ limited.pc = "create:sum"
        /\ unlimited.user = req[r].user /\ unlimited.seats = req[r].seats
        /\ limited.user = req[r].user /\ limited.seats = req[r].seats
        /\ limited.rules = req[r].rules
    BY ResumeAlone DEF Local
  <2>4. CASE event.capacity = None
    <3>1. req' = [req EXCEPT ![r] = unlimited]
      <4>1. req[r].rules.capacity = None /\ req \in [Requests -> Local]
        BY <2>1, <2>4, ResumeAlone DEF rulesOf
      <4> QED BY <1>2, <4>1 DEF CreateFindExisting, gotoWrite
    <3> HIDE DEF unlimited
    <3>2. AloneOK(unlimited)
      BY <2>1, <2>3, <2>4 DEF AloneOK, hasRoom, UpdatePcs, CancelPcs
    <3> QED BY <2>2, <3>1, <3>2, ResumeAlone, MoveAlone DEF SerialInv
  <2>5. CASE event.capacity # None
    <3>1. req' = [req EXCEPT ![r] = limited]
      BY <1>2, <2>1, <2>5, ResumeAlone DEF CreateFindExisting, goto, rulesOf
    <3> HIDE DEF limited
    <3>2. AloneOK(limited)
      BY <2>1, <2>3 DEF AloneOK, UpdatePcs, CancelPcs
    <3> QED BY <2>2, <3>1, <3>2, ResumeAlone, MoveAlone DEF SerialInv
  <2> QED BY <2>4, <2>5
<1>3. CASE CreateSum(r)
  <2>1. /\ req[r].user # Organiser /\ event.state # "gone"
        /\ findConfirmedByEventAndUser(req[r].user) = {}
        /\ hasRoom(None, req[r].seats) /\ seatsAllowed(req[r].seats, event.maxSeats)
    BY <1>3, ResumeAlone DEF CreateSum, AloneOK, hasRoom, CreatePcs
  <2>2. req[r] # Idle
    BY <1>3 DEF CreateSum, Idle
  <2> DEFINE l == [req[r] EXCEPT !.pc = "create:save", !.rules = None]
  <2>3. req' = [req EXCEPT ![r] = l]
    BY <1>3, ResumeAlone DEF CreateSum, gotoWrite
  <2>4. l.pc = "create:save" /\ l.user = req[r].user /\ l.seats = req[r].seats
    BY ResumeAlone DEF Local
  <2> HIDE DEF l
  <2>5. AloneOK(l)
    BY <2>1, <2>4 DEF AloneOK, UpdatePcs, CancelPcs
  <2> QED BY <1>3, <2>2, <2>3, <2>5, ResumeAlone, MoveAlone DEF SerialInv, CreateSum
<1>4. CASE CreateSave(r)
  <2>1. event'.state # "gone"
    BY <1>4, ResumeAlone DEF CreateSave, AloneOK, CreatePcs, eventVars
  <2>2. req'[r] = Idle
    BY <1>4, ResumeAlone DEF CreateSave, finish
  <2> QED BY <2>1, <2>2, FinishAlone DEF NoOrphanBooking
<1> QED BY <1>1, <1>2, <1>3, <1>4

LEMMA UpdateAlone ==
    ASSUME SerialInv, NEW r, Requests = {r},
           \/ UpdateFindBooking(r) \/ UpdateFindEvent(r)
           \/ UpdateSum(r) \/ UpdateWrite(r)
    PROVE  AloneInv'
<1>0. r \in Requests
  OBVIOUS
<1>1. CASE UpdateFindBooking(r)
  <2>1. PICK b \in BookingIds, u \in Users, seats \in SeatCounts :
            req' = [req EXCEPT ![r] = [Idle EXCEPT !.pc = "update:event",
                        !.user = u, !.booking = b, !.found = bookings[b],
                        !.seats = seats]]
    BY <1>1 DEF UpdateFindBooking
  <2> DEFINE l == [Idle EXCEPT !.pc = "update:event", !.user = u,
                        !.booking = b, !.found = bookings[b], !.seats = seats]
  <2>2. l.pc = "update:event" /\ l.booking = b /\ l.found = bookings[b]
    BY DEF Idle
  <2>3. req' = [req EXCEPT ![r] = l]
    BY <2>1
  <2> HIDE DEF l
  <2>4. AloneOK(l)
    BY <2>2 DEF AloneOK, CreatePcs
  <2> QED BY <1>1, <2>3, <2>4, ResumeAlone, MoveAlone
          DEF SerialInv, UpdateFindBooking, free
<1>2. CASE UpdateFindEvent(r)
  <2>1. /\ bookings[req[r].booking] \in {req[r].found, Removed}
        /\ seatsAllowed(req[r].seats, event.maxSeats)
    BY <1>2, ResumeAlone DEF UpdateFindEvent, AloneOK, UpdatePcs
  <2>2. edits[r] = None /\ UNCHANGED <<eventVars, bookings>>
    BY <1>2, ResumeAlone DEF UpdateFindEvent, Idle
  <2> DEFINE limited   == [req[r] EXCEPT !.user = None, !.pc = "update:sum",
                                         !.rules = rulesOf(event)]
             unlimited == [req[r] EXCEPT !.user = None, !.pc = "update:write",
                                         !.rules = None]
  <2>3. /\ limited.pc = "update:sum" /\ unlimited.pc = "update:write"
        /\ limited.booking = req[r].booking /\ limited.found = req[r].found
        /\ unlimited.booking = req[r].booking /\ unlimited.found = req[r].found
        /\ limited.seats = req[r].seats /\ unlimited.seats = req[r].seats
        /\ limited.rules = rulesOf(event)
    BY ResumeAlone DEF Local
  <2>4. CASE event.capacity = None
    <3>1. req' = [req EXCEPT ![r] = unlimited]
      BY <1>2, <2>4 DEF UpdateFindEvent
    <3> HIDE DEF unlimited
    <3>2. AloneOK(unlimited)
      BY <2>1, <2>3, <2>4 DEF AloneOK, hasRoom, CreatePcs, CancelPcs
    <3> QED BY <2>2, <3>1, <3>2, ResumeAlone, MoveAlone DEF SerialInv
  <2>5. CASE event.capacity # None
    <3>1. req' = [req EXCEPT ![r] = limited]
      BY <1>2, <2>5 DEF UpdateFindEvent
    <3> HIDE DEF limited
    <3>2. AloneOK(limited)
      BY <2>1, <2>3 DEF AloneOK, CreatePcs, CancelPcs
    <3> QED BY <2>2, <3>1, <3>2, ResumeAlone, MoveAlone DEF SerialInv
  <2> QED BY <2>4, <2>5
<1>3. CASE UpdateSum(r)
  <2>1. /\ bookings[req[r].booking] \in {req[r].found, Removed}
        /\ hasRoom(req[r].booking, req[r].seats)
        /\ seatsAllowed(req[r].seats, event.maxSeats)
    BY <1>3, ResumeAlone DEF UpdateSum, AloneOK, hasRoom, UpdatePcs
  <2>2. req[r] # Idle
    BY <1>3 DEF UpdateSum, Idle
  <2> DEFINE l == [req[r] EXCEPT !.pc = "update:write", !.rules = None]
  <2>3. req' = [req EXCEPT ![r] = l]
    BY <1>3, ResumeAlone DEF UpdateSum, gotoWrite
  <2>4. /\ l.pc = "update:write" /\ l.booking = req[r].booking
        /\ l.found = req[r].found /\ l.seats = req[r].seats
    BY ResumeAlone DEF Local
  <2> HIDE DEF l
  <2>5. AloneOK(l)
    BY <2>1, <2>4 DEF AloneOK, CreatePcs, CancelPcs
  <2> QED BY <1>3, <2>2, <2>3, <2>5, ResumeAlone, MoveAlone DEF SerialInv, UpdateSum
<1>4. CASE UpdateWrite(r)
  <2>1. event' = event /\ req'[r] = Idle
    BY <1>4, ResumeAlone DEF UpdateWrite, eventVars, finish
  <2>2. NoOrphanBooking'
    BY <1>4, <2>1, ResumeAlone DEF UpdateWrite, update, NoOrphanBooking, stored
  <2> QED BY <2>1, <2>2, FinishAlone
<1> QED BY <1>1, <1>2, <1>3, <1>4

\* Cancelling the only booking of a user leaves the user without one.
LEMMA CancelAlone ==
    ASSUME SerialInv, NEW r, Requests = {r},
           \/ CancelFindBooking(r) \/ CancelFindEvent(r)
           \/ CancelWrite(r) \/ CancelNotify(r)
    PROVE  AloneInv'
<1>0. r \in Requests /\ req \in [Requests -> Local]
  BY ResumeAlone
<1>1. CASE CancelFindBooking(r)
  <2>1. PICK b \in BookingIds, u \in Users :
            /\ confirmed(b)
            /\ req' = [req EXCEPT ![r] = [Idle EXCEPT !.pc = "cancel:event",
                        !.user = u, !.booking = b, !.found = bookings[b]]]
    BY <1>1 DEF CancelFindBooking
  <2> DEFINE l == [Idle EXCEPT !.pc = "cancel:event", !.user = u,
                        !.booking = b, !.found = bookings[b]]
  <2>2. l.pc = "cancel:event" /\ l.booking = b /\ l.found = bookings[b]
    BY DEF Idle
  <2>3. req' = [req EXCEPT ![r] = l]
    BY <2>1
  <2>4. findConfirmedByEventAndUser(bookings[b].user) \subseteq {b}
    <3>1. bookings[b].user \in Users
      BY <2>1, ResumeAlone DEF confirmed, Booking, Absent, Removed
    <3>2. b \in findConfirmedByEventAndUser(bookings[b].user)
      BY <2>1 DEF findConfirmedByEventAndUser
    <3> QED BY <3>1, <3>2, OnlyBooking DEF SerialInv
  <2> HIDE DEF l
  <2>5. AloneOK(l)
    BY <2>2, <2>4 DEF AloneOK, CreatePcs, UpdatePcs
  <2> QED BY <1>1, <2>3, <2>5, ResumeAlone, MoveAlone
          DEF SerialInv, CancelFindBooking, free
<1>2. CASE CancelFindEvent(r)
  <2>1. /\ bookings[req[r].booking] \in {req[r].found, Removed}
        /\ findConfirmedByEventAndUser(req[r].found.user) \subseteq {req[r].booking}
    BY <1>2, ResumeAlone DEF CancelFindEvent, AloneOK, CancelPcs
  <2>2. edits[r] = None /\ UNCHANGED <<eventVars, bookings>>
    BY <1>2, ResumeAlone DEF CancelFindEvent, Idle
  <2> DEFINE l == [req[r] EXCEPT !.pc = "cancel:write"]
  <2>3. req' = [req EXCEPT ![r] = l]
    BY <1>0, <1>2 DEF CancelFindEvent, goto
  <2>4. l.pc = "cancel:write" /\ l.booking = req[r].booking /\ l.found = req[r].found
    BY ResumeAlone DEF Local
  <2> HIDE DEF l
  <2>5. AloneOK(l)
    BY <2>1, <2>4 DEF AloneOK, CreatePcs, UpdatePcs
  <2> QED BY <1>0, <2>2, <2>3, <2>5, MoveAlone DEF SerialInv
<1>3. CASE CancelWrite(r)
  <2>1. /\ bookings[req[r].booking] \in {req[r].found, Removed}
        /\ findConfirmedByEventAndUser(req[r].found.user) \subseteq {req[r].booking}
        /\ req[r].booking \in BookingIds /\ req[r].found.status = "confirmed"
        /\ bookings \in [BookingIds -> Booking] /\ edits[r] = None
    BY <1>3, ResumeAlone DEF CancelWrite, AloneOK, LocalOK, UpdatePcs, CancelPcs, Idle
  <2>2. update(req[r].booking, req[r].found.seats, "cancelled") /\ event' = event
    BY <1>3 DEF CancelWrite, eventVars
  <2>3. NoOrphanBooking'
    BY <2>2, ResumeAlone DEF update, NoOrphanBooking, stored
  <2>4. CASE finish(r)
    BY <1>0, <2>3, <2>4, FinishAlone DEF finish
  <2>5. CASE goto(r, "cancel:notify")
    <3>1. req'[r] = [req[r] EXCEPT !.pc = "cancel:notify"]
      BY <1>0, <2>5 DEF goto
    <3>2. req'[r].pc = "cancel:notify" /\ req'[r].found = req[r].found
      BY <3>1, ResumeAlone DEF Local
    <3>3. bookings'[req[r].booking].status # "confirmed"
      <4>1. CASE stored(req[r].booking)
        <5>1. bookings[req[r].booking] \in [status : {"confirmed", "cancelled"},
                                             user : Users, seats : 1 .. MaxSeats]
          BY <2>1, <4>1 DEF stored, Booking, Absent, Removed
        <5> QED BY <2>1, <2>2, <4>1, <5>1 DEF update
      <4>2. CASE ~ stored(req[r].booking)
        BY <2>2, <4>2 DEF update, stored
      <4> QED BY <4>1, <4>2
    <3>4. \A b \in BookingIds \ {req[r].booking} : bookings'[b] = bookings[b]
      BY <2>1, <2>2 DEF update
    <3>5. findConfirmedByEventAndUser(req[r].found.user)' = {}
      <4> SUFFICES ASSUME NEW b \in BookingIds, bookings'[b].status = "confirmed",
                          bookings'[b].user = req'[r].found.user
                   PROVE  FALSE
        BY DEF findConfirmedByEventAndUser, confirmed
      <4>1. b # req[r].booking
        BY <3>3
      <4> QED BY <2>1, <3>2, <3>4, <4>1 DEF findConfirmedByEventAndUser, confirmed
    <3>6. AloneOK(req[r])'
      BY <3>2, <3>5 DEF AloneOK, CreatePcs, UpdatePcs
    <3>7. edits'[r] = None
      BY <1>3, <2>1 DEF CancelWrite, eventVars
    <3> QED BY <2>3, <3>6, <3>7 DEF AloneInv
  <2> QED BY <1>3, <2>4, <2>5 DEF CancelWrite
<1>4. CASE CancelNotify(r)
  <2>1. req'[r] = Idle /\ UNCHANGED <<event, bookings>>
    BY <1>0, <1>4 DEF CancelNotify, finish, eventVars
  <2>2. NoOrphanBooking'
    BY <2>1, ResumeAlone DEF NoOrphanBooking, stored
  <2> QED BY <2>1, <2>2, FinishAlone
<1> QED BY <1>1, <1>2, <1>3, <1>4

\* The cascade removes the event when nothing is stored for it any more.
LEMMA DeleteEventAlone ==
    ASSUME SerialInv, NEW r, Requests = {r},
           DeleteFindEvent(r) \/ deleteManyByEventIds(r) \/ DeleteEventDocument(r)
    PROVE  AloneInv'
<1>0. r \in Requests /\ req \in [Requests -> Local]
  BY ResumeAlone
<1>1. CASE DeleteFindEvent(r)
  <2> DEFINE l == [Idle EXCEPT !.pc = "delete:bookings", !.user = Organiser]
  <2>1. l.pc = "delete:bookings" /\ req' = [req EXCEPT ![r] = l]
    BY <1>1 DEF DeleteFindEvent, Idle
  <2> HIDE DEF l
  <2>2. AloneOK(l)
    BY <2>1 DEF AloneOK, CreatePcs, UpdatePcs, CancelPcs
  <2> QED BY <1>0, <1>1, <2>1, <2>2, MoveAlone DEF SerialInv, DeleteFindEvent, free
<1>2. CASE deleteManyByEventIds(r)
  <2>1. \A b \in BookingIds : ~ stored(b)'
    BY <1>2 DEF deleteManyByEventIds, deleteMany, stored, Removed
  <2>2. req'[r] = [req[r] EXCEPT !.pc = "delete:event"]
    BY <1>0, <1>2 DEF deleteManyByEventIds, goto
  <2>3. req'[r].pc = "delete:event"
    BY <2>2, ResumeAlone DEF Local
  <2>4. AloneOK(req[r])'
    BY <2>1, <2>3 DEF AloneOK, CreatePcs, UpdatePcs, CancelPcs
  <2>5. edits'[r] = None
    BY <1>2, ResumeAlone DEF deleteManyByEventIds, eventVars, Idle
  <2> QED BY <2>1, <2>4, <2>5 DEF AloneInv, NoOrphanBooking
<1>3. CASE DeleteEventDocument(r)
  <2>1. \A b \in BookingIds : ~ stored(b)
    BY <1>3, ResumeAlone DEF DeleteEventDocument, AloneOK
  <2>2. req'[r] = Idle /\ bookings' = bookings
    BY <1>0, <1>3 DEF DeleteEventDocument, finish
  <2> QED BY <2>1, <2>2, FinishAlone DEF NoOrphanBooking, stored
<1> QED BY <1>1, <1>2, <1>3

\* An edit of the event runs in a slot that no handler occupies.
LEMMA EditAlone ==
    ASSUME SerialInv, NEW r, Requests = {r}, EditStep(r)
    PROVE  AloneInv'
<1>0. r \in Requests /\ req \in [Requests -> Local] /\ UNCHANGED <<bookings, req>>
  BY ResumeAlone DEF EditStep, bookingVars
<1>1. req[r] = Idle
  BY ResumeAlone DEF EditStep, free, UpdateEventWrite, UpdateEventFail
<1>2. event'.state = "gone" => event.state = "gone"
  <2>1. CASE UpdateEventWrite(r)
    <3>1. edits[r] \in Event /\ edits[r].state = "live"
      BY <1>0, <2>1 DEF SerialInv, EditsLive, Inv, TypeOK, EventTypeOK, UpdateEventWrite
    <3>2. persisted(edits[r]).state = "live"
      BY <3>1 DEF persisted, Event
    <3> QED BY <2>1, <3>1, <3>2 DEF UpdateEventWrite
  <2>2. CASE ~ UpdateEventWrite(r)
    BY <2>2 DEF EditStep, UpdateEventFind, UpdateEventFail
  <2> QED BY <2>1, <2>2
<1>3. NoOrphanBooking'
  BY <1>0, <1>2, ResumeAlone DEF NoOrphanBooking, stored
<1> QED BY <1>0, <1>1, <1>3, FinishAlone

\* Beside a handler the administrators, the cron and the clock leave the rules of
\* the event alone, and none of them removes it.
LEMMA BackgroundAlone ==
    ASSUME SerialInv, NEW r, Requests = {r}, BackgroundStep \/ UNCHANGED vars
    PROVE  AloneInv'
<1>1. UNCHANGED <<req, bookings, edits>>
  BY DEF BackgroundStep, bookingVars, vars, AdminSoftDelete, CronFind, CronWrite,
         CronDone, CronFail, Tick
<1>2. rulesOf(event') = rulesOf(event) /\ (event'.state = "gone" <=> event.state = "gone")
  <2>0. event \in Event
    BY ResumeAlone
  <2>1. CASE UNCHANGED event
    BY <2>1
  <2>2. ASSUME NEW deleted \in BOOLEAN, AdminSoftDelete(deleted)
        PROVE  rulesOf(event') = rulesOf(event)
                 /\ (event'.state = "gone" <=> event.state = "gone")
    BY <2>0, <2>2 DEF AdminSoftDelete, Event, rulesOf
  <2>3. CASE CronWrite
    BY <2>0, <2>3 DEF CronWrite, Event, rulesOf
  <2> QED BY <2>1, <2>2, <2>3
          DEF BackgroundStep, CronFind, CronDone, CronFail, Tick, vars
<1>3. req[r] # Idle => edits'[r] = None
  BY <1>1, ResumeAlone
<1> QED BY <1>1, <1>2, <1>3, BesideAlone DEF SerialInv

LEMMA AccountAlone ==
    ASSUME SerialInv, NEW r, Requests = {r}, NEW u \in Users, deleteManyByUserId(u)
    PROVE  AloneInv'
<1>1. UNCHANGED <<eventVars, req>>
  BY DEF deleteManyByUserId
<1>2. \A b \in BookingIds : bookings'[b] \in {bookings[b], Removed}
  BY DEF deleteManyByUserId, deleteMany
<1>3. req[r] # Idle => edits'[r] = None
  BY <1>1, ResumeAlone DEF eventVars
<1> QED BY <1>1, <1>2, <1>3, BesideAlone DEF SerialInv, eventVars

LEMMA NextAlone ==
    ASSUME SerialInv, [Next]_vars, NEW r, Requests = {r}
    PROVE  AloneInv'
<1>1. CASE RequestFail(r)
  <2>1. req'[r] = Idle /\ UNCHANGED <<event, bookings>>
    BY <1>1, ResumeAlone DEF RequestFail, finish, eventVars
  <2>2. NoOrphanBooking'
    BY <2>1, ResumeAlone DEF NoOrphanBooking, stored
  <2> QED BY <2>1, <2>2, FinishAlone
<1>2. CASE RequestStep(r)
  BY <1>1, <1>2, CreateAlone, UpdateAlone, CancelAlone, DeleteEventAlone
     DEF RequestStep
<1> QED BY <1>2, EditAlone, AccountAlone, BackgroundAlone DEF Next

LEMMA NextEditsLive == EditsLive /\ [Next]_vars => EditsLive'
<1> SUFFICES ASSUME EditsLive, [Next]_vars PROVE EditsLive'
  OBVIOUS
<1>1. ASSUME NEW r \in Requests, UpdateEventFind(r) PROVE EditsLive'
  <2>1. PICK e \in updatesOf(event) : edits' = [edits EXCEPT ![r] = e]
    BY <1>1 DEF UpdateEventFind
  <2>2. e.state = "live"
    BY <1>1, <2>1 DEF UpdateEventFind, updatesOf
  <2> QED BY <2>1, <2>2 DEF EditsLive
<1>2. ASSUME NEW r \in Requests, edits' = [edits EXCEPT ![r] = None] PROVE EditsLive'
  BY <1>2 DEF EditsLive
<1>3. CASE UNCHANGED edits
  BY <1>3 DEF EditsLive
<1>4. ASSUME NEW r \in Requests, RequestStep(r) PROVE UNCHANGED edits
  BY <1>4 DEF RequestStep, CreateFindEvent, CreateFindExisting, CreateSum, CreateSave,
      UpdateFindBooking, UpdateFindEvent, UpdateSum, UpdateWrite, CancelFindBooking,
      CancelFindEvent, CancelWrite, CancelNotify, DeleteFindEvent, deleteManyByEventIds,
      DeleteEventDocument, RemoveEvent, RequestFail, eventVars
<1>5. ASSUME NEW r \in Requests, EditStep(r) PROVE EditsLive'
  BY <1>1, <1>2, <1>5 DEF EditStep, UpdateEventWrite, UpdateEventFail
<1>6. CASE BackgroundStep
  BY <1>3, <1>6 DEF BackgroundStep, AdminSoftDelete, CronFind, CronWrite, CronDone,
                    CronFail, Tick
<1>7. ASSUME NEW u \in Users, deleteManyByUserId(u) PROVE UNCHANGED edits
  BY <1>7 DEF deleteManyByUserId, eventVars
<1> QED BY <1>3, <1>4, <1>5, <1>6, <1>7 DEF Next, vars

LEMMA InitSerial == Init => SerialInv
<1>1. Init => EditsLive
  BY DEF Init, EventInit, EditsLive
<1> QED BY <1>1, InitInv, InitDuplicates, InitAlone DEF SerialInv

LEMMA NextSerial ==
    ASSUME NEW r, Requests = {r}
    PROVE  SerialInv /\ [Next]_vars => SerialInv'
BY NextInv, NextDuplicates, NextEditsLive, NextAlone DEF SerialInv

\* No booking outlives the event when requests are served one at a time: the cascade
\* removes the event last, and no step beside it brings a booking in between
\* (CascadeDelete:125-143).
THEOREM NoBookingOutlivesEvent ==
    ASSUME NEW r, Requests = {r}
    PROVE  Spec => []NoOrphanBooking
<1>1. SerialInv => NoOrphanBooking
  BY DEF SerialInv, AloneInv
<1> QED BY <1>1, InitSerial, NextSerial, PTL DEF Spec

\* Whoever is told that the organiser cancelled the booking holds none, when requests
\* are served one at a time (CancelEventBooking:56-69).
THEOREM NotificationsAreTruthful ==
    ASSUME NEW r, Requests = {r}
    PROVE  Spec => NotificationsTruthful
<1>1. ASSUME SerialInv, [Next]_vars
      PROVE  [\A u \in notified' \ notified : findConfirmedByEventAndUser(u) = {}]_vars
  <2> SUFFICES ASSUME NEW u \in notified' \ notified
               PROVE  findConfirmedByEventAndUser(u) = {}
    OBVIOUS
  <2>1. CASE CancelNotify(r)
    BY <1>1, <2>1, ResumeAlone DEF CancelNotify, AloneOK
  <2>2. CASE RequestStep(r) /\ ~ CancelNotify(r)
    BY <2>2 DEF RequestStep, CreateFindEvent, CreateFindExisting, CreateSum, CreateSave,
      UpdateFindBooking, UpdateFindEvent, UpdateSum, UpdateWrite, CancelFindBooking,
      CancelFindEvent, CancelWrite, DeleteFindEvent, deleteManyByEventIds,
      DeleteEventDocument, RequestFail
  <2> QED BY <1>1, <2>1, <2>2
          DEF Next, EditStep, BackgroundStep, deleteManyByUserId, vars, bookingVars
<1> QED BY <1>1, InitSerial, NextSerial, PTL DEF Spec, NotificationsTruthful

-----------------------------------------------------------------------------
(* Every step is a step of the ledger or a stutter                         *)

\* The seats the ledger counts when b is put aside are those the code sums.
LEMMA SameSeats ==
    ASSUME NEW b
    PROVE  /\ Ledger!seatsOf(BookingIds \ {b}) = confirmedSeats(b)
           /\ bookings[b].status # "confirmed" =>
                Ledger!seatsOf(BookingIds \ {b}) = confirmedSeats(None)
<1>1. Ledger!seatsOf(BookingIds \ {b}) = confirmedSeats(b)
  BY DEF Ledger!seatsOf, confirmedSeats, confirmed
<1>2. ASSUME bookings[b].status # "confirmed" PROVE confirmedSeats(b) = confirmedSeats(None)
  BY <1>2, NoneFacts DEF confirmedSeats, confirmed
<1> QED BY <1>1, <1>2

LEMMA SameBookings ==
    ASSUME NEW u
    PROVE  Ledger!confirmedOf(u) = findConfirmedByEventAndUser(u)
BY DEF Ledger!confirmedOf, findConfirmedByEventAndUser, confirmed

\* The two modules extend the same FiniteSets.
LEMMA SameCardinality ==
    ASSUME NEW S
    PROVE  Ledger!Cardinality(S) = Cardinality(S)
BY DEF Ledger!Cardinality, Cardinality

\* The room that a handler has checked is the room that the ledger asks for.
LEMMA RoomAvailable ==
    ASSUME NEW b, NEW x, NEW seats, hasRoom(x, seats),
           x = b \/ (x = None /\ bookings[b].status # "confirmed")
    PROVE  Ledger!Available(b, seats)
<1>1. CASE event.capacity = None
  BY <1>1 DEF rulesOf, Ledger!Available
<1>2. CASE event.capacity # None
  <2>1. Cardinality(confirmedSeats(x)) + seats <= rulesOf(event).capacity
    BY <1>2 DEF hasRoom, fits, sumConfirmedSeats
  <2>2. Ledger!seatsOf(BookingIds \ {b}) = confirmedSeats(x)
    BY SameSeats
  <2> QED BY <2>1, <2>2, SameCardinality DEF Ledger!Available
<1> QED BY <1>1, <1>2

LEMMA InitRefines == Init => Ledger!LedgerInit
BY DEF Init, EventInit, CreatedEvents, Event, rulesOf, Absent, Ledger!LedgerInit

\* The save of a create is a reservation.
LEMMA CreateRefines ==
    ASSUME SerialInv, NEW r, Requests = {r}, CreateSave(r)
    PROVE  Ledger!LedgerNext
<1>1. PICK b \in BookingIds :
        /\ bookings[b] = Absent
        /\ bookings' = [bookings EXCEPT ![b] =
                [status |-> "confirmed", user |-> req[r].user,
                 seats |-> req[r].seats]]
  BY DEF CreateSave
<1>2. /\ req[r].user \in Users \ {Organiser} /\ req[r].seats \in 1 .. MaxSeats
      /\ findConfirmedByEventAndUser(req[r].user) = {}
      /\ req[r].seats <= event.maxSeats /\ hasRoom(None, req[r].seats)
      /\ event' = event
  BY ResumeAlone, BookingAssumption
     DEF CreateSave, AloneOK, LocalOK, CreatePcs, Local, SeatCounts, seatsAllowed,
         eventVars
<1>3. Ledger!Available(b, req[r].seats)
  <2>1. bookings[b].status # "confirmed"
    BY <1>1 DEF Absent
  <2> QED BY <1>2, <2>1, RoomAvailable
<1>4. Ledger!Reserve(b, req[r].user, req[r].seats)
  BY <1>1, <1>2, <1>3, SameBookings DEF Ledger!Reserve, Absent, rulesOf
<1> QED BY <1>2, <1>4 DEF Ledger!LedgerNext

\* The write of an update changes the seats of the booking that was read, or
\* nothing when the holder's account has been deleted meanwhile.
LEMMA UpdateRefines ==
    ASSUME SerialInv, NEW r, Requests = {r}, UpdateWrite(r)
    PROVE  [Ledger!LedgerNext]_(Ledger!ledgerVars)
<1> DEFINE b == req[r].booking
<1>1. /\ b \in BookingIds /\ bookings[b] \in {req[r].found, Removed}
      /\ req[r].found.status = "confirmed" /\ req[r].seats \in 1 .. MaxSeats
      /\ req[r].seats <= event.maxSeats /\ hasRoom(b, req[r].seats)
      /\ event' = event /\ bookings \in [BookingIds -> Booking]
  BY ResumeAlone, BookingAssumption
     DEF UpdateWrite, AloneOK, LocalOK, UpdatePcs, Local, SeatCounts, seatsAllowed,
         eventVars
<1>2. update(b, req[r].seats, "confirmed")
  BY <1>1 DEF UpdateWrite
<1> HIDE DEF b
<1>3. CASE bookings[b] = Removed
  <2>1. bookings' = bookings
    BY <1>2, <1>3 DEF update, stored, Removed
  <2> QED BY <1>1, <2>1 DEF Ledger!ledgerVars
<1>4. CASE bookings[b] # Removed
  <2>1. bookings[b].status = "confirmed"
    BY <1>1, <1>4
  <2>2. bookings[b] \in [status : {"confirmed", "cancelled"},
                         user : Users, seats : 1 .. MaxSeats]
    BY <1>1, <2>1 DEF Booking, Absent, Removed
  <2>3. bookings' = [bookings EXCEPT ![b].seats = req[r].seats]
    <3>1. bookings' = [bookings EXCEPT ![b] = [bookings[b] EXCEPT
                            !.seats = req[r].seats, !.status = "confirmed"]]
      BY <1>1, <1>2, <2>1 DEF update, stored
    <3>2. [bookings[b] EXCEPT !.seats = req[r].seats, !.status = "confirmed"]
            = [bookings[b] EXCEPT !.seats = req[r].seats]
      BY <2>1, <2>2
    <3> QED BY <3>1, <3>2
  <2>4. Ledger!Available(b, req[r].seats)
    BY <1>1, RoomAvailable
  <2>5. Ledger!Resize(b, req[r].seats)
    BY <1>1, <2>1, <2>3, <2>4 DEF Ledger!Resize, rulesOf
  <2> QED BY <1>1, <2>5 DEF Ledger!LedgerNext
<1> QED BY <1>3, <1>4

\* The write of a cancellation changes the status, and writes back the seats that
\* were read.
LEMMA CancelRefines ==
    ASSUME SerialInv, NEW r, Requests = {r}, CancelWrite(r)
    PROVE  [Ledger!LedgerNext]_(Ledger!ledgerVars)
<1> DEFINE b == req[r].booking
<1>1. /\ b \in BookingIds /\ bookings[b] \in {req[r].found, Removed}
      /\ req[r].found.status = "confirmed"
      /\ event' = event /\ bookings \in [BookingIds -> Booking]
  BY ResumeAlone
     DEF CancelWrite, AloneOK, LocalOK, UpdatePcs, CancelPcs, eventVars
<1>2. update(b, req[r].found.seats, "cancelled")
  BY <1>1 DEF CancelWrite
<1>3. CASE bookings[b] = Removed
  <2>1. bookings' = bookings
    BY <1>2, <1>3 DEF update, stored, Removed
  <2> QED BY <1>1, <2>1 DEF Ledger!ledgerVars
<1>4. CASE bookings[b] # Removed
  <2>1. bookings[b] = req[r].found /\ bookings[b].status = "confirmed"
    BY <1>1, <1>4
  <2> HIDE DEF b
  <2>2. bookings[b] \in [status : {"confirmed", "cancelled"},
                         user : Users, seats : 1 .. MaxSeats]
    BY <1>1, <2>1 DEF Booking, Absent, Removed
  <2>3. bookings' = [bookings EXCEPT ![b].status = "cancelled"]
    <3>1. bookings' = [bookings EXCEPT ![b] = [bookings[b] EXCEPT
                            !.seats = bookings[b].seats, !.status = "cancelled"]]
      BY <1>1, <1>2, <2>1 DEF update, stored
    <3>2. [bookings[b] EXCEPT !.seats = bookings[b].seats, !.status = "cancelled"]
            = [bookings[b] EXCEPT !.status = "cancelled"]
      BY <2>2
    <3> QED BY <3>1, <3>2
  <2>4. Ledger!Cancel(b)
    BY <1>1, <2>1, <2>3 DEF Ledger!Cancel
  <2> QED BY <1>1, <2>4 DEF Ledger!LedgerNext
<1> QED BY <1>3, <1>4

\* One deleteMany withdraws the reservations it finds.
LEMMA DeleteManyRefines ==
    ASSUME NEW B, deleteMany(B), event' = event
    PROVE  Ledger!LedgerNext
<1> DEFINE W == {b \in BookingIds : b \in B /\ stored(b)}
<1>1. Ledger!Withdraw(W)
  BY DEF deleteMany, stored, Removed, Ledger!Withdraw
<1> QED BY <1>1 DEF Ledger!LedgerNext

\* Whatever else happens to the event, its rules stay rules.
LEMMA OtherRefines ==
    ASSUME Inv', UNCHANGED bookings
    PROVE  [Ledger!LedgerNext]_(Ledger!ledgerVars)
<1>1. rulesOf(event)' \in [capacity : Capacities, maxSeats : SeatLimits]
  BY DEF Inv, TypeOK, EventTypeOK, Event, rulesOf
<1>2. Ledger!ChangeRules
  BY <1>1 DEF Ledger!ChangeRules
<1> QED BY <1>2 DEF Ledger!LedgerNext

LEMMA NextRefines ==
    ASSUME SerialInv, [Next]_vars, NEW r, Requests = {r}
    PROVE  [Ledger!LedgerNext]_(Ledger!ledgerVars)
<1>0. Inv'
  BY NextInv DEF SerialInv
<1>1. CASE RequestStep(r)
  <2>1. CASE deleteManyByEventIds(r)
    BY <2>1, DeleteManyRefines DEF deleteManyByEventIds, eventVars
  <2>2. CASE UNCHANGED bookings
    BY <1>0, <2>2, OtherRefines
  <2> QED BY <1>1, <2>1, <2>2, CreateRefines, UpdateRefines, CancelRefines
      DEF RequestStep, CreateFindEvent, CreateFindExisting, CreateSum,
          UpdateFindBooking, UpdateFindEvent, UpdateSum, CancelFindBooking,
          CancelFindEvent, CancelNotify, DeleteFindEvent, DeleteEventDocument,
          RequestFail
<1>2. ASSUME NEW u \in Users, deleteManyByUserId(u) PROVE Ledger!LedgerNext
  BY <1>2, DeleteManyRefines DEF deleteManyByUserId, eventVars
<1>3. CASE UNCHANGED bookings
  BY <1>0, <1>3, OtherRefines
<1> QED BY <1>1, <1>2, <1>3
        DEF Next, EditStep, BackgroundStep, bookingVars, vars

\* With one request at a time, the handlers of the bookings implement the atomic
\* ledger: each decides on what still holds when it writes.
THEOREM LedgerImplemented ==
    ASSUME NEW r, Requests = {r}
    PROVE  Spec => ImplementsLedger
BY InitRefines, NextRefines, InitSerial, NextSerial, PTL
   DEF Spec, ImplementsLedger, Ledger!LedgerSpec

-----------------------------------------------------------------------------
(* What the handlers inherit from the ledger                               *)

\* An operation of the ledger that leaves b with the seats that were available
\* stays within the capacity.
LEMMA WithinCapacity ==
    ASSUME Inv, event.capacity # None,
           NEW b \in BookingIds, NEW seats \in 1 .. MaxSeats,
           Ledger!Available(b, seats),
           \A c \in BookingIds : bookings'[c].status = "confirmed" =>
               IF c = b THEN bookings'[c].seats = seats ELSE bookings'[c] = bookings[c]
    PROVE  sumConfirmedSeats(None)' <= event.capacity
<1> DEFINE own   == {b} \X (1 .. seats)
           other == confirmedSeats(b)
<1>1. Cardinality(other) + seats <= event.capacity
  BY SameSeats, SameCardinality DEF Ledger!Available, rulesOf
<1>2. IsFiniteSet(own) /\ Cardinality(own) = seats
  <2>1. seats \in Nat /\ IsFiniteSet(1 .. seats) /\ Cardinality(1 .. seats) = seats
    BY FS_Interval, BookingAssumption
  <2>2. IsFiniteSet({b}) /\ Cardinality({b}) = 1
    BY FS_Singleton
  <2>3. /\ IsFiniteSet({b} \X (1 .. seats))
        /\ Cardinality({b} \X (1 .. seats)) = Cardinality({b}) * Cardinality(1 .. seats)
    BY <2>1, <2>2, FS_Product
  <2> QED BY <2>1, <2>2, <2>3
<1>3. IsFiniteSet(other) /\ Cardinality(other) \in Nat
  BY SeatsFinite DEF sumConfirmedSeats
<1>4. confirmedSeats(None)' \subseteq other \cup own
  <2> SUFFICES ASSUME NEW c \in BookingIds, NEW s \in 1 .. MaxSeats,
                      bookings'[c].status = "confirmed", s <= bookings'[c].seats
               PROVE  <<c, s>> \in other \cup own
    BY DEF confirmedSeats, confirmed
  <2>1. CASE c = b
    BY <2>1, BookingAssumption
  <2>2. CASE c # b
    BY <2>2 DEF confirmedSeats, confirmed
  <2> QED BY <2>1, <2>2
<1> HIDE DEF own, other
<1>5. /\ IsFiniteSet(other \cup own)
      /\ Cardinality(other \cup own) <= Cardinality(other) + Cardinality(own)
      /\ Cardinality(other \cup own) \in Nat
  BY <1>2, <1>3, UnionBound, FS_CardinalityType
<1>6. Cardinality(confirmedSeats(None)') <= Cardinality(other \cup own)
  BY <1>4, <1>5, FS_Subset
<1>7. event.capacity \in Nat /\ seats \in Nat
  <2>1. event.capacity \in Capacities
    BY DEF Inv, TypeOK, EventTypeOK, Event
  <2>2. seats \in Nat
    BY BookingAssumption
  <2> QED BY <2>1, <2>2, EventAssumption
<1>8. sumConfirmedSeats(None)' \in Nat
  BY SeatsFiniteNext
<1> QED BY <1>1, <1>2, <1>3, <1>5, <1>6, <1>7, <1>8 DEF sumConfirmedSeats

LEMMA LedgerCapacity ==
    ASSUME Inv, Ledger!LedgerNext,
           sumConfirmedSeats(None)' > sumConfirmedSeats(None), event.capacity # None
    PROVE  sumConfirmedSeats(None)' <= event.capacity
<1>0. sumConfirmedSeats(None)' \in Nat /\ sumConfirmedSeats(None) \in Nat
      /\ bookings \in [BookingIds -> Booking]
  BY SeatsFinite, SeatsFiniteNext DEF Inv, TypeOK
<1>1. ASSUME NEW b \in BookingIds, NEW u \in Users, NEW seats \in 1 .. MaxSeats,
             Ledger!Reserve(b, u, seats)
      PROVE  sumConfirmedSeats(None)' <= event.capacity
  <2>1. \A c \in BookingIds :
            IF c = b THEN bookings'[c].seats = seats ELSE bookings'[c] = bookings[c]
    BY <1>0, <1>1 DEF Ledger!Reserve
  <2> QED BY <1>1, <2>1, WithinCapacity DEF Ledger!Reserve
<1>2. ASSUME NEW b \in BookingIds, NEW seats \in 1 .. MaxSeats, Ledger!Resize(b, seats)
      PROVE  sumConfirmedSeats(None)' <= event.capacity
  <2>1. bookings[b] \in [status : {"confirmed", "cancelled"},
                         user : Users, seats : 1 .. MaxSeats]
    BY <1>0, <1>2 DEF Ledger!Resize, Booking, Absent, Removed
  <2>2. \A c \in BookingIds :
            IF c = b THEN bookings'[c].seats = seats ELSE bookings'[c] = bookings[c]
    BY <1>0, <1>2, <2>1 DEF Ledger!Resize
  <2> QED BY <1>2, <2>2, WithinCapacity DEF Ledger!Resize
<1>3. ASSUME NEW b \in BookingIds, Ledger!Cancel(b) PROVE FALSE
  <2>1. bookings[b] \in [status : {"confirmed", "cancelled"},
                         user : Users, seats : 1 .. MaxSeats]
    BY <1>0, <1>3 DEF Ledger!Cancel, Booking, Absent, Removed
  <2>2. \A c \in BookingIds : bookings'[c].status = "confirmed" =>
            bookings'[c] = bookings[c]
    BY <1>0, <1>3, <2>1 DEF Ledger!Cancel
  <2> QED BY <1>0, <2>2, FewerSeats
<1>4. ASSUME NEW W \in SUBSET BookingIds, Ledger!Withdraw(W) PROVE FALSE
  <2>1. \A c \in BookingIds : bookings'[c].status = "confirmed" =>
            bookings'[c] = bookings[c]
    BY <1>4 DEF Ledger!Withdraw
  <2> QED BY <1>0, <2>1, FewerSeats
<1>5. CASE Ledger!ChangeRules
  BY <1>0, <1>5, FewerSeats DEF Ledger!ChangeRules
<1> QED BY <1>1, <1>2, <1>3, <1>4, <1>5 DEF Ledger!LedgerNext

\* The ledger reserves only what was never used, and resizes only what is confirmed.
LEMMA LedgerFinal ==
    ASSUME Inv, Ledger!LedgerNext, NEW b \in BookingIds,
           bookings[b].status = "cancelled"
    PROVE  bookings'[b].status # "confirmed"
<1>0. bookings \in [BookingIds -> Booking]
  BY DEF Inv, TypeOK
<1>1. bookings[b] \in [status : {"confirmed", "cancelled"},
                       user : Users, seats : 1 .. MaxSeats]
  BY <1>0 DEF Booking, Absent, Removed
<1>2. ASSUME NEW c \in BookingIds, NEW u \in Users, NEW seats \in 1 .. MaxSeats,
             Ledger!Reserve(c, u, seats)
      PROVE  bookings'[b].status # "confirmed"
  BY <1>0, <1>2 DEF Ledger!Reserve
<1>3. ASSUME NEW c \in BookingIds, NEW seats \in 1 .. MaxSeats, Ledger!Resize(c, seats)
      PROVE  bookings'[b].status # "confirmed"
  BY <1>0, <1>3 DEF Ledger!Resize
<1>4. ASSUME NEW c \in BookingIds, Ledger!Cancel(c)
      PROVE  bookings'[b].status # "confirmed"
  BY <1>0, <1>1, <1>4 DEF Ledger!Cancel
<1>5. ASSUME NEW W \in SUBSET BookingIds, Ledger!Withdraw(W)
      PROVE  bookings'[b].status # "confirmed"
  BY <1>5 DEF Ledger!Withdraw
<1>6. CASE Ledger!ChangeRules
  BY <1>6 DEF Ledger!ChangeRules
<1> QED BY <1>2, <1>3, <1>4, <1>5, <1>6 DEF Ledger!LedgerNext

\* With one request at a time, a step that takes seats takes no more than the event
\* has at that moment (CreateEventBooking:76-86, UpdateEventBooking:63-74).
THEOREM CapacityIsRespected ==
    ASSUME NEW r, Requests = {r}
    PROVE  Spec => CapacityRespected
<1>1. ASSUME SerialInv, [Next]_vars
      PROVE  [sumConfirmedSeats(None)' > sumConfirmedSeats(None) /\ event.capacity # None
                => sumConfirmedSeats(None)' <= event.capacity]_vars
  <2> SUFFICES ASSUME sumConfirmedSeats(None)' > sumConfirmedSeats(None),
                      event.capacity # None
               PROVE  sumConfirmedSeats(None)' <= event.capacity
    OBVIOUS
  <2>1. CASE Ledger!LedgerNext
    BY <1>1, <2>1, LedgerCapacity DEF SerialInv
  <2>2. CASE UNCHANGED Ledger!ledgerVars
    <3>1. sumConfirmedSeats(None)' <= sumConfirmedSeats(None)
      BY <2>2, FewerSeats DEF Ledger!ledgerVars
    <3> QED BY <3>1, SeatsFinite, SeatsFiniteNext
  <2> QED BY <1>1, <2>1, <2>2, NextRefines
<1> QED BY <1>1, InitSerial, NextSerial, PTL DEF Spec, CapacityRespected

\* With one request at a time, a cancelled booking stays cancelled: every update
\* decides on the status that is stored (EventBooking.entity.ts:67-71).
THEOREM CancellationIsFinal ==
    ASSUME NEW r, Requests = {r}
    PROVE  Spec => CancelledIsFinal
<1>1. ASSUME SerialInv, [Next]_vars
      PROVE  [\A b \in BookingIds :
                bookings[b].status = "cancelled" => ~ confirmed(b)']_vars
  <2> SUFFICES ASSUME NEW b \in BookingIds, bookings[b].status = "cancelled"
               PROVE  bookings'[b].status # "confirmed"
    BY DEF confirmed
  <2> QED BY <1>1, NextRefines, LedgerFinal DEF SerialInv, Ledger!ledgerVars
<1> QED BY <1>1, InitSerial, NextSerial, PTL DEF Spec, CancelledIsFinal

=============================================================================
