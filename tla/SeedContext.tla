------------------------------ MODULE SeedContext ------------------------------
(***************************************************************************)
(* The ecosystem of documents that scripts/seed-ecosystem makes up in      *)
(* memory before it stores any of them (Seeding has the storing): events,  *)
(* invitations, bookings, follows, favorites and partnerships of the       *)
(* generated users.  No rule of the application is asked of these          *)
(* documents when they are inserted: the generators themselves have to     *)
(* keep to them.  What is drawn at random, or by the place in a list, is   *)
(* any value of its range; a capacity of 0 stands for none, and the range  *)
(* of the others is a constant.  The texts, positions and dates are left   *)
(* out.                                                                    *)
(***************************************************************************)
EXTENDS Naturals, Sequences, FiniteSets, SequencesExt

CONSTANTS
    creators, guests,   \* the generated users, in order
    Sited,              \* creators whose archetype has a category of places
    None,
    EVENT_COUNT,
    Capacities, SeatLimits,
    PLACE_PERCENT, INVITATION_PERCENT, PARTNERSHIP_PERCENT,
    \* The least and the most that each user has, or each event takes.
    ATTENDEES, GUEST_FOLLOWS, CREATOR_FOLLOWS, FAVORITES

Creators == ToSet(creators)
Guests   == ToSet(guests)
People   == Creators \cup Guests

EventNumbers == 1 .. EVENT_COUNT

\* What is asked of the constants; the module of each run asserts it of its values.
SeedAssumption ==
    /\ creators \in Seq(Creators) /\ guests \in Seq(Guests) /\ creators # <<>>
    /\ Cardinality(People) = Len(creators) + Len(guests)
    /\ Sited \subseteq Creators /\ None \notin People
    /\ EVENT_COUNT \in Nat
    /\ Capacities \subseteq Nat \ {0} /\ SeatLimits \subseteq Nat \ {0}
    /\ {PLACE_PERCENT, INVITATION_PERCENT, PARTNERSHIP_PERCENT} \subseteq 0 .. 100
    /\ {ATTENDEES, GUEST_FOLLOWS, CREATOR_FOLLOWS, FAVORITES} \subseteq Nat \X Nat

VARIABLES
    events, invitations, bookings, follows, followers, favorites, partnerships,
    loop    \* the generator that runs, its event, the attendees left, the seats taken

vars == <<events, invitations, bookings, follows, followers, favorites, partnerships, loop>>

Event ==
    [owner : Creators, online : BOOLEAN, place : Creators \cup {None}, location : BOOLEAN,
     status : {"available", "full", "cancelled"}, capacity : Capacities \cup {0},
     maxSeats : SeatLimits \cup {1}, collaborators : SUBSET Creators]

Invitation  == [event : EventNumbers, initiator : Creators, collaborator : Creators,
                status : {"pending", "accepted", "refused", "cancelled"}]
Booking     == [event : EventNumbers, user : Guests, seats : Nat \ {0},
                status : {"confirmed", "cancelled"}]
Follow      == [follower : People, following : Creators]
Favorite    == [user : Guests, place : Creators]
Partnership == [initiator : Creators, collaborator : Creators,
                status : {"pending", "accepted", "refused"}]

Loop ==
    [pc : {"events", "invitations", "bookings", "attendees", "follows", "favorites",
           "partnerships", "done", "failed"},
     event : 1 .. EVENT_COUNT + 1, left : Nat, seats : Nat]

TypeOK ==
    /\ events \in Seq(Event) /\ Len(events) <= EVENT_COUNT
    /\ invitations \subseteq Invitation
    /\ bookings \subseteq Booking
    /\ follows \subseteq Follow
    /\ followers \in [People -> Nat]
    /\ favorites \subseteq Favorite
    /\ partnerships \subseteq Partnership
    /\ loop \in Loop

Init ==
    /\ events = <<>>
    /\ invitations = {} /\ bookings = {} /\ follows = {} /\ favorites = {}
    /\ partnerships = {}
    /\ followers = [u \in People |-> 0]
    /\ loop = [pc |-> "events", event |-> 1, left |-> 0, seats |-> 0]

-----------------------------------------------------------------------------
(* Arithmetic of the generators                                            *)

least(m, n) == IF m < n THEN m ELSE n

\* Math.round(n * percent / 100), which rounds halves up.
share(n, percent) == (n * percent + 50) \div 100

\* faker.number.int of a range whose end is cut to n; of an empty range it throws.
drawn(range, n) == range[1] .. least(range[2], n)

\* Math.max(1, n)
atLeastOne(n) == IF n = 0 THEN 1 ELSE n

\* faker.helpers.arrayElements: count of the pool, or all of it.
picks(Pool, counts) ==
    {S \in SUBSET Pool : \E n \in counts : Cardinality(S) = least(n, Cardinality(Pool))}

at(list, i) == list[((i - 1) % Len(list)) + 1]

-----------------------------------------------------------------------------
(* People and places: a place is known by the creator it is of              *)

\* Of the creators with a category of places, the first ones get a place: where they
\* are in the list.
creatorsWithPlace ==
    {i \in DOMAIN creators :
        /\ creators[i] \in Sited
        /\ Cardinality({j \in 1 .. i : creators[j] \in Sited})
                <= share(Len(creators), PLACE_PERCENT)}

Sites == {creators[i] : i \in creatorsWithPlace}

-----------------------------------------------------------------------------
(* The generators                                                          *)

goto(pc) == loop' = [loop EXCEPT !.pc = pc, !.event = 1]

\* A throw: the script ends before anything is inserted.
throw == loop' = [loop EXCEPT !.pc = "failed"]

\* Where an event takes place: nowhere when it is online, at a location of its own,
\* at the place of its owner or, for want of one, at that of another.
venues(owner) ==
    [online : {TRUE}, place : {None}, location : {FALSE}]
    \cup [online : {FALSE}, place : {None}, location : {TRUE}]
    \cup [online : {FALSE}, place : IF owner \in Sites THEN {owner} ELSE Sites,
          location : {TRUE}]

assertEventInvariants(venue) ==
    IF venue.online THEN venue.place = None /\ ~venue.location
    ELSE venue.place # None \/ venue.location

generateEvent ==
    /\ loop.pc = "events" /\ Len(events) < EVENT_COUNT
    /\ LET owner == at(creators, Len(events) + 1) IN
       \E venue \in venues(owner), status \in {"available", "cancelled"},
          capacity \in Capacities \cup {0}, limit \in SeatLimits :
            /\ assertEventInvariants(venue)
            /\ venue.online => capacity = 0
            /\ events' = Append(events,
                    [owner |-> owner, online |-> venue.online, place |-> venue.place,
                     location |-> venue.location, status |-> status,
                     capacity |-> capacity, maxSeats |-> IF capacity = 0 THEN 1 ELSE limit,
                     collaborators |-> {}])
    /\ UNCHANGED <<invitations, bookings, follows, followers, favorites, partnerships, loop>>

generatedEvents ==
    /\ loop.pc = "events" /\ Len(events) = EVENT_COUNT
    /\ goto("invitations")
    /\ UNCHANGED <<events, invitations, bookings, follows, followers, favorites, partnerships>>

\* The first events are invited for, each with one other creator; who accepts is
\* put into the first slot of the schedule.
generateInvitations ==
    /\ loop.pc = "invitations"
    /\ LET target == IF Len(creators) < 2 THEN 0 ELSE share(EVENT_COUNT, INVITATION_PERCENT)
       IN  \E who \in [1 .. target -> Creators],
              answer \in [1 .. target -> {"pending", "accepted", "refused", "cancelled"}] :
                /\ \A e \in 1 .. target : who[e] # events[e].owner
                /\ invitations' = {[event |-> e, initiator |-> events[e].owner,
                                    collaborator |-> who[e], status |-> answer[e]] :
                                        e \in 1 .. target}
                /\ events' = [e \in EventNumbers |->
                        IF e \in 1 .. target /\ answer[e] = "accepted"
                        THEN [events[e] EXCEPT !.collaborators = {who[e]}] ELSE events[e]]
    /\ goto("bookings")
    /\ UNCHANGED <<bookings, follows, followers, favorites, partnerships>>

\* The next event that takes bookings, or none is left.
isBooked(e) == events[e].capacity # 0 /\ events[e].status # "cancelled"

generateBookings ==
    /\ loop.pc = "bookings"
    /\ IF guests = <<>> \/ loop.event > EVENT_COUNT THEN goto("follows")
       ELSE IF ~isBooked(loop.event) THEN loop' = [loop EXCEPT !.event = @ + 1]
       ELSE IF drawn(ATTENDEES, Len(guests)) = {} THEN throw
       ELSE \E n \in drawn(ATTENDEES, Len(guests)) :
                loop' = [loop EXCEPT !.pc = "attendees", !.left = n, !.seats = 0]
    /\ UNCHANGED <<events, invitations, bookings, follows, followers, favorites, partnerships>>

\* Which guest comes next is read off the identifier of the event: it may be one
\* that has a booking already, who is passed over.
bookAttendee ==
    /\ loop.pc = "attendees" /\ loop.left > 0
    /\ loop.seats < events[loop.event].capacity
    /\ \E guest \in Guests, cancelled \in BOOLEAN :
        IF \E b \in bookings : b.event = loop.event /\ b.user = guest
        THEN UNCHANGED bookings /\ loop' = [loop EXCEPT !.left = @ - 1]
        ELSE LET event     == events[loop.event]
                 remaining == event.capacity - loop.seats
             IN  \E seats \in IF cancelled THEN 1 .. event.maxSeats
                              ELSE {least(event.maxSeats, atLeastOne(remaining))} :
                    /\ bookings' = bookings \cup
                            {[event |-> loop.event, user |-> guest, seats |-> seats,
                              status |-> IF cancelled THEN "cancelled" ELSE "confirmed"]}
                    /\ loop' = [loop EXCEPT !.left = @ - 1,
                                            !.seats = @ + IF cancelled THEN 0 ELSE seats]
    /\ UNCHANGED <<events, invitations, follows, followers, favorites, partnerships>>

bookedEvent ==
    /\ loop.pc = "attendees"
    /\ loop.left = 0 \/ loop.seats >= events[loop.event].capacity
    /\ events' = IF loop.seats >= events[loop.event].capacity
                 THEN [events EXCEPT ![loop.event].status = "full"] ELSE events
    /\ loop' = [loop EXCEPT !.pc = "bookings", !.event = @ + 1, !.left = 0, !.seats = 0]
    /\ UNCHANGED <<invitations, bookings, follows, followers, favorites, partnerships>>

followsOf(f) == UNION {{[follower |-> u, following |-> c] : c \in f[u]} : u \in DOMAIN f}

generateFollows ==
    /\ loop.pc = "follows"
    /\ LET ofGuest   == drawn(GUEST_FOLLOWS, Len(creators))
           ofCreator == drawn(CREATOR_FOLLOWS, atLeastOne(Len(creators) - 1))
       IN  IF guests # <<>> /\ ofGuest = {}
           THEN throw /\ UNCHANGED <<follows, followers>>
           ELSE /\ \E byGuests \in [Guests -> picks(Creators, ofGuest)],
                      byCreators \in [Creators -> picks(Creators, ofCreator)
                                                    \cup picks(Creators, {0})] :
                    /\ \A c \in Creators : byCreators[c] \in picks(Creators \ {c}, ofCreator)
                    /\ follows' = followsOf(byGuests) \cup followsOf(byCreators)
                /\ followers' = [u \in People |->
                        Cardinality({f \in follows' : f.following = u})]
                /\ goto("favorites")
    /\ UNCHANGED <<events, invitations, bookings, favorites, partnerships>>

generateFavorites ==
    /\ loop.pc = "favorites"
    /\ LET counts == drawn(FAVORITES, Cardinality(Sites)) IN
       IF Sites = {} \/ Guests = {} THEN goto("partnerships") /\ UNCHANGED favorites
       ELSE IF counts = {} THEN throw /\ UNCHANGED favorites
       ELSE /\ \E f \in [Guests -> picks(Sites, counts)] :
                favorites' = UNION {{[user |-> g, place |-> p] : p \in f[g]} : g \in Guests}
            /\ goto("partnerships")
    /\ UNCHANGED <<events, invitations, bookings, follows, followers, partnerships>>

\* The first of the creators with a place, each of whom asks another.
asking(target) ==
    {i \in creatorsWithPlace : Cardinality({j \in creatorsWithPlace : j <= i}) <= target}

\* Faulty variant: the pair is looked for in the order it is written in.
partnershipsOrdered(Asking, who, answer) ==
    {[initiator |-> creators[i], collaborator |-> who[i], status |-> answer[i]] :
        i \in Asking}

\* Whoever was paired before, as either of the two, is passed over.
partnershipsOf(Asking, who, answer) ==
    {[initiator |-> creators[i], collaborator |-> who[i], status |-> answer[i]] :
        i \in {i \in Asking : \A j \in Asking :
                    {creators[j], who[j]} = {creators[i], who[i]} => i <= j}}

generatePartnerships ==
    /\ loop.pc = "partnerships"
    /\ LET owners == Cardinality(creatorsWithPlace)
           Asking == IF owners < 2 THEN {} ELSE asking(share(owners, PARTNERSHIP_PERCENT))
       IN  \E who \in [Asking -> Sites],
              answer \in [Asking -> {"pending", "accepted", "refused"}] :
                /\ \A i \in Asking : who[i] # creators[i]
                /\ partnerships' = partnershipsOf(Asking, who, answer)
    /\ goto("done")
    /\ UNCHANGED <<events, invitations, bookings, follows, followers, favorites>>

-----------------------------------------------------------------------------

Next ==
    \/ generateEvent \/ generatedEvents \/ generateInvitations
    \/ generateBookings \/ bookAttendee \/ bookedEvent
    \/ generateFollows \/ generateFavorites \/ generatePartnerships

Spec == Init /\ [][Next]_vars

-----------------------------------------------------------------------------
(* Safety                                                                  *)

\* Each seat of a confirmed booking, as the booking and a number.
confirmedSeats(e) ==
    Cardinality(UNION {{b} \X (1 .. b.seats) :
                    b \in {b \in bookings : b.event = e /\ b.status = "confirmed"}})

passed(e) ==
    \/ loop.pc \in {"follows", "favorites", "partnerships", "done"}
    \/ loop.pc = "bookings" /\ e < loop.event

\* The figures of the generated documents are those the application would have
\* arrived at: no event has more seats confirmed than its capacity and is full when
\* they are taken (CreateEventBooking:76-86), and the collaborators of a schedule are
\* those who accepted (relations.ts:24-130).
GeneratedFigures ==
    /\ \A e \in DOMAIN events :
        /\ events[e].capacity # 0 => confirmedSeats(e) <= events[e].capacity
        /\ passed(e) /\ isBooked(e) /\ guests # <<>> =>
                (events[e].status = "full" <=> confirmedSeats(e) = events[e].capacity)
        /\ events[e].collaborators =
                {v.collaborator : v \in {v \in invitations : v.event = e
                                                          /\ v.status = "accepted"}}

\* No index holds back what is inserted twice, but the generators do: one booking of
\* a guest at an event, and one partnership of two creators, whoever asked.
GeneratedOnce ==
    /\ \A b, c \in bookings : b.event = c.event /\ b.user = c.user => b = c
    /\ \A p, q \in partnerships :
            {p.initiator, p.collaborator} = {q.initiator, q.collaborator} => p = q
=============================================================================
