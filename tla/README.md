# Leafymap backend — verification

Leafymap is a TypeScript/Express backend (MongoDB through Mongoose 7, Redis, S3,
Prisma for announcements) for places, events, bookings, invitations and the social
life around them.  Its business rules live in use cases
(`src/src/application/usecases`) and entities (`src/src/domain/entities`), and are
enforced by *reading, checking and writing*, without transactions and mostly
without unique indexes.  Each handler is therefore a sequence of database
operations between which any other handler may run, and this is what the
specifications model.

Paths below are relative to the repository; `U` is `src/src/application/usecases`,
`I` is `src/src/infrastructure`.

## 1. Inventory

| Component | State | Operations | Interacts with | Hard behaviour | What makes it correct |
|---|---|---|---|---|---|
| Event bookings (`U/eventBookings`) | `eventbookings` | create, update seats, cancel; bulk removals | reads the event; notifies the holder; removed by the event cascade and by DeleteAccount | look-up then insert, sum then insert, write of a stale entity | capacity, one booking per user, cancellation final |
| Events (`U/events`) | `events` | create, edit, delete | written by the cron, invitations, administrators, ratings, DeleteAccount | whole-entity writes of stale copies; a schema hook that derives the lifecycle | booking rules consistent, removal final, lifecycle agrees with the schedule |
| Lifecycle cron (`I/cron`) | ids in memory | read, bulk write, cancel invitations | events, invitations | edits between read and write; a failure between the two writes | lifecycle converges; pending invitations of ended events are cancelled |
| Event invitations (`U/eventInvitations`) | `eventinvitations` | invite, accept, refuse, withdraw, delete, restore | collaborators in the schedule of the event, cron, DeleteAccount | items handled with `Promise.all`, stale entities | unique, only pending ones accepted, accepted ones kept, none without an account |
| Cascades (`U/shared`), account deletion (`U/users`) | all collections | one bulk removal after another | everything | a failure between two removals | what is stored refers to what is stored, wherever a cascade stopped |
| Administration (`U/admin`) | soft-delete flags, bans | soft delete, restore, ban | events, places, reviews, comments, images, users | undone by stale whole-entity writes | stays in force until lifted |
| Partnerships (`U/partnerships`) | `partnerships` | create, accept, cancel, delete | accounts, notifications | invitation in both directions; acceptance of a cancelled one | one partnership per pair, a cancelled one out of every list |
| Follows (`U/follows`) | `follows`, `users.followers` | follow, unfollow | counter on the user, DeleteAccount | two writes, no transaction | one follow per pair, the counter agrees with the list |
| Favorites (`U/favorites`) | `favorites` | add, remove | events, places, accounts | references removed meanwhile | gone with their owner |
| Reviews and ratings (`U/reviews`) | `reviews`, `rating` of places and events | create, edit, delete, recalculate | events, places, administrators | recalculation is read then write | one review per author and target, the rating is the average of those in view |
| Comments (`U/comments`) | `comments` | create, edit, delete | reviews, images, cascades | a comment saved while its target is removed; comments on comments are refused, so threads are one level deep | no comment on what a cascade removed |
| Places (`U/places`) | `places`, `users.place` | create, edit, delete, link, map, week | user, cascade, cache | check, save and link are three operations; every update of a user writes the link of the copy it read | link and place agree; the page shows the events of the week |
| Messages and sockets (`U/messages`, `I/realtime`) | `messages`, `conversations`, rooms in memory | send, edit, delete, mark as read; connect, join, leave | users, pushes to rooms | find-or-create of the conversation, a join while a message is saved; the room is joined before the participants are checked | one conversation per pair, nothing unread that was not pushed, read stays read |
| Notifications (`U/notifications`) | `notifications` | create, mark read, e-mail | bookings, invitations, partnerships, follows, cascades | two ways of marking; the e-mail throttle has a rule for the action `message`, which no notifier uses | read stays read, marked by the receiver only |
| Accounts and authentication (`U/auth`, `U/users`) | `users` | register, verify, sign in, Google, second factor, reset, edit, delete | everything, administrators | whole-user writes, single-use codes | one account per address, sessions only with proof of it, a code used once, a ban stays |
| Images (`U/images`) | `images` and S3 | upload, delete | cascades | two stores without a transaction; the error handler of the upload also answers failures of authentication with 400 | a stored image has its files |
| Products (`U/products`) | `products` | create, edit, delete | accounts | count then insert | at most ten products |
| Announcements (`U/announcements`) | `announcements` (relational) | create, edit, publish, archive, soft delete | administrators | whole-row writes; look-ups see less than the index | one slug each, soft-deleted ones out of every list |
| Categories, geocoding, cache (`U/categories`, `I/cache`) | Redis | cached look-ups | places, events, geocoder | nothing invalidates an entry; a value read long ago may be stored | answers converge to the source |
| HTTP layer (`src/src/api`) | rate limits, tokens | routes, middlewares, controllers | every use case | order of the middlewares; an await outside a `try` ends the process | one answer per request; handlers know their caller |
| Seed scripts (`src/scripts/seed-ecosystem`) | a generation of documents in memory, nine collections and a prefix of the bucket | generate, purge, upload, insert | writes past the application; members' documents about seeded ones | no transaction: a run cut off anywhere is cleaned up by the next one only through what it left; seeded images share their files | nothing refers to what is gone, one generation at a time, figures as the application would have them |
| Read models and mappers (`I/mappers`) | — | projections of documents; whole-entity persistence | all repositories | a mapper decides which fields a write overwrites | see section 7 |

`PROJECT.json` lists each of them with its status, and under `hazards` what is hard
to test in each, at its line.

## 2. Modules

The first group of modules is about one event and whoever writes it; the second about
users and what they do with each other; the third about what belongs to what; the fourth
about the server's front and its cached reads; the last about the script that seeds all
of it.

| Module | Models | Correspondence |
|---|---|---|
| `EventSchedule` | `EventSchedule.vo.ts` | the pure functions `getEventDateRange`, `getLifecycleStatus` |
| `EventDocument` | one event and everything that writes it | `event` is the document, `edits[r]` the entity a request has built and not yet written, `cron` the slice a cron run works on, `now` the clock |
| `EventBooking` (extends `EventDocument`) | the bookings of that event | `req[r].pc` is the next database operation of a handler, the other fields its local variables |
| `BookingLedger` | the abstract specification of bookings: every operation atomic | implemented by `EventBooking` with one request at a time (`ImplementsLedger`, `ledger <- bookings`, `rules <- rulesOf(event)`) |
| `EventInvitation` (extends `EventDocument`) | the invitations to that event, and the accounts of its collaborators | `item[i].pc` is the next operation of an item of a request; `CronCancel` conjoins the end of the cron run with the cancellation |
| `Accounts` | `U/auth`, `UpdateUser`, `AcceptCgu`, `DeleteAccount` as far as the user goes, the administrators' decisions on users | `users` are whole documents, `req[r].copy` the entity a handler has built and will write; `proven` and `uses` are history |
| `Follow`, `Partnership`, `Review`, `Messaging`, `Notification`, `Announcement` | the use cases of that name with their repositories (and `socketService` in `Messaging`) | the collections by id, the requests as in `EventBooking`; `missed`, `stale`, `pushed`, `excused` are history a property needs |
| `Moderation` | edits and administrators over the five moderated collections | `doc` are the documents with what moderation writes; an edit of an event writes the whole copy, the others only their text |
| `Ownership` | places, events, reviews, comments, images with their files, favorites, notifications, and the cascades of `CascadeDelete`, `DeletePlace`, `DeleteAccount`, the links of `UserPlaceLinker` | `doc[i].owner` and `doc[i].ref` are the references, `files` the bucket, `req[r].pc` the next removal |
| `Product` | `U/products` | as above; `CreateCount` and `CreateSave` are two operations |
| `HttpApi` | every router with its middlewares, and what each controller asks of the caller | `req[r].chain` are the middlewares still to run, `req[r].actor` is `res.locals` |
| `MapView` | the cached reads | `cache` is Redis, `req[r]` what a look-up has found and not stored |
| `WeekSchedule` | `GetPlaceById`, `placeScheduleWithEvents.ts` | `today` is the clock, read twice by a request |
| `SeedContext` | the generators of `seed-ecosystem` | `events`, `bookings`, ... are the arrays they fill, `loop` the generator that runs with its counters; what is drawn is any value of its range |
| `Seeding` | `index.ts`, `purge.ts`, `persist.ts`, the pool of images and the guards on the target | `db` and `bucket` are the stores, `run.left` the collections still to be deleted from or inserted into, `run.users`, `run.events`, `run.places` what the purge read before it began |
| `Parts`, `Subjects`, `SocialParts`, `AccountParts`, `OwnershipParts`, `ServiceParts` | the compositions: several instances of the components above, and what they promise together | `part` names the instance that runs, chosen in `Init` and never changed; the variables of the others are unused |
| `EventDocumentProofs`, `EventBookingProofs`, `EventInvitationProofs`, `AccountsProofs`, `OwnershipProofs` (cascades, runs of the seed script, made-up documents), `CollectionProofs` (follows, reviews, announcements, moderation, notifications, messages, products, partnerships, routes, the week, the map) | theorems and lemmas about the components | section 5 |
| `SocialPartsProofs` (with the accounts), `ServicePartsProofs` (with what belongs to what) | theorems about the compositions | section 5 |
| `MCEventDocument`, `MCEventBooking`, `MCEventInvitation` | values for TLC | schedules, users, symmetry |
| `MCSocial`, `MCAccounts`, `MCOwnership`, `MCServices` | values for TLC of the compositions | users, ids, boxes, days, the two seeds, symmetry |

The parts of a composition share no documents with each other: what a follow or
a message touches, no other part touches, and the cascades, which touch everything,
are in `Ownership`.  Letting their steps interleave would multiply the states and show
nothing.  A property of a composition is the conjunction of what its instances promise,
and says for each whether requests are served one at a time (`alone`) or overlap
(`Requests`).

Rules of the translation:

* An action is one database operation with the synchronous code up to the next one.
  Locals that are no longer needed are reset, so that a state says no more than the
  program does.
* A guard that fails ends the handler.  `RequestFail`, `ItemFail`, `UpdateEventFail`
  and `CronFail` stand for every early return, every throw, a rejected operation
  and a crash; they may happen at any operation, whether a guard holds or not.
* `update` by id does nothing when the document is gone; a hard-deleted id is never
  issued again (`Removed` is not `Absent`).
* An event is one of `live`, `deleted` (soft, by an administrator) and `gone`.  An
  edit that read a live event writes `deleted: false` with everything else, as
  `EventMapper.toPersistence` does.
* `UpdateEventWrite`: the update holds `lifecycleStatus` at top level while the
  schema's `pre("findOneAndUpdate")` hook adds the one it derives to `$set`.  Which
  of the two is stored is up to Mongoose, so the model allows both.
* A user is written whole by every handler of `Accounts`; only the link to Google is
  set and never unset (`User.mapper.ts`).  Links, challenges and recovery codes are
  fresh numbers, as hashes of random tokens are.
* Unique indexes (address, follow, review, slug) make the second save throw; where
  there is none (bookings, invitations, partnerships, conversations) nothing does.
* Runs of the cron do not overlap: a run lasts far less than the ten minutes between
  two.
* A schedule is the set of its periods; time slots are reduced to the set of their
  collaborators.  An instant is a number of ticks, `DayLength` ticks make a day; in
  `WeekSchedule` days are numbered and hours left out.
* An operation of the seed script on a whole collection may fail with any part of it
  done, and the script ends there; only the clearing of the bucket is passed over when
  it fails.  Members act on seeded documents between the runs, not during one.
* `Review` keeps averages in tenths, as the code rounds them.
* Rate limiters pass or refuse; the routes of `HttpApi` and what its handlers need are
  two tables, translated from the routers and from the controllers, because nothing
  in the code ties one to the other.

Constants of the modules that are instantiated more than once get their assumptions as
definitions (`AccountsAssumption`, ...), which the theorems about the component assume
and the compositions assert of the values they give (`SocialAssumption`,
`AccountPartsAssumption`, `OwnershipPartsAssumption`, `ServicesAssumption`).

## 3. Runs

| Run | Question | Result |
|---|---|---|
| `event_lifecycle` | two overlapping edits, administrators, removal, cron and clock on one event | booking rules stay consistent, a removed event stays gone, the lifecycle converges (liveness) |
| `booking_serial` | one booking request at a time beside edits, cron, soft deletes, account deletions, clock | types, no orphan booking, capacity, final cancellation, true notifications, and the atomic ledger is implemented |
| `booking_concurrent` | two booking requests, three users | duplicates and overbooking stay within their bounds |
| `overbooking` | two requests, capacity 2 | **violated**: both sum before either saves |
| `revived_booking` | two requests | **violated**: an update writes `confirmed` over a cancellation |
| `collaboration` | one invitation item at a time beside edits, cron, soft deletes, clock, two creators | unique invitations, none without an account, accepted ones kept, acceptances true |
| `accepted_after_cancel` | an acceptance beside the cron | **violated**: it is stored over the cancellation |
| `ended_invitations` | fair cron | **violated**: an event whose stored status was already final is never seen as changed, its invitations stay pending |
| `social` | follows, partnerships, reviews, messages with sockets, notifications, announcements and moderation, one request at a time and two at once | figures agree with what they count, pairs and keys are held, nothing is orphaned, the inbox agrees with what was pushed, decisions stay; the generated seed data agree with themselves (734 080 states, about two minutes) |
| `accounts` | one account with every handler and administrators, one request at a time; the same with two requests at once | one account per address and no session without proof under overlap; codes used once, sessions in good standing and decisions kept one at a time (849 000 states, about a minute) |
| `ownership` | the cascades interrupted at any operation; images with two requests at once; products with two requests | no dangling reference, images have their files, links agree, the quota is passed by the overlap at most; the same of the seed script cut off anywhere (660 889 states, about two minutes) |
| `services` | every route with one request, five sorts of routes with two; the cached reads; the week of a place | callers are known, every request ends, answers converge, the week is right (29 186 states, about 30 s) |

The four violations are the `findings` of `PROJECT.json`, each with the sentence of
the repository it contradicts.

### One request at a time, or several

Some rules hold however requests overlap; others hold only while they do not, because
the code writes copies it read earlier.  The run that checks a property says which:

* However they overlap: `DuplicatesBounded`, `OverbookingBounded`, `PairsBounded`,
  `ProductQuota`, `OneEach`, `OneAccountPerEmail`, `SessionsProven`,
  `ImagesHaveFiles`, `InboxAgrees`, the bound of invitations, notifications that stay
  read, moderation of everything but events, everything in `services`.
* One at a time: `CapacityRespected`, `CancelledIsFinal`, `NotificationsTruthful`,
  `ImplementsLedger`, `FiguresAgree`, `NoOrphans`, `NoDangling`, `PlaceLinkAgrees`,
  `SecretsUsedOnce`, `GoodStanding`, `DecisionsKept`, the cancellation of partnerships,
  messages that stay read.  Failures and crashes between any two operations are part of
  these runs, and with them each property says what an interrupted request may leave.

### Bounds

* `booking_concurrent`: two requests give every race of two handlers; three ids let a
  duplicate and a third booking exist together, three users (one the organiser)
  separate a duplicate from an overbooking.  Seats and capacity are 1, the clock
  stands still: the bounds under test do not depend on it, and the theorems remove
  these limits.
* `booking_serial`: one request, so what is checked is what the code promises when
  nothing overlaps.  Capacities 2 and none, limits 1 and 2, requests for up to three
  seats (one above every limit), two ids, and a clock that takes the event from
  upcoming to completed, so that bookings open and close.  The organiser may change
  the rules between any two operations of a handler: `rules` is read once.
* `overbooking`, `revived_booking`: as `booking_concurrent` with capacity 2 and two
  seats.
* `event_lifecycle`: two instants per day and seven instants make three and a half
  days; one schedule begins and ends on the afternoon of a day, the other has two
  periods with a gap between them, so truncation to midnight matters.
* `collaboration`, `ended_invitations`, `accepted_after_cancel`: days of one instant,
  two ids (a second invitation to the same creator is possible), one edit in flight.
* `social`: two users, three where a counter or an average needs a third voice; three
  ids, so that a document can be removed, made anew and joined by another; ratings 1 and
  4 (their average is not a whole number) or 1 and 5; one message with two requests, two
  with one.
* `accounts`: one address; four secrets with one request (`MaxSecrets`: a link, a
  challenge and two recovery codes exist together), two with two requests, which leaves
  both challenges and links in the race.  `MaxUses` counts uses of a secret up to two.
  A removed account leaves its id used up, and the second id is for the one that
  registers again.
* `ownership`: two places of two users with an event, a favorite and a notification; one
  place with an event, a review, a comment and an image; two images of one event with
  two requests; three products and a limit of 2.
  The seed script makes two generations up, of two users each, with one document between
  a member and a seeded user: the second purge and a third generation repeat the first.
* The generators: one event with three guests, capacities 1 and 3 (one and several
  bookings fill it) and one place, too few for the two favorites a guest must have, so
  the generation throws; and two creators with all they do with each other, where both
  draw the other for a partnership.  The least numbers are scaled to the few users.
* `services`: two accounts; the boxes `near` and `wide`, which share a rounded key; days
  11 to 15, a Friday to a Tuesday, and events whose periods begin and end on either side
  of Sunday.
* `LastInstant` bounds the clock, the id sets bound the number of inserts;
  `CHECK_DEADLOCK FALSE` everywhere because at those bounds, or with all documents
  gone, the system does stop.

Symmetry is used over ids, requests and interchangeable users, and only for safety
properties; every set that is permuted appears whole or not at all in an instance.

### Fairness

`node-cron` starts a run every ten minutes for as long as the process lives.  A run can
start whenever none is active (`WF` on `CronFind`, guarded by a live event); since any
operation may fail and the next run starts over, the two writes need strong fairness: a
run that is started again and again is carried through again and again.

In `services`, a request under way takes its next step (`WF` on each request: promises
settle, and an operation that fails is a step too), and an entry of the cache whose time
to live has begun expires (`WF` on `Expire`).  Nobody is obliged to send a request.

Nothing else is fair: users, administrators and requests of the other modules may stop
at any time.  `LifecycleCatchesUp` is conditional on the users: *if* from some moment
on the event is live and no edit is in flight.  `EventuallyFresh` is conditional on the
source: what is in a box for good, or out of it for good.

## 4. Properties

* `BookingRulesConsistent`, `RemovedStaysGone`, `LifecycleCatchesUp`: the event.  The
  last is stated with an independent definition (`lifecycleOnDay`, in day numbers).
* `CapacityRespected`, `CancelledIsFinal`, `NotificationsTruthful`, `NoOrphanBooking`:
  the rules of the booking handlers, true when handlers do not overlap and (the first
  two) false when they do.
* `DuplicatesBounded`, `OverbookingBounded`: what remains true when they do overlap.
  A user holds at most as many confirmed bookings as there are requests in flight;
  the seats exceed the largest capacity by at most one full booking per *additional*
  request.
* `ImplementsLedger`: refinement of the atomic ledger.
* `InvitationsBounded`, `NoOrphanInvitation`, `AcceptedIsKept`, `AcceptanceTruthful`,
  `OnlyPendingAccepted`, `EndedInvitationsCancelled`: the invitations.
* `FiguresAgree`: the follower counter is never below the list (it may be above it:
  `DeleteAccount` removes follows without touching counters) unless a follow was
  interrupted between its two writes, and the stored average is that of the reviews in
  view unless they were moderated, or a request was interrupted, since it was calculated.  Of
  generated events it says that no more seats are confirmed than there are and that
  `full`, and the collaborators, are what bookings and answers make them.
* `PairsBounded`, `OneEach`, `NoOrphans`, `DecisionsStay`: partnerships, conversations,
  keys, and what was cancelled, deleted, read or moderated.
* `InboxAgrees`: a message that is saved while a user joins the room of its conversation
  is either marked by the join or pushed to the room, whichever comes first.
* `OneAccountPerEmail`, `SessionsProven`, `SecretsUsedOnce`, `GoodStanding`,
  `DecisionsKept`: the accounts.
* `NoDangling`: wherever a cascade stopped, what is stored refers to what is stored.
  Two exceptions are the code's, and stated: comments on a review or an image that its
  owner deletes, and favorites made of a place that is gone.
  Of the seed script (`Seeding`) it says more and less.  Users refer to their place and
  their image, images to their event, and those refer back, so no order of the collections
  keeps both directions: a user may lack its place or image, and an image its event, when a
  run is cut off.  While the seed is incomplete these are the only references that dangle,
  because the insertion and the purge take all others in the right order; a run that ended
  leaves none.  No two generations mix: the next purge finds whatever is left by its users,
  the images without their event included.
* `ImagesHaveFiles`, `PlaceLinkAgrees`, `ProductQuota`: two stores, two documents, and a
  limit that is counted before the insert.
* `ActorKnown`, `Answered`: for every route, whether the middlewares of its router
  provide what its controller needs, and whether every request ends in one answer or
  with the process.
* `EventuallyFresh`: boxes that share a rounded key share their answers, so it speaks
  of what is in all of them or in none.  `WeekShown`: the week may turn between the two
  readings of the clock; then events may be missing, but none is on a wrong day.

Next to the definitions that matter stands a *faulty variant*, a plausible mistake in
that piece of code; each property has at least one that breaks it.

## 5. Proofs

The theorems hold for every value of the constants that satisfies the assumption of the
module: `DayLengthAssumption`, `EventAssumption`, `NoneAssumption`, `BookingAssumption`,
`InvitationAssumption` (asserted where the constants are declared) and
`PartnershipAssumption`, `FollowAssumption`, `ReviewAssumption`, `MessagingAssumption`,
`AnnouncementAssumption`, `OwnershipAssumption`, `AccountsAssumption`,
`ProductAssumption`, `SeedingAssumption`, `SeedAssumption`, `HttpAssumption`,
`WeekAssumption` (definitions, which a theorem names if it needs them; the compositions
assert theirs).  They say what ids and
configurations are: the ids that are counted are finitely many, `None` is no id, ids of
different kinds differ (`Ownership`), ratings are 1 to 5, limits and capacities are
positive.  A theorem about requests served one at a time assumes `Requests = {r}` for
some `r`; users, ids and everything else stay arbitrary.  Failures and crashes
between any two operations are steps of all of them.

Each invariant was model-checked on a small instance before it was proved; the numbers
of states below are those of these checks, which are not among the runs.

**The event.** `LifecycleOfDays`: comparing midnights is comparing day numbers, from
`t = DayLength * (t \div DayLength) + (t % DayLength)`.  `EventTypeCorrect`,
`BookingRulesAlwaysConsistent`, `RemovedForGood`: the booking rules are not inductive
alone, since an edit stores an entity built earlier; `BookingRulesInv` adds that every
entity in flight obeys the rules.

**Types.** Types alone do not survive a step: a handler writes what it read.  Each
invariant (`Inv`, `FollowInv`, ...) is `TypeOK` with a statement about the locals a
handler still relies on (`LocalsOK`, `LocalOK`): they are set, within the limits, and
what was read earlier has kept what never changes in a document.

**Counting what look-ups cannot hold back.**  Where there is no index, a rule "at most
one" becomes "at most as many as requests in flight", and the invariant counts, for one
user or pair, what is stored, *what a request in flight may bring back*, and the requests
that looked and saw nothing.  The step that matters is always the look-up: it sees
nothing in view, so all that counts is the doing of *other* requests, at most one each.

* `DuplicatesBound` (bookings of a user), `InvitationsBound` (invitations of a creator),
  `PairBound` (partnerships of a pair, invited in either direction, accepted from a copy
  read before the cancellation), `ConversationsPerPair` (`CreationsBounded`; 268,674
  states with two requests).  `OneBookingPerUser` is the case of one request.
* `OverbookingBound`, from `OverbookingInv`: count *claims*, a seat of a confirmed
  booking or one that a request past its check is about to store.  At its check
  (`CreateSum`, `UpdateSum`) a request fits in the capacity together with everything
  confirmed, and every other request claims at most one booking.  The writes turn
  claims into seats one for one.  `NeverOverbookedAlone` is the case of one request.
* `QuotaBound`: products stored plus creations past their count; the creation whose
  count passes finds fewer than the limit, and the others past theirs are fewer than the
  requests.

Two sorts of lemmas carry these counts: a set covered by requests is no larger than the
set of them (`Covered`), and what happens to a sum of two such counts when an element
moves from one to the other (`FewerOfBoth`, `OneForOne`, `OneEach`).

**What an index does hold back.**  `OneAccount`, `OneFollowEach`, `OneReviewEach`,
`OneSlugEach`: the index refuses the second save, and no copy written back changes the
key of a document.  For slugs the second half is work: a row is written whole, with a
slug looked up before, so `SlugsApart` says that rows differ in their slugs whether or not
they are in view, the soft-deleted ones that the look-ups pass over included.

**Bookings one at a time.** `SerialInv == Inv /\ DuplicatesInv /\ EditsLive /\ AloneInv`
(812,280 states).  `AloneInv` says what a handler that is not interleaved with
another still knows at each operation: the copy it writes is the booking as stored, the
seats it has summed are those confirmed, the cascade has left no booking behind.  The
organiser's edits do run in between, so nothing is said of the rules but that they are
those of some live event.  From it:

* `LedgerImplemented`, the refinement, step by step: the look-ups, sums and checks are
  stutters, each save or update is the operation of `BookingLedger` that the handler
  stands for, and the removal of an account or of the event the ledger's own.
* `CapacityIsRespected` and `CancellationIsFinal` are inherited through the refinement:
  an operation of the ledger takes seats only when they are available, which bounds the
  sum after it (`WithinCapacity`), and none leads out of `cancelled`.
* `NoBookingOutlivesEvent`, `NotificationsAreTruthful` from `AloneInv` itself.

**Invitations one at a time.** Their `AloneInv` (717,972 states) gives
`NoInvitationOutlivesAccount`, `AcceptancesAreKept` and `AcceptancesAreTruthful`, with the
cron and the edits of the organiser at any moment between two operations of the item.

**Partnerships one at a time.** `NoPartnershipOutlivesAccount`, `CancelledForGood`: a
cancelled partnership is soft-deleted with the same write (`CancelledDeleted`), and an
acceptance that is alone has no copy from before (31,420 states).

**Accounts.** `OneAccount` and `SessionsAreProven` hold although every handler writes back
a whole user it read before.  The invariant of `AccountsProofs` calls *evidence* what only
the owner of an address brings about: a verified address, a link to Google, a pending
second factor.  It says that a stored user with evidence is proven (`EvidenceInv`), and
the same *of the copies in flight*, which moreover keep the address of their document; a
copy of a new user is without evidence until it is created.  Each method of the entity is
shown to keep the address and, where its handler has no proof to offer, to add no
evidence (`Methods`, `ClearReset`, `Codes`, `Decisions`); a session is only reached from
evidence.

With one request at a time `AloneInv` (154,152 states with one address, 671,314 with
two) adds where the secrets are: a secret is held by one user at most, in one place, and
only while it was not accepted, and a copy in flight holds secrets of its user and
freshly drawn ones, without those it has accepted (`Keeps`).  So a link, a challenge and a recovery code are each accepted once
(`SecretsAreUsedOnce`), a session is issued only to an account that is there, in good
standing and past its second factor (`SessionsInGoodStanding`), and what an
administrator decided is written back as it was read (`DecisionsAreKept`).  These are
`SecretsUsedOnce`, `GoodStanding` and `DecisionsKept` of the run `accounts`.

**Ownership.** `OwnershipTypes` and `ImagesAlwaysHaveFiles` for any number of requests (`Inv`;
6,808,550 states): an upload stores the files before the document, and a deletion removes
the files only of a document that is gone; ids are not issued again and no two
requests have uploaded the same image (`UploadsApart`).  `NothingDangles` and `PlaceLinksAgree`
for one request (`AloneInv`; `LinkInv`, 398,596 and 743,572 states): the invariant follows
the cascade through its levels (`LevelOK`, `AccountOK`) and says that what an operation found
covers all that refers to what it will remove, and that nothing refers any longer to
what the operations before it have seen to.  An interrupted cascade leaves documents that
refer to stored ones, because it goes from the leaves to the root.  In the link of a user and its place, the two writes are
apart, and the requests that stopped between them are the exception `interrupted`.

**Follows.** `FollowTypes` has an arithmetic part: the counter is within 0 and the
follows ever saved, since every increment is that of a follow saved once and the decrement
stops at 0.  `FollowersAreCounted`, `NoFollowOutlivesAccount` from `FollowAloneInv`
(31,090 and 40,741 states).

**Reviews.** `AveragesAreExact` needs that the recalculation sees the reviews as they are:
between the change of a review and the write of the average a target is *recalculating*,
and everywhere else the stored rating is the one that is due (`RatingsUpToDate`; `ReviewInv`
920,094 states with two requests, `ReviewAloneInv` 390,940 with one).  The average is
a sum over the five ratings of how many reviews have each (`rated`), not a fold, so that
its bounds (0 to 50 tenths after rounding) are arithmetic and need no induction.
`NoReviewOutlivesItsTarget` as for follows.

**Announcements, moderation, notifications.** `DeletionsAreKept`: the rows written back
are rows in view, so none that is soft-deleted returns (`ChangesInView`).  `ModerationIsKept`
however requests overlap, events apart: outside events no edit writes the fields of
moderation.  An edit of an event writes the copy it read, and `ModerationIsKeptAlone` needs
that the copy has what an administrator last wrote (`EditsFresh`), true of one request.
`ReadNotificationsStayRead` however requests overlap.

**Messages.** `RoomsAreServed` however requests and sockets overlap (`RoomServed`): of a
message that is unread for someone in the room, either the socket had it, or the request
that saved it has yet to publish it, or the join has yet to mark it.  `ReadingsAreKept` for
one request, where the copies written back are fresh (`CopiesFresh`; 115,794 states).

**Seeds.** `SeedsNeverDangle`, `SeededImagesHaveFiles`, `SeededOwnersHaveTheirPlace` wherever
a run breaks off, for any number of generations (`SeedingInv`; 11,203 states): while the
purge goes, every seeded document that is left is one the rest of the purge seeks; while
the insertion goes, what is stored is of the new generation and of the collections
already passed; between runs, what a broken run has left is closed under references, but
for those of users to places and images and of images to events (`mutual`).  In a complete
seed all the documents are there (`AllThere`), so those resolve as well, and a user and
its place refer to each other.

**Made-up documents.** `GeneratedTypes`, `FiguresAreGenerated`, `PairsAreGeneratedOnce` for any
numbers of creators, guests and events, any capacities and percentages.  `ContextInv` says
how far the generators have come: what is not made yet is as it was created (`NotYet`),
no event is booked before its turn (`BookingsInTurn`), the seats drawn so far are those the bookings have (`SeatsCounted`),
and an event passed is `full` exactly when its confirmed seats are its capacity
(`FullWhenTaken`).  Seats are counted as the set of pairs of a booking and one of its
seats, so that one booking more adds as many elements as it has seats and the sum needs
no induction.  `FiguresAreGenerated` and `PairsAreGeneratedOnce` are
the seeds' part of `FiguresAgree` and `OneEach`.

**Routes.** `CallersAreKnown`: `TablesAgree` compares the two tables, all routers with
all controllers, and finds for each handler that needs its caller a middleware that
provides one.  The rest of `RouteInv` (10,215 states) says of a request on its way that
what it has passed is what is known of its caller.

**The week of a place.** `PagesShowTheWeek` (`WeekInv`; 5,600 states): seven days from
a Monday are different days of the week (`DaysApart`) and each has its own column
(`WeekOfDay`), so an event cannot show on the wrong day; the two readings of the clock
give the exception.

**The map.** `MapTypes`, for any boxes and any rounding; that its answers converge is
liveness.

**The compositions.** Every invariant and every action property of the runs `social`,
`accounts`, `ownership` and `services` is a theorem for every value of the constants of
`SocialParts`, `AccountParts`, `OwnershipParts` and `ServiceParts`: the 21 theorems of
`SocialPartsProofs` and `ServicePartsProofs`.  In a part the composition is the component,
with some constants fixed and its variables renamed.  The proof modules therefore take the
component's theorems through an instance with the same substitutions, show that the
formulas of the two agree (the lemmas that end in `Same`), that the initial states of the
part and its steps are the component's while the rest of the composition only stutters,
and that the specification of the composition implies the component's as long as the part
is this one (`...Runs`).  As `part` never changes, each conjunct of a property follows from
the theorem about its component.  The composition `ServiceParts` has fairness of its own,
so routes and the map enter with their safety only (`RoutesFromTheStart`,
`MapFromTheStart`).

Only model-checked:

* liveness, which rests on fairness and `ENABLED`, out of the reach of the provers:
  `LifecycleCatchesUp`, `Answered`, `EventuallyFresh`;
* what the violation runs refute, which is not true to prove.

## 6. Plan

Done, in the order of importance: the event and its writers; bookings with their ledger;
invitations and the cron; cascades and ownership; accounts; follows, partnerships,
reviews, messages, notifications, announcements, moderation; products and images; the
cached reads, the week of a place and the routes; the seed script; the proofs of
section 5, which cover every safety property of every passing run, the compositions
included, and the refinement of the ledger.

Left:

1. An abstract specification of the cascades (everything that depends on a document goes
   at once) with the steps of an interrupted cascade as stutters, implemented by
   `Ownership` with one request.
2. The e-mails of notifications with a delivery that fails, and the drafts of events.

## 7. Not modelled

* Events: names, texts, the `draft/published` status and the other descriptive fields no
  guard of a modelled handler reads; the searches other than the map and the week.
* HTTP layer: validation schemas and DTOs (what reaches a use case is modelled as the
  choice of its inputs), the shape and wording of answers, CORS, logging.
* Read models and mappers: the projections of answers; of the persistence mappers only
  which fields a write overwrites is modelled.
* Hashing, token formats, resizing and formats of images, e-mail templates, the geocoder
  and Redis themselves (external: they answer or do not).
* Of `seed-ecosystem`: texts, positions and dates, the categories it reads, the keys it
  deletes from the cache (which expire anyway); the comments, reviews, notifications and
  products of seeded users, which its purge leaves behind; seeded collaborators in the
  schedules of members' events and the follower counters of members, which it leaves as
  they are; the deletion of a seeded image
  through the application, which takes the files of the others with it.
* The other seed and migration scripts, the wiring of dependencies (`src/src/di`), configuration,
  generated code and tests.

## 8. Running

    tlc -workers 2 -config <run>.cfg <module>
    tlapm EventDocumentProofs.tla
    tlapm EventBookingProofs.tla
    tlapm EventInvitationProofs.tla
    tlapm AccountsProofs.tla
    tlapm OwnershipProofs.tla
    tlapm CollectionProofs.tla
    tlapm SocialPartsProofs.tla
    tlapm ServicePartsProofs.tla

The runs take from a few seconds (the violations) to about three minutes
(`booking_serial`, `social`).  Of the proofs, from nothing, `OwnershipProofs`,
`SocialPartsProofs` and `ServicePartsProofs` take about a quarter of an hour each (the
last two read most of the others), `CollectionProofs` about ten minutes, the others one to
three.
