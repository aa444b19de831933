-------------------------------- MODULE Review --------------------------------
(***************************************************************************)
(* Reviews of places and events, and the average rating kept on the        *)
(* reviewed document: CreateReview, UpdateReview, DeleteReview, the        *)
(* moderation of reviews, the host's edit of the reviewed document and its *)
(* removal with its reviews.  The average is read by one operation and     *)
(* written by another, after the operation that changed the reviews.       *)
(***************************************************************************)
EXTENDS Naturals, FiniteSets

CONSTANTS
    Authors, ReviewIds, Requests, None,
    Places, Events,  \* the documents that may be reviewed, each owned by a host
    Ratings          \* the ratings authors give, from 1 to 5

\* What is asked of the constants; the module of each run asserts it of its values.
ReviewAssumption ==
    /\ Ratings \subseteq 1 .. 5 /\ IsFiniteSet(ReviewIds)
    /\ None \notin Authors /\ None \notin ReviewIds /\ None \notin Places \cup Events
    /\ None \notin 0 .. 50

Targets == Places \cup Events

VARIABLES
    reviews,  \* the documents of the collection
    rating,   \* the average stored on each target, in tenths; None: it is gone
    req,      \* the requests in flight
    stale     \* targets whose average no request has read since their reviews changed

vars == <<reviews, rating, req, stale>>

Absent  == [state |-> "absent", author |-> None, target |-> None, rating |-> 0,
            deleted |-> FALSE]
Removed == [Absent EXCEPT !.state = "removed"]

Reviews == [state : {"stored"}, author : Authors, target : Targets,
            rating : Ratings, deleted : BOOLEAN] \cup {Absent, Removed}

Averages == 0 .. 50

Idle == [pc |-> "idle", author |-> None, target |-> None, id |-> None, value |-> 0]

Local ==
    [pc     : {"idle", "create:existing", "create:save", "update:write",
               "delete:delete", "rating:read", "rating:write",
               "edit:write", "cascade:reviews", "cascade:target"},
     author : Authors \cup {None},
     target : Targets \cup {None},
     id     : ReviewIds \cup {None},
     value  : Averages]      \* a rating to store, or an average read

TypeOK ==
    /\ reviews \in [ReviewIds -> Reviews]
    /\ rating \in [Targets -> Averages \cup {None}]
    /\ req \in [Requests -> Local]
    /\ stale \subseteq Targets

Init ==
    /\ reviews = [v \in ReviewIds |-> Absent]
    /\ rating = [t \in Targets |-> 0]
    /\ req = [r \in Requests |-> Idle]
    /\ stale = {}

-----------------------------------------------------------------------------
(* Repository operations                                                   *)

create(a, t, n) ==
    [state |-> "stored", author |-> a, target |-> t, rating |-> n, deleted |-> FALSE]

stored(v) == reviews[v].state = "stored"

exists(t) == rating[t] # None

\* A review an administrator removed from view still counts as the author's.
findByAuthorAndReference(a, t) ==
    {v \in ReviewIds : reviews[v].author = a /\ reviews[v].target = t}

\* The reviews whose ratings are averaged: those in view.
findRatingsByReference(t) ==
    {v \in ReviewIds : reviews[v].target = t /\ ~reviews[v].deleted}

\* Ratings are whole, from 1 to 5: they are summed value by value.
rated(V, n) == Cardinality({v \in V : reviews[v].rating = n})

\* Math.round(sum / length * 10), which rounds halves up; 0 without a review.
average(V) ==
    LET sum == rated(V, 1) + 2 * rated(V, 2) + 3 * rated(V, 3) + 4 * rated(V, 4)
                    + 5 * rated(V, 5)
        n   == Cardinality(V)
    IN  IF n = 0 THEN 0 ELSE (20 * sum + n) \div (2 * n)

\* Faulty variant: the collection has no unique index.
saveUnindexed(v, a, t, n) ==
    /\ reviews[v] = Absent
    /\ reviews' = [reviews EXCEPT ![v] = create(a, t, n)]

\* The unique index on author and reference makes a second save throw.
save(v, a, t, n) ==
    /\ reviews[v] = Absent
    /\ findByAuthorAndReference(a, t) = {}
    /\ reviews' = [reviews EXCEPT ![v] = create(a, t, n)]

deleteAll(V) ==
    reviews' = [v \in ReviewIds |-> IF v \in V /\ stored(v) THEN Removed ELSE reviews[v]]

updateRating(t, n) ==
    rating' = IF exists(t) THEN [rating EXCEPT ![t] = n] ELSE rating

-----------------------------------------------------------------------------
(* Requests                                                                *)

goto(r, pc) == req' = [req EXCEPT ![r].pc = pc]
finish(r)   == req' = [req EXCEPT ![r] = Idle]

\* Every throw after the first operation, and a crash.
RequestFail(r) ==
    /\ req[r] # Idle
    /\ finish(r)
    /\ stale' = stale \cup
            (IF req[r].pc \in {"rating:read", "rating:write"} THEN {req[r].target} ELSE {})
    /\ UNCHANGED <<reviews, rating>>

(* CreateReview; an author does not own what it reviews *)

CreateCheckTarget(r) ==
    /\ req[r] = Idle
    /\ \E a \in Authors, t \in Targets, n \in Ratings :
        /\ exists(t)
        /\ req' = [req EXCEPT ![r] = [Idle EXCEPT !.pc = "create:existing",
                        !.author = a, !.target = t, !.value = n]]
    /\ UNCHANGED <<reviews, rating, stale>>

CreateFindExisting(r) ==
    /\ req[r].pc = "create:existing"
    /\ findByAuthorAndReference(req[r].author, req[r].target) = {}
    /\ goto(r, "create:save")
    /\ UNCHANGED <<reviews, rating, stale>>

CreateSave(r) ==
    /\ req[r].pc = "create:save"
    /\ \E v \in ReviewIds : save(v, req[r].author, req[r].target, req[r].value)
    /\ goto(r, "rating:read")
    /\ UNCHANGED <<rating, stale>>

(* UpdateReview and DeleteReview, by the author *)

FindOwn(r, pc, v, n) ==
    req' = [req EXCEPT ![r] = [pc |-> pc, author |-> reviews[v].author,
                target |-> reviews[v].target, id |-> v, value |-> n]]

UpdateFind(r) ==
    /\ req[r] = Idle
    /\ \E v \in ReviewIds, n \in Ratings : stored(v) /\ FindOwn(r, "update:write", v, n)
    /\ UNCHANGED <<reviews, rating, stale>>

\* The rating and the comment only: moderation is left as it is.
UpdateWrite(r) ==
    /\ req[r].pc = "update:write"
    /\ reviews' = IF stored(req[r].id)
                  THEN [reviews EXCEPT ![req[r].id].rating = req[r].value]
                  ELSE reviews
    /\ goto(r, "rating:read")
    /\ UNCHANGED <<rating, stale>>

DeleteFind(r) ==
    /\ req[r] = Idle
    /\ \E v \in ReviewIds : stored(v) /\ FindOwn(r, "delete:delete", v, 0)
    /\ UNCHANGED <<reviews, rating, stale>>

\* Faulty variant: the deletion does not recalculate the average.
DeleteOnly(r) ==
    /\ req[r].pc = "delete:delete"
    /\ deleteAll({req[r].id})
    /\ finish(r)
    /\ UNCHANGED <<rating, stale>>

DeleteDelete(r) ==
    /\ req[r].pc = "delete:delete"
    /\ deleteAll({req[r].id})
    /\ goto(r, "rating:read")
    /\ UNCHANGED <<rating, stale>>

(* ReviewRatingUpdater.recalculate, at the end of each of the three *)

RecalculateRead(r) ==
    /\ req[r].pc = "rating:read"
    /\ req' = [req EXCEPT ![r].pc = "rating:write",
                    ![r].value = average(findRatingsByReference(req[r].target))]
    /\ stale' = stale \ {req[r].target}
    /\ UNCHANGED <<reviews, rating>>

RecalculateWrite(r) ==
    /\ req[r].pc = "rating:write"
    /\ updateRating(req[r].target, req[r].value)
    /\ finish(r)
    /\ UNCHANGED <<reviews, stale>>

(* applyAdminResourceSoftDelete on a review: the average is left as it is *)

AdminSoftDelete ==
    /\ \E v \in ReviewIds, deleted \in BOOLEAN :
        /\ stored(v)
        /\ reviews' = [reviews EXCEPT ![v].deleted = deleted]
        /\ stale' = IF deleted # reviews[v].deleted
                    THEN stale \cup {reviews[v].target} ELSE stale
    /\ UNCHANGED <<rating, req>>

(* UpdateEvent writes the rating back as it was read; UpdatePlace does not *)

EditFind(r) ==
    /\ req[r] = Idle
    /\ \E t \in Events :
        /\ exists(t)
        /\ req' = [req EXCEPT ![r] = [Idle EXCEPT !.pc = "edit:write", !.target = t,
                                                  !.value = rating[t]]]
    /\ UNCHANGED <<reviews, rating, stale>>

EditWrite(r) ==
    /\ req[r].pc = "edit:write"
    /\ updateRating(req[r].target, req[r].value)
    /\ finish(r)
    /\ UNCHANGED <<reviews, stale>>

(* DeletePlace and DeleteEvent: deleteReviewsOn, then the document itself *)

CascadeFind(r) ==
    /\ req[r] = Idle
    /\ \E t \in Targets :
        /\ exists(t)
        /\ req' = [req EXCEPT ![r] = [Idle EXCEPT !.pc = "cascade:reviews", !.target = t]]
    /\ UNCHANGED <<reviews, rating, stale>>

\* Faulty variant: only the reviews in view are deleted.
deleteManyInView(r) ==
    /\ req[r].pc = "cascade:reviews"
    /\ deleteAll(findRatingsByReference(req[r].target))
    /\ goto(r, "cascade:target")
    /\ UNCHANGED <<rating, stale>>

\* An interrupted cascade leaves the average of the reviews that are gone.
deleteManyByReferences(r) ==
    /\ req[r].pc = "cascade:reviews"
    /\ deleteAll({v \in ReviewIds : reviews[v].target = req[r].target})
    /\ stale' = stale \cup {req[r].target}
    /\ goto(r, "cascade:target")
    /\ UNCHANGED rating

deleteTarget(r) ==
    /\ req[r].pc = "cascade:target"
    /\ rating' = [rating EXCEPT ![req[r].target] = None]
    /\ finish(r)
    /\ UNCHANGED <<reviews, stale>>

-----------------------------------------------------------------------------

Step(r) ==
    \/ CreateCheckTarget(r) \/ CreateFindExisting(r) \/ CreateSave(r)
    \/ UpdateFind(r) \/ UpdateWrite(r) \/ DeleteFind(r) \/ DeleteDelete(r)
    \/ RecalculateRead(r) \/ RecalculateWrite(r)
    \/ EditFind(r) \/ EditWrite(r)
    \/ CascadeFind(r) \/ deleteManyByReferences(r) \/ deleteTarget(r)
    \/ RequestFail(r)

Next == AdminSoftDelete \/ \E r \in Requests : Step(r)

Spec == Init /\ [][Next]_vars

-----------------------------------------------------------------------------
(* Safety                                                                  *)

\* However many requests overlap, an author has one review of a target, those
\* an administrator took out of view included (Review.schema.ts:63-66).
UniqueReview ==
    \A a \in Authors, t \in Targets :
        Cardinality(findByAuthorAndReference(a, t)) <= 1

\* With one request at a time, a target shows the average of the reviews in
\* view, rounded to a tenth, unless reviews were moderated or a request was
\* interrupted since it was last calculated (ReviewRatingUpdater:23-47).
RatingExact ==
    \A t \in Targets \ stale :
        (exists(t) /\ \A r \in Requests : req[r].target # t)
            => rating[t] = average(findRatingsByReference(t))

\* With one request at a time, no review outlives what it is about, nor does
\* one appear for a target that is gone (CreateReview:33-39, CascadeDelete:82-103).
NoOrphanReview ==
    \A v \in ReviewIds : stored(v) => exists(reviews[v].target)
=============================================================================
