------------------------------- MODULE Ownership -------------------------------
(***************************************************************************)
(* Who owns and who refers to what: places, events, reviews, comments,     *)
(* images with their files, favorites and notifications, and the cascades  *)
(* that delete a place, an event or an account with all that depends on it.*)
(* MongoDB keeps no foreign keys: only the order of the operations of a    *)
(* cascade keeps references from dangling when it is interrupted.          *)
(***************************************************************************)
EXTENDS FiniteSets

CONSTANTS Users, Places, Events, Reviews, Comments, Images, Favorites,
          Notifications, Requests, None

Ids == UNION {Places, Events, Reviews, Comments, Images, Favorites, Notifications}

\* What is asked of the constants; the module of each run asserts it of its values.
\* The documents of two collections have different identifiers.
OwnershipAssumption ==
    /\ None \notin Ids \cup Users
    /\ Users \cap Ids = {}
    /\ Places \cap UNION {Events, Reviews, Comments, Images, Favorites, Notifications} = {}
    /\ Events \cap UNION {Reviews, Comments, Images, Favorites, Notifications} = {}
    /\ Reviews \cap UNION {Comments, Images, Favorites, Notifications} = {}
    /\ Comments \cap UNION {Images, Favorites, Notifications} = {}
    /\ Images \cap (Favorites \cup Notifications) = {}
    /\ Favorites \cap Notifications = {}

VARIABLES
    doc,          \* the documents of the collections
    place,        \* the place each user is linked to
    accounts,     \* the users whose account exists
    files,        \* the images whose files are in the bucket
    req,          \* the requests in flight
    left,         \* reviews and images their author deleted without their comments
    interrupted   \* users whose place or account a request stopped changing halfway

vars == <<doc, place, accounts, files, req, left, interrupted>>

-----------------------------------------------------------------------------
(* Documents, as their owner and what they refer to                        *)

Absent  == [owner |-> None, ref |-> None, state |-> "absent"]
Removed == [Absent EXCEPT !.state = "removed"]

Docs(Refs) == [owner : Users, ref : Refs, state : {"stored"}] \cup {Absent, Removed}

PlaceDocs        == Docs({None})
ReviewDocs       == Docs(Places \cup Events)
CommentDocs      == Docs(Reviews \cup Images)
ImageDocs        == Docs(Places \cup Events \cup Users)
FavoriteDocs     == Docs(Places)
NotificationDocs == Docs(Events)
EventDocs        == Docs(Places \cup {None})

(* op names the request, level and roots what a cascade is deleting, place *)
(* the place it deletes and places those it has yet to delete.             *)
Idle == [pc |-> "idle", op |-> "none", user |-> None, ref |-> None, place |-> None,
         level |-> "none", roots |-> {}, places |-> {}, ids |-> {}, comments |-> {}]

Steps == {"idle", "place:save", "place:link", "user:write", "event:save", "review:save",
    "comment:save", "favorite:save", "notification:save", "image:upload",
    "image:save", "delete", "place:events", "reviews:find", "threads:find",
    "threads:delete", "reviews:delete", "favorites:delete", "notifications:delete",
    "images:find", "images:load", "images:delete", "files:delete", "roots:delete",
    "place:unlink", "account:places", "account:next", "account:favorites",
    "account:notifications", "account:images", "account:references"}

TypeOK ==
    /\ \A p \in Places : doc[p] \in PlaceDocs
    /\ \A e \in Events : doc[e] \in EventDocs
    /\ \A v \in Reviews : doc[v] \in ReviewDocs
    /\ \A c \in Comments : doc[c] \in CommentDocs
    /\ \A i \in Images : doc[i] \in ImageDocs
    /\ \A f \in Favorites : doc[f] \in FavoriteDocs
    /\ \A n \in Notifications : doc[n] \in NotificationDocs
    /\ DOMAIN doc = Ids
    /\ place \in [Users -> Places \cup {None}]
    /\ accounts \subseteq Users /\ interrupted \subseteq Users
    /\ files \subseteq Images
    /\ left \subseteq Reviews \cup Images
    /\ \A r \in Requests :
        /\ req[r].pc \in Steps
        /\ req[r].user \in Users \cup {None}
        /\ req[r].ref \in Ids \cup Users \cup {None}
        /\ req[r].place \in Places \cup {None}
        /\ req[r].level \in {"none", "Event", "Place", "User"}
        /\ req[r].places \subseteq Places
        /\ req[r].ids \subseteq Reviews \/ req[r].ids \subseteq Images
        /\ req[r].comments \subseteq Comments

Init ==
    /\ doc = [i \in Ids |-> Absent]
    /\ place = [u \in Users |-> None]
    /\ accounts = Users
    /\ files = {} /\ left = {} /\ interrupted = {}
    /\ req = [r \in Requests |-> Idle]

-----------------------------------------------------------------------------
(* Repository operations; none of the look-ups leaves moderated documents  *)
(* out                                                                     *)

stored(i) == doc[i].state = "stored"

findIdsByReferences(Pool, R) == {i \in Pool : stored(i) /\ doc[i].ref \in R}

findIdsByOwner(Pool, u) == {i \in Pool : doc[i].owner = u}

\* Bound: an identifier of the pool is left for another document.
free(Pool) == \E i \in Pool : doc[i] = Absent

save(Pool, owner, ref) ==
    \E i \in Pool :
        /\ doc[i] = Absent
        /\ doc' = [doc EXCEPT ![i] = [owner |-> owner, ref |-> ref, state |-> "stored"]]

deleteMany(D) == doc' = [i \in Ids |-> IF i \in D /\ stored(i) THEN Removed ELSE doc[i]]

findByUserAndReference(u, i) ==
    {f \in Favorites : doc[f].owner = u /\ doc[f].ref = i}

linkPlace(u, p) == place' = IF u \in accounts THEN [place EXCEPT ![u] = p] ELSE place

-----------------------------------------------------------------------------
(* Requests                                                                *)

become(r, l) == req' = [req EXCEPT ![r] = l]
goto(r, pc)  == become(r, [req[r] EXCEPT !.pc = pc])
start(r, l)  == req[r] = Idle /\ become(r, l)

documents == <<doc, place, accounts, files, left, interrupted>>

\* Every throw after the first operation, and a crash.
RequestFail(r) ==
    /\ req[r] # Idle
    /\ become(r, Idle)
    /\ interrupted' = interrupted \cup
            (IF \/ req[r].pc \in {"place:link", "place:unlink"}
                \/ req[r].op = "account"
             THEN {req[r].user} ELSE {})
    /\ UNCHANGED <<doc, place, accounts, files, left>>

(* CreatePlace: one place for each user *)

assertCanCreatePlace(u) == u \in accounts /\ place[u] = None

CreatePlaceFind(r) ==
    /\ free(Places)
    /\ \E u \in Users :
        /\ assertCanCreatePlace(u)
        /\ start(r, [Idle EXCEPT !.pc = "place:save", !.user = u])
    /\ UNCHANGED documents

CreatePlaceSave(r) ==
    /\ req[r].pc = "place:save"
    /\ \E p \in Places :
        /\ doc[p] = Absent
        /\ doc' = [doc EXCEPT ![p] =
                        [owner |-> req[r].user, ref |-> None, state |-> "stored"]]
        /\ become(r, [req[r] EXCEPT !.pc = "place:link", !.place = p])
    /\ UNCHANGED <<place, accounts, files, left, interrupted>>

CreatePlaceLink(r) ==
    /\ req[r].pc = "place:link"
    /\ linkPlace(req[r].user, req[r].place)
    /\ become(r, Idle)
    /\ UNCHANGED <<doc, accounts, files, left, interrupted>>

\* Every update of a user writes the link of the copy it read back, or unsets it.
UpdateUserFind(r) ==
    /\ \E u \in accounts :
        start(r, [Idle EXCEPT !.pc = "user:write", !.user = u, !.place = place[u]])
    /\ UNCHANGED documents

UpdateUserWrite(r) ==
    /\ req[r].pc = "user:write"
    /\ linkPlace(req[r].user, req[r].place)
    /\ become(r, Idle)
    /\ UNCHANGED <<doc, accounts, files, left, interrupted>>

\* CreateEvent and PlaceOwnershipChecker: at the organiser's own place, or none.
placeOwned(p, u) == p # None => stored(p) /\ doc[p].owner = u

CreateEventFind(r) ==
    /\ free(Events)
    /\ \E u \in accounts, p \in Places \cup {None} :
        /\ placeOwned(p, u)
        /\ start(r, [Idle EXCEPT !.pc = "event:save", !.user = u, !.ref = p])
    /\ UNCHANGED documents

\* CreateReview: of a place or an event, by another than its owner.
CreateReviewFind(r) ==
    /\ free(Reviews)
    /\ \E u \in accounts, t \in Places \cup Events :
        /\ stored(t) /\ doc[t].owner # u
        /\ start(r, [Idle EXCEPT !.pc = "review:save", !.user = u, !.ref = t])
    /\ UNCHANGED documents

commentReferenceExists(i) == stored(i)

\* A comment on a comment is refused, so threads are one level deep.
CreateCommentFind(r) ==
    /\ free(Comments)
    /\ \E u \in accounts, i \in Reviews \cup Images :
        /\ commentReferenceExists(i)
        /\ start(r, [Idle EXCEPT !.pc = "comment:save", !.user = u, !.ref = i])
    /\ UNCHANGED documents

\* Places only; whether the place exists is not asked: it may be gone already.
CreateFavoriteFind(r) ==
    /\ free(Favorites)
    /\ \E u \in accounts, p \in Places :
        /\ doc[p] # Absent
        /\ findByUserAndReference(u, p) = {}
        /\ start(r, [Idle EXCEPT !.pc = "favorite:save", !.user = u, !.ref = p])
    /\ UNCHANGED documents

\* EventNotifier and EventInvitationNotifier, in a request that found the event.
NotifyFind(r) ==
    /\ free(Notifications)
    /\ \E u \in accounts, e \in Events :
        /\ stored(e)
        /\ start(r, [Idle EXCEPT !.pc = "notification:save", !.user = u, !.ref = e])
    /\ UNCHANGED documents

CreateSave(r) ==
    /\ \/ req[r].pc = "event:save" /\ save(Events, req[r].user, req[r].ref)
       \/ req[r].pc = "review:save" /\ save(Reviews, req[r].user, req[r].ref)
       \/ req[r].pc = "comment:save" /\ save(Comments, req[r].user, req[r].ref)
       \/ /\ req[r].pc = "favorite:save"
          /\ findByUserAndReference(req[r].user, req[r].ref) = {}
          /\ save(Favorites, req[r].user, req[r].ref)
       \/ req[r].pc = "notification:save" /\ save(Notifications, req[r].user, req[r].ref)
    /\ become(r, Idle)
    /\ UNCHANGED <<place, accounts, files, left, interrupted>>

(* UploadImages: the files first, then the documents that name them *)

imageReferenceOwned(i, u) ==
    IF i \in Users THEN i = u ELSE stored(i) /\ doc[i].owner = u

UploadFind(r) ==
    /\ free(Images)
    /\ \E u \in accounts, i \in Places \cup Events \cup Users :
        /\ imageReferenceOwned(i, u)
        /\ start(r, [Idle EXCEPT !.pc = "image:upload", !.user = u, !.ref = i])
    /\ UNCHANGED documents

\* Faulty variant: the documents are saved even when the upload fails.
uploadUnchecked(r) ==
    /\ req[r].pc = "image:upload"
    /\ \E i \in Images :
        /\ doc[i] = Absent /\ i \notin files
        /\ files' \in {files, files \cup {i}}
        /\ become(r, [req[r] EXCEPT !.pc = "image:save", !.ids = {i}])
    /\ UNCHANGED <<doc, place, accounts, left, interrupted>>

upload(r) ==
    /\ req[r].pc = "image:upload"
    /\ \E i \in Images :
        /\ doc[i] = Absent /\ i \notin files
        /\ files' = files \cup {i}
        /\ become(r, [req[r] EXCEPT !.pc = "image:save", !.ids = {i}])
    /\ UNCHANGED <<doc, place, accounts, left, interrupted>>

saveMany(r) ==
    /\ req[r].pc = "image:save"
    /\ doc' = [i \in Ids |-> IF i \in req[r].ids
                             THEN [owner |-> req[r].user, ref |-> req[r].ref,
                                   state |-> "stored"]
                             ELSE doc[i]]
    /\ become(r, Idle)
    /\ UNCHANGED <<place, accounts, files, left, interrupted>>

(* DeleteReview, DeleteComment and DeleteFavorite, by the owner *)

DeleteOwnFind(r, Pool) ==
    /\ \E i \in Pool :
        /\ stored(i) /\ doc[i].owner \in accounts
        /\ start(r, [Idle EXCEPT !.pc = "delete", !.ref = i, !.user = doc[i].owner])
    /\ UNCHANGED documents

DeleteReviewFind(r)   == DeleteOwnFind(r, Reviews)
DeleteCommentFind(r)  == DeleteOwnFind(r, Comments)
DeleteFavoriteFind(r) == DeleteOwnFind(r, Favorites)

\* The comments on a review stay when its author deletes it.
DeleteOwn(r) ==
    /\ req[r].pc = "delete"
    /\ deleteMany({req[r].ref})
    /\ left' = left \cup ({req[r].ref} \cap Reviews)
    /\ become(r, Idle)
    /\ UNCHANGED <<place, accounts, files, interrupted>>

-----------------------------------------------------------------------------
(* CascadeDelete.  A level deletes, from the leaves up: the comments on    *)
(* the reviews, the reviews, (favorites,) notifications, the comments on   *)
(* the images, the images, and at last the roots themselves.               *)

\* What follows the events of a place, or of an account.
afterEvents(l) ==
    CASE l.place # None    -> [l EXCEPT !.level = "Place", !.roots = {l.place},
                                        !.pc = "reviews:find"]
      [] l.place = None /\ l.op = "account" ->
                              [l EXCEPT !.level = "User", !.roots = {l.user},
                                        !.pc = "account:favorites"]
      [] OTHER             -> Idle

\* deleteEvents: nothing to do without an event.
deleteEvents(l, E) ==
    IF E = {} THEN afterEvents(l)
    ELSE [l EXCEPT !.level = "Event", !.roots = E, !.pc = "reviews:find"]

DeleteEventFind(r) ==
    /\ \E e \in Events :
        /\ stored(e) /\ doc[e].owner \in accounts
        /\ start(r, deleteEvents([Idle EXCEPT !.op = "event"], {e}))
    /\ UNCHANGED documents

DeletePlaceFind(r) ==
    /\ \E p \in Places :
        /\ stored(p) /\ doc[p].owner \in accounts
        /\ start(r, [Idle EXCEPT !.op = "place", !.pc = "place:events",
                                 !.place = p, !.user = doc[p].owner])
    /\ UNCHANGED documents

findIdsByPlace(r) ==
    /\ req[r].pc = "place:events"
    /\ become(r, deleteEvents(req[r], findIdsByReferences(Events, {req[r].place})))
    /\ UNCHANGED documents

\* Faulty variant: the reviews are deleted before the comments on them are found.
deleteReviewsFirst(r) ==
    /\ req[r].pc = "reviews:find"
    /\ deleteMany(findIdsByReferences(Reviews, req[r].roots))
    /\ become(r, [req[r] EXCEPT !.ids = findIdsByReferences(Reviews, req[r].roots),
                                !.pc = "threads:find"])
    /\ UNCHANGED <<place, accounts, files, left, interrupted>>

deleteReviewsFind(r) ==
    /\ req[r].pc = "reviews:find"
    /\ LET ids == findIdsByReferences(Reviews, req[r].roots) IN
       become(r, [req[r] EXCEPT !.ids = ids,
                    !.pc = IF ids = {} THEN "reviews:delete" ELSE "threads:find"])
    /\ UNCHANGED documents

\* What follows the comments on req[r].ids: reviews, or images.
afterThreads(r) == IF req[r].ids \subseteq Reviews THEN "reviews:delete" ELSE "images:load"

deleteCommentThreadsFind(r) ==
    /\ req[r].pc = "threads:find"
    /\ LET comments == findIdsByReferences(Comments, req[r].ids) IN
       become(r, [req[r] EXCEPT !.comments = comments,
                    !.pc = IF comments = {} THEN afterThreads(r) ELSE "threads:delete"])
    /\ UNCHANGED documents

deleteCommentThreads(r) ==
    /\ req[r].pc = "threads:delete"
    /\ deleteMany(req[r].comments)
    /\ become(r, [req[r] EXCEPT !.comments = {}, !.pc = afterThreads(r)])
    /\ UNCHANGED <<place, accounts, files, left, interrupted>>

\* Only places have favorites.
deleteReviewsOn(r) ==
    /\ req[r].pc = "reviews:delete"
    /\ deleteMany(findIdsByReferences(Reviews, req[r].roots))
    /\ become(r, [req[r] EXCEPT !.ids = {},
                    !.pc = IF req[r].level = "Place" THEN "favorites:delete"
                                                     ELSE "notifications:delete"])
    /\ UNCHANGED <<place, accounts, files, left, interrupted>>

deleteAllByReference(r) ==
    /\ req[r].pc = "favorites:delete"
    /\ deleteMany(findIdsByReferences(Favorites, req[r].roots))
    /\ goto(r, "notifications:delete")
    /\ UNCHANGED <<place, accounts, files, left, interrupted>>

deleteByReferences(r) ==
    /\ req[r].pc = "notifications:delete"
    /\ deleteMany(findIdsByReferences(Notifications, req[r].roots))
    /\ goto(r, "images:find")
    /\ UNCHANGED <<place, accounts, files, left, interrupted>>

\* deleteImagesWithComments: nothing to do without an image.
deleteImages(l, ids) ==
    [l EXCEPT !.ids = ids, !.pc = IF ids = {} THEN "roots:delete" ELSE "threads:find"]

findImageIds(r) ==
    /\ req[r].pc = "images:find"
    /\ become(r, deleteImages(req[r], findIdsByReferences(Images, req[r].roots)))
    /\ UNCHANGED documents

(* DeleteImages, for the cascade and by the owner of the images *)

DeleteImagesFind(r) ==
    /\ \E i \in Images :
        /\ stored(i) /\ doc[i].owner \in accounts
        /\ start(r, [Idle EXCEPT !.op = "images", !.pc = "images:delete", !.ids = {i}])
    /\ UNCHANGED documents

\* Refused as soon as one of the images is gone.
DeleteImagesLoad(r) ==
    /\ req[r].pc = "images:load"
    /\ \A i \in req[r].ids : stored(i)
    /\ goto(r, "images:delete")
    /\ UNCHANGED documents

DeleteImagesDelete(r) ==
    /\ req[r].pc = "images:delete"
    /\ deleteMany(req[r].ids)
    /\ left' = left \cup (IF req[r].op = "images" THEN req[r].ids ELSE {})
    /\ goto(r, "files:delete")
    /\ UNCHANGED <<place, accounts, files, interrupted>>

\* Promise.allSettled: files that cannot be deleted are logged and stay.
DeleteImagesFiles(r) ==
    /\ req[r].pc = "files:delete"
    /\ \E gone \in SUBSET req[r].ids : files' = files \ gone
    /\ become(r, IF req[r].op = "images" THEN Idle
                 ELSE [req[r] EXCEPT !.ids = {}, !.pc = "roots:delete"])
    /\ UNCHANGED <<doc, place, accounts, left, interrupted>>

\* The roots of the level, and on to the next one.
deleteManyByIds(r) ==
    /\ req[r].pc = "roots:delete" /\ req[r].level = "Event"
    /\ deleteMany(req[r].roots)
    /\ become(r, afterEvents(req[r]))
    /\ UNCHANGED <<place, accounts, files, left, interrupted>>

deletePlace(r) ==
    /\ req[r].pc = "roots:delete" /\ req[r].level = "Place"
    /\ deleteMany(req[r].roots)
    /\ become(r, [req[r] EXCEPT
            !.pc    = IF req[r].op = "account" THEN "account:next" ELSE "place:unlink",
            !.place = IF req[r].op = "account" THEN None ELSE req[r].place])
    /\ UNCHANGED <<place, accounts, files, left, interrupted>>

deleteUser(r) ==
    /\ req[r].pc = "roots:delete" /\ req[r].level = "User"
    /\ accounts' = accounts \ {req[r].user}
    /\ place' = [place EXCEPT ![req[r].user] = None]
    /\ become(r, Idle)
    /\ UNCHANGED <<doc, files, left, interrupted>>

\* Faulty variant: the deletion of a place forgets the link to it.
DeletePlaceKeepsLink(r) ==
    /\ req[r].pc = "place:unlink"
    /\ become(r, Idle)
    /\ UNCHANGED documents

\* DeletePlace unlinks the owner whatever place it is linked to.
DeletePlaceUnlink(r) ==
    /\ req[r].pc = "place:unlink"
    /\ linkPlace(req[r].user, None)
    /\ become(r, Idle)
    /\ UNCHANGED <<doc, accounts, files, left, interrupted>>

(* DeleteAccount: its places, its events, and what it owns or receives.    *)
(* Bookings, invitations, partnerships, follows and products are deleted   *)
(* in between, in the modules about them.                                  *)

AccountFind(r) ==
    /\ \E u \in accounts :
        start(r, [Idle EXCEPT !.op = "account", !.pc = "account:places", !.user = u])
    /\ UNCHANGED documents

AccountPlaces(r) ==
    /\ req[r].pc = "account:places"
    /\ become(r, [req[r] EXCEPT !.pc = "account:next",
                                !.places = findIdsByOwner(Places, req[r].user)])
    /\ UNCHANGED documents

AccountNextPlace(r) ==
    /\ req[r].pc = "account:next"
    /\ \E p \in req[r].places :
        become(r, [req[r] EXCEPT !.pc = "place:events", !.place = p, !.places = @ \ {p}])
    /\ UNCHANGED documents

AccountEvents(r) ==
    /\ req[r].pc = "account:next"
    /\ req[r].places = {}
    /\ become(r, deleteEvents(req[r], findIdsByOwner(Events, req[r].user)))
    /\ UNCHANGED documents

deleteAllByUserId(r) ==
    /\ req[r].pc = "account:favorites"
    /\ deleteMany(findIdsByOwner(Favorites, req[r].user))
    /\ goto(r, "account:notifications")
    /\ UNCHANGED <<place, accounts, files, left, interrupted>>

deleteByUser(r) ==
    /\ req[r].pc = "account:notifications"
    /\ deleteMany(findIdsByOwner(Notifications, req[r].user))
    /\ goto(r, "account:images")
    /\ UNCHANGED <<place, accounts, files, left, interrupted>>

AccountImages(r) ==
    /\ req[r].pc = "account:images"
    /\ become(r, [req[r] EXCEPT !.pc = "account:references",
                                !.ids = findIdsByOwner(Images, req[r].user)])
    /\ UNCHANGED documents

AccountReferences(r) ==
    /\ req[r].pc = "account:references"
    /\ become(r, deleteImages(req[r],
                    req[r].ids \cup findIdsByReferences(Images, {req[r].user})))
    /\ UNCHANGED documents

-----------------------------------------------------------------------------

Step(r) ==
    \/ CreatePlaceFind(r) \/ CreatePlaceSave(r) \/ CreatePlaceLink(r)
    \/ UpdateUserFind(r) \/ UpdateUserWrite(r)
    \/ CreateEventFind(r) \/ CreateReviewFind(r) \/ CreateCommentFind(r)
    \/ CreateFavoriteFind(r) \/ NotifyFind(r) \/ CreateSave(r)
    \/ UploadFind(r) \/ upload(r) \/ saveMany(r)
    \/ DeleteReviewFind(r) \/ DeleteCommentFind(r) \/ DeleteFavoriteFind(r)
    \/ DeleteOwn(r)
    \/ DeleteEventFind(r) \/ DeletePlaceFind(r) \/ findIdsByPlace(r)
    \/ deleteReviewsFind(r) \/ deleteCommentThreadsFind(r) \/ deleteCommentThreads(r)
    \/ deleteReviewsOn(r) \/ deleteAllByReference(r) \/ deleteByReferences(r)
    \/ findImageIds(r)
    \/ DeleteImagesFind(r) \/ DeleteImagesLoad(r) \/ DeleteImagesDelete(r)
    \/ DeleteImagesFiles(r)
    \/ deleteManyByIds(r) \/ deletePlace(r) \/ deleteUser(r) \/ DeletePlaceUnlink(r)
    \/ AccountFind(r) \/ AccountPlaces(r) \/ AccountNextPlace(r) \/ AccountEvents(r)
    \/ deleteAllByUserId(r) \/ deleteByUser(r)
    \/ AccountImages(r) \/ AccountReferences(r)
    \/ RequestFail(r)

Next == \E r \in Requests : Step(r)

Spec == Init /\ [][Next]_vars

-----------------------------------------------------------------------------
(* Safety                                                                  *)

\* With one request at a time, and wherever a cascade was interrupted, what is
\* stored refers to what is stored (CascadeDelete:125-167, DeleteAccount:38-87):
\* the documents of an account, except the reviews and comments it wrote, go
\* before it does, and every dependent document before what it is about.  Two
\* exceptions are the code's: comments on a review or an image its owner deletes,
\* and favorites, which may be made of a place that is gone.
NoDangling ==
    /\ \A i \in Places \cup Events \cup Images \cup Favorites \cup Notifications :
        stored(i) => doc[i].owner \in accounts
    /\ \A e \in Events : stored(e) /\ doc[e].ref # None => stored(doc[e].ref)
    /\ \A i \in Reviews \cup Notifications : stored(i) => stored(doc[i].ref)
    /\ \A c \in Comments : stored(c) => stored(doc[c].ref) \/ doc[c].ref \in left
    /\ \A i \in Images : stored(i) =>
            IF doc[i].ref \in Users THEN doc[i].ref \in accounts ELSE stored(doc[i].ref)

\* However requests overlap or stop halfway, the files of a stored image are in
\* the bucket: uploads store them first (UploadImages:55-75), deletions remove
\* them last (DeleteImages:44-53).
ImagesHaveFiles == \A i \in Images : stored(i) => i \in files

\* With one request at a time, a user is linked to a place exactly when it owns
\* it, unless a request stopped between the two writes (CreatePlace:31-32,
\* DeletePlace:38-39): whoever is left with a link to nothing can never create
\* a place again (UserPlaceLinker:20-25).
PlaceLinkAgrees ==
    (\A r \in Requests : req[r].op # "account"
                         /\ req[r].pc \notin {"place:link", "place:unlink"})
        => \A u \in accounts \ interrupted, p \in Places :
                place[u] = p <=> stored(p) /\ doc[p].owner = u
=============================================================================
