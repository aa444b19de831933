--------------------------- MODULE OwnershipProofs ---------------------------
(***************************************************************************)
(* Proofs about Ownership, for every set of users, documents and requests: *)
(* the types and the files of the images however requests overlap, and,    *)
(* with one request at a time, that nothing refers to what a cascade       *)
(* deleted and that users are linked to the places they own.  The same of  *)
(* the seed script (Seeding, under Sed), wherever a run breaks off, and    *)
(* about the documents it makes up (SeedContext, under Ctx) that figures   *)
(* and pairs are as the application would have them.                       *)
(***************************************************************************)
EXTENDS Ownership, Sequences, FiniteSetTheorems, TLAPS

CONSTANTS
    Host, Production, MaxGenerations, MaxMemberDocs,
    creators, guests, Sited, EVENT_COUNT, Capacities, SeatLimits,
    PLACE_PERCENT, INVITATION_PERCENT, PARTNERSHIP_PERCENT,
    ATTENDEES, GUEST_FOLLOWS, CREATOR_FOLLOWS, FAVORITES

VARIABLES
    db, bucket, run,
    events, invitations, bookings, follows, followers, favorites, partnerships, loop

Sed == INSTANCE Seeding
Ctx == INSTANCE SeedContext

\* What the collection of i may hold at i.
KindOK(i, d) ==
    /\ i \in Places => d \in PlaceDocs
    /\ i \in Events => d \in EventDocs
    /\ i \in Reviews => d \in ReviewDocs
    /\ i \in Comments => d \in CommentDocs
    /\ i \in Images => d \in ImageDocs
    /\ i \in Favorites => d \in FavoriteDocs
    /\ i \in Notifications => d \in NotificationDocs

DocsOK == doc = [i \in Ids |-> doc[i]] /\ \A i \in Ids : KindOK(i, doc[i])

Local ==
    [pc : Steps, op : {"none", "event", "place", "images", "account"},
     user : Users \cup {None}, ref : Ids \cup Users \cup {None},
     place : Places \cup {None}, level : {"none", "Event", "Place", "User"},
     roots : SUBSET (Events \cup Places \cup Users \cup {None}), places : SUBSET Places,
     ids : (SUBSET Reviews) \cup (SUBSET Images), comments : SUBSET Comments]

\* The steps of a request made for a user that is known.
UserPcs == {"place:save", "place:link", "user:write", "event:save", "review:save",
            "comment:save", "favorite:save", "notification:save", "image:upload",
            "image:save", "place:unlink"}

\* What a handler relies on when it resumes.
LocalOK(l) ==
    /\ l.pc \in UserPcs \/ l.op = "account" \/ l.place # None \/ l.level = "Place"
            => l.user \in Users
    /\ l.pc \in {"account:places", "account:next", "account:favorites",
                 "account:notifications", "account:images", "account:references"}
            => l.op = "account"
    /\ l.pc \in {"place:link", "place:events"} => l.place \in Places
    /\ l.pc = "event:save" => l.ref \in Places \cup {None}
    /\ l.pc = "review:save" => l.ref \in Places \cup Events
    /\ l.pc = "comment:save" => l.ref \in Reviews \cup Images
    /\ l.pc = "favorite:save" => l.ref \in Places
    /\ l.pc = "notification:save" => l.ref \in Events
    /\ l.pc \in {"image:upload", "image:save"} => l.ref \in Places \cup Events \cup Users
    /\ l.pc \in {"image:save", "images:load", "images:delete", "account:references"}
            => l.ids \subseteq Images

\* The files that were uploaded are those of no document yet, and those about to
\* be deleted are those of no document any more.
ImagesOK(l) ==
    /\ l.pc = "image:save" => l.ids \subseteq files /\ \A i \in l.ids : doc[i] = Absent
    /\ l.pc # "image:save" => \A i \in l.ids : doc[i] # Absent
    /\ l.pc = "files:delete" => \A i \in l.ids : doc[i] = Removed

\* No two requests have uploaded the same image.
UploadsApart ==
    \A q, r \in Requests :
        q # r /\ req[q].pc = "image:save" /\ req[r].pc = "image:save"
            => req[q].ids \cap req[r].ids = {}

Inv ==
    /\ DocsOK
    /\ place \in [Users -> Places \cup {None}]
    /\ accounts \subseteq Users /\ interrupted \subseteq Users
    /\ files \subseteq Images /\ left \subseteq Reviews \cup Images
    /\ req \in [Requests -> Local]
    /\ \A r \in Requests : LocalOK(req[r]) /\ ImagesOK(req[r])
    /\ UploadsApart /\ ImagesHaveFiles

-----------------------------------------------------------------------------
(* Documents                                                               *)

LEMMA InvTypes == Inv => TypeOK
<1> SUFFICES ASSUME Inv PROVE TypeOK
  OBVIOUS
<1>1. /\ \A p \in Places : doc[p] \in PlaceDocs
      /\ \A e \in Events : doc[e] \in EventDocs
      /\ \A v \in Reviews : doc[v] \in ReviewDocs
      /\ \A c \in Comments : doc[c] \in CommentDocs
      /\ \A i \in Images : doc[i] \in ImageDocs
      /\ \A f \in Favorites : doc[f] \in FavoriteDocs
      /\ \A n \in Notifications : doc[n] \in NotificationDocs
  BY DEF Inv, DocsOK, KindOK, Ids
<1>2. DOMAIN doc = Ids
  BY DEF Inv, DocsOK
<1>3. \A r \in Requests :
        /\ req[r].pc \in Steps
        /\ req[r].user \in Users \cup {None}
        /\ req[r].ref \in Ids \cup Users \cup {None}
        /\ req[r].place \in Places \cup {None}
        /\ req[r].level \in {"none", "Event", "Place", "User"}
        /\ req[r].places \subseteq Places
        /\ req[r].ids \subseteq Reviews \/ req[r].ids \subseteq Images
        /\ req[r].comments \subseteq Comments
  BY DEF Inv, Local
<1> QED BY <1>1, <1>2, <1>3 DEF Inv, TypeOK

LEMMA Kinds ==
    ASSUME NEW i, NEW d, KindOK(i, d), i \in Ids
    PROVE  /\ d \in {Absent, Removed} \/ (d.state = "stored" /\ d.owner \in Users)
           /\ d.state # "stored" => d \in {Absent, Removed}
           /\ d \in {Absent, Removed} => d.state # "stored" /\ d.owner = None /\ d.ref = None
BY DEF KindOK, Ids, Docs, PlaceDocs, EventDocs, ReviewDocs, CommentDocs, ImageDocs,
       FavoriteDocs, NotificationDocs, Absent, Removed

\* What a stored document refers to.
LEMMA Refs ==
    ASSUME Inv, NEW i \in Ids, stored(i)
    PROVE  /\ doc[i].owner \in Users
           /\ i \in Events => doc[i].ref \in Places \cup {None}
           /\ i \in Reviews => doc[i].ref \in Places \cup Events
           /\ i \in Comments => doc[i].ref \in Reviews \cup Images
           /\ i \in Images => doc[i].ref \in Places \cup Events \cup Users
           /\ i \in Notifications => doc[i].ref \in Events
BY DEF Inv, DocsOK, KindOK, stored, Docs, PlaceDocs, EventDocs, ReviewDocs, CommentDocs,
       ImageDocs, FavoriteDocs, NotificationDocs, Absent, Removed, Ids

LEMMA AbsentRemoved ==
    /\ Absent # Removed /\ Absent.state = "absent" /\ Removed.state = "removed"
    /\ Absent.owner = None /\ Removed.owner = None /\ Absent.ref = None /\ Removed.ref = None
    /\ \A i : KindOK(i, Absent) /\ KindOK(i, Removed)
BY DEF Absent, Removed, KindOK, Docs, PlaceDocs, EventDocs, ReviewDocs, CommentDocs,
       ImageDocs, FavoriteDocs, NotificationDocs

\* A deletion removes what is stored, and nothing else changes.
LEMMA DeleteEffect ==
    ASSUME Inv, NEW D, deleteMany(D)
    PROVE  /\ DocsOK'
           /\ \A i \in Ids :
                /\ doc'[i] = IF i \in D /\ stored(i) THEN Removed ELSE doc[i]
                /\ stored(i)' <=> stored(i) /\ i \notin D
                /\ stored(i)' => doc'[i] = doc[i]
                /\ doc'[i] = Absent <=> doc[i] = Absent
                /\ doc[i] = Removed => doc'[i] = Removed
                /\ i \in D /\ doc[i] # Absent => doc'[i] = Removed
<1>1. \A i \in Ids : doc'[i] = IF i \in D /\ stored(i) THEN Removed ELSE doc[i]
  BY DEF deleteMany
<1>2. doc' = [i \in Ids |-> doc'[i]]
  BY DEF deleteMany
<1>3. \A i \in Ids : KindOK(i, doc[i])
  BY DEF Inv, DocsOK
<1>4. \A i \in Ids : KindOK(i, doc'[i])
  BY <1>1, <1>3, AbsentRemoved
<1>5. \A i \in Ids : stored(i)' <=> stored(i) /\ i \notin D
  BY <1>1, AbsentRemoved DEF stored
<1>6. \A i \in Ids : doc[i] \notin {Absent, Removed} => stored(i)
  BY <1>3, Kinds DEF stored
<1>7. DocsOK'
  BY <1>2, <1>4 DEF DocsOK
<1> QED BY <1>1, <1>5, <1>6, <1>7, AbsentRemoved DEF stored

\* A creation fills an identifier that was never used.
LEMMA SaveEffect ==
    ASSUME Inv, NEW i \in Ids, doc[i] = Absent, NEW d, KindOK(i, d), d.state = "stored",
           doc' = [doc EXCEPT ![i] = d]
    PROVE  /\ DocsOK'
           /\ \A j \in Ids :
                /\ doc'[j] = IF j = i THEN d ELSE doc[j]
                /\ stored(j)' <=> stored(j) \/ j = i
                /\ doc[j] # Absent => doc'[j] = doc[j]
<1>1. \A j \in Ids : doc'[j] = IF j = i THEN d ELSE doc[j]
  BY DEF Inv, DocsOK
<1>2. doc' = [j \in Ids |-> doc'[j]]
  BY DEF Inv, DocsOK
<1>3. \A j \in Ids : KindOK(j, doc'[j])
  BY <1>1 DEF Inv, DocsOK
<1>4. \A j \in Ids : stored(j)' <=> stored(j) \/ j = i
  BY <1>1 DEF stored
<1> QED BY <1>1, <1>2, <1>3, <1>4 DEF DocsOK

-----------------------------------------------------------------------------
(* Type correctness, and the files of the images                           *)

LEMMA IdleOK ==
    /\ Idle \in Local /\ LocalOK(Idle) /\ ImagesOK(Idle) /\ ImagesOK(Idle)'
    /\ Idle.ids = {} /\ Idle.pc = "idle" /\ Idle.op = "none" /\ Idle.place = None
    /\ Idle.user = None
BY DEF Idle, Local, LocalOK, ImagesOK, Steps, UserPcs

LEMMA InitInv == Init => Inv
<1> SUFFICES ASSUME Init PROVE Inv
  OBVIOUS
<1>1. DocsOK
  BY AbsentRemoved DEF Init, DocsOK
<1>2. ImagesHaveFiles
  BY AbsentRemoved DEF Init, ImagesHaveFiles, stored, Ids
<1>3. \A r \in Requests : req[r] = Idle
  BY DEF Init
<1>4. req \in [Requests -> Local]
  BY <1>3, IdleOK DEF Init
<1>5. UploadsApart
  BY <1>3, IdleOK DEF UploadsApart
<1> QED BY <1>1, <1>2, <1>3, <1>4, <1>5, IdleOK DEF Init, Inv

\* What a step of r leaves to the other requests.
Undisturbed(r) ==
    \A i \in Ids :
        /\ doc[i] # Absent => doc'[i] # Absent
        /\ doc[i] = Removed => doc'[i] = Removed
        /\ (doc[i] = Absent /\ i \in files) =>
                \/ doc'[i] = Absent /\ i \in files'
                \/ req[r].pc = "image:save" /\ i \in req[r].ids

LEMMA StepInv ==
    ASSUME OwnershipAssumption, Inv, NEW r \in Requests, NEW l \in Local,
           LocalOK(l), ImagesOK(l)',
           l.pc = "image:save" => l.ids \cap files = {},
           req' = [req EXCEPT ![r] = l], Undisturbed(r),
           DocsOK', ImagesHaveFiles', place' \in [Users -> Places \cup {None}],
           accounts' \subseteq Users, interrupted' \subseteq Users, files' \subseteq Images,
           left' \subseteq Reviews \cup Images
    PROVE  Inv'
<1>1. \A q \in Requests : req'[q] = IF q = r THEN l ELSE req[q]
  BY DEF Inv
<1>2. req' \in [Requests -> Local]
  BY DEF Inv
<1>3. \A q \in Requests : req[q].ids \subseteq Ids
  BY DEF Inv, Local, Ids
<1>4. ASSUME NEW q \in Requests, q # r
      PROVE  ImagesOK(req[q])'
  <2>1. ImagesOK(req[q]) /\ req[q].ids \subseteq Ids /\ req'[q] = req[q]
    BY <1>1, <1>3, <1>4 DEF Inv
  <2>2. CASE req[q].pc = "image:save"
    <3>1. req[r].pc = "image:save" => req[q].ids \cap req[r].ids = {}
      BY <1>4, <2>2 DEF Inv, UploadsApart
    <3> QED BY <2>1, <2>2, <3>1 DEF ImagesOK, Undisturbed
  <2>3. CASE req[q].pc # "image:save"
    BY <2>1, <2>3 DEF ImagesOK, Undisturbed
  <2> QED BY <2>2, <2>3
<1>5. \A q \in Requests : LocalOK(req[q])' /\ ImagesOK(req[q])'
  BY <1>1, <1>4 DEF Inv, LocalOK
<1>6. UploadsApart'
  <2> SUFFICES ASSUME NEW q \in Requests, NEW s \in Requests, q # s,
                      req'[q].pc = "image:save", req'[s].pc = "image:save"
               PROVE  req'[q].ids \cap req'[s].ids = {}
    BY DEF UploadsApart
  <2>1. CASE q # r /\ s # r
    BY <1>1, <2>1 DEF Inv, UploadsApart
  <2>2. CASE q = r
    <3>1. l.ids \cap files = {} /\ req[s].ids \subseteq files
      BY <1>1, <2>2 DEF Inv, ImagesOK
    <3> QED BY <1>1, <2>2, <3>1
  <2>3. CASE s = r
    <3>1. l.ids \cap files = {} /\ req[q].ids \subseteq files
      BY <1>1, <2>3 DEF Inv, ImagesOK
    <3> QED BY <1>1, <2>3, <3>1
  <2> QED BY <2>1, <2>2, <2>3
<1> QED BY <1>2, <1>5, <1>6 DEF Inv

\* A step that leaves the documents and the files alone.
LEMMA QuietInv ==
    ASSUME OwnershipAssumption, Inv, NEW r \in Requests, NEW l \in Local,
           LocalOK(l), ImagesOK(l), l.pc # "image:save",
           req' = [req EXCEPT ![r] = l], UNCHANGED <<doc, files>>,
           place' \in [Users -> Places \cup {None}], accounts' \subseteq Users,
           interrupted' \subseteq Users, left' \subseteq Reviews \cup Images
    PROVE  Inv'
<1>1. Undisturbed(r)
  BY DEF Undisturbed
<1>2. DocsOK' /\ ImagesHaveFiles' /\ files' \subseteq Images
  BY DEF Inv, DocsOK, ImagesHaveFiles, stored
<1>3. ImagesOK(l)'
  BY DEF ImagesOK
<1> QED BY <1>1, <1>2, <1>3, StepInv

\* A step that deletes documents and leaves the files alone.
LEMMA DeleteInv ==
    ASSUME OwnershipAssumption, Inv, NEW r \in Requests, NEW l \in Local, NEW D,
           LocalOK(l), l.pc # "image:save", \A i \in l.ids : doc[i] # Absent,
           l.pc = "files:delete" => l.ids \subseteq D,
           req' = [req EXCEPT ![r] = l], deleteMany(D),
           UNCHANGED <<place, accounts, files, interrupted>>,
           left' \subseteq Reviews \cup Images
    PROVE  Inv'
<1>1. /\ DocsOK'
      /\ \A i \in Ids :
            /\ stored(i)' => stored(i)
            /\ doc'[i] = Absent <=> doc[i] = Absent
            /\ doc[i] = Removed => doc'[i] = Removed
            /\ i \in D /\ doc[i] # Absent => doc'[i] = Removed
  BY DeleteEffect
<1>2. Undisturbed(r)
  BY <1>1 DEF Undisturbed
<1>3. ImagesHaveFiles'
  BY <1>1 DEF Inv, ImagesHaveFiles, Ids
<1>4. l.ids \subseteq Ids
  BY DEF Local, Ids
<1>5. ImagesOK(l)'
  BY <1>1, <1>4 DEF ImagesOK
<1> QED BY <1>1, <1>2, <1>3, <1>5, StepInv DEF Inv

\* A step that stores a document other than an image.
LEMMA SaveInv ==
    ASSUME OwnershipAssumption, Inv, NEW r \in Requests, NEW l \in Local,
           NEW i \in Ids \ Images, doc[i] = Absent, NEW d, KindOK(i, d), d.state = "stored",
           LocalOK(l), l.pc # "image:save", l.ids = {}, 
           req' = [req EXCEPT ![r] = l], doc' = [doc EXCEPT ![i] = d],
           UNCHANGED <<place, accounts, files, left, interrupted>>
    PROVE  Inv'
<1>1. /\ DocsOK'
      /\ \A j \in Ids :
            /\ doc'[j] = IF j = i THEN d ELSE doc[j]
            /\ stored(j)' <=> stored(j) \/ j = i
            /\ doc[j] # Absent => doc'[j] = doc[j]
  BY SaveEffect
<1>2. \A j \in files : j # i
  BY DEF Inv
<1>3. Undisturbed(r)
  BY <1>1, <1>2, AbsentRemoved DEF Undisturbed
<1>4. ImagesHaveFiles'
  BY <1>1 DEF Inv, ImagesHaveFiles, Ids
<1>5. ImagesOK(l)'
  BY DEF ImagesOK
<1> QED BY <1>1, <1>3, <1>4, <1>5, StepInv DEF Inv

\* A request that begins, or ends.
LEMMA StartInv ==
    ASSUME OwnershipAssumption, Inv, NEW r \in Requests, NEW l \in Local, LocalOK(l),
           l.ids = {}, l.pc \notin {"image:save"}, become(r, l), UNCHANGED documents
    PROVE  Inv'
<1>1. ImagesOK(l)
  BY DEF ImagesOK
<1> QED BY <1>1, QuietInv DEF become, documents, Inv

LEMMA CreateFindInv ==
    ASSUME OwnershipAssumption, Inv, NEW r \in Requests,
           \/ CreatePlaceFind(r) \/ UpdateUserFind(r) \/ CreateEventFind(r)
           \/ CreateReviewFind(r) \/ CreateCommentFind(r) \/ CreateFavoriteFind(r)
           \/ NotifyFind(r) \/ UploadFind(r)
    PROVE  Inv'
<1>1. UNCHANGED documents
  BY DEF CreatePlaceFind, UpdateUserFind, CreateEventFind, CreateReviewFind,
         CreateCommentFind, CreateFavoriteFind, NotifyFind, UploadFind
<1>2. accounts \subseteq Users /\ \A u \in Users : place[u] \in Places \cup {None}
  BY DEF Inv
<1>3. CASE CreatePlaceFind(r)
  <2>1. PICK u \in Users : become(r, [Idle EXCEPT !.pc = "place:save", !.user = u])
    BY <1>3 DEF CreatePlaceFind, start
  <2>2. PICK l : l = [Idle EXCEPT !.pc = "place:save", !.user = u]
    OBVIOUS
  <2>3. l \in Local /\ LocalOK(l) /\ l.ids = {} /\ l.pc = "place:save"
    BY <2>2 DEF Idle, Local, LocalOK, Steps, UserPcs
  <2> QED BY <1>1, <2>1, <2>2, <2>3, StartInv
<1>4. CASE UpdateUserFind(r)
  <2>1. PICK u \in accounts :
            become(r, [Idle EXCEPT !.pc = "user:write", !.user = u, !.place = place[u]])
    BY <1>4 DEF UpdateUserFind, start
  <2>2. PICK l : l = [Idle EXCEPT !.pc = "user:write", !.user = u, !.place = place[u]]
    OBVIOUS
  <2>3. l \in Local /\ LocalOK(l) /\ l.ids = {} /\ l.pc = "user:write"
    BY <1>2, <2>2 DEF Idle, Local, LocalOK, Steps, UserPcs
  <2> QED BY <1>1, <2>1, <2>2, <2>3, StartInv
<1>5. ASSUME NEW pc \in {"event:save", "review:save", "comment:save", "favorite:save",
                         "notification:save", "image:upload"},
             NEW u \in accounts, NEW i \in Ids \cup Users \cup {None},
             become(r, [Idle EXCEPT !.pc = pc, !.user = u, !.ref = i]),
             pc = "event:save" => i \in Places \cup {None},
             pc = "review:save" => i \in Places \cup Events,
             pc = "comment:save" => i \in Reviews \cup Images,
             pc = "favorite:save" => i \in Places,
             pc = "notification:save" => i \in Events,
             pc = "image:upload" => i \in Places \cup Events \cup Users
      PROVE  Inv'
  <2>1. PICK l : l = [Idle EXCEPT !.pc = pc, !.user = u, !.ref = i]
    OBVIOUS
  <2>2. l \in Local /\ LocalOK(l) /\ l.ids = {} /\ l.pc = pc
    BY <1>2, <1>5, <2>1 DEF Idle, Local, LocalOK, Steps, UserPcs
  <2> QED BY <1>1, <1>5, <2>1, <2>2, StartInv
<1>6. CASE CreateEventFind(r)
  BY <1>5, <1>6 DEF CreateEventFind, start, Ids
<1>7. CASE CreateReviewFind(r)
  BY <1>5, <1>7 DEF CreateReviewFind, start, Ids
<1>8. CASE CreateCommentFind(r)
  BY <1>5, <1>8 DEF CreateCommentFind, start, Ids
<1>9. CASE CreateFavoriteFind(r)
  BY <1>5, <1>9 DEF CreateFavoriteFind, start, Ids
<1>10. CASE NotifyFind(r)
  BY <1>5, <1>10 DEF NotifyFind, start, Ids
<1>11. CASE UploadFind(r)
  BY <1>5, <1>11 DEF UploadFind, start, Ids
<1> QED BY <1>3, <1>4, <1>6, <1>7, <1>8, <1>9, <1>10, <1>11

LEMMA LinkType ==
    ASSUME Inv, NEW u, NEW p \in Places \cup {None}, linkPlace(u, p)
    PROVE  place' \in [Users -> Places \cup {None}]
BY DEF Inv, linkPlace

LEMMA WriteInv ==
    ASSUME OwnershipAssumption, Inv, NEW r \in Requests,
           \/ CreatePlaceSave(r) \/ CreatePlaceLink(r) \/ UpdateUserWrite(r)
           \/ DeletePlaceUnlink(r) \/ deleteUser(r) \/ RequestFail(r)
    PROVE  Inv'
<1>1. req[r] \in Local /\ LocalOK(req[r]) /\ ImagesOK(req[r])
  BY DEF Inv
<1>2. CASE CreatePlaceSave(r)
  <2>1. PICK p \in Places :
            /\ doc[p] = Absent
            /\ doc' = [doc EXCEPT
                    ![p] = [owner |-> req[r].user, ref |-> None, state |-> "stored"]]
            /\ become(r, [req[r] EXCEPT !.pc = "place:link", !.place = p])
    BY <1>2 DEF CreatePlaceSave
  <2>2. PICK l : l = [req[r] EXCEPT !.pc = "place:link", !.place = p]
    OBVIOUS
  <2>3. req[r].pc = "place:save" /\ req[r].user \in Users
    BY <1>1, <1>2 DEF CreatePlaceSave, LocalOK, UserPcs
  <2>4. /\ l \in Local /\ l.pc = "place:link" /\ l.place = p /\ l.user = req[r].user
        /\ l.ids = req[r].ids /\ l.op = req[r].op
    BY <1>1, <2>2 DEF Local, Steps
  <2>5. LocalOK(l)
    BY <2>3, <2>4 DEF LocalOK
  <2>6. PICK d : d = [owner |-> req[r].user, ref |-> None, state |-> "stored"]
    OBVIOUS
  <2>7. KindOK(p, d) /\ d.state = "stored" /\ p \in Ids \ Images
    BY <2>3, <2>6 DEF KindOK, PlaceDocs, Docs, OwnershipAssumption, Ids
  <2>8. /\ DocsOK'
        /\ \A j \in Ids :
            /\ doc'[j] = IF j = p THEN d ELSE doc[j]
            /\ stored(j)' <=> stored(j) \/ j = p
            /\ doc[j] # Absent => doc'[j] = doc[j]
    <3>1. p \in Ids /\ doc[p] = Absent /\ doc' = [doc EXCEPT ![p] = d]
      BY <2>1, <2>6, <2>7
    <3>2. KindOK(p, d) /\ d.state = "stored"
      BY <2>7
    <3> QED BY <3>1, <3>2, SaveEffect
  <2>9. \A j \in files : j # p
    BY <2>7 DEF Inv
  <2>10. Undisturbed(r)
    BY <2>8, <2>9, AbsentRemoved, <1>2 DEF Undisturbed, CreatePlaceSave
  <2>11. ImagesHaveFiles'
    BY <1>2, <2>7, <2>8 DEF Inv, ImagesHaveFiles, Ids, CreatePlaceSave
  <2>12. ImagesOK(l)'
    BY <1>1, <2>3, <2>4, <2>8 DEF ImagesOK, Local, Ids
  <2> QED BY <1>2, <2>1, <2>2, <2>4, <2>5, <2>8, <2>10, <2>11, <2>12, StepInv
          DEF CreatePlaceSave, become, Inv
<1>3. CASE CreatePlaceLink(r) \/ UpdateUserWrite(r) \/ DeletePlaceUnlink(r)
  <2>1. /\ become(r, Idle) /\ UNCHANGED <<doc, accounts, files, left, interrupted>>
        /\ linkPlace(req[r].user, req[r].place) \/ linkPlace(req[r].user, None)
    BY <1>3 DEF CreatePlaceLink, UpdateUserWrite, DeletePlaceUnlink
  <2>2. place' \in [Users -> Places \cup {None}]
    BY <1>1, <2>1, LinkType DEF Local
  <2> QED BY <2>1, <2>2, IdleOK, QuietInv DEF become, Inv
<1>4. CASE deleteUser(r)
  <2>1. place' \in [Users -> Places \cup {None}]
    BY <1>4 DEF deleteUser, Inv
  <2> QED BY <1>4, <2>1, IdleOK, QuietInv DEF deleteUser, become, Inv
<1>5. CASE RequestFail(r)
  <2>1. (req[r].pc \in {"place:link", "place:unlink"} \/ req[r].op = "account")
            => req[r].user \in Users
    BY <1>1 DEF LocalOK, UserPcs
  <2>2. interrupted' \subseteq Users
    BY <1>5, <2>1 DEF RequestFail, Inv
  <2> QED BY <1>5, <2>2, IdleOK, QuietInv DEF RequestFail, become, Inv
<1> QED BY <1>2, <1>3, <1>4, <1>5

LEMMA CreateSaveInv ==
    ASSUME OwnershipAssumption, Inv, NEW r \in Requests, CreateSave(r)
    PROVE  Inv'
<1>1. req[r] \in Local /\ LocalOK(req[r]) /\ ImagesOK(req[r])
  BY DEF Inv
<1>2. become(r, Idle) /\ UNCHANGED <<place, accounts, files, left, interrupted>>
  BY DEF CreateSave
<1>3. PICK d : d = [owner |-> req[r].user, ref |-> req[r].ref, state |-> "stored"]
  OBVIOUS
<1>4. \E i \in Ids \ Images :
        doc[i] = Absent /\ KindOK(i, d) /\ doc' = [doc EXCEPT ![i] = d]
  <2> USE DEF LocalOK, UserPcs, KindOK, Docs, Ids
  <2>1. CASE req[r].pc = "event:save" /\ save(Events, req[r].user, req[r].ref)
    <3>1. d \in EventDocs
      BY <1>1, <1>3, <2>1 DEF EventDocs
    <3>2. PICK i \in Events : doc[i] = Absent /\ doc' = [doc EXCEPT ![i] = d]
      BY <1>3, <2>1 DEF save
    <3> QED BY <3>1, <3>2 DEF OwnershipAssumption
  <2>2. CASE req[r].pc = "review:save" /\ save(Reviews, req[r].user, req[r].ref)
    <3>1. d \in ReviewDocs
      BY <1>1, <1>3, <2>2 DEF ReviewDocs
    <3>2. PICK i \in Reviews : doc[i] = Absent /\ doc' = [doc EXCEPT ![i] = d]
      BY <1>3, <2>2 DEF save
    <3> QED BY <3>1, <3>2 DEF OwnershipAssumption
  <2>3. CASE req[r].pc = "comment:save" /\ save(Comments, req[r].user, req[r].ref)
    <3>1. d \in CommentDocs
      BY <1>1, <1>3, <2>3 DEF CommentDocs
    <3>2. PICK i \in Comments : doc[i] = Absent /\ doc' = [doc EXCEPT ![i] = d]
      BY <1>3, <2>3 DEF save
    <3> QED BY <3>1, <3>2 DEF OwnershipAssumption
  <2>4. CASE req[r].pc = "favorite:save" /\ save(Favorites, req[r].user, req[r].ref)
    <3>1. d \in FavoriteDocs
      BY <1>1, <1>3, <2>4 DEF FavoriteDocs
    <3>2. PICK i \in Favorites : doc[i] = Absent /\ doc' = [doc EXCEPT ![i] = d]
      BY <1>3, <2>4 DEF save
    <3> QED BY <3>1, <3>2 DEF OwnershipAssumption
  <2>5. CASE req[r].pc = "notification:save"
             /\ save(Notifications, req[r].user, req[r].ref)
    <3>1. d \in NotificationDocs
      BY <1>1, <1>3, <2>5 DEF NotificationDocs
    <3>2. PICK i \in Notifications : doc[i] = Absent /\ doc' = [doc EXCEPT ![i] = d]
      BY <1>3, <2>5 DEF save
    <3> QED BY <3>1, <3>2 DEF OwnershipAssumption
  <2> QED BY <2>1, <2>2, <2>3, <2>4, <2>5 DEF CreateSave
<1>5. d.state = "stored" /\ req' = [req EXCEPT ![r] = Idle]
  BY <1>2, <1>3 DEF become
<1>6. PICK i \in Ids \ Images :
        doc[i] = Absent /\ KindOK(i, d) /\ doc' = [doc EXCEPT ![i] = d]
  BY <1>4
<1> QED BY <1>2, <1>5, <1>6, IdleOK, SaveInv

\* The identifier an upload takes is of no other upload: its files would be there.
LEMMA UploadInv ==
    ASSUME OwnershipAssumption, Inv, NEW r \in Requests, upload(r)
    PROVE  Inv'
<1>1. req[r] \in Local /\ LocalOK(req[r]) /\ req[r].pc = "image:upload"
  BY DEF Inv, upload
<1>2. PICK i \in Images :
        /\ doc[i] = Absent /\ i \notin files /\ files' = files \cup {i}
        /\ become(r, [req[r] EXCEPT !.pc = "image:save", !.ids = {i}])
  BY DEF upload
<1>3. PICK l : l = [req[r] EXCEPT !.pc = "image:save", !.ids = {i}]
  OBVIOUS
<1>4. /\ l \in Local /\ l.pc = "image:save" /\ l.ids = {i} /\ l.user = req[r].user
      /\ l.ref = req[r].ref /\ l.op = req[r].op
      /\ l.place = req[r].place /\ l.level = req[r].level
  BY <1>1, <1>3 DEF Local, Steps
<1>5. LocalOK(l)
  BY <1>1, <1>4 DEF LocalOK, UserPcs
<1>6. UNCHANGED <<doc, place, accounts, left, interrupted>>
  BY DEF upload
<1>7. Undisturbed(r)
  BY <1>2, <1>6 DEF Undisturbed
<1>8. DocsOK' /\ ImagesHaveFiles'
  BY <1>2, <1>6 DEF Inv, DocsOK, ImagesHaveFiles, stored
<1>9. ImagesOK(l)'
  BY <1>2, <1>4, <1>6 DEF ImagesOK
<1> QED BY <1>2, <1>3, <1>4, <1>5, <1>6, <1>7, <1>8, <1>9, StepInv DEF become, Inv

LEMMA SaveManyInv ==
    ASSUME OwnershipAssumption, Inv, NEW r \in Requests, saveMany(r)
    PROVE  Inv'
<1>1. /\ req[r] \in Local /\ LocalOK(req[r]) /\ ImagesOK(req[r])
      /\ req[r].pc = "image:save"
  BY DEF Inv, saveMany
<1>2. PICK d : d = [owner |-> req[r].user, ref |-> req[r].ref, state |-> "stored"]
  OBVIOUS
<1>3. d \in ImageDocs
  BY <1>1, <1>2 DEF LocalOK, UserPcs, ImageDocs, Docs
<1>4. \A i \in Ids : doc'[i] = IF i \in req[r].ids THEN d ELSE doc[i]
  BY <1>2 DEF saveMany
<1>5. req[r].ids \subseteq Images /\ req[r].ids \subseteq files
  BY <1>1 DEF LocalOK, ImagesOK
<1>6. \A i \in req[r].ids : KindOK(i, d)
  BY <1>3, <1>5 DEF KindOK, OwnershipAssumption
<1>7. DocsOK'
  <2>1. doc' = [i \in Ids |-> doc'[i]]
    BY DEF saveMany
  <2>2. \A i \in Ids : KindOK(i, doc'[i])
    BY <1>4, <1>6 DEF Inv, DocsOK
  <2> QED BY <2>1, <2>2 DEF DocsOK
<1>8. d.state # "absent" /\ d.state # "removed"
  BY <1>2
<1>9. UNCHANGED <<place, accounts, files, left, interrupted>> /\ become(r, Idle)
  BY DEF saveMany
<1>10. Undisturbed(r)
  <2>1. \A i \in req[r].ids : doc[i] = Absent
    BY <1>1 DEF ImagesOK
  <2> QED BY <1>1, <1>4, <1>8, <1>9, <2>1, AbsentRemoved DEF Undisturbed
<1>11. ImagesHaveFiles'
  <2>1. \A i \in Images : stored(i)' => stored(i) \/ i \in req[r].ids
    BY <1>4 DEF stored, Ids
  <2> QED BY <1>5, <1>9, <2>1 DEF Inv, ImagesHaveFiles
<1> QED BY <1>7, <1>9, <1>10, <1>11, IdleOK, StepInv DEF become, Inv

\* Files are deleted of documents that are gone.
LEMMA FilesInv ==
    ASSUME OwnershipAssumption, Inv, NEW r \in Requests, DeleteImagesFiles(r)
    PROVE  Inv'
<1>1. /\ req[r] \in Local /\ LocalOK(req[r]) /\ req[r].pc = "files:delete"
      /\ \A i \in req[r].ids : doc[i] = Removed
  BY DEF Inv, DeleteImagesFiles, ImagesOK
<1>2. PICK gone \in SUBSET req[r].ids : files' = files \ gone
  BY DEF DeleteImagesFiles
<1>3. PICK l : l = IF req[r].op = "images" THEN Idle
                   ELSE [req[r] EXCEPT !.ids = {}, !.pc = "roots:delete"]
  OBVIOUS
<1>4. l \in Local /\ LocalOK(l) /\ l.ids = {} /\ l.pc # "image:save"
  <2>1. CASE req[r].op = "images"
    BY <1>3, <2>1, IdleOK
  <2>2. CASE req[r].op # "images"
    <3>1. /\ l \in Local /\ l.pc = "roots:delete" /\ l.ids = {} /\ l.user = req[r].user
          /\ l.op = req[r].op /\ l.place = req[r].place /\ l.level = req[r].level
      BY <1>1, <1>3, <2>2 DEF Local, Steps
    <3> QED BY <1>1, <3>1 DEF LocalOK, UserPcs
  <2> QED BY <2>1, <2>2
<1>5. UNCHANGED <<doc, place, accounts, left, interrupted>> /\ req' = [req EXCEPT ![r] = l]
  BY <1>3 DEF DeleteImagesFiles, become
<1>6. Undisturbed(r)
  BY <1>1, <1>2, <1>5, AbsentRemoved DEF Undisturbed
<1>7. DocsOK' /\ ImagesHaveFiles'
  <2>1. \A i \in req[r].ids : ~stored(i)
    BY <1>1, AbsentRemoved DEF stored
  <2> QED BY <1>2, <1>5, <2>1 DEF Inv, DocsOK, ImagesHaveFiles, stored
<1>8. ImagesOK(l)'
  BY <1>4 DEF ImagesOK
<1> QED BY <1>2, <1>4, <1>5, <1>6, <1>7, <1>8, StepInv DEF Inv

LEMMA PcSteps == {"reviews:find", "account:favorites", "threads:find"} \subseteq Steps
BY DEF Steps

\* Where the cascade of the events of a place, or of an account, leads.
LEMMA AfterEventsType ==
    ASSUME NEW l \in Local, LocalOK(l), NEW m, m = afterEvents(l)
    PROVE  /\ m \in Local /\ LocalOK(m) /\ m.ids \subseteq l.ids
           /\ m.pc \in {"reviews:find", "account:favorites", "idle"}
<1>1. CASE l.place # None
  <2>1. m = [l EXCEPT !.level = "Place", !.roots = {l.place}, !.pc = "reviews:find"]
    BY <1>1 DEF afterEvents
  <2>2. {l.place} \in SUBSET (Events \cup Places \cup Users \cup {None})
    BY DEF Local
  <2>3. /\ m \in Local /\ m.pc = "reviews:find" /\ m.ids = l.ids /\ m.user = l.user
        /\ m.op = l.op /\ m.place = l.place /\ m.level = "Place"
    BY <2>1, <2>2, PcSteps DEF Local
  <2> QED BY <1>1, <2>3 DEF LocalOK, UserPcs
<1>2. CASE l.place = None /\ l.op = "account"
  <2>1. m = [l EXCEPT !.level = "User", !.roots = {l.user}, !.pc = "account:favorites"]
    BY <1>2 DEF afterEvents
  <2>2. {l.user} \in SUBSET (Events \cup Places \cup Users \cup {None})
    BY DEF Local
  <2>3. /\ m \in Local /\ m.pc = "account:favorites" /\ m.ids = l.ids /\ m.user = l.user
        /\ m.op = l.op /\ m.place = l.place /\ m.level = "User"
    BY <2>1, <2>2, PcSteps DEF Local
  <2> QED BY <1>2, <2>3 DEF LocalOK, UserPcs
<1>3. CASE l.place = None /\ l.op # "account"
  <2>1. m = Idle
    BY <1>3 DEF afterEvents
  <2> QED BY <2>1, IdleOK
<1> QED BY <1>1, <1>2, <1>3

LEMMA DeleteEventsType ==
    ASSUME NEW l \in Local, LocalOK(l), NEW E \in SUBSET Events,
           NEW m, m = deleteEvents(l, E)
    PROVE  /\ m \in Local /\ LocalOK(m) /\ m.ids \subseteq l.ids
           /\ m.pc \in {"reviews:find", "account:favorites", "idle"}
<1>1. CASE E = {}
  BY <1>1, AfterEventsType DEF deleteEvents
<1>2. CASE E # {}
  <2>1. m = [l EXCEPT !.level = "Event", !.roots = E, !.pc = "reviews:find"]
    BY <1>2 DEF deleteEvents
  <2>2. E \in SUBSET (Events \cup Places \cup Users \cup {None})
    OBVIOUS
  <2>3. /\ m \in Local /\ m.pc = "reviews:find" /\ m.ids = l.ids /\ m.user = l.user
        /\ m.op = l.op /\ m.place = l.place /\ m.level = "Event"
    BY <2>1, <2>2, PcSteps DEF Local
  <2> QED BY <2>3 DEF LocalOK, UserPcs
<1> QED BY <1>1, <1>2

LEMMA DeleteImagesType ==
    ASSUME NEW l \in Local, LocalOK(l), NEW ids \in SUBSET Images,
           NEW m, m = deleteImages(l, ids)
    PROVE  /\ m \in Local /\ LocalOK(m) /\ m.ids = ids
           /\ m.pc \in {"roots:delete", "threads:find"}
<1>1. PICK pc : pc = IF ids = {} THEN "roots:delete" ELSE "threads:find"
  OBVIOUS
<1>2. pc \in Steps /\ pc \in {"roots:delete", "threads:find"}
  BY <1>1 DEF Steps
<1>3. m = [l EXCEPT !.ids = ids, !.pc = pc]
  BY <1>1 DEF deleteImages
<1>4. /\ m \in Local /\ m.pc = pc /\ m.ids = ids
      /\ m.user = l.user /\ m.op = l.op /\ m.place = l.place /\ m.level = l.level
  BY <1>2, <1>3 DEF Local
<1> QED BY <1>2, <1>4 DEF LocalOK, UserPcs

\* What a look-up finds exists.
LEMMA FoundExist ==
    ASSUME OwnershipAssumption, Inv
    PROVE  /\ \A Pool \in SUBSET Ids : \A R : \A i \in findIdsByReferences(Pool, R) :
                i \in Pool /\ stored(i) /\ doc[i] # Absent
           /\ \A Pool \in SUBSET Ids, u \in Users : \A i \in findIdsByOwner(Pool, u) :
                i \in Pool /\ stored(i) /\ doc[i] # Absent
<1>1. \A i \in Ids : stored(i) => doc[i] # Absent
  BY AbsentRemoved DEF stored
<1>2. \A i \in Ids : doc[i].owner \in Users => stored(i)
  BY Kinds DEF Inv, DocsOK, stored, OwnershipAssumption
<1> QED BY <1>1, <1>2 DEF findIdsByReferences, findIdsByOwner

\* The requests that delete begin.
LEMMA DeleteFindInv ==
    ASSUME OwnershipAssumption, Inv, NEW r \in Requests,
           \/ DeleteReviewFind(r) \/ DeleteCommentFind(r) \/ DeleteFavoriteFind(r)
           \/ DeleteEventFind(r) \/ DeletePlaceFind(r) \/ DeleteImagesFind(r)
           \/ AccountFind(r)
    PROVE  Inv'
<1> USE DEF Ids
<1>1. UNCHANGED documents
  BY DEF DeleteReviewFind, DeleteCommentFind, DeleteFavoriteFind, DeleteOwnFind,
         DeleteEventFind, DeletePlaceFind, DeleteImagesFind, AccountFind
<1>2. accounts \subseteq Users
  BY DEF Inv
<1>3. ASSUME NEW Pool \in SUBSET Ids, DeleteOwnFind(r, Pool)
      PROVE  Inv'
  <2>1. PICK i \in Pool :
            /\ doc[i].owner \in accounts
            /\ become(r, [Idle EXCEPT !.pc = "delete", !.ref = i, !.user = doc[i].owner])
    BY <1>3 DEF DeleteOwnFind, start
  <2>2. PICK l : l = [Idle EXCEPT !.pc = "delete", !.ref = i, !.user = doc[i].owner]
    OBVIOUS
  <2>3. l \in Local /\ LocalOK(l) /\ l.ids = {} /\ l.pc = "delete"
    BY <1>2, <2>1, <2>2 DEF Idle, Local, LocalOK, Steps, UserPcs
  <2> QED BY <1>1, <2>1, <2>2, <2>3, StartInv
<1>4. CASE DeleteReviewFind(r) \/ DeleteCommentFind(r) \/ DeleteFavoriteFind(r)
  BY <1>3, <1>4 DEF DeleteReviewFind, DeleteCommentFind, DeleteFavoriteFind
<1>5. CASE DeleteEventFind(r)
  <2>1. PICK e \in Events : become(r, deleteEvents([Idle EXCEPT !.op = "event"], {e}))
    BY <1>5 DEF DeleteEventFind, start
  <2>2. PICK k : k = [Idle EXCEPT !.op = "event"]
    OBVIOUS
  <2>3. k \in Local /\ LocalOK(k) /\ k.ids = {}
    BY <2>2 DEF Idle, Local, LocalOK, Steps, UserPcs
  <2>4. PICK l : l = deleteEvents(k, {e})
    OBVIOUS
  <2>5. l \in Local /\ LocalOK(l) /\ l.ids = {} /\ l.pc # "image:save"
    BY <2>3, <2>4, DeleteEventsType
  <2> QED BY <1>1, <2>1, <2>2, <2>4, <2>5, StartInv
<1>6. CASE DeletePlaceFind(r)
  <2>1. PICK p \in Places :
            /\ doc[p].owner \in accounts
            /\ become(r, [Idle EXCEPT !.op = "place", !.pc = "place:events",
                                      !.place = p, !.user = doc[p].owner])
    BY <1>6 DEF DeletePlaceFind, start
  <2>2. PICK l : l = [Idle EXCEPT !.op = "place", !.pc = "place:events",
                                  !.place = p, !.user = doc[p].owner]
    OBVIOUS
  <2>3. l \in Local /\ LocalOK(l) /\ l.ids = {} /\ l.pc = "place:events"
    BY <1>2, <2>1, <2>2 DEF Idle, Local, LocalOK, Steps, UserPcs
  <2> QED BY <1>1, <2>1, <2>2, <2>3, StartInv
<1>7. CASE DeleteImagesFind(r)
  <2>1. PICK i \in Images :
            /\ stored(i)
            /\ become(r, [Idle EXCEPT !.op = "images", !.pc = "images:delete", !.ids = {i}])
    BY <1>7 DEF DeleteImagesFind, start
  <2>2. PICK l : l = [Idle EXCEPT !.op = "images", !.pc = "images:delete", !.ids = {i}]
    OBVIOUS
  <2>3. l \in Local /\ LocalOK(l) /\ l.ids = {i} /\ l.pc = "images:delete"
    BY <2>2 DEF Idle, Local, LocalOK, Steps, UserPcs
  <2>4. ImagesOK(l)
    BY <2>1, <2>3, AbsentRemoved DEF ImagesOK, stored
  <2> QED BY <1>1, <2>1, <2>2, <2>3, <2>4, QuietInv DEF become, documents, Inv
<1>8. CASE AccountFind(r)
  <2>1. PICK u \in accounts :
            become(r, [Idle EXCEPT !.op = "account", !.pc = "account:places", !.user = u])
    BY <1>8 DEF AccountFind, start
  <2>2. PICK l : l = [Idle EXCEPT !.op = "account", !.pc = "account:places", !.user = u]
    OBVIOUS
  <2>3. l \in Local /\ LocalOK(l) /\ l.ids = {} /\ l.pc = "account:places"
    BY <1>2, <2>2 DEF Idle, Local, LocalOK, Steps, UserPcs
  <2> QED BY <1>1, <2>1, <2>2, <2>3, StartInv
<1> QED BY <1>4, <1>5, <1>6, <1>7, <1>8

\* The cascade reads: the documents stay as they are.
LEMMA LookUpInv ==
    ASSUME OwnershipAssumption, Inv, NEW r \in Requests,
           \/ findIdsByPlace(r) \/ deleteReviewsFind(r) \/ deleteCommentThreadsFind(r)
           \/ findImageIds(r) \/ DeleteImagesLoad(r) \/ AccountPlaces(r)
           \/ AccountNextPlace(r) \/ AccountEvents(r) \/ AccountImages(r)
           \/ AccountReferences(r)
    PROVE  Inv'
<1>1. req[r] \in Local /\ LocalOK(req[r]) /\ ImagesOK(req[r])
  BY DEF Inv
<1>2. UNCHANGED documents
  BY DEF findIdsByPlace, deleteReviewsFind, deleteCommentThreadsFind, findImageIds,
         DeleteImagesLoad, AccountPlaces, AccountNextPlace, AccountEvents, AccountImages,
         AccountReferences
<1>3. ASSUME NEW l \in Local, LocalOK(l), l.pc \notin {"image:save", "files:delete"},
             \A i \in l.ids : doc[i] # Absent, become(r, l)
      PROVE  Inv'
  <2>1. ImagesOK(l)
    BY <1>3 DEF ImagesOK
  <2> QED BY <1>2, <1>3, <2>1, QuietInv DEF become, documents, Inv
<1>4. /\ Places \subseteq Ids /\ Events \subseteq Ids /\ Reviews \subseteq Ids
      /\ Comments \subseteq Ids /\ Images \subseteq Ids
  BY DEF Ids
<1>5. req[r].pc # "image:save" => \A i \in req[r].ids : doc[i] # Absent
  BY <1>1 DEF ImagesOK
<1>6. ASSUME NEW E \in SUBSET Events, req[r].pc # "image:save",
             become(r, deleteEvents(req[r], E))
      PROVE  Inv'
  <2>1. PICK l : l = deleteEvents(req[r], E)
    OBVIOUS
  <2>2. /\ l \in Local /\ LocalOK(l) /\ l.ids \subseteq req[r].ids
        /\ l.pc \in {"reviews:find", "account:favorites", "idle"}
    BY <1>1, <2>1, DeleteEventsType
  <2> QED BY <1>3, <1>5, <1>6, <2>1, <2>2
<1>7. ASSUME NEW ids \in SUBSET Images, \A i \in ids : doc[i] # Absent,
             become(r, deleteImages(req[r], ids))
      PROVE  Inv'
  <2>1. PICK l : l = deleteImages(req[r], ids)
    OBVIOUS
  <2>2. l \in Local /\ LocalOK(l) /\ l.ids = ids /\ l.pc \in {"roots:delete", "threads:find"}
    BY <1>1, <2>1, DeleteImagesType
  <2> QED BY <1>3, <1>7, <2>1, <2>2
<1>8. CASE findIdsByPlace(r)
  <2>1. PICK E : E = findIdsByReferences(Events, {req[r].place})
    OBVIOUS
  <2>2. E \in SUBSET Events
    BY <2>1 DEF findIdsByReferences
  <2> QED BY <1>6, <1>8, <2>1, <2>2 DEF findIdsByPlace
<1>9. CASE deleteReviewsFind(r)
  <2>1. PICK ids : ids = findIdsByReferences(Reviews, req[r].roots)
    OBVIOUS
  <2>2. ids \in SUBSET Reviews /\ \A i \in ids : doc[i] # Absent
    BY <1>4, <2>1, FoundExist
  <2>3. PICK pc : pc = IF ids = {} THEN "reviews:delete" ELSE "threads:find"
    OBVIOUS
  <2>4. pc \in Steps /\ pc \in {"reviews:delete", "threads:find"}
    BY <2>3 DEF Steps
  <2>5. PICK l : l = [req[r] EXCEPT !.ids = ids, !.pc = pc]
    OBVIOUS
  <2>6. /\ l \in Local /\ l.pc = pc /\ l.ids = ids /\ l.user = req[r].user /\ l.op = req[r].op
        /\ l.place = req[r].place /\ l.level = req[r].level
    BY <1>1, <2>2, <2>4, <2>5 DEF Local
  <2>7. LocalOK(l)
    BY <1>1, <2>4, <2>6 DEF LocalOK, UserPcs
  <2>8. become(r, l)
    BY <1>9, <2>1, <2>3, <2>5 DEF deleteReviewsFind
  <2> QED BY <1>3, <2>2, <2>4, <2>6, <2>7, <2>8
<1>10. CASE deleteCommentThreadsFind(r)
  <2>1. PICK comments : comments = findIdsByReferences(Comments, req[r].ids)
    OBVIOUS
  <2>2. comments \in SUBSET Comments
    BY <2>1 DEF findIdsByReferences
  <2>3. PICK pc : pc = IF comments = {} THEN afterThreads(r) ELSE "threads:delete"
    OBVIOUS
  <2>4. /\ pc \in {"reviews:delete", "images:load", "threads:delete"} /\ pc \in Steps
        /\ pc = "images:load" => ~(req[r].ids \subseteq Reviews)
    BY <2>3 DEF Steps, afterThreads
  <2>5. PICK l : l = [req[r] EXCEPT !.comments = comments, !.pc = pc]
    OBVIOUS
  <2>6. /\ l \in Local /\ l.pc = pc /\ l.ids = req[r].ids /\ l.user = req[r].user
        /\ l.op = req[r].op /\ l.place = req[r].place /\ l.level = req[r].level
    BY <1>1, <2>2, <2>4, <2>5 DEF Local
  <2>7. l.pc = "images:load" => l.ids \subseteq Images
    BY <1>1, <2>4, <2>6 DEF Local
  <2>8. LocalOK(l)
    BY <1>1, <2>4, <2>6, <2>7 DEF LocalOK, UserPcs
  <2>9. req[r].pc = "threads:find" /\ become(r, l)
    BY <1>10, <2>1, <2>3, <2>5 DEF deleteCommentThreadsFind
  <2> QED BY <1>3, <1>5, <2>4, <2>6, <2>8, <2>9
<1>11. CASE findImageIds(r)
  <2>1. PICK ids : ids = findIdsByReferences(Images, req[r].roots)
    OBVIOUS
  <2>2. ids \in SUBSET Images /\ \A i \in ids : doc[i] # Absent
    BY <1>4, <2>1, FoundExist
  <2> QED BY <1>7, <1>11, <2>1, <2>2 DEF findImageIds
<1>12. CASE DeleteImagesLoad(r)
  <2>1. PICK l : l = [req[r] EXCEPT !.pc = "images:delete"]
    OBVIOUS
  <2>2. /\ l \in Local /\ l.pc = "images:delete" /\ l.ids = req[r].ids
        /\ l.user = req[r].user /\ l.op = req[r].op
        /\ l.place = req[r].place /\ l.level = req[r].level
    BY <1>1, <2>1 DEF Local, Steps
  <2>3. req[r].pc = "images:load" /\ become(r, l)
    BY <1>12, <2>1 DEF DeleteImagesLoad, goto
  <2>4. LocalOK(l)
    BY <1>1, <2>2, <2>3 DEF LocalOK, UserPcs
  <2> QED BY <1>3, <1>5, <2>2, <2>3, <2>4
<1>13. CASE AccountPlaces(r)
  <2>1. PICK found : found = findIdsByOwner(Places, req[r].user)
    OBVIOUS
  <2>2. found \in SUBSET Places
    BY <2>1 DEF findIdsByOwner
  <2>3. PICK l : l = [req[r] EXCEPT !.pc = "account:next", !.places = found]
    OBVIOUS
  <2>4. /\ l \in Local /\ l.pc = "account:next" /\ l.ids = req[r].ids
        /\ l.user = req[r].user /\ l.op = req[r].op
        /\ l.place = req[r].place /\ l.level = req[r].level
    BY <1>1, <2>2, <2>3 DEF Local, Steps
  <2>5. req[r].pc = "account:places" /\ become(r, l)
    BY <1>13, <2>1, <2>3 DEF AccountPlaces
  <2>6. LocalOK(l)
    BY <1>1, <2>4, <2>5 DEF LocalOK, UserPcs
  <2> QED BY <1>3, <1>5, <2>4, <2>5, <2>6
<1>14. CASE AccountNextPlace(r)
  <2>1. PICK p \in req[r].places :
            become(r, [req[r] EXCEPT !.pc = "place:events", !.place = p, !.places = @ \ {p}])
    BY <1>14 DEF AccountNextPlace
  <2>2. PICK others : others = req[r].places \ {p}
    OBVIOUS
  <2>3. others \in SUBSET Places /\ p \in Places
    BY <1>1, <2>2 DEF Local
  <2>4. PICK l : l = [req[r] EXCEPT !.pc = "place:events", !.place = p, !.places = others]
    OBVIOUS
  <2>5. /\ l \in Local /\ l.pc = "place:events" /\ l.ids = req[r].ids /\ l.place = p
        /\ l.user = req[r].user /\ l.op = req[r].op
    BY <1>1, <2>3, <2>4 DEF Local, Steps
  <2>6. req[r].pc = "account:next" /\ become(r, l)
    BY <1>1, <1>14, <2>1, <2>2, <2>4 DEF AccountNextPlace, Local
  <2>7. LocalOK(l)
    BY <1>1, <2>3, <2>5, <2>6 DEF LocalOK, UserPcs
  <2> QED BY <1>3, <1>5, <2>5, <2>6, <2>7
<1>15. CASE AccountEvents(r)
  <2>1. PICK E : E = findIdsByOwner(Events, req[r].user)
    OBVIOUS
  <2>2. E \in SUBSET Events
    BY <2>1 DEF findIdsByOwner
  <2> QED BY <1>6, <1>15, <2>1, <2>2 DEF AccountEvents
<1>16. CASE AccountImages(r)
  <2>1. PICK ids : ids = findIdsByOwner(Images, req[r].user)
    OBVIOUS
  <2>2. req[r].pc = "account:images" /\ req[r].user \in Users
    BY <1>1, <1>16 DEF AccountImages, LocalOK
  <2>3. ids \in SUBSET Images /\ \A i \in ids : doc[i] # Absent
    BY <1>4, <2>1, <2>2, FoundExist
  <2>4. PICK l : l = [req[r] EXCEPT !.pc = "account:references", !.ids = ids]
    OBVIOUS
  <2>5. /\ l \in Local /\ l.pc = "account:references" /\ l.ids = ids
        /\ l.user = req[r].user /\ l.op = req[r].op
        /\ l.place = req[r].place /\ l.level = req[r].level
    BY <1>1, <2>3, <2>4 DEF Local, Steps
  <2>6. LocalOK(l)
    BY <1>1, <2>2, <2>3, <2>5 DEF LocalOK, UserPcs
  <2> QED BY <1>3, <1>16, <2>1, <2>3, <2>4, <2>5, <2>6 DEF AccountImages
<1>17. CASE AccountReferences(r)
  <2>1. PICK found : found = findIdsByReferences(Images, {req[r].user})
    OBVIOUS
  <2>2. found \in SUBSET Images /\ \A i \in found : doc[i] # Absent
    BY <1>4, <2>1, FoundExist
  <2>3. req[r].pc = "account:references"
    BY <1>17 DEF AccountReferences
  <2>4. req[r].ids \subseteq Images
    BY <1>1, <2>3 DEF LocalOK
  <2>5. req[r].ids \cup found \in SUBSET Images
        /\ \A i \in req[r].ids \cup found : doc[i] # Absent
    BY <1>5, <2>2, <2>3, <2>4
  <2> QED BY <1>7, <1>17, <2>1, <2>5 DEF AccountReferences
<1> QED BY <1>8, <1>9, <1>10, <1>11, <1>12, <1>13, <1>14, <1>15, <1>16, <1>17

\* The cascade deletes, and goes on.
LEMMA CascadeDeleteInv ==
    ASSUME OwnershipAssumption, Inv, NEW r \in Requests,
           \/ DeleteOwn(r) \/ deleteCommentThreads(r) \/ deleteReviewsOn(r)
           \/ deleteAllByReference(r) \/ deleteByReferences(r) \/ DeleteImagesDelete(r)
           \/ deleteManyByIds(r) \/ deletePlace(r) \/ deleteAllByUserId(r) \/ deleteByUser(r)
    PROVE  Inv'
<1>1. /\ req[r] \in Local /\ LocalOK(req[r]) /\ req[r].pc # "image:save"
      /\ \A i \in req[r].ids : doc[i] # Absent
  BY DEF Inv, DeleteOwn, deleteCommentThreads, deleteReviewsOn, deleteAllByReference,
         deleteByReferences, DeleteImagesDelete, deleteManyByIds, deletePlace,
         deleteAllByUserId, deleteByUser, ImagesOK
<1>2. UNCHANGED <<place, accounts, files, interrupted>>
  BY DEF DeleteOwn, deleteCommentThreads, deleteReviewsOn, deleteAllByReference,
         deleteByReferences, DeleteImagesDelete, deleteManyByIds, deletePlace,
         deleteAllByUserId, deleteByUser
<1>3. left \subseteq Reviews \cup Images
  BY DEF Inv
<1>4. ASSUME NEW D, deleteMany(D), NEW l \in Local, LocalOK(l), become(r, l),
             l.pc # "image:save", l.ids \subseteq req[r].ids,
             l.pc = "files:delete" => l.ids \subseteq D,
             left' \subseteq Reviews \cup Images
      PROVE  Inv'
  <2>1. \A i \in l.ids : doc[i] # Absent
    BY <1>1, <1>4
  <2>2. req' = [req EXCEPT ![r] = l]
    BY <1>4 DEF become
  <2> QED BY <1>2, <1>4, <2>1, <2>2, DeleteInv
<1>5. ASSUME NEW D, deleteMany(D), UNCHANGED left, NEW pc \in Steps, goto(r, pc),
             pc \in {"notifications:delete", "images:find", "account:notifications",
                     "account:images"},
             pc \in {"account:notifications", "account:images"} => req[r].op = "account"
      PROVE  Inv'
  <2>1. PICK l : l = [req[r] EXCEPT !.pc = pc]
    OBVIOUS
  <2>2. /\ l \in Local /\ l.pc = pc /\ l.ids = req[r].ids /\ l.user = req[r].user
        /\ l.op = req[r].op /\ l.place = req[r].place /\ l.level = req[r].level
    BY <1>1, <2>1 DEF Local
  <2>3. LocalOK(l)
    BY <1>1, <1>5, <2>2 DEF LocalOK, UserPcs
  <2> QED BY <1>3, <1>4, <1>5, <2>1, <2>2, <2>3 DEF goto
<1>6. CASE DeleteOwn(r)
  <2>1. {req[r].ref} \cap Reviews \subseteq Reviews
    OBVIOUS
  <2>2. left' \subseteq Reviews \cup Images
    BY <1>3, <1>6, <2>1 DEF DeleteOwn
  <2>3. Idle.ids \subseteq req[r].ids
    BY IdleOK
  <2> QED BY <1>4, <1>6, <2>2, <2>3, IdleOK DEF DeleteOwn
<1>7. CASE deleteCommentThreads(r)
  <2>1. PICK pc : pc = afterThreads(r)
    OBVIOUS
  <2>2. /\ pc \in {"reviews:delete", "images:load"} /\ pc \in Steps
        /\ pc = "images:load" => ~(req[r].ids \subseteq Reviews)
    BY <2>1 DEF Steps, afterThreads
  <2>3. PICK l : l = [req[r] EXCEPT !.comments = {}, !.pc = pc]
    OBVIOUS
  <2>4. /\ l \in Local /\ l.pc = pc /\ l.ids = req[r].ids /\ l.user = req[r].user
        /\ l.op = req[r].op /\ l.place = req[r].place /\ l.level = req[r].level
    BY <1>1, <2>2, <2>3 DEF Local
  <2>5. l.pc = "images:load" => l.ids \subseteq Images
    BY <1>1, <2>2, <2>4 DEF Local
  <2>6. LocalOK(l)
    BY <1>1, <2>2, <2>4, <2>5 DEF LocalOK, UserPcs
  <2>7. deleteMany(req[r].comments) /\ become(r, l) /\ UNCHANGED left
    BY <1>7, <2>1, <2>3 DEF deleteCommentThreads
  <2> QED BY <1>3, <1>4, <2>2, <2>4, <2>6, <2>7
<1>8. CASE deleteReviewsOn(r)
  <2>1. PICK pc : pc = IF req[r].level = "Place" THEN "favorites:delete"
                                                 ELSE "notifications:delete"
    OBVIOUS
  <2>2. pc \in {"favorites:delete", "notifications:delete"} /\ pc \in Steps
    BY <2>1 DEF Steps
  <2>3. PICK l : l = [req[r] EXCEPT !.ids = {}, !.pc = pc]
    OBVIOUS
  <2>4. /\ l \in Local /\ l.pc = pc /\ l.ids = {} /\ l.user = req[r].user /\ l.op = req[r].op
        /\ l.place = req[r].place /\ l.level = req[r].level
    BY <1>1, <2>2, <2>3 DEF Local
  <2>5. LocalOK(l)
    BY <1>1, <2>2, <2>4 DEF LocalOK, UserPcs
  <2>6. /\ deleteMany(findIdsByReferences(Reviews, req[r].roots)) /\ become(r, l)
        /\ UNCHANGED left
    BY <1>8, <2>1, <2>3 DEF deleteReviewsOn
  <2> QED BY <1>3, <1>4, <2>2, <2>4, <2>5, <2>6
<1>9. CASE deleteAllByReference(r)
  <2>1. "notifications:delete" \in Steps
    BY DEF Steps
  <2> QED BY <1>5, <1>9, <2>1 DEF deleteAllByReference
<1>10. CASE deleteByReferences(r)
  <2>1. "images:find" \in Steps
    BY DEF Steps
  <2> QED BY <1>5, <1>10, <2>1 DEF deleteByReferences
<1>11. CASE deleteAllByUserId(r)
  <2>1. "account:notifications" \in Steps /\ req[r].op = "account"
    BY <1>1, <1>11 DEF Steps, deleteAllByUserId, LocalOK
  <2> QED BY <1>5, <1>11, <2>1 DEF deleteAllByUserId
<1>12. CASE deleteByUser(r)
  <2>1. "account:images" \in Steps /\ req[r].op = "account"
    BY <1>1, <1>12 DEF Steps, deleteByUser, LocalOK
  <2> QED BY <1>5, <1>12, <2>1 DEF deleteByUser
<1>13. CASE DeleteImagesDelete(r)
  <2>1. PICK l : l = [req[r] EXCEPT !.pc = "files:delete"]
    OBVIOUS
  <2>2. /\ l \in Local /\ l.pc = "files:delete" /\ l.ids = req[r].ids
        /\ l.user = req[r].user /\ l.op = req[r].op
        /\ l.place = req[r].place /\ l.level = req[r].level
    BY <1>1, <2>1 DEF Local, Steps
  <2>3. LocalOK(l)
    BY <1>1, <2>2 DEF LocalOK, UserPcs
  <2>4. deleteMany(req[r].ids) /\ become(r, l)
    BY <1>13, <2>1 DEF DeleteImagesDelete, goto
  <2>5. req[r].ids \subseteq Images
    BY <1>1, <1>13 DEF DeleteImagesDelete, LocalOK
  <2>6. left' \subseteq Reviews \cup Images
    BY <1>3, <1>13, <2>5 DEF DeleteImagesDelete
  <2> QED BY <1>4, <2>2, <2>3, <2>4, <2>6
<1>14. CASE deleteManyByIds(r)
  <2>1. PICK l : l = afterEvents(req[r])
    OBVIOUS
  <2>2. /\ l \in Local /\ LocalOK(l) /\ l.ids \subseteq req[r].ids
        /\ l.pc \in {"reviews:find", "account:favorites", "idle"}
    BY <1>1, <2>1, AfterEventsType
  <2> QED BY <1>3, <1>4, <1>14, <2>1, <2>2 DEF deleteManyByIds
<1>15. CASE deletePlace(r)
  <2>1. PICK pc : pc = IF req[r].op = "account" THEN "account:next" ELSE "place:unlink"
    OBVIOUS
  <2>2. PICK p : p = IF req[r].op = "account" THEN None ELSE req[r].place
    OBVIOUS
  <2>3. /\ pc \in {"account:next", "place:unlink"} /\ pc \in Steps
        /\ pc = "account:next" <=> req[r].op = "account"
        /\ p \in Places \cup {None}
    BY <1>1, <2>1, <2>2 DEF Steps, Local
  <2>4. PICK l : l = [req[r] EXCEPT !.pc = pc, !.place = p]
    OBVIOUS
  <2>5. /\ l \in Local /\ l.pc = pc /\ l.ids = req[r].ids /\ l.user = req[r].user
        /\ l.op = req[r].op
    BY <1>1, <2>3, <2>4 DEF Local
  <2>6. req[r].user \in Users
    BY <1>1, <1>15 DEF deletePlace, LocalOK
  <2>7. LocalOK(l)
    BY <1>1, <2>3, <2>5, <2>6 DEF LocalOK, UserPcs
  <2>8. deleteMany(req[r].roots) /\ become(r, l) /\ UNCHANGED left
    BY <1>15, <2>1, <2>2, <2>4 DEF deletePlace
  <2> QED BY <1>3, <1>4, <2>3, <2>5, <2>7, <2>8
<1> QED BY <1>6, <1>7, <1>8, <1>9, <1>10, <1>11, <1>12, <1>13, <1>14, <1>15

LEMMA StutterInv == ASSUME Inv, UNCHANGED vars PROVE Inv'
<1>1. DocsOK' /\ ImagesHaveFiles'
  BY DEF Inv, vars, DocsOK, ImagesHaveFiles, stored
<1>2. UploadsApart' /\ \A r \in Requests : LocalOK(req[r])' /\ ImagesOK(req[r])'
  BY DEF Inv, vars, UploadsApart, LocalOK, ImagesOK
<1> QED BY <1>1, <1>2 DEF Inv, vars

LEMMA NextInv == ASSUME OwnershipAssumption, Inv, [Next]_vars PROVE Inv'
<1>1. CASE UNCHANGED vars
  BY <1>1, StutterInv
<1>2. ASSUME NEW r \in Requests, Step(r)
      PROVE  Inv'
  BY <1>2, CreateFindInv, WriteInv, CreateSaveInv, UploadInv, SaveManyInv, FilesInv,
     DeleteFindInv, LookUpInv, CascadeDeleteInv DEF Step
<1> QED BY <1>1, <1>2 DEF Next

LEMMA Invariance == ASSUME OwnershipAssumption PROVE Spec => []Inv
<1>1. Init => Inv
  BY InitInv
<1>2. Inv /\ [Next]_vars => Inv'
  BY NextInv
<1> QED BY <1>1, <1>2, PTL DEF Spec

\* Every document stays of its collection's type and every request's variables of
\* theirs, however the requests overlap or stop halfway.
THEOREM OwnershipTypes == ASSUME OwnershipAssumption PROVE Spec => []TypeOK
BY Invariance, InvTypes, PTL

\* The files of a stored image are in the bucket, however uploads, deletions and
\* the cascades of several requests overlap or stop halfway (UploadImages:55-75,
\* DeleteImages:44-53): no two uploads take the same identifier, and files are
\* deleted only of documents that are gone for good.
THEOREM ImagesAlwaysHaveFiles ==
    ASSUME OwnershipAssumption PROVE Spec => []ImagesHaveFiles
<1>1. Inv => ImagesHaveFiles
  BY DEF Inv
<1> QED BY <1>1, Invariance, PTL

-----------------------------------------------------------------------------
(* The requests served one at a time: what a cascade has deleted so far    *)

\* Nothing stored refers to R, or belongs to u.
noneOn(Pool, R) == \A i \in Pool : stored(i) => doc[i].ref \notin R
noneOf(Pool, u) == \A i \in Pool : stored(i) => doc[i].owner # u

Threads == {"threads:find", "threads:delete"}

onReviews(l) == l.ids \subseteq Reviews

\* The steps of a level, up to its reviews, after them, and after its notifications.
ReviewPhase(l) ==
    l.pc \in {"reviews:find", "reviews:delete"} \/ (l.pc \in Threads /\ onReviews(l))

ImagePhase(l) ==
    \/ l.pc \in {"images:load", "images:delete"}
    \/ l.pc \in Threads /\ ~onReviews(l)

afterNotifications(l) ==
    l.pc \in {"images:find", "files:delete", "roots:delete"} \/ ImagePhase(l)

afterReviews(l) ==
    l.pc \in {"favorites:delete", "notifications:delete"} \/ afterNotifications(l)

EarlyPhase(l) ==
    ReviewPhase(l) \/ l.pc \in {"favorites:delete", "notifications:delete", "images:find"}

Cascading(l) == ReviewPhase(l) \/ afterReviews(l)

accountPcs == {"account:favorites", "account:notifications", "account:images",
               "account:references"}

\* An account past its places and events.
ofUser(l) == l.pc \in accountPcs \/ (Cascading(l) /\ l.level = "User")

\* What a request that creates a document found still holds.
SaveOK(l) ==
    /\ l.pc \in UserPcs \ {"place:unlink"} => l.op = "none"
    /\ l.pc \in UserPcs \ {"review:save", "comment:save", "place:unlink"}
            => l.user \in accounts
    /\ l.pc = "event:save" /\ l.ref # None => stored(l.ref)
    /\ l.pc \in {"review:save", "comment:save", "notification:save"} => stored(l.ref)
    /\ l.pc \in {"image:upload", "image:save"} =>
            IF l.ref \in Users THEN l.ref \in accounts ELSE stored(l.ref)
    /\ l.pc = "delete" => l.ref \in Reviews \cup Comments \cup Favorites

RootsOK(l) ==
    \/ l.op = "images" /\ l.level = "none" /\ l.roots = {}
            /\ l.pc \in {"images:delete", "files:delete"}
    \/ /\ l.op # "images" /\ l.level = "Event" /\ l.roots \subseteq Events
       /\ l.place # None => findIdsByReferences(Events, {l.place}) \subseteq l.roots
    \/ /\ l.op # "images" /\ l.level = "Place" /\ l.place \in Places /\ l.roots = {l.place}
       /\ noneOn(Events, l.roots)
    \/ /\ l.op = "account" /\ l.level = "User" /\ l.roots = {l.user}
       /\ ~EarlyPhase(l)

\* What a level found covers what refers to its roots, and what it deleted is gone.
LevelOK(l) ==
    /\ Cascading(l) => RootsOK(l)
    /\ l.op = "images" => l.pc \in {"images:delete", "files:delete"}
    /\ l.pc \in Threads /\ onReviews(l) => findIdsByReferences(Reviews, l.roots) \subseteq l.ids
    /\ ImagePhase(l) =>
        /\ findIdsByReferences(Images, l.roots) \subseteq l.ids
        /\ l.level = "User" => findIdsByOwner(Images, l.user) \subseteq l.ids
    /\ l.pc = "threads:delete" => findIdsByReferences(Comments, l.ids) \subseteq l.comments
    /\ l.pc = "reviews:delete" => noneOn(Comments, findIdsByReferences(Reviews, l.roots))
    /\ l.pc \in {"images:load", "images:delete"} /\ l.op # "images" => noneOn(Comments, l.ids)
    /\ afterReviews(l) => noneOn(Reviews, l.roots)
    /\ afterNotifications(l) => noneOn(Notifications, l.roots)
    /\ l.pc \in {"files:delete", "roots:delete"} =>
        /\ noneOn(Images, l.roots)
        /\ l.level = "User" => noneOf(Images, l.user)

\* The deletion of an account: its places, then its events, then what is its own.
AccountOK(l) ==
    /\ l.op = "account" => l.user \in accounts
    /\ l.op = "account" /\ l.pc # "account:places" =>
        \A p \in Places : stored(p) /\ doc[p].owner = l.user => p \in l.places \cup {l.place}
    /\ l.op = "account" /\ Cascading(l) /\ l.level = "Event" /\ l.place = None =>
        l.places = {} /\ findIdsByOwner(Events, l.user) \subseteq l.roots
    /\ l.pc \in {"account:places", "account:next"} => l.place = None
    /\ ofUser(l) => /\ l.op = "account" /\ l.level = "User" /\ l.roots = {l.user}
                    /\ noneOf(Places, l.user) /\ noneOf(Events, l.user)
    /\ ofUser(l) /\ l.pc # "account:favorites" => noneOf(Favorites, l.user)
    /\ ofUser(l) /\ l.pc \notin {"account:favorites", "account:notifications"}
            => noneOf(Notifications, l.user)
    /\ l.pc = "account:references" => findIdsByOwner(Images, l.user) \subseteq l.ids

AloneOK(l) == SaveOK(l) /\ LevelOK(l) /\ AccountOK(l)

AloneInv == Inv /\ NoDangling /\ \A r \in Requests : AloneOK(req[r])

LEMMA NoCascade ==
    ASSUME NEW l, l.pc \in UserPcs \cup {"idle", "delete"}, l.op \notin {"account", "images"}
    PROVE  LevelOK(l) /\ AccountOK(l) /\ LevelOK(l)' /\ AccountOK(l)'
<1>1. /\ ~Cascading(l) /\ ~ImagePhase(l) /\ ~afterReviews(l) /\ ~afterNotifications(l)
      /\ l.pc \notin Threads
  BY DEF Cascading, ReviewPhase, ImagePhase, afterReviews, afterNotifications, Threads,
         UserPcs
<1>2. ~ofUser(l)
  BY <1>1 DEF ofUser, accountPcs, UserPcs
<1>3. l.pc \notin {"threads:delete", "reviews:delete", "images:load", "images:delete",
                   "files:delete", "roots:delete", "account:references", "account:next",
                   "account:places"}
  BY DEF UserPcs
<1>4. LevelOK(l) /\ LevelOK(l)'
  BY <1>1, <1>3 DEF LevelOK
<1>5. AccountOK(l) /\ AccountOK(l)'
  BY <1>1, <1>2, <1>3 DEF AccountOK
<1> QED BY <1>4, <1>5

LEMMA AloneIdle == AloneOK(Idle) /\ AloneOK(Idle)'
<1>1. LevelOK(Idle) /\ AccountOK(Idle) /\ LevelOK(Idle)' /\ AccountOK(Idle)'
  BY NoCascade, IdleOK
<1>2. SaveOK(Idle) /\ SaveOK(Idle)'
  BY IdleOK DEF SaveOK, UserPcs
<1> QED BY <1>1, <1>2 DEF AloneOK

\* A step of the only request.
LEMMA AloneStep ==
    ASSUME NEW r, Requests = {r}, Inv, Inv', NEW m, become(r, m), NoDangling', AloneOK(m)'
    PROVE  AloneInv'
<1>1. req'[r] = m
  BY DEF Inv, become
<1> QED BY <1>1 DEF AloneInv, AloneOK, SaveOK, LevelOK, AccountOK

\* A step that leaves the documents and accounts alone.
LEMMA AloneQuiet ==
    ASSUME NEW r, Requests = {r}, AloneInv, Inv', NEW m, become(r, m), AloneOK(m),
           UNCHANGED <<doc, accounts, left>>
    PROVE  AloneInv'
<1>1. NoDangling'
  BY DEF AloneInv, NoDangling, stored
<1>2. SaveOK(m)' /\ AccountOK(m)'
  BY DEF AloneOK, SaveOK, AccountOK, stored, ofUser, Cascading, ReviewPhase, afterReviews,
         afterNotifications, ImagePhase, onReviews, noneOf, findIdsByOwner
<1>3. LevelOK(m)'
  BY DEF AloneOK, LevelOK, RootsOK, stored, noneOn, noneOf, findIdsByOwner,
         findIdsByReferences
<1> QED BY <1>1, <1>2, <1>3, AloneStep DEF AloneInv, AloneOK

\* What a deletion leaves of what was found.
LEMMA DeleteMonotone ==
    ASSUME OwnershipAssumption, Inv, NEW D, deleteMany(D)
    PROVE  /\ \A Pool \in SUBSET Ids : \A R :
                /\ noneOn(Pool, R) => noneOn(Pool, R)'
                /\ findIdsByReferences(Pool, R)' \subseteq findIdsByReferences(Pool, R)
                /\ findIdsByReferences(Pool, R) \subseteq D => noneOn(Pool, R)'
           /\ \A Pool \in SUBSET Ids, u \in Users :
                /\ noneOf(Pool, u) => noneOf(Pool, u)'
                /\ findIdsByOwner(Pool, u)' \subseteq findIdsByOwner(Pool, u)
                /\ findIdsByOwner(Pool, u) \subseteq D => noneOf(Pool, u)'
<1>1. \A i \in Ids :
        /\ stored(i)' <=> stored(i) /\ i \notin D
        /\ stored(i)' => doc'[i] = doc[i]
        /\ doc'[i] = doc[i] \/ doc'[i] = Removed
  BY DeleteEffect
<1>2. \A u \in Users : Removed.owner # u
  BY AbsentRemoved DEF OwnershipAssumption
<1> QED BY <1>1, <1>2 DEF noneOn, noneOf, findIdsByReferences, findIdsByOwner

\* A look-up deletes nothing.
LEMMA NothingDeleted == ASSUME Inv, UNCHANGED doc PROVE deleteMany({})
BY DEF Inv, DocsOK, deleteMany

\* Deleted is what nothing stored refers to, but for comments left to themselves.
LEMMA DanglingDelete ==
    ASSUME OwnershipAssumption, Inv, NoDangling, NEW D, deleteMany(D), UNCHANGED accounts,
           left \subseteq left', noneOn(Events, D), noneOn(Reviews, D),
           noneOn(Notifications, D), noneOn(Images, D),
           \A c \in Comments : stored(c) /\ doc[c].ref \in D => doc[c].ref \in left'
    PROVE  NoDangling'
<1>1. \A i \in Ids :
        /\ stored(i)' <=> stored(i) /\ i \notin D
        /\ stored(i)' => doc'[i] = doc[i]
  BY DeleteEffect
<1>2. /\ Places \subseteq Ids /\ Events \subseteq Ids /\ Reviews \subseteq Ids
      /\ Comments \subseteq Ids /\ Images \subseteq Ids /\ Favorites \subseteq Ids
      /\ Notifications \subseteq Ids
  BY DEF Ids
<1>3. \A i \in Places \cup Events \cup Images \cup Favorites \cup Notifications :
        stored(i)' => doc'[i].owner \in accounts'
  BY <1>1, <1>2 DEF NoDangling
<1>4. \A e \in Events : stored(e)' /\ doc'[e].ref # None => stored(doc[e].ref)'
  BY <1>1, <1>2, Refs DEF NoDangling, noneOn
<1>5. \A i \in Reviews \cup Notifications : stored(i)' => stored(doc[i].ref)'
  BY <1>1, <1>2, Refs DEF NoDangling, noneOn
<1>6. \A c \in Comments : stored(c)' => stored(doc[c].ref)' \/ doc[c].ref \in left'
  BY <1>1, <1>2, Refs DEF NoDangling
<1>7. \A i \in Images : stored(i)' =>
        IF doc[i].ref \in Users THEN doc[i].ref \in accounts' ELSE stored(doc[i].ref)'
  BY <1>1, <1>2, Refs DEF NoDangling, noneOn
<1>8. \A i \in Ids : stored(i)' => doc'[i] = doc[i]
  BY <1>1
<1> QED BY <1>2, <1>3, <1>4, <1>5, <1>6, <1>7, <1>8 DEF NoDangling, stored

\* What is stored refers to what is stored.
LEMMA DanglingSave ==
    ASSUME Inv, NoDangling, NEW S \in SUBSET Ids, NEW d, d.state = "stored",
           \A i \in Ids : doc'[i] = IF i \in S THEN d ELSE doc[i],
           \A i \in S : doc[i] = Absent, UNCHANGED <<accounts, left>>,
           \A i \in S \cap (Places \cup Events \cup Images \cup Favorites \cup Notifications) :
                d.owner \in accounts,
           \A i \in S \cap Events : d.ref # None => d.ref \in Ids /\ stored(d.ref),
           \A i \in S \cap (Reviews \cup Comments \cup Notifications) :
                d.ref \in Ids /\ stored(d.ref),
           \A i \in S \cap Images :
                IF d.ref \in Users THEN d.ref \in accounts ELSE d.ref \in Ids /\ stored(d.ref)
    PROVE  NoDangling'
<1>1. \A i \in Ids :
        /\ stored(i) => stored(i)'
        /\ i \in S => doc'[i] = d
        /\ i \notin S /\ stored(i)' => stored(i) /\ doc'[i] = doc[i]
  BY AbsentRemoved DEF stored
<1>2. /\ Places \subseteq Ids /\ Events \subseteq Ids /\ Reviews \subseteq Ids
      /\ Comments \subseteq Ids /\ Images \subseteq Ids /\ Favorites \subseteq Ids
      /\ Notifications \subseteq Ids
  BY DEF Ids
<1>3. \A i \in Places \cup Events \cup Images \cup Favorites \cup Notifications :
        stored(i)' => doc'[i].owner \in accounts'
  BY <1>1, <1>2 DEF NoDangling
<1>4. \A i \in Ids : stored(i) => stored(i)'
  BY <1>1
<1>5. ASSUME NEW e \in Events, stored(e)', doc'[e].ref # None
      PROVE  doc'[e].ref \in Ids /\ stored(doc'[e].ref)
  BY <1>1, <1>2, <1>5, Refs DEF NoDangling
<1>6. ASSUME NEW i \in Reviews \cup Notifications, stored(i)'
      PROVE  doc'[i].ref \in Ids /\ stored(doc'[i].ref)
  BY <1>1, <1>2, <1>6, Refs DEF NoDangling
<1>7. ASSUME NEW c \in Comments, stored(c)'
      PROVE  doc'[c].ref \in Ids /\ (stored(doc'[c].ref) \/ doc'[c].ref \in left)
  BY <1>1, <1>2, <1>7, Refs DEF NoDangling
<1>8. ASSUME NEW i \in Images, stored(i)'
      PROVE  IF doc'[i].ref \in Users THEN doc'[i].ref \in accounts
             ELSE doc'[i].ref \in Ids /\ stored(doc'[i].ref)
  BY <1>1, <1>2, <1>8, Refs DEF NoDangling
<1>9. \A i \in Ids : doc[i].state = "stored" => doc'[i].state = "stored"
  BY <1>4 DEF stored
<1> QED BY <1>3, <1>5, <1>6, <1>7, <1>8, <1>9 DEF NoDangling, stored

\* A document refers only to documents of the collections it may be about.
LEMMA RefersTo ==
    ASSUME OwnershipAssumption, Inv
    PROVE  /\ \A D \in SUBSET (Ids \ Places) : noneOn(Events, D)
           /\ \A D \in SUBSET (Ids \ (Places \cup Events)) : noneOn(Reviews, D)
           /\ \A D \in SUBSET (Ids \ Events) : noneOn(Notifications, D)
           /\ \A D \in SUBSET (Ids \ (Places \cup Events)) : noneOn(Images, D)
           /\ \A D \in SUBSET (Ids \ (Reviews \cup Images)), c \in Comments :
                stored(c) => doc[c].ref \notin D
           /\ \A u \in Users : noneOn(Reviews, {u}) /\ noneOn(Notifications, {u})
<1>1. /\ Places \subseteq Ids /\ Events \subseteq Ids /\ Reviews \subseteq Ids
      /\ Comments \subseteq Ids /\ Images \subseteq Ids /\ Favorites \subseteq Ids
      /\ Notifications \subseteq Ids
  BY DEF Ids
<1>2. None \notin Ids /\ Users \cap Ids = {}
  BY DEF OwnershipAssumption
<1>3. /\ \A i \in Events : stored(i) => doc[i].ref \in Places \cup {None}
      /\ \A i \in Reviews : stored(i) => doc[i].ref \in Places \cup Events
      /\ \A i \in Notifications : stored(i) => doc[i].ref \in Events
      /\ \A i \in Comments : stored(i) => doc[i].ref \in Reviews \cup Images
      /\ \A i \in Images : stored(i) => doc[i].ref \in Places \cup Events \cup Users
  BY <1>1, Refs
<1> QED BY <1>1, <1>2, <1>3 DEF noneOn

-----------------------------------------------------------------------------
(* Within a level                                                          *)

\* A step of a level deletes D, or nothing, and stays in it.
SameLevel(l, m) ==
    /\ Cascading(l) /\ Cascading(m)
    /\ EarlyPhase(m) => EarlyPhase(l)
    /\ l.op = "images" => m.pc \in {"images:delete", "files:delete"}
    /\ m.op = l.op /\ m.user = l.user /\ m.place = l.place /\ m.level = l.level
    /\ m.roots = l.roots /\ m.places = l.places

LEMMA PlacesDeleted ==
    ASSUME Inv, NEW D, deleteMany(D), NEW p \in Places
    PROVE  /\ stored(p)' => stored(p) /\ p \notin D /\ doc'[p] = doc[p]
           /\ stored(p) /\ p \notin D => stored(p)'
BY DeleteEffect DEF Ids

LEMMA LevelKept ==
    ASSUME OwnershipAssumption, Inv, NEW l \in Local, NEW m, SameLevel(l, m),
           NEW D, deleteMany(D), UNCHANGED accounts, LocalOK(l), LevelOK(l), AccountOK(l)
    PROVE  RootsOK(m)' /\ AccountOK(m)' /\ SaveOK(m)'
<1>1. /\ Places \subseteq Ids /\ Events \subseteq Ids /\ Favorites \subseteq Ids
      /\ Notifications \subseteq Ids
  BY DEF Ids
<1>2. RootsOK(l)
  BY DEF LevelOK, SameLevel
<1>3. /\ noneOn(Events, l.roots) => noneOn(Events, l.roots)'
      /\ findIdsByReferences(Events, {l.place})' \subseteq findIdsByReferences(Events, {l.place})
  BY <1>1, DeleteMonotone
<1>4. RootsOK(m)'
  <2>1. CASE l.op = "images"
    BY <1>2, <2>1 DEF RootsOK, SameLevel
  <2>2. CASE l.op # "images"
    BY <1>2, <1>3, <2>2 DEF RootsOK, SameLevel
  <2> QED BY <2>1, <2>2
<1>5. m.pc \notin accountPcs \cup UserPcs \cup {"account:next", "account:places", "delete"}
  BY DEF SameLevel, Cascading, ReviewPhase, afterReviews, afterNotifications, ImagePhase,
         accountPcs, UserPcs, Threads
<1>6. l.pc \notin accountPcs \cup {"account:next", "account:places"}
  BY DEF SameLevel, Cascading, ReviewPhase, afterReviews, afterNotifications, ImagePhase,
         accountPcs, Threads
<1>7. SaveOK(m)'
  BY <1>5 DEF SaveOK, UserPcs
<1>8. AccountOK(m)'
  <2>1. l.op = "account" => l.user \in Users
    BY DEF LocalOK
  <2>2. l.op = "account" =>
            \A p \in Places : stored(p)' /\ doc'[p].owner = l.user => p \in l.places \cup {l.place}
    BY <1>6, PlacesDeleted DEF AccountOK
  <2>3. l.op = "account" /\ l.level = "Event" /\ l.place = None =>
            l.places = {} /\ findIdsByOwner(Events, l.user)' \subseteq l.roots
    BY <1>1, <2>1, DeleteMonotone DEF AccountOK, SameLevel
  <2>4. l.level = "User" =>
            /\ l.op = "account" /\ l.roots = {l.user}
            /\ noneOf(Places, l.user)' /\ noneOf(Events, l.user)'
            /\ noneOf(Favorites, l.user)' /\ noneOf(Notifications, l.user)'
    BY <1>1, <1>6, <2>1, DeleteMonotone DEF AccountOK, SameLevel, ofUser, accountPcs
  <2>5. l.op = "account" => l.user \in accounts'
    BY DEF AccountOK
  <2>6. m.pc \notin {"account:places", "account:next", "account:references"} \cup accountPcs
    BY <1>5 DEF accountPcs
  <2> QED BY <2>2, <2>3, <2>4, <2>5, <2>6 DEF AccountOK, SameLevel, ofUser
<1> QED BY <1>4, <1>7, <1>8

\* A step within a level: nothing dangles, and what is gone of the level stays gone.
LEMMA SameLevelStep ==
    ASSUME OwnershipAssumption, NEW r, Requests = {r}, AloneInv, Inv', NEW m \in Local,
           SameLevel(req[r], m), NEW D, deleteMany(D), become(r, m), UNCHANGED accounts,
           left \subseteq left', NoDangling',
           m.pc \in Threads /\ onReviews(m) =>
                findIdsByReferences(Reviews, m.roots)' \subseteq m.ids,
           ImagePhase(m) =>
                /\ findIdsByReferences(Images, m.roots)' \subseteq m.ids
                /\ m.level = "User" => findIdsByOwner(Images, m.user)' \subseteq m.ids,
           m.pc = "threads:delete" => findIdsByReferences(Comments, m.ids)' \subseteq m.comments,
           m.pc = "reviews:delete" =>
                \A c \in Comments : stored(c)' =>
                    doc'[c].ref \notin findIdsByReferences(Reviews, m.roots)',
           m.pc \in {"images:load", "images:delete"} /\ m.op # "images"
                => noneOn(Comments, m.ids)',
           afterReviews(m) => afterReviews(req[r]) \/ noneOn(Reviews, m.roots)',
           afterNotifications(m) =>
                afterNotifications(req[r]) \/ noneOn(Notifications, m.roots)',
           m.pc \in {"files:delete", "roots:delete"} =>
                /\ req[r].pc = "files:delete" \/ noneOn(Images, m.roots)'
                /\ m.level = "User" => req[r].pc = "files:delete" \/ noneOf(Images, m.user)'
    PROVE  AloneInv'
<1>1. PICK l : l = req[r]
  OBVIOUS
<1>2. l \in Local /\ LocalOK(l) /\ LevelOK(l) /\ AccountOK(l) /\ SameLevel(l, m)
  BY <1>1 DEF AloneInv, AloneOK, Inv
<1>3. RootsOK(m)' /\ AccountOK(m)' /\ SaveOK(m)'
  BY <1>2, LevelKept DEF AloneInv
<1>4. /\ noneOn(Reviews, l.roots) => noneOn(Reviews, l.roots)'
      /\ noneOn(Notifications, l.roots) => noneOn(Notifications, l.roots)'
      /\ noneOn(Images, l.roots) => noneOn(Images, l.roots)'
  BY DeleteMonotone DEF AloneInv, Ids
<1>5. l.level = "User" => l.user \in Users
  <2>1. Cascading(l) /\ RootsOK(l)
    BY <1>2 DEF SameLevel, LevelOK
  <2>2. l.level = "User" => l.op = "account"
    BY <2>1 DEF RootsOK
  <2> QED BY <1>2, <2>2 DEF LocalOK
<1>6. l.level = "User" /\ noneOf(Images, l.user) => noneOf(Images, l.user)'
  BY <1>5, DeleteMonotone DEF AloneInv, Ids
<1>7. afterReviews(m) => noneOn(Reviews, m.roots)'
  BY <1>1, <1>2, <1>4 DEF LevelOK, SameLevel
<1>8. afterNotifications(m) => noneOn(Notifications, m.roots)'
  BY <1>1, <1>2, <1>4 DEF LevelOK, SameLevel
<1>9. m.pc \in {"files:delete", "roots:delete"} =>
        noneOn(Images, m.roots)' /\ (m.level = "User" => noneOf(Images, m.user)')
  BY <1>1, <1>2, <1>4, <1>6 DEF LevelOK, SameLevel
<1>10. m.pc = "reviews:delete" =>
            (noneOn(Comments, findIdsByReferences(Reviews, m.roots)))'
  BY DEF noneOn
<1>11. m.op = "images" => m.pc \in {"images:delete", "files:delete"}
  BY <1>2 DEF SameLevel
<1>12. LevelOK(m)'
  BY <1>3, <1>7, <1>8, <1>9, <1>10, <1>11 DEF LevelOK, onReviews, ImagePhase, afterReviews,
     afterNotifications
<1> QED BY <1>3, <1>12, AloneStep DEF AloneInv, AloneOK

SameFields(l, m) ==
    /\ m.op = l.op /\ m.user = l.user /\ m.place = l.place /\ m.level = l.level
    /\ m.roots = l.roots /\ m.places = l.places

LEMMA LookUpStep ==
    ASSUME AloneInv, UNCHANGED documents
    PROVE  /\ deleteMany({}) /\ NoDangling' /\ left \subseteq left' /\ UNCHANGED accounts
           /\ \A Pool, R : /\ findIdsByReferences(Pool, R)' = findIdsByReferences(Pool, R)
                           /\ noneOn(Pool, R) => noneOn(Pool, R)'
           /\ \A Pool, u : /\ findIdsByOwner(Pool, u)' = findIdsByOwner(Pool, u)
                           /\ noneOf(Pool, u) => noneOf(Pool, u)'
           /\ \A i : stored(i)' <=> stored(i)
           /\ doc' = doc
<1>1. deleteMany({})
  BY NothingDeleted DEF documents, AloneInv
<1>2. NoDangling'
  BY DEF AloneInv, NoDangling, documents, stored
<1> QED BY <1>1, <1>2 DEF documents, findIdsByReferences, findIdsByOwner, noneOn, noneOf,
           stored

\* The comments are looked for on every review of the roots.
LEMMA ReviewsFindAlone ==
    ASSUME OwnershipAssumption, NEW r, Requests = {r}, AloneInv, deleteReviewsFind(r)
    PROVE  AloneInv'
<1>1. req[r] \in Local /\ req[r].pc = "reviews:find" /\ UNCHANGED documents /\ Inv'
  BY LookUpInv DEF AloneInv, Inv, deleteReviewsFind
<1>2. PICK ids : ids = findIdsByReferences(Reviews, req[r].roots)
  OBVIOUS
<1>3. PICK pc : pc = IF ids = {} THEN "reviews:delete" ELSE "threads:find"
  OBVIOUS
<1>4. PICK m : m = [req[r] EXCEPT !.ids = ids, !.pc = pc]
  OBVIOUS
<1>5. ids \in SUBSET Reviews /\ pc \in Steps
  BY <1>2, <1>3 DEF findIdsByReferences, Steps
<1>6. m \in Local /\ m.pc = pc /\ m.ids = ids /\ SameFields(req[r], m)
  BY <1>1, <1>4, <1>5 DEF Local, SameFields
<1>7. become(r, m)
  BY <1>2, <1>3, <1>4 DEF deleteReviewsFind
<1>8. onReviews(m) /\ m.pc \in {"reviews:delete", "threads:find"}
  BY <1>3, <1>5, <1>6 DEF onReviews
<1>9. ~ImagePhase(m) /\ ~afterNotifications(m) /\ ~afterReviews(m)
  BY <1>8 DEF ImagePhase, afterNotifications, afterReviews, Threads
<1>10. SameLevel(req[r], m)
  <2>1. req[r].op # "images"
    BY <1>1 DEF AloneInv, AloneOK, LevelOK
  <2>2. Cascading(req[r]) /\ EarlyPhase(req[r])
    BY <1>1 DEF Cascading, ReviewPhase, EarlyPhase
  <2>3. Cascading(m)
    BY <1>8 DEF Cascading, ReviewPhase, Threads
  <2> QED BY <1>6, <2>1, <2>2, <2>3 DEF SameLevel, SameFields
<1>11. findIdsByReferences(Reviews, m.roots)' = ids
  BY <1>1, <1>2, <1>6, LookUpStep DEF SameFields
<1>12. m.pc = "reviews:delete" => findIdsByReferences(Reviews, m.roots)' = {}
  BY <1>3, <1>6, <1>11
<1> QED BY <1>1, <1>6, <1>7, <1>8, <1>9, <1>10, <1>11, <1>12, LookUpStep, SameLevelStep

\* The comments found are all those on what is about to be deleted.
LEMMA ThreadsFindAlone ==
    ASSUME OwnershipAssumption, NEW r, Requests = {r}, AloneInv, deleteCommentThreadsFind(r)
    PROVE  AloneInv'
<1>1. req[r] \in Local /\ req[r].pc = "threads:find" /\ UNCHANGED documents /\ Inv'
  BY LookUpInv DEF AloneInv, Inv, deleteCommentThreadsFind
<1>2. PICK comments : comments = findIdsByReferences(Comments, req[r].ids)
  OBVIOUS
<1>3. PICK pc : pc = IF comments = {} THEN afterThreads(r) ELSE "threads:delete"
  OBVIOUS
<1>4. PICK m : m = [req[r] EXCEPT !.comments = comments, !.pc = pc]
  OBVIOUS
<1>5. comments \in SUBSET Comments /\ pc \in Steps
  BY <1>2, <1>3 DEF findIdsByReferences, Steps, afterThreads
<1>6. /\ m \in Local /\ m.pc = pc /\ m.ids = req[r].ids /\ m.comments = comments
      /\ SameFields(req[r], m)
  BY <1>1, <1>4, <1>5 DEF Local, SameFields
<1>7. become(r, m)
  BY <1>2, <1>3, <1>4 DEF deleteCommentThreadsFind
<1>8. /\ m.pc \in {"reviews:delete", "images:load", "threads:delete"}
      /\ m.pc = "reviews:delete" => onReviews(req[r])
      /\ m.pc = "images:load" => ~onReviews(req[r])
      /\ m.pc # "threads:delete" => comments = {}
      /\ onReviews(m) <=> onReviews(req[r])
  BY <1>3, <1>6 DEF afterThreads, onReviews
<1>9. /\ ReviewPhase(m) <=> onReviews(req[r])
      /\ ImagePhase(m) <=> ~onReviews(req[r])
      /\ afterNotifications(m) <=> ~onReviews(req[r])
      /\ afterReviews(m) <=> ~onReviews(req[r])
  BY <1>8 DEF ReviewPhase, ImagePhase, afterNotifications, afterReviews, Threads
<1>10. /\ ReviewPhase(req[r]) <=> onReviews(req[r])
       /\ ImagePhase(req[r]) <=> ~onReviews(req[r])
       /\ afterNotifications(req[r]) <=> ~onReviews(req[r])
       /\ afterReviews(req[r]) <=> ~onReviews(req[r])
  BY <1>1 DEF ReviewPhase, ImagePhase, afterNotifications, afterReviews, Threads
<1>11. LevelOK(req[r])
  BY DEF AloneInv, AloneOK
<1>12. SameLevel(req[r], m)
  <2>1. req[r].op # "images"
    BY <1>1, <1>11 DEF LevelOK
  <2>2. EarlyPhase(m) => EarlyPhase(req[r])
    BY <1>8, <1>9, <1>10 DEF EarlyPhase
  <2> QED BY <1>6, <1>9, <1>10, <2>1, <2>2 DEF SameLevel, SameFields, Cascading
<1>13. onReviews(m) => findIdsByReferences(Reviews, m.roots)' \subseteq m.ids
  BY <1>1, <1>6, <1>8, <1>11, LookUpStep DEF LevelOK, Threads, SameFields
<1>14. ImagePhase(m) =>
            /\ findIdsByReferences(Images, m.roots)' \subseteq m.ids
            /\ m.level = "User" => findIdsByOwner(Images, m.user)' \subseteq m.ids
  BY <1>1, <1>6, <1>9, <1>10, <1>11, LookUpStep DEF LevelOK, SameFields
<1>15. findIdsByReferences(Comments, m.ids)' = comments
  BY <1>1, <1>2, <1>6, LookUpStep
<1>16. m.pc # "threads:delete" => noneOn(Comments, m.ids)'
  BY <1>8, <1>15 DEF noneOn, findIdsByReferences
<1>17. m.pc = "reviews:delete" =>
            \A c \in Comments : stored(c)' =>
                    doc'[c].ref \notin findIdsByReferences(Reviews, m.roots)'
  BY <1>8, <1>13, <1>16 DEF noneOn
<1> QED BY <1>1, <1>6, <1>7, <1>8, <1>9, <1>10, <1>12, <1>13, <1>14, <1>15, <1>16, <1>17,
           LookUpStep, SameLevelStep

\* The comments go before what they are about.
LEMMA ThreadsDeleteAlone ==
    ASSUME OwnershipAssumption, NEW r, Requests = {r}, AloneInv, deleteCommentThreads(r)
    PROVE  AloneInv'
<1>1. /\ req[r] \in Local /\ req[r].pc = "threads:delete" /\ Inv /\ Inv' /\ NoDangling
      /\ deleteMany(req[r].comments) /\ UNCHANGED <<accounts, left>>
  BY CascadeDeleteInv DEF AloneInv, Inv, deleteCommentThreads
<1>2. PICK D : D = req[r].comments
  OBVIOUS
<1>3. PICK pc : pc = afterThreads(r)
  OBVIOUS
<1>4. PICK m : m = [req[r] EXCEPT !.comments = {}, !.pc = pc]
  OBVIOUS
<1>5. D \in SUBSET Comments /\ pc \in Steps
  BY <1>1, <1>2, <1>3 DEF Steps, afterThreads, Local
<1>6. m \in Local /\ m.pc = pc /\ m.ids = req[r].ids /\ SameFields(req[r], m)
  BY <1>1, <1>4, <1>5 DEF Local, SameFields
<1>7. become(r, m)
  BY <1>3, <1>4 DEF deleteCommentThreads
<1>8. /\ m.pc \in {"reviews:delete", "images:load"}
      /\ m.pc = "reviews:delete" <=> onReviews(req[r])
      /\ onReviews(m) <=> onReviews(req[r])
  BY <1>3, <1>6 DEF afterThreads, onReviews
<1>9. /\ ReviewPhase(m) <=> onReviews(req[r])
      /\ ImagePhase(m) <=> ~onReviews(req[r])
      /\ afterNotifications(m) <=> ~onReviews(req[r])
      /\ afterReviews(m) <=> ~onReviews(req[r])
  BY <1>8 DEF ReviewPhase, ImagePhase, afterNotifications, afterReviews, Threads
<1>10. /\ ReviewPhase(req[r]) <=> onReviews(req[r])
       /\ ImagePhase(req[r]) <=> ~onReviews(req[r])
       /\ afterNotifications(req[r]) <=> ~onReviews(req[r])
       /\ afterReviews(req[r]) <=> ~onReviews(req[r])
  BY <1>1 DEF ReviewPhase, ImagePhase, afterNotifications, afterReviews, Threads
<1>11. LevelOK(req[r]) /\ LocalOK(req[r])
  BY DEF AloneInv, AloneOK, Inv
<1>12. SameLevel(req[r], m)
  <2>1. req[r].op # "images"
    BY <1>1, <1>11 DEF LevelOK
  <2>2. EarlyPhase(m) => EarlyPhase(req[r])
    BY <1>8, <1>9, <1>10 DEF EarlyPhase
  <2> QED BY <1>6, <1>9, <1>10, <2>1, <2>2 DEF SameLevel, SameFields, Cascading
<1>13. D \subseteq Ids /\ D \cap (Places \cup Events \cup Reviews \cup Images) = {}
  BY <1>5 DEF OwnershipAssumption, Ids
<1>14. NoDangling'
  <2>1. noneOn(Events, D) /\ noneOn(Reviews, D) /\ noneOn(Notifications, D) /\ noneOn(Images, D)
    BY <1>1, <1>13, RefersTo
  <2>2. \A c \in Comments : stored(c) => doc[c].ref \notin D
    BY <1>1, <1>13, RefersTo
  <2> QED BY <1>1, <1>2, <1>13, <2>1, <2>2, DanglingDelete
<1>15. \A R : findIdsByReferences(Reviews, R)' \subseteq findIdsByReferences(Reviews, R)
              /\ findIdsByReferences(Images, R)' \subseteq findIdsByReferences(Images, R)
  BY <1>1, <1>2, DeleteMonotone DEF Ids
<1>16. noneOn(Comments, m.ids)'
  <2>1. findIdsByReferences(Comments, req[r].ids) \subseteq D
    BY <1>1, <1>2, <1>11 DEF LevelOK
  <2> QED BY <1>1, <1>2, <1>6, <2>1, DeleteMonotone DEF Ids
<1>17. onReviews(m) => findIdsByReferences(Reviews, m.roots)' \subseteq m.ids
  BY <1>1, <1>6, <1>8, <1>11, <1>15 DEF LevelOK, Threads, SameFields
<1>18. ImagePhase(m) =>
            /\ findIdsByReferences(Images, m.roots)' \subseteq m.ids
            /\ m.level = "User" => findIdsByOwner(Images, m.user)' \subseteq m.ids
  <2>1. PICK u : u = req[r].user
    OBVIOUS
  <2>2. req[r].level = "User" => u \in Users
    BY <1>11, <1>12, <2>1 DEF LevelOK, RootsOK, SameLevel, LocalOK
  <2>3. req[r].level = "User" => findIdsByOwner(Images, u)' \subseteq findIdsByOwner(Images, u)
    BY <1>1, <1>2, <2>2, DeleteMonotone DEF Ids
  <2> QED BY <1>1, <1>6, <1>9, <1>10, <1>11, <1>15, <2>1, <2>3 DEF LevelOK, SameFields
<1>19. m.pc = "reviews:delete" =>
            \A c \in Comments : stored(c)' =>
                    doc'[c].ref \notin findIdsByReferences(Reviews, m.roots)'
  BY <1>8, <1>16, <1>17 DEF noneOn
<1>20. left \subseteq left' /\ UNCHANGED accounts
  BY <1>1
<1>21. m.pc \notin Threads \cup {"files:delete", "roots:delete"}
  BY <1>8 DEF Threads
<1> QED BY <1>1, <1>6, <1>7, <1>8, <1>9, <1>10, <1>12, <1>14, <1>16, <1>18, <1>19, <1>20,
           <1>21, SameLevelStep DEF Threads

\* The reviews of the roots go, and then favorites and notifications, about which
\* nothing is stored.
LEMMA PoolDeleteAlone ==
    ASSUME OwnershipAssumption, NEW r, Requests = {r}, AloneInv,
           deleteReviewsOn(r) \/ deleteAllByReference(r) \/ deleteByReferences(r)
    PROVE  AloneInv'
<1>1. /\ req[r] \in Local /\ Inv /\ Inv' /\ NoDangling /\ UNCHANGED <<accounts, left>>
      /\ req[r].pc \in {"reviews:delete", "favorites:delete", "notifications:delete"}
  BY CascadeDeleteInv DEF AloneInv, Inv, deleteReviewsOn, deleteAllByReference,
     deleteByReferences
<1>2. PICK Pool : Pool = CASE req[r].pc = "reviews:delete" -> Reviews
                           [] req[r].pc = "favorites:delete" -> Favorites
                           [] OTHER -> Notifications
  OBVIOUS
<1>3. PICK D : D = findIdsByReferences(Pool, req[r].roots)
  OBVIOUS
<1>4. PICK pc : pc = CASE req[r].pc = "notifications:delete" -> "images:find"
                       [] req[r].pc = "reviews:delete" /\ req[r].level = "Place" ->
                                "favorites:delete"
                       [] OTHER -> "notifications:delete"
  OBVIOUS
<1>5. PICK ids : ids = IF req[r].pc = "reviews:delete" THEN {} ELSE req[r].ids
  OBVIOUS
<1>6. PICK m : m = [req[r] EXCEPT !.ids = ids, !.pc = pc]
  OBVIOUS
<1>7. /\ pc \in Steps /\ pc \in {"favorites:delete", "notifications:delete", "images:find"}
      /\ ids \in (SUBSET Reviews) \cup (SUBSET Images)
      /\ pc = "images:find" => req[r].pc = "notifications:delete"
      /\ req[r].pc = "reviews:delete" => Pool = Reviews
      /\ req[r].pc = "notifications:delete" => Pool = Notifications
      /\ Pool \in {Reviews, Favorites, Notifications}
  BY <1>1, <1>2, <1>4, <1>5 DEF Steps, Local
<1>8. deleteMany(D) /\ become(r, m)
  <2>1. CASE deleteReviewsOn(r)
    BY <1>2, <1>3, <1>4, <1>5, <1>6, <2>1 DEF deleteReviewsOn
  <2>2. ASSUME req[r].pc # "reviews:delete"
        PROVE  m = [req[r] EXCEPT !.pc = pc]
    BY <1>1, <1>5, <1>6, <2>2 DEF Local
  <2>3. CASE deleteAllByReference(r)
    BY <1>2, <1>3, <1>4, <2>2, <2>3 DEF deleteAllByReference, goto
  <2>4. CASE deleteByReferences(r)
    BY <1>2, <1>3, <1>4, <2>2, <2>4 DEF deleteByReferences, goto
  <2> QED BY <2>1, <2>3, <2>4
<1>9. m \in Local /\ m.pc = pc /\ m.ids = ids /\ SameFields(req[r], m)
  BY <1>1, <1>6, <1>7 DEF Local, SameFields
<1>10. /\ ~ReviewPhase(m) /\ ~ImagePhase(m) /\ afterReviews(m) /\ m.pc \notin Threads
       /\ EarlyPhase(req[r]) /\ Cascading(req[r]) /\ Cascading(m)
       /\ afterNotifications(m) => req[r].pc = "notifications:delete"
       /\ req[r].pc # "reviews:delete" => afterReviews(req[r])
       /\ m.pc \notin {"threads:delete", "reviews:delete", "images:load", "images:delete",
                       "files:delete", "roots:delete"}
  BY <1>1, <1>7, <1>9 DEF ReviewPhase, ImagePhase, afterReviews, afterNotifications, Threads,
     EarlyPhase, Cascading
<1>11. LevelOK(req[r])
  BY DEF AloneInv, AloneOK
<1>12. SameLevel(req[r], m)
  <2>1. req[r].op # "images"
    BY <1>1, <1>11 DEF LevelOK
  <2> QED BY <1>9, <1>10, <2>1 DEF SameLevel, SameFields
<1>13. /\ D \subseteq Pool /\ D \subseteq Ids
       /\ D \cap (Places \cup Events \cup Images) = {}
       /\ Pool # Reviews => D \cap Reviews = {}
  <2>1. D \subseteq Pool
    BY <1>3 DEF findIdsByReferences
  <2> QED BY <1>7, <2>1 DEF OwnershipAssumption, Ids
<1>14. NoDangling'
  <2>1. noneOn(Events, D) /\ noneOn(Reviews, D) /\ noneOn(Notifications, D) /\ noneOn(Images, D)
    BY <1>1, <1>13, RefersTo
  <2>2. \A c \in Comments : stored(c) => doc[c].ref \notin D
    <3>1. CASE req[r].pc = "reviews:delete"
      BY <1>3, <1>7, <1>11, <3>1 DEF LevelOK, noneOn
    <3>2. CASE req[r].pc # "reviews:delete"
      <4>1. D \subseteq Favorites \/ D \subseteq Notifications
        BY <1>1, <1>2, <1>13, <3>2
      <4>2. D \in SUBSET (Ids \ (Reviews \cup Images))
        BY <1>13, <4>1 DEF OwnershipAssumption
      <4> QED BY <1>1, <4>2, RefersTo
    <3> QED BY <3>1, <3>2
  <2>3. left \subseteq left' /\ UNCHANGED accounts
    BY <1>1
  <2> QED BY <1>1, <1>8, <1>13, <2>1, <2>2, <2>3, DanglingDelete
<1>15. req[r].pc = "reviews:delete" => noneOn(Reviews, m.roots)'
  BY <1>1, <1>3, <1>7, <1>8, <1>9, DeleteMonotone DEF SameFields, Ids
<1>16. req[r].pc = "notifications:delete" => noneOn(Notifications, m.roots)'
  BY <1>1, <1>3, <1>7, <1>8, <1>9, DeleteMonotone DEF SameFields, Ids
<1>17. left \subseteq left' /\ UNCHANGED accounts
  BY <1>1
<1> QED BY <1>8, <1>9, <1>10, <1>12, <1>14, <1>15, <1>16, <1>17, <1>1, SameLevelStep

\* The images found are all those of the roots.
LEMMA ImagesFindAlone ==
    ASSUME OwnershipAssumption, NEW r, Requests = {r}, AloneInv, findImageIds(r)
    PROVE  AloneInv'
<1>1. req[r] \in Local /\ req[r].pc = "images:find" /\ UNCHANGED documents /\ Inv /\ Inv'
  BY LookUpInv DEF AloneInv, Inv, findImageIds
<1>2. PICK ids : ids = findIdsByReferences(Images, req[r].roots)
  OBVIOUS
<1>3. ids \in SUBSET Images
  BY <1>2 DEF findIdsByReferences
<1>4. PICK m : m = deleteImages(req[r], ids)
  OBVIOUS
<1>5. m \in Local /\ LocalOK(m) /\ m.ids = ids /\ m.pc \in {"roots:delete", "threads:find"}
  BY <1>1, <1>3, <1>4, DeleteImagesType DEF Inv
<1>6. SameFields(req[r], m) /\ (m.pc = "roots:delete" <=> ids = {})
  BY <1>1, <1>4 DEF deleteImages, SameFields, Local
<1>7. become(r, m)
  BY <1>2, <1>4 DEF findImageIds
<1>8. m.pc = "threads:find" => ~onReviews(m)
  BY <1>3, <1>5, <1>6 DEF onReviews, OwnershipAssumption
<1>9. /\ ~EarlyPhase(m) /\ Cascading(m) /\ Cascading(req[r]) /\ EarlyPhase(req[r])
      /\ ImagePhase(m) => m.pc = "threads:find"
      /\ afterReviews(req[r]) /\ afterNotifications(req[r])
  BY <1>1, <1>5, <1>8 DEF EarlyPhase, Cascading, ReviewPhase, ImagePhase, afterReviews,
     afterNotifications, Threads
<1>10. LevelOK(req[r])
  BY DEF AloneInv, AloneOK
<1>11. req[r].level # "User" /\ req[r].op # "images"
  BY <1>1, <1>9, <1>10 DEF LevelOK, RootsOK
<1>12. SameLevel(req[r], m)
  BY <1>6, <1>9, <1>11 DEF SameLevel, SameFields
<1>13. findIdsByReferences(Images, m.roots)' = ids
  BY <1>1, <1>2, <1>6, LookUpStep DEF SameFields
<1>14. m.pc = "roots:delete" => noneOn(Images, m.roots)'
  BY <1>6, <1>13 DEF noneOn, findIdsByReferences
<1>15. m.level # "User"
  BY <1>6, <1>11 DEF SameFields
<1> QED BY <1>1, <1>5, <1>7, <1>8, <1>9, <1>12, <1>13, <1>14, <1>15, LookUpStep,
           SameLevelStep DEF Threads

LEMMA ImagesLoadAlone ==
    ASSUME OwnershipAssumption, NEW r, Requests = {r}, AloneInv, DeleteImagesLoad(r)
    PROVE  AloneInv'
<1>1. req[r] \in Local /\ req[r].pc = "images:load" /\ UNCHANGED documents /\ Inv /\ Inv'
  BY LookUpInv DEF AloneInv, Inv, DeleteImagesLoad
<1>2. PICK m : m = [req[r] EXCEPT !.pc = "images:delete"]
  OBVIOUS
<1>3. /\ m \in Local /\ m.pc = "images:delete" /\ m.ids = req[r].ids /\ SameFields(req[r], m)
  BY <1>1, <1>2 DEF Local, Steps, SameFields
<1>4. become(r, m)
  BY <1>2 DEF DeleteImagesLoad, goto
<1>5. /\ ~EarlyPhase(m) /\ Cascading(m) /\ Cascading(req[r]) /\ ImagePhase(m)
      /\ ImagePhase(req[r]) /\ afterReviews(req[r]) /\ afterNotifications(req[r])
  BY <1>1, <1>3 DEF EarlyPhase, Cascading, ReviewPhase, ImagePhase, afterReviews,
     afterNotifications, Threads
<1>6. LevelOK(req[r])
  BY DEF AloneInv, AloneOK
<1>7. SameLevel(req[r], m)
  BY <1>3, <1>5 DEF SameLevel, SameFields
<1>8. findIdsByReferences(Images, m.roots)' = findIdsByReferences(Images, req[r].roots)
      /\ findIdsByOwner(Images, m.user)' = findIdsByOwner(Images, req[r].user)
  BY <1>1, <1>3, LookUpStep DEF SameFields
<1>9. ImagePhase(m) =>
            /\ findIdsByReferences(Images, m.roots)' \subseteq m.ids
            /\ m.level = "User" => findIdsByOwner(Images, m.user)' \subseteq m.ids
  BY <1>3, <1>5, <1>6, <1>8 DEF LevelOK, SameFields
<1>10. m.op # "images" => noneOn(Comments, m.ids)'
  BY <1>1, <1>3, <1>6, LookUpStep DEF LevelOK, SameFields
<1> QED BY <1>1, <1>3, <1>4, <1>5, <1>7, <1>9, <1>10, LookUpStep, SameLevelStep DEF Threads

\* The images go once no comment is about them, or they are left their comments.
LEMMA ImagesDeleteAlone ==
    ASSUME OwnershipAssumption, NEW r, Requests = {r}, AloneInv, DeleteImagesDelete(r)
    PROVE  AloneInv'
<1>1. /\ req[r] \in Local /\ req[r].pc = "images:delete" /\ Inv /\ Inv' /\ NoDangling
      /\ deleteMany(req[r].ids) /\ UNCHANGED accounts /\ LocalOK(req[r])
      /\ left' = left \cup (IF req[r].op = "images" THEN req[r].ids ELSE {})
  BY CascadeDeleteInv DEF AloneInv, Inv, DeleteImagesDelete
<1>2. PICK m : m = [req[r] EXCEPT !.pc = "files:delete"]
  OBVIOUS
<1>3. /\ m \in Local /\ m.pc = "files:delete" /\ m.ids = req[r].ids /\ SameFields(req[r], m)
  BY <1>1, <1>2 DEF Local, Steps, SameFields
<1>4. become(r, m)
  BY <1>2 DEF DeleteImagesDelete, goto
<1>5. /\ ~EarlyPhase(m) /\ Cascading(m) /\ Cascading(req[r]) /\ ~ImagePhase(m)
      /\ ImagePhase(req[r]) /\ afterReviews(req[r]) /\ afterNotifications(req[r])
  BY <1>1, <1>3 DEF EarlyPhase, Cascading, ReviewPhase, ImagePhase, afterReviews,
     afterNotifications, Threads
<1>6. LevelOK(req[r])
  BY DEF AloneInv, AloneOK
<1>7. SameLevel(req[r], m)
  BY <1>3, <1>5 DEF SameLevel, SameFields
<1>8. PICK D : D = req[r].ids
  OBVIOUS
<1>9. D \subseteq Images
  BY <1>1, <1>8 DEF LocalOK
<1>10. NoDangling'
  <2>1. D \in SUBSET Ids /\ D \cap (Places \cup Events) = {}
    BY <1>9 DEF OwnershipAssumption, Ids
  <2>2. noneOn(Events, D) /\ noneOn(Reviews, D) /\ noneOn(Notifications, D) /\ noneOn(Images, D)
    BY <1>1, <2>1, RefersTo
  <2>3. req[r].op # "images" => noneOn(Comments, D)
    BY <1>1, <1>6, <1>8 DEF LevelOK
  <2>4. \A c \in Comments : stored(c) /\ doc[c].ref \in D => doc[c].ref \in left'
    BY <1>1, <1>8, <2>3 DEF noneOn
  <2> QED BY <1>1, <1>8, <2>1, <2>2, <2>4, DanglingDelete
<1>11. noneOn(Images, m.roots)'
  BY <1>1, <1>3, <1>5, <1>6, DeleteMonotone DEF LevelOK, SameFields, Ids
<1>12. m.level = "User" => noneOf(Images, m.user)'
  <2>1. req[r].level = "User" => req[r].user \in Users
    BY <1>1, <1>5, <1>6 DEF LevelOK, RootsOK, LocalOK
  <2> QED BY <1>1, <1>3, <1>5, <1>6, <2>1, DeleteMonotone DEF LevelOK, SameFields, Ids
<1>13. left \subseteq left'
  BY <1>1
<1> QED BY <1>1, <1>3, <1>4, <1>5, <1>7, <1>10, <1>11, <1>12, <1>13, SameLevelStep DEF Threads

LEMMA FilesDeleteAlone ==
    ASSUME OwnershipAssumption, NEW r, Requests = {r}, AloneInv, DeleteImagesFiles(r)
    PROVE  AloneInv'
<1>1. /\ req[r] \in Local /\ req[r].pc = "files:delete" /\ Inv /\ Inv'
      /\ UNCHANGED <<doc, accounts, left>>
  BY FilesInv DEF AloneInv, Inv, DeleteImagesFiles
<1>2. CASE req[r].op = "images"
  <2>1. become(r, Idle)
    BY <1>2 DEF DeleteImagesFiles
  <2> QED BY <1>1, <2>1, AloneQuiet, AloneIdle
<1>3. CASE req[r].op # "images"
  <2>1. PICK m : m = [req[r] EXCEPT !.ids = {}, !.pc = "roots:delete"]
    OBVIOUS
  <2>2. m \in Local /\ m.pc = "roots:delete" /\ m.ids = {} /\ SameFields(req[r], m)
    BY <1>1, <2>1 DEF Local, Steps, SameFields
  <2>3. become(r, m)
    BY <1>3, <2>1 DEF DeleteImagesFiles
  <2>4. /\ ~EarlyPhase(m) /\ Cascading(m) /\ Cascading(req[r]) /\ ~ImagePhase(m)
        /\ afterReviews(req[r]) /\ afterNotifications(req[r])
    BY <1>1, <2>2 DEF EarlyPhase, Cascading, ReviewPhase, ImagePhase, afterReviews,
       afterNotifications, Threads
  <2>5. SameLevel(req[r], m)
    BY <1>3, <2>2, <2>4 DEF SameLevel, SameFields
  <2>6. deleteMany({}) /\ NoDangling' /\ left \subseteq left'
    BY <1>1, NothingDeleted DEF AloneInv, NoDangling, stored
  <2> QED BY <1>1, <2>2, <2>3, <2>4, <2>5, <2>6, SameLevelStep DEF Threads
<1> QED BY <1>2, <1>3

-----------------------------------------------------------------------------
(* From one level to the next                                              *)

LEMMA AfterEventsAlone ==
    ASSUME OwnershipAssumption, NEW l \in Local, l.op # "images", NEW m, m = afterEvents(l),
           l.place # None => noneOn(Events, {l.place})',
           l.op = "account" =>
                /\ l.user \in accounts'
                /\ \A p \in Places : stored(p)' /\ doc'[p].owner = l.user =>
                        p \in l.places \cup {l.place},
           l.op = "account" /\ l.place = None => l.places = {} /\ noneOf(Events, l.user)'
    PROVE  AloneOK(m)'
<1>1. CASE l.place # None
  <2>1. m = [l EXCEPT !.level = "Place", !.roots = {l.place}, !.pc = "reviews:find"]
    BY <1>1 DEF afterEvents
  <2>2. /\ m.pc = "reviews:find" /\ m.level = "Place" /\ m.roots = {l.place}
        /\ m.place = l.place /\ m.op = l.op /\ m.user = l.user /\ m.places = l.places
        /\ l.place \in Places
    BY <1>1, <2>1 DEF Local
  <2>3. ~ImagePhase(m) /\ ~afterNotifications(m) /\ ~afterReviews(m) /\ ~ofUser(m)
    BY <2>2 DEF ImagePhase, afterNotifications, afterReviews, ofUser, accountPcs, Threads
  <2>4. SaveOK(m)'
    BY <2>2 DEF SaveOK, UserPcs
  <2>5. LevelOK(m)'
    BY <1>1, <2>2, <2>3 DEF LevelOK, RootsOK, Threads
  <2>6. AccountOK(m)'
    BY <2>2, <2>3 DEF AccountOK
  <2> QED BY <2>4, <2>5, <2>6 DEF AloneOK
<1>2. CASE l.place = None /\ l.op = "account"
  <2>1. m = [l EXCEPT !.level = "User", !.roots = {l.user}, !.pc = "account:favorites"]
    BY <1>2 DEF afterEvents
  <2>2. /\ m.pc = "account:favorites" /\ m.level = "User" /\ m.roots = {l.user}
        /\ m.place = l.place /\ m.op = l.op /\ m.user = l.user /\ m.places = l.places
    BY <2>1 DEF Local
  <2>3. ~Cascading(m) /\ ~ImagePhase(m) /\ ~afterNotifications(m) /\ ~afterReviews(m)
    BY <2>2 DEF Cascading, ReviewPhase, ImagePhase, afterNotifications, afterReviews, Threads
  <2>4. SaveOK(m)'
    BY <2>2 DEF SaveOK, UserPcs
  <2>5. LevelOK(m)'
    BY <1>2, <2>2, <2>3 DEF LevelOK, Threads
  <2>6. noneOf(Places, l.user)' /\ noneOf(Events, l.user)'
    BY <1>2 DEF noneOf, OwnershipAssumption, Ids
  <2>7. AccountOK(m)'
    BY <1>2, <2>2, <2>3, <2>6 DEF AccountOK
  <2> QED BY <2>4, <2>5, <2>7 DEF AloneOK
<1>3. CASE l.place = None /\ l.op # "account"
  BY <1>3, AloneIdle DEF afterEvents
<1> QED BY <1>1, <1>2, <1>3

LEMMA DeleteEventsAlone ==
    ASSUME OwnershipAssumption, NEW l \in Local, l.op # "images", NEW E \in SUBSET Events,
           NEW m, m = deleteEvents(l, E),
           l.place # None => findIdsByReferences(Events, {l.place})' \subseteq E,
           l.op = "account" =>
                /\ l.user \in accounts'
                /\ \A p \in Places : stored(p)' /\ doc'[p].owner = l.user =>
                        p \in l.places \cup {l.place},
           l.op = "account" /\ l.place = None =>
                l.places = {} /\ findIdsByOwner(Events, l.user)' \subseteq E
    PROVE  AloneOK(m)'
<1>1. CASE E = {}
  <2>1. l.place # None => noneOn(Events, {l.place})'
    BY <1>1 DEF noneOn, findIdsByReferences
  <2>2. l.op = "account" /\ l.place = None => l.places = {} /\ noneOf(Events, l.user)'
    BY <1>1 DEF noneOf, findIdsByOwner
  <2>3. m = afterEvents(l)
    BY <1>1 DEF deleteEvents
  <2> QED BY <2>1, <2>2, <2>3, AfterEventsAlone
<1>2. CASE E # {}
  <2>1. m = [l EXCEPT !.level = "Event", !.roots = E, !.pc = "reviews:find"]
    BY <1>2 DEF deleteEvents
  <2>2. /\ m.pc = "reviews:find" /\ m.level = "Event" /\ m.roots = E
        /\ m.place = l.place /\ m.op = l.op /\ m.user = l.user /\ m.places = l.places
    BY <2>1 DEF Local
  <2>3. ~ImagePhase(m) /\ ~afterNotifications(m) /\ ~afterReviews(m) /\ ~ofUser(m)
    BY <2>2 DEF ImagePhase, afterNotifications, afterReviews, ofUser, accountPcs, Threads
  <2>4. SaveOK(m)'
    BY <2>2 DEF SaveOK, UserPcs
  <2>5. LevelOK(m)'
    BY <2>2, <2>3 DEF LevelOK, RootsOK, Threads
  <2>6. AccountOK(m)'
    BY <2>2, <2>3 DEF AccountOK
  <2> QED BY <2>4, <2>5, <2>6 DEF AloneOK
<1> QED BY <1>1, <1>2

LEMMA EventsFindAlone ==
    ASSUME OwnershipAssumption, NEW r, Requests = {r}, AloneInv,
           findIdsByPlace(r) \/ AccountEvents(r)
    PROVE  AloneInv'
<1>1. /\ req[r] \in Local /\ LocalOK(req[r]) /\ UNCHANGED documents /\ Inv /\ Inv'
      /\ LevelOK(req[r]) /\ AccountOK(req[r])
  BY LookUpInv DEF AloneInv, Inv, findIdsByPlace, AccountEvents, AloneOK
<1>2. PICK l : l = req[r]
  OBVIOUS
<1>3. l.op = "account" =>
        /\ l.user \in accounts'
        /\ \A p \in Places : stored(p)' /\ doc'[p].owner = l.user =>
                p \in l.places \cup {l.place}
  <2>1. l.pc # "account:places"
    BY <1>2 DEF findIdsByPlace, AccountEvents
  <2> QED BY <1>1, <1>2, <2>1, LookUpStep DEF AccountOK
<1>4. l.op # "images"
  BY <1>1, <1>2 DEF findIdsByPlace, AccountEvents, LevelOK
<1>5. CASE findIdsByPlace(r)
  <2>1. PICK E : E = findIdsByReferences(Events, {l.place})
    OBVIOUS
  <2>2. E \in SUBSET Events /\ l.place # None
    BY <1>1, <1>2, <1>5, <2>1
       DEF findIdsByReferences, findIdsByPlace, LocalOK, OwnershipAssumption, Ids
  <2>3. PICK m : m = deleteEvents(l, E)
    OBVIOUS
  <2>4. findIdsByReferences(Events, {l.place})' = E
    BY <1>1, <2>1, LookUpStep
  <2>5. AloneOK(m)'
    BY <1>1, <1>2, <1>3, <1>4, <2>2, <2>3, <2>4, DeleteEventsAlone
  <2>6. become(r, m)
    BY <1>2, <1>5, <2>1, <2>3 DEF findIdsByPlace
  <2> QED BY <1>1, <2>5, <2>6, LookUpStep, AloneStep
<1>6. CASE AccountEvents(r)
  <2>1. PICK E : E = findIdsByOwner(Events, l.user)
    OBVIOUS
  <2>2. E \in SUBSET Events /\ l.place = None /\ l.places = {}
    BY <1>1, <1>2, <1>6, <2>1 DEF findIdsByOwner, AccountEvents, AccountOK
  <2>3. PICK m : m = deleteEvents(l, E)
    OBVIOUS
  <2>4. findIdsByOwner(Events, l.user)' = E
    BY <1>1, <2>1, LookUpStep
  <2>5. AloneOK(m)'
    BY <1>1, <1>2, <1>3, <1>4, <2>2, <2>3, <2>4, DeleteEventsAlone
  <2>6. become(r, m)
    BY <1>2, <1>6, <2>1, <2>3 DEF AccountEvents
  <2> QED BY <1>1, <2>5, <2>6, LookUpStep, AloneStep
<1> QED BY <1>5, <1>6

\* The events go when nothing stored is about them any more.
LEMMA EventsDeleteAlone ==
    ASSUME OwnershipAssumption, NEW r, Requests = {r}, AloneInv, deleteManyByIds(r)
    PROVE  AloneInv'
<1>1. /\ req[r] \in Local /\ LocalOK(req[r]) /\ Inv /\ Inv' /\ NoDangling
      /\ LevelOK(req[r]) /\ AccountOK(req[r]) /\ UNCHANGED <<accounts, left>>
  BY CascadeDeleteInv DEF AloneInv, Inv, deleteManyByIds, AloneOK
<1>2. PICK l : l = req[r]
  OBVIOUS
<1>3. l.pc = "roots:delete" /\ l.level = "Event" /\ deleteMany(l.roots)
  BY <1>2 DEF deleteManyByIds
<1>4. Cascading(l) /\ afterReviews(l) /\ afterNotifications(l)
  BY <1>3 DEF Cascading, afterReviews, afterNotifications
<1>5. /\ l.op # "images" /\ l.roots \subseteq Events
      /\ l.place # None => findIdsByReferences(Events, {l.place}) \subseteq l.roots
  BY <1>1, <1>2, <1>3, <1>4 DEF LevelOK, RootsOK
<1>6. l.roots \in SUBSET Ids /\ l.roots \cap (Places \cup Reviews \cup Images) = {}
  BY <1>5 DEF OwnershipAssumption, Ids
<1>7. NoDangling'
  <2>1. noneOn(Events, l.roots) /\ \A c \in Comments : stored(c) => doc[c].ref \notin l.roots
    BY <1>1, <1>6, RefersTo
  <2>2. noneOn(Reviews, l.roots) /\ noneOn(Notifications, l.roots) /\ noneOn(Images, l.roots)
    BY <1>1, <1>2, <1>3, <1>4 DEF LevelOK
  <2>3. left \subseteq left' /\ UNCHANGED accounts
    BY <1>1
  <2> QED BY <1>1, <1>3, <1>6, <2>1, <2>2, <2>3, DanglingDelete
<1>8. l.op = "account" => l.user \in Users
  BY <1>1, <1>2 DEF LocalOK
<1>9. l.place # None => noneOn(Events, {l.place})'
  BY <1>1, <1>3, <1>5, DeleteMonotone DEF Ids
<1>10. l.op = "account" =>
            /\ l.user \in accounts'
            /\ \A p \in Places : stored(p)' /\ doc'[p].owner = l.user =>
                    p \in l.places \cup {l.place}
  BY <1>1, <1>2, <1>3, PlacesDeleted DEF AccountOK
<1>11. l.op = "account" /\ l.place = None => l.places = {} /\ noneOf(Events, l.user)'
  BY <1>1, <1>2, <1>3, <1>4, <1>8, DeleteMonotone DEF AccountOK, Ids
<1>12. PICK m : m = afterEvents(l)
  OBVIOUS
<1>13. AloneOK(m)'
  BY <1>1, <1>2, <1>5, <1>9, <1>10, <1>11, <1>12, AfterEventsAlone
<1>14. become(r, m)
  BY <1>2, <1>12 DEF deleteManyByIds
<1> QED BY <1>1, <1>7, <1>13, <1>14, AloneStep

\* The place goes when nothing stored is about it any more.
LEMMA PlaceDeleteAlone ==
    ASSUME OwnershipAssumption, NEW r, Requests = {r}, AloneInv, deletePlace(r)
    PROVE  AloneInv'
<1>1. /\ req[r] \in Local /\ LocalOK(req[r]) /\ Inv /\ Inv' /\ NoDangling
      /\ LevelOK(req[r]) /\ AccountOK(req[r]) /\ UNCHANGED <<accounts, left>>
  BY CascadeDeleteInv DEF AloneInv, Inv, deletePlace, AloneOK
<1>2. PICK l : l = req[r]
  OBVIOUS
<1>3. l.pc = "roots:delete" /\ l.level = "Place" /\ deleteMany(l.roots)
  BY <1>2 DEF deletePlace
<1>4. Cascading(l) /\ afterReviews(l) /\ afterNotifications(l)
  BY <1>3 DEF Cascading, afterReviews, afterNotifications
<1>5. /\ l.op # "images" /\ l.place \in Places /\ l.roots = {l.place}
      /\ noneOn(Events, l.roots)
  BY <1>1, <1>2, <1>3, <1>4 DEF LevelOK, RootsOK
<1>6. l.roots \in SUBSET Ids /\ l.roots \cap (Reviews \cup Images) = {}
  BY <1>5 DEF OwnershipAssumption, Ids
<1>7. NoDangling'
  <2>1. \A c \in Comments : stored(c) => doc[c].ref \notin l.roots
    BY <1>1, <1>6, RefersTo
  <2>2. noneOn(Reviews, l.roots) /\ noneOn(Notifications, l.roots) /\ noneOn(Images, l.roots)
    BY <1>1, <1>2, <1>3, <1>4 DEF LevelOK
  <2>3. left \subseteq left' /\ UNCHANGED accounts
    BY <1>1
  <2> QED BY <1>1, <1>3, <1>5, <1>6, <2>1, <2>2, <2>3, DanglingDelete
<1>8. PICK pc : pc = IF l.op = "account" THEN "account:next" ELSE "place:unlink"
  OBVIOUS
<1>9. PICK p : p = IF l.op = "account" THEN None ELSE l.place
  OBVIOUS
<1>10. PICK m : m = [l EXCEPT !.pc = pc, !.place = p]
  OBVIOUS
<1>11. become(r, m)
  BY <1>2, <1>8, <1>9, <1>10 DEF deletePlace
<1>12. /\ m.pc = pc /\ m.op = l.op /\ m.user = l.user /\ m.place = p /\ m.places = l.places
  BY <1>1, <1>2, <1>10 DEF Local
<1>13. SaveOK(m)'
  BY <1>8, <1>12 DEF SaveOK, UserPcs
<1>14. AloneOK(m)'
  <2>1. CASE l.op = "account"
    <3>1. m.pc = "account:next" /\ m.place = None
      BY <1>8, <1>9, <1>12, <2>1
    <3>2. /\ ~Cascading(m) /\ ~ImagePhase(m) /\ ~afterNotifications(m) /\ ~afterReviews(m)
          /\ ~ofUser(m)
      BY <3>1 DEF Cascading, ReviewPhase, ImagePhase, afterNotifications, afterReviews,
         Threads, ofUser, accountPcs
    <3>3. LevelOK(m)'
      BY <1>12, <2>1, <3>1, <3>2 DEF LevelOK, Threads
    <3>4. \A q \in Places : stored(q)' /\ doc'[q].owner = l.user => q \in l.places
      BY <1>1, <1>2, <1>3, <1>5, <2>1, PlacesDeleted DEF AccountOK
    <3>5. l.user \in accounts'
      BY <1>1, <1>2, <2>1 DEF AccountOK
    <3>6. AccountOK(m)'
      BY <1>12, <3>1, <3>2, <3>4, <3>5 DEF AccountOK
    <3> QED BY <1>13, <3>3, <3>6 DEF AloneOK
  <2>2. CASE l.op # "account"
    <3>1. m.pc = "place:unlink" /\ m.op \notin {"account", "images"}
      BY <1>5, <1>8, <1>12, <2>2
    <3>2. LevelOK(m)' /\ AccountOK(m)'
      BY <3>1, NoCascade DEF UserPcs
    <3> QED BY <1>13, <3>2 DEF AloneOK
  <2> QED BY <2>1, <2>2
<1> QED BY <1>1, <1>7, <1>11, <1>14, AloneStep

\* The account goes when nothing stored belongs to it or shows it.
LEMMA UserDeleteAlone ==
    ASSUME OwnershipAssumption, NEW r, Requests = {r}, AloneInv, deleteUser(r)
    PROVE  AloneInv'
<1>1. /\ req[r] \in Local /\ Inv /\ Inv' /\ NoDangling /\ LevelOK(req[r]) /\ AccountOK(req[r])
      /\ req[r].pc = "roots:delete" /\ req[r].level = "User" /\ UNCHANGED <<doc, left>>
      /\ accounts' = accounts \ {req[r].user} /\ become(r, Idle)
  BY WriteInv DEF AloneInv, Inv, deleteUser, AloneOK
<1>2. PICK u : u = req[r].user
  OBVIOUS
<1>3. Cascading(req[r]) /\ ofUser(req[r])
  BY <1>1 DEF Cascading, afterReviews, afterNotifications, ofUser
<1>4. /\ noneOf(Places, u) /\ noneOf(Events, u) /\ noneOf(Favorites, u)
      /\ noneOf(Notifications, u) /\ noneOf(Images, u) /\ noneOn(Images, {u})
  BY <1>1, <1>2, <1>3 DEF LevelOK, AccountOK, accountPcs
<1>5. NoDangling'
  BY <1>1, <1>2, <1>4 DEF NoDangling, noneOf, noneOn, stored
<1> QED BY <1>1, <1>5, AloneIdle, AloneStep

LEMMA AccountFindAlone ==
    ASSUME OwnershipAssumption, NEW r, Requests = {r}, AloneInv,
           AccountFind(r) \/ AccountPlaces(r) \/ AccountNextPlace(r) \/ AccountImages(r)
    PROVE  AloneInv'
<1>1. /\ req[r] \in Local /\ LocalOK(req[r]) /\ UNCHANGED documents /\ Inv /\ Inv'
      /\ AccountOK(req[r]) /\ LevelOK(req[r])
  BY LookUpInv, DeleteFindInv DEF AloneInv, Inv, AloneOK, AccountFind, AccountPlaces,
     AccountNextPlace, AccountImages
<1>2. ASSUME NEW m, become(r, m), m.op = "account", AccountOK(m),
             m.pc \in {"account:places", "account:next", "place:events", "account:references"}
      PROVE  AloneInv'
  <2>1. /\ ~Cascading(m) /\ ~ImagePhase(m) /\ ~afterNotifications(m) /\ ~afterReviews(m)
        /\ m.pc \notin Threads
    BY <1>2 DEF Cascading, ReviewPhase, ImagePhase, afterNotifications, afterReviews, Threads
  <2>2. SaveOK(m)
    BY <1>2 DEF SaveOK, UserPcs
  <2>3. LevelOK(m)
    BY <1>2, <2>1 DEF LevelOK
  <2>4. AloneOK(m)
    BY <1>2, <2>2, <2>3 DEF AloneOK
  <2> QED BY <1>1, <1>2, <2>4, AloneQuiet DEF documents
<1>3. CASE AccountFind(r)
  <2>1. PICK u \in accounts :
            become(r, [Idle EXCEPT !.op = "account", !.pc = "account:places", !.user = u])
    BY <1>3 DEF AccountFind, start
  <2>2. PICK m : m = [Idle EXCEPT !.op = "account", !.pc = "account:places", !.user = u]
    OBVIOUS
  <2>3. m.op = "account" /\ m.pc = "account:places" /\ m.user = u /\ m.place = None
    BY <2>2 DEF Idle
  <2>4. ~Cascading(m) /\ ~ofUser(m)
    BY <2>3 DEF Cascading, ReviewPhase, ImagePhase, afterNotifications, afterReviews, Threads,
       ofUser, accountPcs
  <2>5. AccountOK(m)
    BY <2>1, <2>3, <2>4 DEF AccountOK
  <2> QED BY <1>2, <2>1, <2>2, <2>3, <2>5
<1>4. CASE AccountPlaces(r)
  <2>1. PICK found : found = findIdsByOwner(Places, req[r].user)
    OBVIOUS
  <2>2. PICK m : m = [req[r] EXCEPT !.pc = "account:next", !.places = found]
    OBVIOUS
  <2>3. /\ m.pc = "account:next" /\ m.op = req[r].op /\ m.user = req[r].user
        /\ m.place = req[r].place /\ m.places = found /\ req[r].pc = "account:places"
        /\ become(r, m)
    BY <1>1, <1>4, <2>1, <2>2 DEF Local, AccountPlaces
  <2>4. req[r].op = "account" /\ req[r].place = None
    BY <1>1, <2>3 DEF LocalOK, AccountOK
  <2>5. ~Cascading(m) /\ ~ofUser(m)
    BY <2>3 DEF Cascading, ReviewPhase, ImagePhase, afterNotifications, afterReviews, Threads,
       ofUser, accountPcs
  <2>6. \A p \in Places : stored(p) /\ doc[p].owner = m.user => p \in m.places
    BY <2>1, <2>3 DEF findIdsByOwner
  <2>7. AccountOK(m)
    BY <1>1, <2>3, <2>4, <2>5, <2>6 DEF AccountOK
  <2> QED BY <1>2, <2>3, <2>4, <2>7
<1>5. CASE AccountNextPlace(r)
  <2>1. PICK p \in req[r].places :
            become(r, [req[r] EXCEPT !.pc = "place:events", !.place = p, !.places = @ \ {p}])
    BY <1>5 DEF AccountNextPlace
  <2>2. PICK m :
            m = [req[r] EXCEPT !.pc = "place:events", !.place = p, !.places = @ \ {p}]
    OBVIOUS
  <2>3. /\ m.pc = "place:events" /\ m.op = req[r].op /\ m.user = req[r].user
        /\ m.place = p /\ m.places = req[r].places \ {p} /\ req[r].pc = "account:next"
    BY <1>1, <1>5, <2>2 DEF Local, AccountNextPlace
  <2>4. req[r].op = "account" /\ req[r].place = None
    BY <1>1, <2>3 DEF LocalOK, AccountOK
  <2>5. ~Cascading(m) /\ ~ofUser(m)
    BY <2>3 DEF Cascading, ReviewPhase, ImagePhase, afterNotifications, afterReviews, Threads,
       ofUser, accountPcs
  <2>6. \A q \in Places : stored(q) /\ doc[q].owner = m.user => q \in m.places \cup {m.place}
    BY <1>1, <2>3, <2>4 DEF AccountOK, OwnershipAssumption, Ids
  <2>7. AccountOK(m)
    BY <1>1, <2>3, <2>4, <2>5, <2>6 DEF AccountOK
  <2> QED BY <1>2, <2>1, <2>2, <2>3, <2>4, <2>7
<1>6. CASE AccountImages(r)
  <2>1. PICK ids : ids = findIdsByOwner(Images, req[r].user)
    OBVIOUS
  <2>2. PICK m : m = [req[r] EXCEPT !.pc = "account:references", !.ids = ids]
    OBVIOUS
  <2>3. /\ m.pc = "account:references" /\ SameFields(req[r], m) /\ m.ids = ids
        /\ req[r].pc = "account:images" /\ become(r, m)
    BY <1>1, <1>6, <2>1, <2>2 DEF Local, AccountImages, SameFields
  <2>4. ~Cascading(m) /\ ofUser(m) /\ ofUser(req[r])
    BY <2>3 DEF Cascading, ReviewPhase, ImagePhase, afterNotifications, afterReviews, Threads,
       ofUser, accountPcs
  <2>5. req[r].op = "account"
    BY <1>1, <2>3 DEF LocalOK
  <2>6. AccountOK(m)
    BY <1>1, <2>1, <2>3, <2>4, <2>5 DEF AccountOK, SameFields
  <2> QED BY <1>2, <2>3, <2>5, <2>6 DEF SameFields
<1> QED BY <1>3, <1>4, <1>5, <1>6

\* The favorites of the account, then its notifications.
LEMMA OwnDeleteAlone ==
    ASSUME OwnershipAssumption, NEW r, Requests = {r}, AloneInv,
           deleteAllByUserId(r) \/ deleteByUser(r)
    PROVE  AloneInv'
<1>1. /\ req[r] \in Local /\ LocalOK(req[r]) /\ Inv /\ Inv' /\ NoDangling
      /\ LevelOK(req[r]) /\ AccountOK(req[r]) /\ UNCHANGED <<accounts, left>>
      /\ req[r].pc \in {"account:favorites", "account:notifications"}
  BY CascadeDeleteInv DEF AloneInv, Inv, deleteAllByUserId, deleteByUser, AloneOK
<1>2. PICK l : l = req[r]
  OBVIOUS
<1>3. PICK Pool : Pool = IF l.pc = "account:favorites" THEN Favorites ELSE Notifications
  OBVIOUS
<1>4. PICK D : D = findIdsByOwner(Pool, l.user)
  OBVIOUS
<1>5. PICK pc : pc = IF l.pc = "account:favorites" THEN "account:notifications"
                                                  ELSE "account:images"
  OBVIOUS
<1>6. PICK m : m = [l EXCEPT !.pc = pc]
  OBVIOUS
<1>7. deleteMany(D) /\ become(r, m)
  BY <1>2, <1>3, <1>4, <1>5, <1>6 DEF deleteAllByUserId, deleteByUser, goto
<1>8. m.pc = pc /\ m.ids = l.ids /\ SameFields(l, m)
  BY <1>1, <1>2, <1>6 DEF Local, SameFields
<1>9. ofUser(l) /\ ofUser(m) /\ l.op = "account" /\ l.user \in Users
  BY <1>1, <1>2, <1>5, <1>8 DEF ofUser, accountPcs, LocalOK
<1>10. /\ ~Cascading(m) /\ ~ImagePhase(m) /\ ~afterNotifications(m) /\ ~afterReviews(m)
       /\ m.pc \notin Threads \cup {"account:favorites", "account:references", "account:next",
                                   "account:places"}
  BY <1>5, <1>8 DEF Cascading, ReviewPhase, ImagePhase, afterNotifications, afterReviews,
     Threads
<1>11. D \subseteq Pool /\ D \in SUBSET Ids /\ D \cap (Places \cup Events \cup Reviews \cup Images) = {}
  BY <1>3, <1>4 DEF findIdsByOwner, OwnershipAssumption, Ids
<1>12. NoDangling'
  <2>1. /\ noneOn(Events, D) /\ noneOn(Reviews, D) /\ noneOn(Notifications, D)
        /\ noneOn(Images, D) /\ \A c \in Comments : stored(c) => doc[c].ref \notin D
    BY <1>1, <1>11, RefersTo
  <2>2. left \subseteq left' /\ UNCHANGED accounts
    BY <1>1
  <2> QED BY <1>1, <1>7, <1>11, <2>1, <2>2, DanglingDelete
<1>13. /\ noneOf(Pool, l.user)' /\ noneOf(Places, l.user)' /\ noneOf(Events, l.user)'
       /\ noneOf(Favorites, l.user) => noneOf(Favorites, l.user)'
  <2>1. Pool \in SUBSET Ids
    BY <1>3 DEF Ids
  <2>2. noneOf(Pool, l.user)'
    BY <1>1, <1>4, <1>7, <1>9, <2>1, DeleteMonotone
  <2>3. noneOf(Places, l.user) /\ noneOf(Events, l.user)
    BY <1>1, <1>2, <1>9 DEF AccountOK
  <2>4. /\ noneOf(Places, l.user) => noneOf(Places, l.user)'
        /\ noneOf(Events, l.user) => noneOf(Events, l.user)'
        /\ noneOf(Favorites, l.user) => noneOf(Favorites, l.user)'
    BY <1>1, <1>7, <1>9, DeleteMonotone DEF Ids
  <2> QED BY <2>2, <2>3, <2>4
<1>14. \A p \in Places : stored(p)' /\ doc'[p].owner = l.user => p \in l.places \cup {l.place}
  BY <1>13 DEF noneOf
<1>15. noneOf(Favorites, l.user)' /\ (m.pc # "account:notifications" => noneOf(Notifications, l.user)')
  BY <1>1, <1>2, <1>3, <1>5, <1>8, <1>9, <1>13 DEF AccountOK
<1>16. AccountOK(m)'
  <2>1. l.user \in accounts' /\ l.level = "User" /\ l.roots = {l.user}
    BY <1>1, <1>2, <1>9 DEF AccountOK
  <2> QED BY <1>8, <1>9, <1>10, <1>13, <1>14, <1>15, <2>1 DEF AccountOK, SameFields
<1>17. SaveOK(m)' /\ LevelOK(m)'
  <2>1. m.pc \notin UserPcs \cup {"delete", "threads:delete", "reviews:delete", "images:load",
                                  "images:delete", "files:delete", "roots:delete"}
    BY <1>5, <1>8 DEF UserPcs
  <2>2. SaveOK(m)'
    BY <2>1 DEF SaveOK, UserPcs
  <2>3. LevelOK(m)'
    BY <1>8, <1>9, <1>10, <2>1 DEF LevelOK, SameFields
  <2> QED BY <2>2, <2>3
<1> QED BY <1>1, <1>7, <1>12, <1>16, <1>17, AloneStep DEF AloneOK

\* The images of the account, and those that show it: the last level begins.
LEMMA AccountReferencesAlone ==
    ASSUME OwnershipAssumption, NEW r, Requests = {r}, AloneInv, AccountReferences(r)
    PROVE  AloneInv'
<1>1. /\ req[r] \in Local /\ LocalOK(req[r]) /\ Inv /\ Inv' /\ UNCHANGED documents
      /\ LevelOK(req[r]) /\ AccountOK(req[r]) /\ req[r].pc = "account:references"
  BY LookUpInv DEF AloneInv, Inv, AccountReferences, AloneOK
<1>2. PICK l : l = req[r]
  OBVIOUS
<1>3. PICK ids : ids = l.ids \cup findIdsByReferences(Images, {l.user})
  OBVIOUS
<1>4. PICK m : m = deleteImages(l, ids)
  OBVIOUS
<1>5. become(r, m)
  BY <1>2, <1>3, <1>4 DEF AccountReferences
<1>6. ids \subseteq Images
  BY <1>1, <1>2, <1>3 DEF findIdsByReferences, LocalOK
<1>7. /\ m.ids = ids /\ m.pc \in {"roots:delete", "threads:find"} /\ SameFields(l, m)
      /\ m.pc = "roots:delete" <=> ids = {}
  BY <1>1, <1>2, <1>4 DEF deleteImages, SameFields, Local
<1>8. m.pc = "threads:find" => ~onReviews(m)
  BY <1>6, <1>7 DEF onReviews, OwnershipAssumption
<1>9. ofUser(l) /\ l.op = "account" /\ l.user \in Users /\ l.level = "User" /\ l.roots = {l.user}
  BY <1>1, <1>2 DEF ofUser, accountPcs, LocalOK, AccountOK
<1>10. /\ Cascading(m) /\ ~EarlyPhase(m) /\ ofUser(m)
       /\ ImagePhase(m) => m.pc = "threads:find"
       /\ m.pc \notin accountPcs \cup UserPcs \cup
                {"delete", "threads:delete", "reviews:delete", "images:load", "images:delete",
                 "files:delete", "account:next", "account:places"}
  BY <1>7, <1>8, <1>9 DEF Cascading, EarlyPhase, ReviewPhase, ImagePhase, afterReviews,
     afterNotifications, Threads, ofUser, accountPcs, UserPcs, SameFields
<1>11. findIdsByReferences(Images, l.roots) \subseteq ids /\ findIdsByOwner(Images, l.user) \subseteq ids
  BY <1>1, <1>2, <1>3, <1>9 DEF AccountOK
<1>12. noneOn(Reviews, l.roots) /\ noneOn(Notifications, l.roots)
  BY <1>1, <1>9, RefersTo
<1>13. m.pc = "roots:delete" => noneOn(Images, l.roots) /\ noneOf(Images, l.user)
  BY <1>7, <1>11 DEF noneOn, noneOf, findIdsByReferences, findIdsByOwner
<1>14. RootsOK(m)
  BY <1>7, <1>9, <1>10 DEF RootsOK, SameFields
<1>15. LevelOK(m)
  BY <1>7, <1>8, <1>9, <1>10, <1>11, <1>12, <1>13, <1>14 DEF LevelOK, SameFields, Threads
<1>16. SaveOK(m)
  BY <1>10 DEF SaveOK, UserPcs
<1>17. AccountOK(m)
  <2>1. noneOf(Places, l.user) /\ noneOf(Events, l.user) /\ noneOf(Favorites, l.user)
        /\ noneOf(Notifications, l.user)
    BY <1>1, <1>2, <1>9 DEF AccountOK
  <2>2. l.user \in accounts /\ \A p \in Places : stored(p) /\ doc[p].owner = l.user
                                => p \in l.places \cup {l.place}
    BY <1>1, <1>2, <1>9 DEF AccountOK
  <2>3. m.pc \notin {"account:references", "account:next", "account:places"}
    BY <1>10 DEF accountPcs
  <2> QED BY <1>7, <1>9, <1>10, <2>1, <2>2, <2>3 DEF AccountOK, SameFields
<1> QED BY <1>1, <1>5, <1>15, <1>16, <1>17, AloneQuiet DEF AloneOK, documents

-----------------------------------------------------------------------------
(* Creations and single deletions                                          *)

\* What a creation found holds until it stores its document.
LEMMA CreateFindAlone ==
    ASSUME OwnershipAssumption, NEW r, Requests = {r}, AloneInv,
           \/ CreatePlaceFind(r) \/ UpdateUserFind(r) \/ CreateEventFind(r)
           \/ CreateReviewFind(r) \/ CreateCommentFind(r) \/ CreateFavoriteFind(r)
           \/ NotifyFind(r) \/ UploadFind(r)
    PROVE  AloneInv'
<1>1. UNCHANGED documents /\ Inv /\ Inv'
  BY CreateFindInv DEF AloneInv, CreatePlaceFind, UpdateUserFind, CreateEventFind,
     CreateReviewFind, CreateCommentFind, CreateFavoriteFind, NotifyFind, UploadFind
<1>2. UNCHANGED <<doc, accounts, left>>
  BY <1>1 DEF documents
<1>3. ASSUME NEW m, become(r, m), m.pc \in UserPcs, m.op = "none", SaveOK(m)
      PROVE  AloneInv'
  <2>1. AloneOK(m)
    BY <1>3, NoCascade DEF AloneOK
  <2> QED BY <1>1, <1>2, <1>3, <2>1, AloneQuiet
<1>4. ASSUME NEW pc \in UserPcs \ {"place:unlink"}, NEW u \in accounts, NEW i,
             become(r, [Idle EXCEPT !.pc = pc, !.user = u, !.ref = i]),
             pc = "event:save" /\ i # None => stored(i),
             pc \in {"review:save", "comment:save", "notification:save"} => stored(i),
             pc \in {"image:upload", "image:save"} =>
                IF i \in Users THEN i \in accounts ELSE stored(i)
      PROVE  AloneInv'
  <2>1. PICK m : m = [Idle EXCEPT !.pc = pc, !.user = u, !.ref = i]
    OBVIOUS
  <2>2. m.pc = pc /\ m.user = u /\ m.ref = i /\ m.op = "none"
    BY <2>1 DEF Idle
  <2>3. SaveOK(m)
    BY <1>4, <2>2 DEF SaveOK, UserPcs
  <2> QED BY <1>3, <1>4, <2>1, <2>2, <2>3
<1>5. CASE CreatePlaceFind(r)
  <2>1. PICK u \in Users : /\ u \in accounts
                           /\ become(r, [Idle EXCEPT !.pc = "place:save", !.user = u])
    BY <1>5 DEF CreatePlaceFind, start, assertCanCreatePlace
  <2>2. PICK m : m = [Idle EXCEPT !.pc = "place:save", !.user = u]
    OBVIOUS
  <2>3. m.pc = "place:save" /\ m.user = u /\ m.op = "none"
    BY <2>2 DEF Idle
  <2>4. SaveOK(m) /\ m.pc \in UserPcs
    BY <2>1, <2>3 DEF SaveOK, UserPcs
  <2> QED BY <1>3, <2>1, <2>2, <2>3, <2>4
<1>6. CASE UpdateUserFind(r)
  <2>1. PICK u \in accounts :
            become(r, [Idle EXCEPT !.pc = "user:write", !.user = u, !.place = place[u]])
    BY <1>6 DEF UpdateUserFind, start
  <2>2. PICK m : m = [Idle EXCEPT !.pc = "user:write", !.user = u, !.place = place[u]]
    OBVIOUS
  <2>3. m.pc = "user:write" /\ m.user = u /\ m.op = "none"
    BY <2>2 DEF Idle
  <2>4. SaveOK(m) /\ m.pc \in UserPcs
    BY <2>1, <2>3 DEF SaveOK, UserPcs
  <2> QED BY <1>3, <2>1, <2>2, <2>3, <2>4
<1>7. CASE CreateEventFind(r)
  BY <1>4, <1>7 DEF CreateEventFind, start, placeOwned, UserPcs
<1>8. CASE CreateReviewFind(r)
  BY <1>4, <1>8 DEF CreateReviewFind, start, UserPcs
<1>9. CASE CreateCommentFind(r)
  BY <1>4, <1>9 DEF CreateCommentFind, start, commentReferenceExists, UserPcs
<1>10. CASE CreateFavoriteFind(r)
  <2>1. PICK u \in accounts, p \in Places :
            become(r, [Idle EXCEPT !.pc = "favorite:save", !.user = u, !.ref = p])
    BY <1>10 DEF CreateFavoriteFind, start
  <2>2. PICK m : m = [Idle EXCEPT !.pc = "favorite:save", !.user = u, !.ref = p]
    OBVIOUS
  <2>3. m.pc = "favorite:save" /\ m.user = u /\ m.op = "none"
    BY <2>2 DEF Idle
  <2>4. SaveOK(m) /\ m.pc \in UserPcs
    BY <2>3 DEF SaveOK, UserPcs
  <2> QED BY <1>3, <2>1, <2>2, <2>3, <2>4
<1>11. CASE NotifyFind(r)
  BY <1>4, <1>11 DEF NotifyFind, start, UserPcs
<1>12. CASE UploadFind(r)
  <2>1. PICK u \in accounts, i \in Places \cup Events \cup Users :
            /\ IF i \in Users THEN i = u ELSE stored(i)
            /\ become(r, [Idle EXCEPT !.pc = "image:upload", !.user = u, !.ref = i])
    BY <1>12 DEF UploadFind, start, imageReferenceOwned
  <2>2. PICK m : m = [Idle EXCEPT !.pc = "image:upload", !.user = u, !.ref = i]
    OBVIOUS
  <2>3. m.pc = "image:upload" /\ m.user = u /\ m.ref = i /\ m.op = "none"
    BY <2>2 DEF Idle
  <2>4. SaveOK(m) /\ m.pc \in UserPcs
    BY <2>1, <2>3 DEF SaveOK, UserPcs
  <2> QED BY <1>3, <2>1, <2>2, <2>3, <2>4
<1> QED BY <1>5, <1>6, <1>7, <1>8, <1>9, <1>10, <1>11, <1>12

LEMMA CreateSaveAlone ==
    ASSUME OwnershipAssumption, NEW r, Requests = {r}, AloneInv,
           CreatePlaceSave(r) \/ CreateSave(r) \/ saveMany(r)
    PROVE  AloneInv'
<1>1. /\ req[r] \in Local /\ LocalOK(req[r]) /\ Inv /\ Inv' /\ NoDangling /\ SaveOK(req[r])
      /\ ImagesOK(req[r]) /\ LevelOK(req[r]) /\ AccountOK(req[r])
      /\ UNCHANGED <<accounts, left>>
  BY WriteInv, CreateSaveInv, SaveManyInv DEF AloneInv, Inv, AloneOK, CreatePlaceSave,
     CreateSave, saveMany
<1>2. PICK l : l = req[r]
  OBVIOUS
<1>3. PICK d : d = [owner |-> l.user,
                    ref |-> IF l.pc = "place:save" THEN None ELSE l.ref, state |-> "stored"]
  OBVIOUS
<1>4. /\ d.owner = l.user /\ d.state = "stored"
      /\ l.pc # "place:save" => d = [owner |-> l.user, ref |-> l.ref, state |-> "stored"]
      /\ l.pc # "place:save" => d.ref = l.ref
  BY <1>3
<1>5. ASSUME NEW Pool \in SUBSET Ids, NEW S \in SUBSET Pool, NEW m, become(r, m), AloneOK(m)',
             \A i \in Ids : doc'[i] = IF i \in S THEN d ELSE doc[i], \A i \in S : doc[i] = Absent,
             \/ Pool = Places
             \/ Pool = Events /\ (d.ref # None => d.ref \in Ids /\ stored(d.ref))
             \/ Pool \in {Reviews, Comments, Notifications} /\ d.ref \in Ids /\ stored(d.ref)
             \/ Pool = Favorites
             \/ Pool = Images /\ IF d.ref \in Users THEN d.ref \in accounts
                                                   ELSE d.ref \in Ids /\ stored(d.ref),
             Pool \notin {Reviews, Comments} => d.owner \in accounts
      PROVE  AloneInv'
  <2>1. NoDangling'
    <3> USE DEF OwnershipAssumption
    <3>1. \A i \in S \cap (Places \cup Events \cup Images \cup Favorites \cup Notifications) :
                d.owner \in accounts
      BY <1>5
    <3>2. \A i \in S \cap Events : d.ref # None => d.ref \in Ids /\ stored(d.ref)
      BY <1>5
    <3>3. \A i \in S \cap (Reviews \cup Comments \cup Notifications) :
                d.ref \in Ids /\ stored(d.ref)
      BY <1>5
    <3>4. \A i \in S \cap Images :
                IF d.ref \in Users THEN d.ref \in accounts ELSE d.ref \in Ids /\ stored(d.ref)
      BY <1>5
    <3>5. S \in SUBSET Ids
      BY <1>5
    <3> QED BY <1>1, <1>4, <1>5, <3>1, <3>2, <3>3, <3>4, <3>5, DanglingSave
  <2> QED BY <1>1, <1>5, <2>1, AloneStep
<1>6. CASE CreatePlaceSave(r)
  <2>1. PICK p \in Places :
            /\ doc[p] = Absent /\ l.pc = "place:save"
            /\ doc' = [doc EXCEPT ![p] = [owner |-> l.user, ref |-> None, state |-> "stored"]]
            /\ become(r, [l EXCEPT !.pc = "place:link", !.place = p])
    BY <1>2, <1>6 DEF CreatePlaceSave
  <2>2. PICK m : m = [l EXCEPT !.pc = "place:link", !.place = p]
    OBVIOUS
  <2>3. m.pc = "place:link" /\ m.user = l.user /\ m.op = l.op
    BY <1>1, <1>2, <2>2 DEF Local
  <2>4. doc' = [doc EXCEPT ![p] = d]
    BY <1>3, <2>1
  <2>5. \A i \in Ids : doc'[i] = IF i \in {p} THEN d ELSE doc[i]
    BY <1>1, <2>4 DEF Inv, DocsOK
  <2>6. l.user \in accounts
    BY <1>1, <1>2, <2>1 DEF SaveOK, UserPcs
  <2>7. AloneOK(m)'
    <3>1. SaveOK(m)'
      BY <1>1, <1>2, <2>1, <2>3, <2>6 DEF SaveOK, UserPcs
    <3>2. l.op = "none"
      BY <1>1, <1>2, <2>1 DEF SaveOK, UserPcs
    <3> QED BY <2>3, <3>1, <3>2, NoCascade DEF AloneOK, UserPcs
  <2>8. Places \in SUBSET Ids /\ {p} \in SUBSET Places
    BY DEF Ids
  <2>9. d.owner \in accounts /\ become(r, m)
    BY <1>4, <2>1, <2>2, <2>6
  <2> QED BY <1>5, <2>1, <2>5, <2>7, <2>8, <2>9
<1>7. ASSUME NEW Pool \in SUBSET Ids, save(Pool, l.user, l.ref), become(r, Idle),
             l.pc # "place:save",
             \/ Pool = Events /\ (l.ref # None => l.ref \in Ids /\ stored(l.ref))
             \/ Pool \in {Reviews, Comments, Notifications} /\ l.ref \in Ids /\ stored(l.ref)
             \/ Pool = Favorites,
             Pool \notin {Reviews, Comments} => l.user \in accounts
      PROVE  AloneInv'
  <2>1. PICK i \in Pool : doc[i] = Absent /\ doc' = [doc EXCEPT ![i] = d]
    BY <1>4, <1>7 DEF save
  <2>2. \A j \in Ids : doc'[j] = IF j \in {i} THEN d ELSE doc[j]
    BY <1>1, <2>1 DEF Inv, DocsOK
  <2>3. \A j \in {i} : doc[j] = Absent
    BY <2>1
  <2>4. {i} \in SUBSET Pool
    BY <2>1
  <2> QED BY <1>4, <1>5, <1>7, <2>2, <2>3, <2>4, AloneIdle
<1>8. CASE CreateSave(r)
  <2> USE DEF SaveOK, LocalOK, UserPcs, Ids
  <2>1. become(r, Idle)
    BY <1>8 DEF CreateSave
  <2>2. CASE l.pc = "event:save" /\ save(Events, l.user, l.ref)
    BY <1>1, <1>2, <1>7, <2>1, <2>2
  <2>3. CASE l.pc = "review:save" /\ save(Reviews, l.user, l.ref)
    BY <1>1, <1>2, <1>7, <2>1, <2>3
  <2>4. CASE l.pc = "comment:save" /\ save(Comments, l.user, l.ref)
    BY <1>1, <1>2, <1>7, <2>1, <2>4
  <2>5. CASE l.pc = "favorite:save" /\ save(Favorites, l.user, l.ref)
    BY <1>1, <1>2, <1>7, <2>1, <2>5
  <2>6. CASE l.pc = "notification:save" /\ save(Notifications, l.user, l.ref)
    BY <1>1, <1>2, <1>7, <2>1, <2>6
  <2> QED BY <1>2, <1>8, <2>2, <2>3, <2>4, <2>5, <2>6 DEF CreateSave
<1>9. CASE saveMany(r)
  <2>1. l.pc = "image:save" /\ become(r, Idle)
    BY <1>2, <1>9 DEF saveMany
  <2>2. l.ids \in SUBSET Images /\ \A i \in l.ids : doc[i] = Absent
    BY <1>1, <1>2, <2>1 DEF LocalOK, ImagesOK
  <2>3. d = [owner |-> l.user, ref |-> l.ref, state |-> "stored"]
    BY <1>4, <2>1
  <2>4. \A i \in Ids : doc'[i] = IF i \in l.ids THEN d ELSE doc[i]
    BY <1>2, <1>9, <2>3 DEF saveMany
  <2>5. l.user \in accounts /\ l.ref \in Places \cup Events \cup Users
        /\ IF l.ref \in Users THEN l.ref \in accounts ELSE stored(l.ref)
    BY <1>1, <1>2, <2>1 DEF SaveOK, LocalOK, UserPcs
  <2>6. IF d.ref \in Users THEN d.ref \in accounts ELSE d.ref \in Ids /\ stored(d.ref)
    BY <1>4, <2>1, <2>5 DEF Ids
  <2>7. d.owner \in accounts /\ Images \in SUBSET Ids
    BY <1>4, <2>5 DEF Ids
  <2> QED BY <1>5, <2>1, <2>2, <2>4, <2>6, <2>7, AloneIdle
<1> QED BY <1>6, <1>8, <1>9

\* Deletions by the owner, which leave the comments on a review to themselves.
LEMMA DeleteOwnAlone ==
    ASSUME OwnershipAssumption, NEW r, Requests = {r}, AloneInv, DeleteOwn(r)
    PROVE  AloneInv'
<1>1. /\ Inv /\ Inv' /\ NoDangling /\ SaveOK(req[r]) /\ req[r].pc = "delete"
      /\ deleteMany({req[r].ref}) /\ UNCHANGED accounts /\ become(r, Idle)
      /\ left' = left \cup ({req[r].ref} \cap Reviews)
  BY CascadeDeleteInv DEF AloneInv, AloneOK, DeleteOwn
<1>2. PICK D : D = {req[r].ref}
  OBVIOUS
<1>3. req[r].ref \in Reviews \cup Comments \cup Favorites
  BY <1>1 DEF SaveOK
<1>4. /\ D \in SUBSET Ids /\ D \cap (Places \cup Events \cup Images) = {}
      /\ left \subseteq left' /\ D \cap Reviews \subseteq left'
  BY <1>1, <1>2, <1>3 DEF OwnershipAssumption, Ids
<1>5. noneOn(Events, D) /\ noneOn(Reviews, D) /\ noneOn(Notifications, D) /\ noneOn(Images, D)
  BY <1>1, <1>4, RefersTo
<1>6. \A c \in Comments : stored(c) /\ doc[c].ref \in D => doc[c].ref \in left'
  BY <1>1, <1>4, Refs DEF Ids
<1>7. NoDangling'
  BY <1>1, <1>2, <1>4, <1>5, <1>6, DanglingDelete
<1> QED BY <1>1, <1>7, AloneIdle, AloneStep

\* The other requests that delete begin, and the steps that leave documents alone.
LEMMA DeleteFindAlone ==
    ASSUME OwnershipAssumption, NEW r, Requests = {r}, AloneInv,
           \/ DeleteReviewFind(r) \/ DeleteCommentFind(r) \/ DeleteFavoriteFind(r)
           \/ DeleteEventFind(r) \/ DeletePlaceFind(r) \/ DeleteImagesFind(r)
    PROVE  AloneInv'
<1>1. UNCHANGED documents /\ Inv /\ Inv'
  BY DeleteFindInv DEF AloneInv, DeleteReviewFind, DeleteCommentFind, DeleteFavoriteFind,
     DeleteOwnFind, DeleteEventFind, DeletePlaceFind, DeleteImagesFind
<1>2. UNCHANGED <<doc, accounts, left>>
  BY <1>1 DEF documents
<1>3. ASSUME NEW Pool \in SUBSET (Reviews \cup Comments \cup Favorites), DeleteOwnFind(r, Pool)
      PROVE  AloneInv'
  <2>1. PICK i \in Pool :
            become(r, [Idle EXCEPT !.pc = "delete", !.ref = i, !.user = doc[i].owner])
    BY <1>3 DEF DeleteOwnFind, start
  <2>2. PICK m : m = [Idle EXCEPT !.pc = "delete", !.ref = i, !.user = doc[i].owner]
    OBVIOUS
  <2>3. m.pc = "delete" /\ m.ref = i /\ m.op = "none"
    BY <2>2 DEF Idle
  <2>4. SaveOK(m)
    BY <2>1, <2>3 DEF SaveOK, UserPcs
  <2>5. AloneOK(m)
    BY <2>3, <2>4, NoCascade DEF AloneOK
  <2> QED BY <1>1, <1>2, <2>1, <2>2, <2>5, AloneQuiet
<1>4. CASE DeleteReviewFind(r) \/ DeleteCommentFind(r) \/ DeleteFavoriteFind(r)
  BY <1>3, <1>4 DEF DeleteReviewFind, DeleteCommentFind, DeleteFavoriteFind
<1>5. CASE DeleteEventFind(r)
  <2>1. PICK e \in Events : become(r, deleteEvents([Idle EXCEPT !.op = "event"], {e}))
    BY <1>5 DEF DeleteEventFind, start
  <2>2. PICK l : l = [Idle EXCEPT !.op = "event"]
    OBVIOUS
  <2>3. l.op = "event" /\ l.place = None /\ l \in Local
    BY <2>2 DEF Idle, Local, Steps
  <2>4. PICK m : m = deleteEvents(l, {e})
    OBVIOUS
  <2>5. AloneOK(m)'
    BY <2>3, <2>4, DeleteEventsAlone
  <2> QED BY <1>1, <2>1, <2>2, <2>4, <2>5, LookUpStep, AloneStep
<1>6. CASE DeletePlaceFind(r)
  <2>1. PICK p \in Places :
            become(r, [Idle EXCEPT !.op = "place", !.pc = "place:events",
                                   !.place = p, !.user = doc[p].owner])
    BY <1>6 DEF DeletePlaceFind, start
  <2>2. PICK m : m = [Idle EXCEPT !.op = "place", !.pc = "place:events",
                                  !.place = p, !.user = doc[p].owner]
    OBVIOUS
  <2>3. m.pc = "place:events" /\ m.op = "place"
    BY <2>2 DEF Idle
  <2>4. /\ ~Cascading(m) /\ ~ImagePhase(m) /\ ~afterNotifications(m) /\ ~afterReviews(m)
        /\ ~ofUser(m) /\ m.pc \notin Threads
    BY <2>3 DEF Cascading, ReviewPhase, ImagePhase, afterNotifications, afterReviews, Threads,
       ofUser, accountPcs
  <2>5. SaveOK(m)
    BY <2>3 DEF SaveOK, UserPcs
  <2>6. LevelOK(m)
    BY <2>3, <2>4 DEF LevelOK
  <2>7. AccountOK(m)
    BY <2>3, <2>4 DEF AccountOK
  <2> QED BY <1>1, <1>2, <2>1, <2>2, <2>5, <2>6, <2>7, AloneQuiet DEF AloneOK
<1>7. CASE DeleteImagesFind(r)
  <2>1. PICK i \in Images :
            become(r, [Idle EXCEPT !.op = "images", !.pc = "images:delete", !.ids = {i}])
    BY <1>7 DEF DeleteImagesFind, start
  <2>2. PICK m : m = [Idle EXCEPT !.op = "images", !.pc = "images:delete", !.ids = {i}]
    OBVIOUS
  <2>3. /\ m.pc = "images:delete" /\ m.op = "images" /\ m.level = "none" /\ m.roots = {}
        /\ m.ids = {i}
    BY <2>2 DEF Idle
  <2>4. RootsOK(m) /\ ~ReviewPhase(m) /\ ~ofUser(m) /\ m.pc \notin Threads
    BY <2>3 DEF RootsOK, ofUser, accountPcs, ReviewPhase, Threads
  <2>5. \A Pool : noneOn(Pool, m.roots) /\ findIdsByReferences(Pool, m.roots) = {}
    BY <2>3 DEF noneOn, findIdsByReferences
  <2>6. LevelOK(m)
    BY <2>3, <2>4, <2>5 DEF LevelOK
  <2>7. SaveOK(m) /\ AccountOK(m)
    BY <2>3, <2>4 DEF SaveOK, UserPcs, AccountOK
  <2> QED BY <1>1, <1>2, <2>1, <2>2, <2>6, <2>7, AloneQuiet DEF AloneOK
<1> QED BY <1>4, <1>5, <1>6, <1>7

LEMMA QuietAlone ==
    ASSUME OwnershipAssumption, NEW r, Requests = {r}, AloneInv,
           \/ CreatePlaceLink(r) \/ UpdateUserWrite(r) \/ DeletePlaceUnlink(r)
           \/ RequestFail(r) \/ upload(r)
    PROVE  AloneInv'
<1>1. Inv' /\ UNCHANGED <<doc, accounts, left>>
  BY WriteInv, UploadInv DEF AloneInv, CreatePlaceLink, UpdateUserWrite, DeletePlaceUnlink,
     RequestFail, upload
<1>2. CASE CreatePlaceLink(r) \/ UpdateUserWrite(r) \/ DeletePlaceUnlink(r) \/ RequestFail(r)
  <2>1. become(r, Idle)
    BY <1>2 DEF CreatePlaceLink, UpdateUserWrite, DeletePlaceUnlink, RequestFail
  <2> QED BY <1>1, <2>1, AloneQuiet, AloneIdle
<1>3. CASE upload(r)
  <2>1. PICK i : become(r, [req[r] EXCEPT !.pc = "image:save", !.ids = {i}])
    BY <1>3 DEF upload
  <2>2. PICK m : m = [req[r] EXCEPT !.pc = "image:save", !.ids = {i}]
    OBVIOUS
  <2>3. req[r] \in Local /\ req[r].pc = "image:upload" /\ SaveOK(req[r])
    BY <1>3 DEF AloneInv, AloneOK, Inv, upload
  <2>4. m.pc = "image:save" /\ m.user = req[r].user /\ m.ref = req[r].ref /\ m.op = req[r].op
    BY <2>2, <2>3 DEF Local
  <2>5. SaveOK(m)
    BY <2>3, <2>4 DEF SaveOK, UserPcs
  <2>6. m.op = "none" /\ m.pc \in UserPcs
    BY <2>3, <2>4 DEF SaveOK, UserPcs
  <2>7. AloneOK(m)
    BY <2>5, <2>6, NoCascade DEF AloneOK
  <2> QED BY <1>1, <2>1, <2>2, <2>7, AloneQuiet
<1> QED BY <1>2, <1>3

LEMMA InitAlone == ASSUME Init PROVE AloneInv
<1>1. NoDangling
  BY AbsentRemoved DEF Init, NoDangling, stored, Ids
<1>2. \A r \in Requests : AloneOK(req[r])
  BY AloneIdle DEF Init
<1> QED BY <1>1, <1>2, InitInv DEF AloneInv

LEMMA StutterAlone == ASSUME AloneInv, UNCHANGED vars PROVE AloneInv'
<1>1. Inv'
  BY StutterInv DEF AloneInv
<1>2. NoDangling'
  BY DEF AloneInv, NoDangling, vars, stored
<1>3. \A r \in Requests : SaveOK(req[r])' /\ AccountOK(req[r])'
  BY DEF AloneInv, AloneOK, vars, SaveOK, AccountOK, stored, ofUser, Cascading, ReviewPhase,
     afterReviews, afterNotifications, ImagePhase, onReviews, noneOf, findIdsByOwner
<1>4. \A r \in Requests : LevelOK(req[r])'
  BY DEF AloneInv, AloneOK, vars, LevelOK, RootsOK, stored, noneOn, noneOf, findIdsByOwner,
     findIdsByReferences, Cascading, EarlyPhase, ReviewPhase, afterReviews,
     afterNotifications, ImagePhase, onReviews
<1> QED BY <1>1, <1>2, <1>3, <1>4 DEF AloneInv, AloneOK

LEMMA NextAlone ==
    ASSUME OwnershipAssumption, NEW r, Requests = {r}, AloneInv, [Next]_vars
    PROVE  AloneInv'
<1>1. CASE UNCHANGED vars
  BY <1>1, StutterAlone
<1>2. CASE Step(r)
  BY <1>2, CreateFindAlone, CreateSaveAlone, QuietAlone, DeleteFindAlone, DeleteOwnAlone,
     EventsFindAlone, ReviewsFindAlone, ThreadsFindAlone, ThreadsDeleteAlone, PoolDeleteAlone,
     ImagesFindAlone, ImagesLoadAlone, ImagesDeleteAlone, FilesDeleteAlone,
     EventsDeleteAlone, PlaceDeleteAlone, UserDeleteAlone, AccountFindAlone, OwnDeleteAlone,
     AccountReferencesAlone DEF Step
<1> QED BY <1>1, <1>2 DEF Next

\* With one request at a time, and wherever a cascade was interrupted, what is stored
\* refers to what is stored, but for the comments on a review or an image its owner
\* deleted (CascadeDelete:125-167, DeleteAccount:38-87).
THEOREM NothingDangles ==
    ASSUME OwnershipAssumption, NEW r, Requests = {r} PROVE Spec => []NoDangling
<1>1. Init => AloneInv
  BY InitAlone
<1>2. AloneInv /\ [Next]_vars => AloneInv'
  BY NextAlone
<1>3. AloneInv => NoDangling
  BY DEF AloneInv
<1> QED BY <1>1, <1>2, <1>3, PTL DEF Spec

-----------------------------------------------------------------------------
(* The requests served one at a time: the link of a user to its place      *)

linked(u) == \A p \in Places : place[u] = p <=> stored(p) /\ doc[p].owner = u

busy(l, u) == l.user = u /\ (l.op = "account" \/ l.pc \in {"place:link", "place:unlink"})

\* What a request is doing tells what it deletes.
requestOK(l) ==
    /\ l.op = "none" => l.pc \in UserPcs \cup {"idle", "delete"}
    /\ l.pc = "delete" => l.op = "none"
    /\ l.op = "event" => l.place = None

LinkOK(l) ==
    /\ requestOK(l)
    /\ \A u \in accounts \ interrupted : busy(l, u) \/ linked(u)
    /\ l.pc = "place:save" => place[l.user] = None
    /\ l.pc = "user:write" => l.place = place[l.user]
    /\ l.pc = "place:link" =>
        /\ stored(l.place) /\ doc[l.place].owner = l.user
        /\ l.user \notin interrupted =>
            \A p \in Places : stored(p) /\ doc[p].owner = l.user => p = l.place
    /\ l.op = "place" /\ l.pc # "place:unlink" =>
        l.place \in Places /\ stored(l.place) /\ doc[l.place].owner = l.user
    /\ l.pc = "place:unlink" /\ l.user \notin interrupted => noneOf(Places, l.user)
    /\ l.op = "account" =>
        \A p \in l.places \cup {l.place} : p # None /\ stored(p) => doc[p].owner = l.user

LinkInv == AloneInv /\ \A r \in Requests : LinkOK(req[r])

\* The steps that write the link, or are about to.
LinkPcs == {"place:save", "user:write", "place:link", "place:unlink"}

PlacesSame ==
    UNCHANGED <<place, accounts, interrupted>> /\ \A p \in Places : doc'[p] = doc[p]

SameRequest(l, m) ==
    m.op = l.op /\ m.user = l.user /\ m.place = l.place /\ m.places = l.places

LEMMA LinkedSame ==
    ASSUME PlacesSame
    PROVE  /\ \A u : linked(u)' <=> linked(u)
           /\ \A p \in Places : stored(p)' <=> stored(p)
           /\ \A u : noneOf(Places, u)' <=> noneOf(Places, u)
BY DEF PlacesSame, linked, stored, noneOf

LEMMA LinkStep ==
    ASSUME NEW r, Requests = {r}, AloneInv, AloneInv', NEW m, become(r, m), LinkOK(m)'
    PROVE  LinkInv'
<1>1. req'[r] = m
  BY DEF AloneInv, Inv, become
<1> QED BY <1>1 DEF LinkInv, LinkOK, busy

\* A request that leaves the links and the places alone.
LEMMA LinkQuiet ==
    ASSUME NEW r, Requests = {r}, LinkInv, AloneInv', NEW m, become(r, m), PlacesSame,
           req[r].op # "account", req[r].pc \notin LinkPcs,
           m.op \notin {"place", "account"}, m.pc \notin LinkPcs, requestOK(m)
    PROVE  LinkInv'
<1>1. \A u \in accounts' \ interrupted' : linked(u)'
  BY LinkedSame DEF LinkInv, LinkOK, busy, LinkPcs, PlacesSame
<1>2. LinkOK(m)'
  BY <1>1 DEF LinkOK, LinkPcs, requestOK
<1> QED BY <1>2, LinkStep DEF LinkInv

\* A step of a cascade that leaves the links and the places alone.
LEMMA LinkCascade ==
    ASSUME OwnershipAssumption, NEW r, Requests = {r}, LinkInv, AloneInv', NEW m,
           become(r, m), PlacesSame, SameRequest(req[r], m),
           req[r].pc \notin UserPcs \cup {"idle", "delete"},
           m.pc \notin LinkPcs \cup {"delete"}
    PROVE  LinkInv'
<1>1. PICK l : l = req[r]
  OBVIOUS
<1>2. /\ LinkOK(l) /\ l.places \subseteq Places /\ l.place \in Places \cup {None}
      /\ SameRequest(l, m) /\ l.pc \notin LinkPcs
  BY <1>1 DEF LinkInv, AloneInv, Inv, Local, LinkPcs, UserPcs
<1>3. \A u \in accounts' \ interrupted' : busy(m, u) \/ linked(u)'
  BY <1>2, LinkedSame DEF LinkOK, busy, LinkPcs, PlacesSame, SameRequest
<1>4. l.op = "place" => l.place \in Places /\ stored(l.place)' /\ doc'[l.place].owner = l.user
  BY <1>2, LinkedSame DEF LinkOK, PlacesSame, LinkPcs
<1>5. l.op = "account" =>
        \A p \in l.places \cup {l.place} : p # None /\ stored(p)' => doc'[p].owner = l.user
  BY <1>2, LinkedSame DEF LinkOK, PlacesSame
<1>6. requestOK(m)
  BY <1>1, <1>2 DEF LinkOK, requestOK, SameRequest
<1>7. LinkOK(m)'
  BY <1>2, <1>3, <1>4, <1>5, <1>6 DEF LinkOK, LinkPcs, busy, SameRequest, requestOK
<1> QED BY <1>7, LinkStep DEF LinkInv

\* Deletions of anything but places.
LEMMA PlacesApart ==
    ASSUME Inv, NEW D, D \cap Places = {}, deleteMany(D),
           UNCHANGED <<place, accounts, interrupted>>
    PROVE  PlacesSame
BY DeleteEffect DEF PlacesSame, Ids

\* A request that begins, but for those about places, users and accounts.
LEMMA BeginLink ==
    ASSUME OwnershipAssumption, NEW r, Requests = {r}, LinkInv, AloneInv',
           \/ CreateEventFind(r) \/ CreateReviewFind(r) \/ CreateCommentFind(r)
           \/ CreateFavoriteFind(r) \/ NotifyFind(r) \/ UploadFind(r)
           \/ DeleteReviewFind(r) \/ DeleteCommentFind(r) \/ DeleteFavoriteFind(r)
           \/ DeleteEventFind(r) \/ DeleteImagesFind(r)
    PROVE  LinkInv'
<1>1. req[r] = Idle /\ UNCHANGED documents
  BY DEF CreateEventFind, CreateReviewFind, CreateCommentFind, CreateFavoriteFind, NotifyFind,
     UploadFind, DeleteReviewFind, DeleteCommentFind, DeleteFavoriteFind, DeleteOwnFind,
     DeleteEventFind, DeleteImagesFind, start
<1>2. PlacesSame
  BY <1>1 DEF documents, PlacesSame
<1>3. req[r].op # "account" /\ req[r].pc \notin LinkPcs
  BY <1>1 DEF Idle, LinkPcs
<1>4. ASSUME NEW m, become(r, m), m.op \notin {"place", "account"}, m.pc \notin LinkPcs,
             requestOK(m)
      PROVE  LinkInv'
  BY <1>2, <1>3, <1>4, LinkQuiet
<1>5. ASSUME NEW pc \in {"event:save", "review:save", "comment:save", "favorite:save",
                         "notification:save", "image:upload", "delete"},
             NEW u, NEW i, become(r, [Idle EXCEPT !.pc = pc, !.user = u, !.ref = i])
      PROVE  LinkInv'
  <2>1. PICK m : m = [Idle EXCEPT !.pc = pc, !.user = u, !.ref = i]
    OBVIOUS
  <2>2. m.op = "none" /\ m.pc = pc /\ pc \in UserPcs \cup {"delete"}
    BY <2>1 DEF Idle, UserPcs
  <2> QED BY <1>4, <1>5, <2>1, <2>2 DEF LinkPcs, requestOK
<1>6. CASE CreateEventFind(r) \/ CreateReviewFind(r) \/ CreateCommentFind(r)
  <2>1. PICK pc \in {"event:save", "review:save", "comment:save"} :
            \E u, i : become(r, [Idle EXCEPT !.pc = pc, !.user = u, !.ref = i])
    BY <1>6 DEF CreateEventFind, CreateReviewFind, CreateCommentFind, start
  <2> QED BY <1>5, <2>1
<1>7. CASE CreateFavoriteFind(r) \/ NotifyFind(r) \/ UploadFind(r)
  <2>1. PICK pc \in {"favorite:save", "notification:save", "image:upload"} :
            \E u, i : become(r, [Idle EXCEPT !.pc = pc, !.user = u, !.ref = i])
    BY <1>7 DEF CreateFavoriteFind, NotifyFind, UploadFind, start
  <2> QED BY <1>5, <2>1
<1>8. CASE DeleteReviewFind(r) \/ DeleteCommentFind(r) \/ DeleteFavoriteFind(r)
  <2>1. PICK i : become(r, [Idle EXCEPT !.pc = "delete", !.ref = i, !.user = doc[i].owner])
    BY <1>8 DEF DeleteReviewFind, DeleteCommentFind, DeleteFavoriteFind, DeleteOwnFind, start
  <2>2. PICK u : u = doc[i].owner
    OBVIOUS
  <2>3. PICK m : m = [Idle EXCEPT !.pc = "delete", !.ref = i, !.user = u]
    OBVIOUS
  <2>4. m.op = "none" /\ m.pc = "delete"
    BY <2>3 DEF Idle
  <2> QED BY <1>4, <2>1, <2>2, <2>3, <2>4 DEF LinkPcs, requestOK
<1>9. CASE DeleteEventFind(r)
  <2>1. PICK e : become(r, deleteEvents([Idle EXCEPT !.op = "event"], {e}))
    BY <1>9 DEF DeleteEventFind, start
  <2>2. PICK m : m = deleteEvents([Idle EXCEPT !.op = "event"], {e})
    OBVIOUS
  <2>3. m = [[Idle EXCEPT !.op = "event"] EXCEPT !.level = "Event", !.roots = {e},
                                                 !.pc = "reviews:find"]
    BY <2>2 DEF deleteEvents
  <2>4. m.op = "event" /\ m.pc = "reviews:find" /\ m.place = None
    BY <2>3 DEF Idle
  <2> QED BY <1>4, <2>1, <2>2, <2>4 DEF LinkPcs, requestOK
<1>10. CASE DeleteImagesFind(r)
  <2>1. PICK i : become(r, [Idle EXCEPT !.op = "images", !.pc = "images:delete", !.ids = {i}])
    BY <1>10 DEF DeleteImagesFind, start
  <2>2. PICK m : m = [Idle EXCEPT !.op = "images", !.pc = "images:delete", !.ids = {i}]
    OBVIOUS
  <2>3. m.op = "images" /\ m.pc = "images:delete"
    BY <2>2 DEF Idle
  <2> QED BY <1>4, <2>1, <2>2, <2>3 DEF LinkPcs, requestOK
<1> QED BY <1>6, <1>7, <1>8, <1>9, <1>10

\* What is created, uploaded or deleted by its owner is no place.
LEMMA SaveLink ==
    ASSUME OwnershipAssumption, NEW r, Requests = {r}, LinkInv, AloneInv',
           CreateSave(r) \/ upload(r) \/ saveMany(r) \/ DeleteOwn(r)
    PROVE  LinkInv'
<1>1. Inv /\ req[r] \in Local /\ LocalOK(req[r]) /\ SaveOK(req[r]) /\ requestOK(req[r])
  BY DEF LinkInv, LinkOK, AloneInv, AloneOK, Inv
<1>2. UNCHANGED <<place, accounts, interrupted>>
  BY DEF CreateSave, upload, saveMany, DeleteOwn
<1>3. /\ req[r].op = "none"
      /\ req[r].pc \in {"event:save", "review:save", "comment:save", "favorite:save",
                        "notification:save", "image:upload", "image:save", "delete"}
  BY <1>1 DEF CreateSave, upload, saveMany, DeleteOwn, SaveOK, UserPcs, requestOK
<1>4. /\ req[r].op # "account" /\ req[r].pc \notin LinkPcs
      /\ Idle.op \notin {"place", "account"} /\ Idle.pc \notin LinkPcs /\ requestOK(Idle)
  BY <1>3, IdleOK DEF LinkPcs, requestOK
<1>5. CASE CreateSave(r)
  <2>1. PICK i, d :
            /\ i \in Events \cup Reviews \cup Comments \cup Favorites \cup Notifications
            /\ doc' = [doc EXCEPT ![i] = d]
    BY <1>5 DEF CreateSave, save
  <2>2. \A p \in Places : p \in Ids /\ p # i
    BY <2>1 DEF OwnershipAssumption, Ids
  <2>3. PlacesSame
    BY <1>1, <1>2, <2>1, <2>2 DEF PlacesSame, Inv, DocsOK
  <2>4. become(r, Idle)
    BY <1>5 DEF CreateSave
  <2> QED BY <1>4, <2>3, <2>4, LinkQuiet
<1>6. CASE upload(r)
  <2>1. PICK i : become(r, [req[r] EXCEPT !.pc = "image:save", !.ids = {i}])
    BY <1>6 DEF upload
  <2>2. PICK m : m = [req[r] EXCEPT !.pc = "image:save", !.ids = {i}]
    OBVIOUS
  <2>3. m.pc = "image:save" /\ m.op = "none"
    BY <1>1, <1>3, <2>2 DEF Local
  <2>4. requestOK(m) /\ m.pc \notin LinkPcs
    BY <2>3 DEF LinkPcs, requestOK, UserPcs
  <2>5. PlacesSame
    BY <1>6 DEF upload, PlacesSame
  <2> QED BY <1>4, <2>1, <2>2, <2>3, <2>4, <2>5, LinkQuiet
<1>7. CASE saveMany(r)
  <2>1. req[r].ids \cap Places = {}
    BY <1>1, <1>7 DEF LocalOK, saveMany, OwnershipAssumption
  <2>2. \A p \in Places : doc'[p] = doc[p]
    BY <1>7, <2>1 DEF saveMany, Ids
  <2>3. PlacesSame /\ become(r, Idle)
    BY <1>2, <1>7, <2>2 DEF PlacesSame, saveMany
  <2> QED BY <1>4, <2>3, LinkQuiet
<1>8. CASE DeleteOwn(r)
  <2>1. req[r].ref \in Reviews \cup Comments \cup Favorites
    BY <1>1, <1>8 DEF SaveOK, DeleteOwn
  <2>2. {req[r].ref} \cap Places = {}
    BY <2>1 DEF OwnershipAssumption
  <2>3. deleteMany({req[r].ref}) /\ become(r, Idle)
    BY <1>8 DEF DeleteOwn
  <2>4. PlacesSame
    BY <1>1, <1>2, <2>2, <2>3, PlacesApart
  <2> QED BY <1>4, <2>3, <2>4, LinkQuiet
<1> QED BY <1>5, <1>6, <1>7, <1>8

\* The next level of a cascade is about the same request.
LEMMA SameAfterEvents ==
    ASSUME NEW l \in Local, NEW E, l.place # None \/ l.op = "account",
           NEW m, m = afterEvents(l) \/ m = deleteEvents(l, E)
    PROVE  SameRequest(l, m) /\ m.pc \in {"reviews:find", "account:favorites"}
<1>1. ASSUME NEW n, n = afterEvents(l)
      PROVE  SameRequest(l, n) /\ n.pc \in {"reviews:find", "account:favorites"}
  <2>1. CASE l.place # None
    <3>1. n = [l EXCEPT !.level = "Place", !.roots = {l.place}, !.pc = "reviews:find"]
      BY <1>1, <2>1 DEF afterEvents
    <3> QED BY <3>1 DEF Local, SameRequest
  <2>2. CASE l.place = None
    <3>1. n = [l EXCEPT !.level = "User", !.roots = {l.user}, !.pc = "account:favorites"]
      BY <1>1, <2>2 DEF afterEvents
    <3> QED BY <3>1 DEF Local, SameRequest
  <2> QED BY <2>1, <2>2
<1>2. CASE m = deleteEvents(l, E) /\ E # {}
  <2>1. m = [l EXCEPT !.level = "Event", !.roots = E, !.pc = "reviews:find"]
    BY <1>2 DEF deleteEvents
  <2> QED BY <2>1 DEF Local, SameRequest
<1>3. CASE m = deleteEvents(l, E) /\ E = {}
  BY <1>1, <1>3 DEF deleteEvents
<1> QED BY <1>1, <1>2, <1>3

\* A look-up of a cascade.
LEMMA LookUpLink ==
    ASSUME OwnershipAssumption, NEW r, Requests = {r}, LinkInv, AloneInv',
           \/ findIdsByPlace(r) \/ AccountEvents(r) \/ deleteReviewsFind(r)
           \/ deleteCommentThreadsFind(r) \/ findImageIds(r) \/ DeleteImagesLoad(r)
           \/ AccountImages(r) \/ AccountReferences(r)
    PROVE  LinkInv'
<1>1. PICK l : l = req[r]
  OBVIOUS
<1>2. l \in Local /\ LocalOK(l) /\ UNCHANGED documents
  BY <1>1 DEF LinkInv, AloneInv, Inv, findIdsByPlace, AccountEvents, deleteReviewsFind,
     deleteCommentThreadsFind, findImageIds, DeleteImagesLoad, AccountImages,
     AccountReferences
<1>3. PlacesSame
  BY <1>2 DEF documents, PlacesSame
<1>4. l.pc \notin UserPcs \cup {"idle", "delete"}
  BY <1>1 DEF findIdsByPlace, AccountEvents, deleteReviewsFind, deleteCommentThreadsFind,
     findImageIds, DeleteImagesLoad, AccountImages, AccountReferences, UserPcs
<1>5. ASSUME NEW m, become(r, m), SameRequest(l, m), m.pc \notin LinkPcs \cup {"delete"}
      PROVE  LinkInv'
  BY <1>1, <1>3, <1>4, <1>5, LinkCascade
<1>6. CASE findIdsByPlace(r) \/ AccountEvents(r)
  <2>1. PICK E : become(r, deleteEvents(l, E))
    BY <1>1, <1>6 DEF findIdsByPlace, AccountEvents
  <2>2. l.place # None \/ l.op = "account"
    BY <1>1, <1>2, <1>6 DEF LocalOK, findIdsByPlace, AccountEvents, OwnershipAssumption, Ids
  <2>3. PICK m : m = deleteEvents(l, E)
    OBVIOUS
  <2>4. SameRequest(l, m) /\ m.pc \in {"reviews:find", "account:favorites"}
    BY <1>2, <2>2, <2>3, SameAfterEvents
  <2> QED BY <1>5, <2>1, <2>3, <2>4 DEF LinkPcs
<1>7. ASSUME NEW pc \in {"reviews:delete", "threads:find", "threads:delete", "images:load",
                         "images:delete", "roots:delete", "account:references"},
             NEW ids, NEW m, become(r, m),
             \/ m = [l EXCEPT !.ids = ids, !.pc = pc]
             \/ m = [l EXCEPT !.pc = pc, !.ids = ids]
             \/ m = [l EXCEPT !.comments = ids, !.pc = pc]
      PROVE  LinkInv'
  <2>1. SameRequest(l, m) /\ m.pc = pc
    BY <1>2, <1>7 DEF Local, SameRequest
  <2> QED BY <1>5, <1>7, <2>1 DEF LinkPcs
<1>8. CASE deleteReviewsFind(r)
  <2>1. PICK ids : ids = findIdsByReferences(Reviews, l.roots)
    OBVIOUS
  <2>2. PICK pc : pc = IF ids = {} THEN "reviews:delete" ELSE "threads:find"
    OBVIOUS
  <2>3. PICK m : m = [l EXCEPT !.ids = ids, !.pc = pc]
    OBVIOUS
  <2>4. become(r, m)
    BY <1>1, <1>8, <2>1, <2>2, <2>3 DEF deleteReviewsFind
  <2> QED BY <1>7, <2>2, <2>3, <2>4
<1>9. CASE deleteCommentThreadsFind(r)
  <2>1. PICK comments : comments = findIdsByReferences(Comments, l.ids)
    OBVIOUS
  <2>2. PICK pc : pc = IF comments = {} THEN afterThreads(r) ELSE "threads:delete"
    OBVIOUS
  <2>3. PICK m : m = [l EXCEPT !.comments = comments, !.pc = pc]
    OBVIOUS
  <2>4. become(r, m)
    BY <1>1, <1>9, <2>1, <2>2, <2>3 DEF deleteCommentThreadsFind
  <2>5. pc \in {"reviews:delete", "images:load", "threads:delete"}
    BY <2>2 DEF afterThreads
  <2> QED BY <1>7, <2>3, <2>4, <2>5
<1>10. CASE findImageIds(r) \/ AccountReferences(r)
  <2>1. PICK ids : become(r, deleteImages(l, ids))
    BY <1>1, <1>10 DEF findImageIds, AccountReferences
  <2>2. PICK pc : pc = IF ids = {} THEN "roots:delete" ELSE "threads:find"
    OBVIOUS
  <2>3. PICK m : m = [l EXCEPT !.ids = ids, !.pc = pc]
    OBVIOUS
  <2>4. become(r, m)
    BY <2>1, <2>2, <2>3 DEF deleteImages
  <2> QED BY <1>7, <2>2, <2>3, <2>4
<1>11. CASE AccountImages(r)
  <2>1. PICK ids : ids = findIdsByOwner(Images, l.user)
    OBVIOUS
  <2>2. PICK m : m = [l EXCEPT !.pc = "account:references", !.ids = ids]
    OBVIOUS
  <2>3. become(r, m)
    BY <1>1, <1>11, <2>1, <2>2 DEF AccountImages
  <2> QED BY <1>7, <2>2, <2>3
<1>12. CASE DeleteImagesLoad(r)
  <2>1. PICK m : m = [l EXCEPT !.pc = "images:delete"]
    OBVIOUS
  <2>2. become(r, m)
    BY <1>1, <1>12, <2>1 DEF DeleteImagesLoad, goto
  <2>3. SameRequest(l, m) /\ m.pc = "images:delete"
    BY <1>2, <2>1 DEF Local, SameRequest
  <2> QED BY <1>5, <2>2, <2>3 DEF LinkPcs
<1> QED BY <1>6, <1>8, <1>9, <1>10, <1>11, <1>12

\* A deletion of a cascade, of anything but a place or an account.
LEMMA DeletionLink ==
    ASSUME OwnershipAssumption, NEW r, Requests = {r}, LinkInv, AloneInv',
           \/ deleteCommentThreads(r) \/ deleteReviewsOn(r) \/ deleteAllByReference(r)
           \/ deleteByReferences(r) \/ DeleteImagesDelete(r) \/ DeleteImagesFiles(r)
           \/ deleteManyByIds(r) \/ deleteAllByUserId(r) \/ deleteByUser(r)
    PROVE  LinkInv'
<1>1. PICK l : l = req[r]
  OBVIOUS
<1>2. /\ Inv /\ l \in Local /\ LocalOK(l) /\ LevelOK(l) /\ LinkOK(l)
      /\ UNCHANGED <<place, accounts, interrupted>>
  BY <1>1 DEF LinkInv, AloneInv, AloneOK, Inv, deleteCommentThreads, deleteReviewsOn,
     deleteAllByReference, deleteByReferences, DeleteImagesDelete, DeleteImagesFiles,
     deleteManyByIds, deleteAllByUserId, deleteByUser
<1>3. l.pc \notin UserPcs \cup {"idle", "delete"}
  BY <1>1 DEF deleteCommentThreads, deleteReviewsOn, deleteAllByReference,
     deleteByReferences, DeleteImagesDelete, DeleteImagesFiles, deleteManyByIds,
     deleteAllByUserId, deleteByUser, UserPcs
<1>4. ASSUME NEW m, become(r, m), SameRequest(l, m), m.pc \notin LinkPcs \cup {"delete"},
             PlacesSame
      PROVE  LinkInv'
  BY <1>1, <1>3, <1>4, LinkCascade
<1>5. CASE deleteReviewsOn(r) \/ deleteAllByReference(r) \/ deleteByReferences(r)
           \/ deleteAllByUserId(r) \/ deleteByUser(r)
  <2>1. PICK Pool, R :
            /\ Pool \in {Reviews, Favorites, Notifications}
            /\ \/ deleteMany(findIdsByReferences(Pool, R))
               \/ deleteMany(findIdsByOwner(Pool, R))
    BY <1>5 DEF deleteReviewsOn, deleteAllByReference, deleteByReferences,
       deleteAllByUserId, deleteByUser
  <2>2. findIdsByReferences(Pool, R) \cap Places = {} /\ findIdsByOwner(Pool, R) \cap Places = {}
    BY <2>1 DEF findIdsByReferences, findIdsByOwner, OwnershipAssumption
  <2>3. PlacesSame
    BY <1>2, <2>1, <2>2, PlacesApart
  <2>4. CASE deleteReviewsOn(r)
    <3>1. PICK pc \in {"favorites:delete", "notifications:delete"} :
            become(r, [l EXCEPT !.ids = {}, !.pc = pc])
      BY <1>1, <2>4 DEF deleteReviewsOn
    <3>2. PICK m : m = [l EXCEPT !.ids = {}, !.pc = pc]
      OBVIOUS
    <3>3. SameRequest(l, m) /\ m.pc = pc
      BY <1>2, <3>2 DEF Local, SameRequest
    <3> QED BY <1>4, <2>3, <3>1, <3>2, <3>3 DEF LinkPcs
  <2>5. CASE deleteAllByReference(r) \/ deleteByReferences(r) \/ deleteAllByUserId(r)
             \/ deleteByUser(r)
    <3>1. PICK pc \in {"notifications:delete", "images:find", "account:notifications",
                       "account:images"} : become(r, [l EXCEPT !.pc = pc])
      BY <1>1, <2>5 DEF deleteAllByReference, deleteByReferences, deleteAllByUserId,
         deleteByUser, goto
    <3>2. PICK m : m = [l EXCEPT !.pc = pc]
      OBVIOUS
    <3>3. SameRequest(l, m) /\ m.pc = pc
      BY <1>2, <3>2 DEF Local, SameRequest
    <3> QED BY <1>4, <2>3, <3>1, <3>2, <3>3 DEF LinkPcs
  <2> QED BY <1>5, <2>4, <2>5
<1>6. CASE deleteCommentThreads(r)
  <2>1. l.comments \cap Places = {} /\ deleteMany(l.comments)
    BY <1>1, <1>2, <1>6 DEF Local, OwnershipAssumption, deleteCommentThreads
  <2>2. PlacesSame
    BY <1>2, <2>1, PlacesApart
  <2>3. PICK pc \in {"reviews:delete", "images:load"} :
            become(r, [l EXCEPT !.comments = {}, !.pc = pc])
    BY <1>1, <1>6 DEF deleteCommentThreads, afterThreads
  <2>4. PICK m : m = [l EXCEPT !.comments = {}, !.pc = pc]
    OBVIOUS
  <2>5. SameRequest(l, m) /\ m.pc = pc
    BY <1>2, <2>4 DEF Local, SameRequest
  <2> QED BY <1>4, <2>2, <2>3, <2>4, <2>5 DEF LinkPcs
<1>7. CASE DeleteImagesDelete(r)
  <2>1. l.ids \subseteq Images /\ deleteMany(l.ids)
    BY <1>1, <1>2, <1>7 DEF LocalOK, DeleteImagesDelete
  <2>2. l.ids \cap Places = {}
    BY <2>1 DEF OwnershipAssumption
  <2>3. PlacesSame
    BY <1>2, <2>1, <2>2, PlacesApart
  <2>4. PICK m : m = [l EXCEPT !.pc = "files:delete"]
    OBVIOUS
  <2>5. become(r, m) /\ SameRequest(l, m) /\ m.pc = "files:delete"
    BY <1>1, <1>2, <1>7, <2>4 DEF Local, SameRequest, DeleteImagesDelete, goto
  <2> QED BY <1>4, <2>3, <2>5 DEF LinkPcs
<1>8. CASE DeleteImagesFiles(r)
  <2>1. PlacesSame
    BY <1>2, <1>8 DEF PlacesSame, DeleteImagesFiles
  <2>2. CASE l.op = "images"
    <3>1. become(r, Idle)
      BY <1>1, <1>8, <2>2 DEF DeleteImagesFiles
    <3>2. Idle.op \notin {"place", "account"} /\ Idle.pc \notin LinkPcs /\ requestOK(Idle)
      BY IdleOK DEF LinkPcs, requestOK
    <3>3. l.op # "account" /\ l.pc \notin LinkPcs
      BY <1>3, <2>2 DEF LinkPcs, UserPcs
    <3> QED BY <1>1, <2>1, <3>1, <3>2, <3>3, LinkQuiet
  <2>3. CASE l.op # "images"
    <3>1. PICK m : m = [l EXCEPT !.ids = {}, !.pc = "roots:delete"]
      OBVIOUS
    <3>2. become(r, m) /\ SameRequest(l, m) /\ m.pc = "roots:delete"
      BY <1>1, <1>2, <1>8, <2>3, <3>1 DEF Local, SameRequest, DeleteImagesFiles
    <3> QED BY <1>4, <2>1, <3>2 DEF LinkPcs
  <2> QED BY <2>2, <2>3
<1>9. CASE deleteManyByIds(r)
  <2>1. l.pc = "roots:delete" /\ l.level = "Event" /\ deleteMany(l.roots)
        /\ become(r, afterEvents(l))
    BY <1>1, <1>9 DEF deleteManyByIds
  <2>2. l.roots \subseteq Events
    BY <1>2, <2>1 DEF LevelOK, RootsOK, Cascading, afterReviews, afterNotifications
  <2>3. l.roots \cap Places = {}
    BY <2>2 DEF OwnershipAssumption
  <2>4. PlacesSame
    BY <1>2, <2>1, <2>3, PlacesApart
  <2>5. CASE l.place # None \/ l.op = "account"
    <3>1. PICK m : m = afterEvents(l)
      OBVIOUS
    <3>2. SameRequest(l, m) /\ m.pc \in {"reviews:find", "account:favorites"}
      BY <1>2, <2>5, <3>1, SameAfterEvents
    <3> QED BY <1>4, <2>1, <2>4, <3>1, <3>2 DEF LinkPcs
  <2>6. CASE l.place = None /\ l.op # "account"
    <3>1. become(r, Idle)
      BY <2>1, <2>6 DEF afterEvents
    <3>2. Idle.op \notin {"place", "account"} /\ Idle.pc \notin LinkPcs /\ requestOK(Idle)
      BY IdleOK DEF LinkPcs, requestOK
    <3>3. l.pc \notin LinkPcs
      BY <1>3 DEF LinkPcs, UserPcs
    <3> QED BY <1>1, <2>4, <2>6, <3>1, <3>2, <3>3, LinkQuiet
  <2> QED BY <2>5, <2>6
<1> QED BY <1>5, <1>6, <1>7, <1>8, <1>9

\* The requests about a place, a user or an account that begin.
LEMMA BeginOwnerLink ==
    ASSUME OwnershipAssumption, NEW r, Requests = {r}, LinkInv, AloneInv',
           CreatePlaceFind(r) \/ UpdateUserFind(r) \/ DeletePlaceFind(r) \/ AccountFind(r)
    PROVE  LinkInv'
<1>1. req[r] = Idle /\ UNCHANGED documents /\ Inv /\ AloneInv
  BY DEF CreatePlaceFind, UpdateUserFind, DeletePlaceFind, AccountFind, start, LinkInv,
     AloneInv
<1>2. PlacesSame
  BY <1>1 DEF documents, PlacesSame
<1>3. \A u \in accounts' \ interrupted' : linked(u)'
  <2>1. \A u : ~busy(Idle, u)
    BY DEF busy, Idle
  <2> QED BY <1>1, <1>2, <2>1, LinkedSame DEF LinkInv, LinkOK, PlacesSame
<1>4. CASE CreatePlaceFind(r)
  <2>1. PICK u : place[u] = None /\ become(r, [Idle EXCEPT !.pc = "place:save", !.user = u])
    BY <1>4 DEF CreatePlaceFind, assertCanCreatePlace, start
  <2>2. PICK m : m = [Idle EXCEPT !.pc = "place:save", !.user = u]
    OBVIOUS
  <2>3. m.pc = "place:save" /\ m.user = u /\ m.op = "none"
    BY <2>2 DEF Idle
  <2>4. LinkOK(m)'
    BY <1>2, <1>3, <2>1, <2>3 DEF LinkOK, requestOK, UserPcs, PlacesSame
  <2> QED BY <1>1, <2>1, <2>2, <2>4, LinkStep
<1>5. CASE UpdateUserFind(r)
  <2>1. PICK u : become(r, [Idle EXCEPT !.pc = "user:write", !.user = u, !.place = place[u]])
    BY <1>5 DEF UpdateUserFind, start
  <2>2. PICK m : m = [Idle EXCEPT !.pc = "user:write", !.user = u, !.place = place[u]]
    OBVIOUS
  <2>3. m.pc = "user:write" /\ m.user = u /\ m.op = "none" /\ m.place = place[u]
    BY <2>2 DEF Idle
  <2>4. LinkOK(m)'
    BY <1>2, <1>3, <2>3 DEF LinkOK, requestOK, UserPcs, PlacesSame
  <2> QED BY <1>1, <2>1, <2>2, <2>4, LinkStep
<1>6. CASE DeletePlaceFind(r)
  <2>1. PICK p \in Places :
            /\ stored(p)
            /\ become(r, [Idle EXCEPT !.op = "place", !.pc = "place:events",
                                      !.place = p, !.user = doc[p].owner])
    BY <1>6 DEF DeletePlaceFind, start
  <2>2. PICK m : m = [Idle EXCEPT !.op = "place", !.pc = "place:events",
                                  !.place = p, !.user = doc[p].owner]
    OBVIOUS
  <2>3. m.pc = "place:events" /\ m.op = "place" /\ m.place = p /\ m.user = doc[p].owner
    BY <2>2 DEF Idle
  <2>4. stored(p)' /\ doc'[p] = doc[p]
    BY <1>2, <2>1, LinkedSame DEF PlacesSame
  <2>5. LinkOK(m)'
    BY <1>3, <2>3, <2>4 DEF LinkOK, requestOK
  <2> QED BY <1>1, <2>1, <2>2, <2>5, LinkStep
<1>7. CASE AccountFind(r)
  <2>1. PICK u : become(r, [Idle EXCEPT !.op = "account", !.pc = "account:places", !.user = u])
    BY <1>7 DEF AccountFind, start
  <2>2. PICK m : m = [Idle EXCEPT !.op = "account", !.pc = "account:places", !.user = u]
    OBVIOUS
  <2>3. /\ m.pc = "account:places" /\ m.op = "account" /\ m.place = None /\ m.places = {}
    BY <2>2 DEF Idle
  <2>4. LinkOK(m)'
    BY <1>3, <2>3 DEF LinkOK, requestOK
  <2> QED BY <1>1, <2>1, <2>2, <2>4, LinkStep
<1> QED BY <1>4, <1>5, <1>6, <1>7

\* The place is stored, then its owner linked to it.
LEMMA CreatePlaceLinks ==
    ASSUME OwnershipAssumption, NEW r, Requests = {r}, LinkInv, AloneInv',
           CreatePlaceSave(r) \/ CreatePlaceLink(r)
    PROVE  LinkInv'
<1>1. PICK l : l = req[r]
  OBVIOUS
<1>2. PICK u : u = l.user
  OBVIOUS
<1>3. /\ l \in Local /\ LocalOK(l) /\ SaveOK(l) /\ LinkOK(l) /\ AloneInv /\ Inv
      /\ place \in [Users -> Places \cup {None}] /\ accounts \subseteq Users
  BY <1>1 DEF LinkInv, AloneInv, AloneOK, Inv
<1>4. l.op = "none" /\ u \in accounts /\ u \in Users
  BY <1>1, <1>2, <1>3 DEF SaveOK, LocalOK, UserPcs, CreatePlaceSave, CreatePlaceLink
<1>5. UNCHANGED <<accounts, interrupted>>
  BY DEF CreatePlaceSave, CreatePlaceLink
<1>6. CASE CreatePlaceSave(r)
  <2>1. PICK p \in Places :
            /\ doc[p] = Absent
            /\ doc' = [doc EXCEPT ![p] = [owner |-> u, ref |-> None, state |-> "stored"]]
            /\ become(r, [l EXCEPT !.pc = "place:link", !.place = p])
    BY <1>1, <1>2, <1>6 DEF CreatePlaceSave
  <2>2. PICK m : m = [l EXCEPT !.pc = "place:link", !.place = p]
    OBVIOUS
  <2>3. m.pc = "place:link" /\ m.place = p /\ m.op = "none" /\ m.user = u
    BY <1>2, <1>3, <1>4, <2>2 DEF Local
  <2>4. /\ stored(p)' /\ doc'[p].owner = u /\ ~stored(p)
        /\ \A q \in Places \ {p} : doc'[q] = doc[q] /\ (stored(q)' <=> stored(q))
    BY <1>3, <2>1 DEF Inv, DocsOK, stored, Ids, Absent
  <2>5. place[u] = None /\ l.pc = "place:save" /\ UNCHANGED place
    BY <1>1, <1>2, <1>3, <1>6 DEF CreatePlaceSave, LinkOK
  <2>6. \A v \in accounts \ interrupted : linked(v)
    BY <1>3, <1>4, <2>5 DEF LinkOK, busy
  <2>7. \A v \in accounts' \ interrupted' : v # u => linked(v)'
    BY <1>5, <2>4, <2>5, <2>6 DEF linked
  <2>8. u \notin interrupted' => \A q \in Places : stored(q)' /\ doc'[q].owner = u => q = p
    BY <1>4, <1>5, <2>4, <2>5, <2>6 DEF linked, OwnershipAssumption, Ids
  <2>9. LinkOK(m)'
    BY <2>3, <2>4, <2>7, <2>8 DEF LinkOK, requestOK, UserPcs, busy
  <2> QED BY <1>3, <2>1, <2>2, <2>9, LinkStep
<1>7. CASE CreatePlaceLink(r)
  <2>1. /\ l.pc = "place:link" /\ place' = [place EXCEPT ![u] = l.place] /\ UNCHANGED doc
        /\ become(r, Idle)
    BY <1>1, <1>2, <1>4, <1>7 DEF CreatePlaceLink, linkPlace
  <2>2. \A p \in Places : stored(p)' <=> stored(p)
    BY <2>1 DEF stored
  <2>3. \A v \in accounts' \ interrupted' : v # u => linked(v)'
    <3> SUFFICES ASSUME NEW v \in accounts \ interrupted, v # u PROVE linked(v)'
      BY <1>5
    <3>1. linked(v) /\ place'[v] = place[v]
      BY <1>2, <1>3, <2>1 DEF LinkOK, busy
    <3> QED BY <2>1, <2>2, <3>1 DEF linked
  <2>4. u \notin interrupted => linked(u)'
    BY <1>2, <1>3, <1>4, <2>1, <2>2 DEF LinkOK, linked
  <2>5. LinkOK(Idle)'
    BY <1>5, <2>3, <2>4, IdleOK DEF LinkOK, requestOK
  <2> QED BY <1>3, <2>1, <2>5, LinkStep
<1> QED BY <1>6, <1>7

\* A link is written for a user that is not linked to another place it owns.
LEMMA WriteLink ==
    ASSUME OwnershipAssumption, NEW r, Requests = {r}, LinkInv, AloneInv',
           UpdateUserWrite(r) \/ DeletePlaceUnlink(r) \/ RequestFail(r)
    PROVE  LinkInv'
<1>1. PICK l : l = req[r]
  OBVIOUS
<1>2. PICK u : u = l.user
  OBVIOUS
<1>3. /\ l \in Local /\ LocalOK(l) /\ SaveOK(l) /\ LinkOK(l) /\ AloneInv
      /\ place \in [Users -> Places \cup {None}] /\ accounts \subseteq Users
      /\ UNCHANGED <<doc, accounts>> /\ become(r, Idle)
  BY <1>1 DEF LinkInv, AloneInv, AloneOK, Inv, UpdateUserWrite, DeletePlaceUnlink, RequestFail
<1>4. \A p \in Places : stored(p)' <=> stored(p)
  BY <1>3 DEF stored
<1>5. ASSUME \A v \in accounts' \ interrupted' : linked(v)'
      PROVE  LinkInv'
  <2>1. LinkOK(Idle)'
    BY <1>5, IdleOK DEF LinkOK, requestOK
  <2> QED BY <1>3, <2>1, LinkStep
<1>6. CASE UpdateUserWrite(r)
  <2>1. l.pc = "user:write" /\ l.place = place[u] /\ l.op = "none" /\ UNCHANGED interrupted
    BY <1>1, <1>2, <1>3, <1>6 DEF LinkOK, SaveOK, UserPcs, UpdateUserWrite
  <2>2. place' = place
    BY <1>1, <1>2, <1>3, <1>6, <2>1 DEF linkPlace, UpdateUserWrite
  <2>3. \A v \in accounts \ interrupted : linked(v)
    BY <1>3, <2>1 DEF LinkOK, busy
  <2> QED BY <1>3, <1>4, <1>5, <2>1, <2>2, <2>3 DEF linked
<1>7. CASE DeletePlaceUnlink(r)
  <2>1. /\ l.pc = "place:unlink" /\ UNCHANGED interrupted
        /\ u \in accounts => place' = [place EXCEPT ![u] = None]
        /\ u \notin accounts => place' = place
    BY <1>1, <1>2, <1>7 DEF linkPlace, DeletePlaceUnlink
  <2>2. ASSUME NEW v \in accounts \ interrupted PROVE linked(v)'
    <3>1. CASE v # u
      <4>1. linked(v)
        BY <1>2, <1>3, <3>1 DEF LinkOK, busy
      <4>2. place'[v] = place[v]
        BY <1>3, <2>1, <3>1
      <4> QED BY <1>3, <1>4, <4>1, <4>2 DEF linked
    <3>2. CASE v = u
      <4>1. place'[v] = None
        BY <1>3, <2>1, <3>2
      <4>2. noneOf(Places, v)
        BY <1>2, <1>3, <2>1, <3>2 DEF LinkOK
      <4> QED BY <1>3, <1>4, <4>1, <4>2 DEF linked, noneOf, OwnershipAssumption, Ids
    <3> QED BY <3>1, <3>2
  <2> QED BY <1>3, <1>5, <2>1, <2>2
<1>8. CASE RequestFail(r)
  <2>1. /\ UNCHANGED place /\ interrupted \subseteq interrupted'
        /\ l.pc \in {"place:link", "place:unlink"} \/ l.op = "account" => u \in interrupted'
    BY <1>1, <1>2, <1>8 DEF RequestFail
  <2>2. \A v \in accounts \ interrupted' : linked(v)
    BY <1>2, <1>3, <2>1 DEF LinkOK, busy
  <2> QED BY <1>3, <1>4, <1>5, <2>1, <2>2 DEF linked
<1> QED BY <1>6, <1>7, <1>8

\* The places of an account, one after the other.
LEMMA AccountPlacesLink ==
    ASSUME OwnershipAssumption, NEW r, Requests = {r}, LinkInv, AloneInv',
           AccountPlaces(r) \/ AccountNextPlace(r)
    PROVE  LinkInv'
<1>1. PICK l : l = req[r]
  OBVIOUS
<1>2. /\ l \in Local /\ LocalOK(l) /\ AccountOK(l) /\ LinkOK(l) /\ AloneInv
      /\ UNCHANGED documents /\ l.op = "account"
  BY <1>1 DEF LinkInv, AloneInv, AloneOK, Inv, AccountPlaces, AccountNextPlace, LocalOK
<1>3. PlacesSame
  BY <1>2 DEF documents, PlacesSame
<1>4. ASSUME NEW m, become(r, m), m.op = "account", m.user = l.user,
             m.pc \in {"account:next", "place:events"},
             \A p \in m.places \cup {m.place} : p # None /\ stored(p) => doc[p].owner = l.user
      PROVE  LinkInv'
  <2>1. \A u \in accounts' \ interrupted' : busy(m, u) \/ linked(u)'
    BY <1>2, <1>3, <1>4, LinkedSame DEF LinkOK, busy, PlacesSame
  <2>2. LinkOK(m)'
    BY <1>2, <1>4, <2>1 DEF LinkOK, requestOK, busy, documents, stored
  <2> QED BY <1>2, <1>4, <2>2, LinkStep
<1>5. CASE AccountPlaces(r)
  <2>1. PICK P : P = findIdsByOwner(Places, l.user)
    OBVIOUS
  <2>2. PICK m : m = [l EXCEPT !.pc = "account:next", !.places = P]
    OBVIOUS
  <2>3. become(r, m) /\ l.place = None
    BY <1>1, <1>2, <1>5, <2>1, <2>2 DEF AccountPlaces, AccountOK
  <2>4. m.op = l.op /\ m.user = l.user /\ m.place = l.place /\ m.places = P /\ m.pc = "account:next"
    BY <1>2, <2>2 DEF Local
  <2>5. \A p \in P : doc[p].owner = l.user
    BY <2>1 DEF findIdsByOwner
  <2> QED BY <1>2, <1>4, <2>3, <2>4, <2>5
<1>6. CASE AccountNextPlace(r)
  <2>1. PICK p \in l.places :
            become(r, [l EXCEPT !.pc = "place:events", !.place = p, !.places = l.places \ {p}])
    BY <1>1, <1>2, <1>6 DEF AccountNextPlace, Local
  <2>2. PICK m : m = [l EXCEPT !.pc = "place:events", !.place = p, !.places = l.places \ {p}]
    OBVIOUS
  <2>3. /\ m.op = l.op /\ m.user = l.user /\ m.place = p /\ m.places = l.places \ {p}
        /\ m.pc = "place:events"
    BY <1>2, <2>2 DEF Local
  <2>4. \A q \in l.places : q # None /\ stored(q) => doc[q].owner = l.user
    BY <1>2 DEF LinkOK
  <2> QED BY <1>2, <1>4, <2>1, <2>2, <2>3, <2>4
<1> QED BY <1>5, <1>6

\* The place goes; its owner is linked to it until the next step.
LEMMA DeletePlaceLink ==
    ASSUME OwnershipAssumption, NEW r, Requests = {r}, LinkInv, AloneInv', deletePlace(r)
    PROVE  LinkInv'
<1>1. PICK l : l = req[r]
  OBVIOUS
<1>2. PICK u : u = l.user
  OBVIOUS
<1>3. PICK p : p = l.place
  OBVIOUS
<1>4. /\ l \in Local /\ LevelOK(l) /\ LinkOK(l) /\ AloneInv /\ Inv
      /\ place \in [Users -> Places \cup {None}] /\ accounts \subseteq Users
      /\ l.pc = "roots:delete" /\ l.level = "Place" /\ deleteMany(l.roots)
      /\ UNCHANGED <<place, accounts, interrupted>>
  BY <1>1 DEF LinkInv, AloneInv, AloneOK, Inv, deletePlace
<1>5. l.op # "images" /\ p \in Places /\ l.roots = {p}
  BY <1>3, <1>4 DEF LevelOK, RootsOK, Cascading, afterReviews, afterNotifications
<1>6. l.op \in {"place", "account"}
  <2>1. l.op # "none"
    BY <1>4 DEF LinkOK, requestOK, UserPcs
  <2>2. l.op # "event"
    BY <1>3, <1>4, <1>5 DEF LinkOK, requestOK, OwnershipAssumption, Ids
  <2>3. l.op \in {"none", "event", "place", "images", "account"}
    BY <1>4 DEF Local
  <2> QED BY <1>5, <2>1, <2>2, <2>3
<1>7. stored(p) => doc[p].owner = u
  BY <1>2, <1>3, <1>4, <1>5, <1>6 DEF LinkOK, OwnershipAssumption, Ids
<1>8. \A q \in Places :
        /\ stored(q)' <=> stored(q) /\ q # p
        /\ stored(q)' => doc'[q] = doc[q]
  BY <1>4, <1>5, PlacesDeleted
<1>9. \A v \in accounts \ interrupted : v # u => linked(v)'
  <2> SUFFICES ASSUME NEW v \in accounts \ interrupted, v # u PROVE linked(v)'
    OBVIOUS
  <2>1. linked(v)
    BY <1>2, <1>4 DEF LinkOK, busy
  <2> QED BY <1>4, <1>7, <1>8, <2>1 DEF linked
<1>10. PICK pc : pc = IF l.op = "account" THEN "account:next" ELSE "place:unlink"
  OBVIOUS
<1>11. PICK q : q = IF l.op = "account" THEN None ELSE l.place
  OBVIOUS
<1>12. PICK m : m = [l EXCEPT !.pc = pc, !.place = q]
  OBVIOUS
<1>13. become(r, m)
  BY <1>1, <1>10, <1>11, <1>12 DEF deletePlace
<1>14. /\ m.pc = pc /\ m.op = l.op /\ m.user = u /\ m.place = q /\ m.places = l.places
  BY <1>2, <1>4, <1>12 DEF Local
<1>15. CASE l.op = "account"
  <2>1. m.pc = "account:next" /\ m.place = None
    BY <1>10, <1>11, <1>14, <1>15
  <2>2. \A s \in l.places : s # None /\ stored(s)' => doc'[s].owner = u
    BY <1>2, <1>4, <1>8, <1>15 DEF LinkOK, Local
  <2>3. LinkOK(m)'
    BY <1>4, <1>9, <1>14, <1>15, <2>1, <2>2 DEF LinkOK, requestOK, busy
  <2> QED BY <1>4, <1>13, <2>3, LinkStep
<1>16. CASE l.op = "place"
  <2>1. m.pc = "place:unlink"
    BY <1>10, <1>14, <1>16
  <2>2. u \notin interrupted => noneOf(Places, u)'
    <3> SUFFICES ASSUME u \notin interrupted, NEW s \in Places, stored(s)', doc'[s].owner = u
                 PROVE  FALSE
      BY DEF noneOf
    <3>1. stored(p) /\ doc[p].owner = u
      BY <1>2, <1>3, <1>4, <1>16 DEF LinkOK
    <3>2. p \in Ids
      BY <1>5 DEF Ids
    <3>3. u \in accounts
      BY <1>5, <3>1 DEF AloneInv, NoDangling, LinkInv
    <3>4. linked(u)
      BY <1>4, <1>16, <3>3 DEF LinkOK, busy
    <3>5. place[u] = p /\ place[u] = s /\ s # p
      BY <1>5, <1>8, <3>1, <3>4 DEF linked
    <3> QED BY <3>5
  <2>3. LinkOK(m)'
    BY <1>4, <1>9, <1>14, <1>16, <2>1, <2>2 DEF LinkOK, requestOK, busy
  <2> QED BY <1>4, <1>13, <2>3, LinkStep
<1> QED BY <1>6, <1>15, <1>16

\* The account goes, and its link with it.
LEMMA DeleteUserLink ==
    ASSUME OwnershipAssumption, NEW r, Requests = {r}, LinkInv, AloneInv', deleteUser(r)
    PROVE  LinkInv'
<1>1. PICK l : l = req[r]
  OBVIOUS
<1>2. PICK u : u = l.user
  OBVIOUS
<1>3. /\ LinkOK(l) /\ AloneInv /\ place \in [Users -> Places \cup {None}]
      /\ accounts \subseteq Users /\ accounts' = accounts \ {u} /\ become(r, Idle)
      /\ place' = [place EXCEPT ![u] = None] /\ UNCHANGED <<doc, interrupted>>
  BY <1>1, <1>2 DEF LinkInv, AloneInv, Inv, deleteUser
<1>4. \A p \in Places : stored(p)' <=> stored(p)
  BY <1>3 DEF stored
<1>5. ASSUME NEW v \in accounts' \ interrupted' PROVE linked(v)'
  <2>1. linked(v)
    BY <1>2, <1>3, <1>5 DEF LinkOK, busy
  <2>2. place'[v] = place[v]
    BY <1>3, <1>5
  <2> QED BY <1>3, <1>4, <2>1, <2>2 DEF linked
<1>6. LinkOK(Idle)'
  BY <1>5, IdleOK DEF LinkOK, requestOK
<1> QED BY <1>3, <1>6, LinkStep

LEMMA InitLink == ASSUME OwnershipAssumption, Init PROVE LinkInv
<1>1. \A u \in accounts : linked(u)
  BY AbsentRemoved DEF Init, linked, stored, Ids, OwnershipAssumption
<1>2. LinkOK(Idle)
  BY <1>1, IdleOK DEF LinkOK, requestOK
<1>3. \A r \in Requests : req[r] = Idle
  BY DEF Init
<1> QED BY <1>2, <1>3, InitAlone DEF LinkInv

LEMMA NextLink ==
    ASSUME OwnershipAssumption, NEW r, Requests = {r}, LinkInv, [Next]_vars
    PROVE  LinkInv'
<1>1. AloneInv'
  BY NextAlone DEF LinkInv
<1>2. CASE UNCHANGED vars
  BY <1>1, <1>2 DEF LinkInv, LinkOK, linked, stored, busy, noneOf, vars
<1>3. CASE Step(r)
  BY <1>1, <1>3, BeginLink, SaveLink, LookUpLink, DeletionLink, BeginOwnerLink,
     CreatePlaceLinks, WriteLink, AccountPlacesLink, DeletePlaceLink, DeleteUserLink DEF Step
<1> QED BY <1>2, <1>3 DEF Next

\* With one request at a time, a user is linked to a place exactly when it owns it, unless
\* a request stopped between the two writes (CreatePlace:31-32, DeletePlace:38-39).
THEOREM PlaceLinksAgree ==
    ASSUME OwnershipAssumption, NEW r, Requests = {r} PROVE Spec => []PlaceLinkAgrees
<1>1. Init => LinkInv
  BY InitLink
<1>2. LinkInv /\ [Next]_vars => LinkInv'
  BY NextLink
<1>3. LinkInv => PlaceLinkAgrees
  BY DEF LinkInv, LinkOK, PlaceLinkAgrees, busy, linked
<1> QED BY <1>1, <1>2, <1>3, PTL DEF Spec
-----------------------------------------------------------------------------
(* SEEDS                                                                   *)

\* What the documents of a collection refer to, by name, mutual references apart, and
\* where that is stored.
SeedRefersTo ==
    [users |-> {}, places |-> {"owner"}, images |-> {"owner", "peer"},
     events |-> {"owner", "peer", "place", "eventImage"}, invitations |-> {"owner", "peer", "event"},
     bookings |-> {"owner", "peer", "event"}, follows |-> {"owner", "peer"},
     favorites |-> {"owner", "peer", "place"}, partnerships |-> {"owner", "peer"}]
Home ==
    [owner |-> "users", peer |-> "users", place |-> "places", event |-> "events",
     ownerImage |-> "images", peerImage |-> "images", eventImage |-> "images"]
Kept == {"users", "places", "images", "events"}

\* The place of each collection in the two orders.
InsertRank ==
    [users |-> 1, places |-> 2, images |-> 3, events |-> 4, invitations |-> 5,
     bookings |-> 6, follows |-> 7, favorites |-> 8, partnerships |-> 9]
PurgeRank ==
    [invitations |-> 1, bookings |-> 2, follows |-> 3, favorites |-> 4, partnerships |-> 5,
     events |-> 6, places |-> 7, images |-> 8, users |-> 9]

\* A seeded document is of the last generation made up; a member's one is in a relation
\* and refers to something seeded.  Whatever is no relation refers to its own generation,
\* places and events to their owner, images to whom they belong, and only the owner to a
\* place.
Shaped(c, d) ==
    /\ d.id.gen \in {0, run.n} /\ (d.id.gen = 0 => c \in Sed!Relations)
    /\ c \in Kept => /\ Home[d.id.name] = c /\ d.id.name # "none"
                     /\ \A r \in d.refs : r.gen = d.id.gen
    /\ \A r \in d.refs : /\ r.gen \in {0, run.n}
                        /\ r.name \in SeedRefersTo[c] \cup Sed!mutual(c)
    /\ c \in Sed!Relations => \E r \in d.refs : r.gen # 0
    /\ c \in {"places", "events"} => \E r \in d.refs : r.gen # 0 /\ r.name = "owner"
    /\ c = "images" => \E r \in d.refs : r.gen # 0 /\ r.name \in {"owner", "peer"}
    /\ c = "users" => \A r \in d.refs : r.name = "place" => d.id.name = "owner"
    /\ c = "images" => d.file \in Sed!Files

AllShaped == \A c \in Sed!Collections : \A d \in db[c] : Shaped(c, d)

Closed ==
    \A c \in Sed!Collections : \A d \in db[c] : \A r \in d.refs :
        r.gen # 0 /\ r.name \notin Sed!mutual(c) => r \in Sed!ids(Home[r.name])

\* Mutual references, too.
AllThere ==
    \A c \in Sed!Collections : \A d \in db[c] : \A r \in d.refs :
        r.gen # 0 => r \in Sed!ids(Home[r.name])

emptied == \A c \in Sed!Collections : db[c] = {}

\* s is what is left of all.
endOf(s, all) ==
    /\ Len(s) \in 1 .. Len(all)
    /\ \A i \in 1 .. Len(s) : s[i] = all[Len(all) - Len(s) + i]

\* What each stage of a run relies on: whatever is still to be deleted is sought, and
\* what is being inserted finds nothing but its own generation.
Purging ==
    \/ /\ endOf(run.left, Sed!Purged)
       /\ \A c \in Sed!Collections : PurgeRank[c] <= 9 - Len(run.left) => db[c] = {}
       /\ Sed!ids("users") \subseteq run.users /\ Sed!ids("events") \subseteq run.events
       /\ Sed!ids("places") \subseteq run.places
    \/ run.left = <<"images">> /\ emptied

Inserting ==
    /\ endOf(run.left, Sed!Inserted)
    /\ \A c \in Sed!Collections :
        db[c] = IF InsertRank[c] <= 9 - Len(run.left)
                THEN Sed!generated(run.n, run.skipImages)[c] ELSE {}
    /\ ~run.skipImages => Sed!Files \subseteq bucket

StageOK ==
    /\ run.pc \in {"find", "purge", "bucket", "generate"} => run.n < MaxGenerations
    /\ run.pc \in {"purge", "upload", "insert"} => ~run.complete
    /\ run.pc \in {"upload", "insert"} => run.n # 0
    /\ run.pc \in {"bucket", "generate", "upload"} => emptied
    /\ run.pc = "upload" => ~run.skipImages
    /\ run.pc = "purge" => Purging
    /\ run.pc = "insert" => Inserting

SeedingInv ==
    /\ Sed!TypeOK /\ AllShaped /\ Closed /\ Sed!ImagesHaveFiles /\ StageOK
    /\ run.complete => AllThere

-----------------------------------------------------------------------------
(* The collections and their orders                                        *)

LEMMA CollectionsNamed ==
    /\ Sed!Collections = {"users", "places", "images", "events", "invitations", "bookings",
                      "follows", "favorites", "partnerships"}
    /\ Sed!Relations \subseteq Sed!Collections
    /\ Sed!Inserted \in Seq(Sed!Collections) /\ Sed!Purged \in Seq(Sed!Collections)
    /\ Len(Sed!Inserted) = 9 /\ Len(Sed!Purged) = 9 /\ <<"images">> \in Seq(Sed!Collections)
<1>2. DOMAIN Sed!Inserted = 1 .. 9
  BY DEF Sed!Inserted
<1>3. Sed!Collections = {Sed!Inserted[i] : i \in 1 .. 9}
  BY <1>2 DEF Sed!Collections, Sed!ToSet
<1>4. Sed!Collections = {"users", "places", "images", "events", "invitations", "bookings",
                     "follows", "favorites", "partnerships"}
  BY <1>3 DEF Sed!Inserted
<1> QED BY <1>4 DEF Sed!Inserted, Sed!Purged, Sed!Relations

LEMMA Ranks ==
    ASSUME NEW c \in Sed!Collections
    PROVE  /\ InsertRank[c] \in 1 .. 9 /\ Sed!Inserted[InsertRank[c]] = c
           /\ PurgeRank[c] \in 1 .. 9 /\ Sed!Purged[PurgeRank[c]] = c
           /\ \A i \in 1 .. 9 : (Sed!Inserted[i] = c => i = InsertRank[c])
                                /\ (Sed!Purged[i] = c => i = PurgeRank[c])
BY CollectionsNamed DEF InsertRank, PurgeRank, Sed!Inserted, Sed!Purged

LEMMA Orders ==
    ASSUME NEW c \in Sed!Collections, NEW name \in SeedRefersTo[c]
    PROVE  /\ Home[name] \in Kept /\ Home[name] \in Sed!Collections
           /\ InsertRank[Home[name]] < InsertRank[c] /\ PurgeRank[c] < PurgeRank[Home[name]]
           /\ name \in Sed!Names /\ name # "none" /\ name \notin Sed!mutual(c)
BY CollectionsNamed DEF SeedRefersTo, Home, Kept, InsertRank, PurgeRank, Sed!Names, Sed!mutual

\* Mutual references are to what is kept, too.
LEMMA Mutuals ==
    ASSUME NEW c \in Sed!Collections, NEW name \in Sed!mutual(c)
    PROVE  /\ Home[name] \in Kept /\ Home[name] \in Sed!Collections
           /\ name \in Sed!Names /\ name # "none" /\ c \in {"users", "images"}
BY CollectionsNamed DEF Home, Kept, Sed!Names, Sed!mutual

LEMMA Splits ==
    ASSUME NEW S, NEW s \in Seq(S), Len(s) \in 1 .. 9
    PROVE  /\ Head(s) = s[1] /\ s[1] \in S
           /\ Tail(s) \in Seq(S) /\ Len(Tail(s)) = Len(s) - 1
           /\ \A i \in 1 .. Len(s) - 1 : Tail(s)[i] = s[i + 1]
<1>1. s # <<>>
  BY Len(<<>>) = 0
<1> QED BY <1>1

\* The next collection, and what is left after it.
LEMMA Ahead ==
    ASSUME NEW all \in Seq(Sed!Collections), Len(all) = 9, NEW s \in Seq(Sed!Collections),
           endOf(s, all)
    PROVE  /\ Len(s) \in 1 .. 9 /\ Head(s) = all[10 - Len(s)] /\ Head(s) \in Sed!Collections
           /\ Tail(s) \in Seq(Sed!Collections) /\ Len(Tail(s)) = Len(s) - 1
           /\ Len(s) # 1 => endOf(Tail(s), all)
<1>1. Len(s) \in 1 .. 9
  BY DEF endOf
<1>2. /\ Tail(s) \in Seq(Sed!Collections) /\ Len(Tail(s)) = Len(s) - 1
      /\ \A i \in 1 .. Len(s) - 1 : Tail(s)[i] = s[i + 1]
  BY <1>1, Splits
<1>3. PICK t : t = Tail(s) /\ t \in Seq(Sed!Collections) /\ Len(t) = Len(s) - 1
               /\ \A i \in 1 .. Len(s) - 1 : t[i] = s[i + 1]
  BY <1>2, Zenon
<1>4. Head(s) = s[1] /\ s[1] \in Sed!Collections
  BY <1>1, Splits
<1>5. \A i \in 1 .. Len(s) : s[i] = all[9 - Len(s) + i]
  BY DEF endOf
<1>6. s[1] = all[10 - Len(s)]
  <2>1. s[1] = all[9 - Len(s) + 1] /\ 9 - Len(s) + 1 = 10 - Len(s)
    BY <1>1, <1>5
  <2> QED BY <2>1
<1>7. ASSUME Len(s) # 1 PROVE endOf(t, all)
  <2>1. ASSUME NEW i \in 1 .. Len(t) PROVE t[i] = all[9 - Len(t) + i]
    <3>1. i \in 1 .. Len(s) - 1 /\ i + 1 \in 1 .. Len(s)
      BY <1>1, <1>3
    <3>2. t[i] = s[i + 1] /\ s[i + 1] = all[9 - Len(s) + (i + 1)]
      BY <1>3, <1>5, <3>1
    <3>3. 9 - Len(s) + (i + 1) = 9 - Len(t) + i
      BY <1>1, <1>3
    <3> QED BY <3>2, <3>3
  <2>2. Len(t) \in 1 .. 9
    <3>1. Len(t) = Len(s) - 1
      BY <1>3
    <3>2. \A k \in 1 .. 9 : k # 1 => k - 1 \in 1 .. 9
      OBVIOUS
    <3> QED BY <1>1, <1>7, <3>1, <3>2
  <2> QED BY <2>1, <2>2 DEF endOf
<1> QED BY <1>1, <1>3, <1>4, <1>6, <1>7

LEMMA Whole ==
    endOf(Sed!Inserted, Sed!Inserted) /\ endOf(Sed!Purged, Sed!Purged)
BY CollectionsNamed DEF endOf

-----------------------------------------------------------------------------
(* A generation                                                            *)

LEMMA GeneratedDocuments ==
    ASSUME Sed!SeedingAssumption, NEW n \in 1 .. MaxGenerations, NEW skip \in BOOLEAN,
           NEW c \in Sed!Collections, NEW d \in Sed!generated(n, skip)[c]
    PROVE  /\ d \in Sed!Document /\ d.id.gen = n
           /\ c \in Kept => Home[d.id.name] = c /\ d.id.name # "none"
           /\ \A r \in d.refs : /\ r.gen = n /\ r = Sed!the(n, r.name)
                                /\ r.name \in SeedRefersTo[c] \cup Sed!mutual(c)
                                /\ Home[r.name] = "images" => ~skip
           /\ c \in Sed!Relations => \E r \in d.refs : r.gen = n
           /\ c \in {"places", "events"} => \E r \in d.refs : r.gen = n /\ r.name = "owner"
           /\ c = "images" => \E r \in d.refs : r.gen = n /\ r.name \in {"owner", "peer"}
           /\ c = "users" => \A r \in d.refs : r.name = "place" => d.id.name = "owner"
           /\ c = "images" => ~skip /\ d.file \in Sed!Files
<1>1. n \in 0 .. MaxGenerations /\ n # 0
  BY DEF Sed!SeedingAssumption
<1>2. \A name \in Sed!Names : /\ Sed!the(n, name) \in Sed!Id /\ Sed!the(n, name).gen = n
                              /\ Sed!the(n, name).name = name
  BY <1>1 DEF Sed!the, Sed!Id
<1>3. ASSUME NEW name \in Sed!Names, NEW R \in SUBSET Sed!Names
      PROVE  /\ Sed!doc(n, name, R) \in Sed!Document /\ Sed!doc(n, name, R).id = Sed!the(n, name)
             /\ Sed!doc(n, name, R).refs = {Sed!the(n, r) : r \in R}
  BY <1>2, <1>3 DEF Sed!doc, Sed!Document
<1>4. \A name : Sed!image(skip, name) \subseteq {name} /\ (skip => Sed!image(skip, name) = {})
  BY DEF Sed!image
<1>5. CASE c \in {"users", "places", "events"} \cup Sed!Relations
  <2>1. PICK name \in Sed!Names, R \in SUBSET Sed!Names :
          /\ d = Sed!doc(n, name, R)
          /\ R \subseteq SeedRefersTo[c] \cup Sed!mutual(c)
          /\ c \in Kept => Home[name] = c /\ name # "none"
          /\ \A r \in R : Home[r] = "images" => ~skip
          /\ c \in {"places", "events"} => "owner" \in R
          /\ c \in Sed!Relations => "peer" \in R
          /\ c = "users" /\ "place" \in R => name = "owner"
    <3>1. CASE c = "users"
      <4>1. CASE d = Sed!doc(n, "owner", {"place"} \cup Sed!image(skip, "ownerImage"))
        <5>1. {"place"} \cup Sed!image(skip, "ownerImage") \subseteq {"place", "ownerImage"}
          BY <1>4
        <5>2. \A r \in {"place"} \cup Sed!image(skip, "ownerImage") : Home[r] = "images" => ~skip
          BY <1>4 DEF Home
        <5> QED BY <3>1, <4>1, <5>1, <5>2 DEF Sed!Names, Home, Sed!mutual, Sed!Relations
      <4>2. CASE d = Sed!doc(n, "peer", Sed!image(skip, "peerImage"))
        <5>1. Sed!image(skip, "peerImage") \subseteq {"peerImage"}
          BY <1>4
        <5>2. \A r \in Sed!image(skip, "peerImage") : Home[r] = "images" => ~skip
          BY <1>4
        <5> QED BY <3>1, <4>2, <5>1, <5>2 DEF Sed!Names, Home, Sed!mutual, Sed!Relations
      <4> QED BY <3>1, <4>1, <4>2 DEF Sed!generated
    <3>2. CASE c = "places"
      <4>1. d = Sed!doc(n, "place", {"owner"})
        BY <3>2 DEF Sed!generated
      <4> QED BY <3>2, <4>1 DEF Sed!Names, Home, SeedRefersTo, Sed!Relations
    <3>3. CASE c = "events"
      <4> DEFINE R == {"owner", "place", "peer"} \cup Sed!image(skip, "eventImage")
      <4>1. d = Sed!doc(n, "event", R)
        BY <3>3 DEF Sed!generated
      <4>2. R \subseteq {"owner", "place", "peer", "eventImage"} /\ "owner" \in R
        BY <1>4
      <4>3. \A r \in R : Home[r] = "images" => ~skip
        BY <1>4 DEF Home
      <4> HIDE DEF R
      <4> QED BY <3>3, <4>1, <4>2, <4>3 DEF Sed!Names, Home, SeedRefersTo, Sed!Relations
    <3>4. CASE c \in Sed!Relations
      <4>1. PICK R \in SUBSET {"owner", "peer", "place", "event"} :
              d = Sed!doc(n, "none", R) /\ R \subseteq SeedRefersTo[c] /\ "peer" \in R
        BY <3>4 DEF Sed!Relations, Sed!generated, SeedRefersTo
      <4>2. \A r \in R : Home[r] # "images"
        BY <4>1 DEF Home
      <4> QED BY <3>4, <4>1, <4>2 DEF Sed!Relations, Sed!Names, Kept
    <3> QED BY <1>5, <3>1, <3>2, <3>3, <3>4
  <2>2. /\ d \in Sed!Document /\ d.id = Sed!the(n, name) /\ d.refs = {Sed!the(n, r) : r \in R}
        /\ d.id.gen = n /\ d.id.name = name
    BY <1>2, <1>3, <2>1
  <2>3. \A r \in d.refs : r.gen = n /\ r = Sed!the(n, r.name) /\ r.name \in R
    BY <1>2, <2>1, <2>2
  <2>4. \A m \in R : Sed!the(n, m) \in d.refs /\ Sed!the(n, m).gen = n /\ Sed!the(n, m).name = m
    BY <1>2, <2>1, <2>2
  <2>5. c # "images"
    BY <1>5 DEF Sed!Relations
  <2> QED BY <2>1, <2>2, <2>3, <2>4, <2>5
<1>6. CASE c = "images"
  <2>1. ~skip /\ d \in Sed!attachImages(n)
    BY <1>6 DEF Sed!generated
  <2>2. PICK name \in {"ownerImage", "peerImage", "eventImage"},
             R \in {{"owner"}, {"peer"}, {"owner", "event"}} :
          d.id = Sed!the(n, name) /\ d.refs = {Sed!the(n, r) : r \in R} /\ d \in Sed!Document
          /\ d.file \in Sed!Files
    BY <1>2, <2>1 DEF Sed!attachImages, Sed!Files, Sed!Document, Sed!Names
  <2>3. R \subseteq SeedRefersTo[c] \cup Sed!mutual(c) /\ R \subseteq Sed!Names /\ name \in Sed!Names
        /\ Home[name] = c /\ name # "none" /\ (\A r \in R : Home[r] # "images")
        /\ \E r \in R : r \in {"owner", "peer"}
    BY <1>6, <2>2 DEF SeedRefersTo, Sed!mutual, Sed!Names, Home
  <2>4. \A r \in d.refs : r.gen = n /\ r = Sed!the(n, r.name) /\ r.name \in R
    BY <1>2, <2>2, <2>3
  <2>5. \E r \in d.refs : r.gen = n /\ r.name \in {"owner", "peer"}
    BY <1>2, <2>2, <2>3
  <2>6. d.id.gen = n /\ d.id.name = name
    BY <1>2, <2>2, <2>3
  <2> QED BY <1>6, <2>1, <2>2, <2>3, <2>4, <2>5, <2>6 DEF Sed!Relations
<1> QED BY <1>5, <1>6, CollectionsNamed DEF Sed!Relations

\* What a generation refers to is in it.
LEMMA GeneratedHomes ==
    ASSUME NEW n, NEW skip \in BOOLEAN, NEW name \in Sed!Names \ {"none"},
           Home[name] = "images" => ~skip
    PROVE  Sed!the(n, name) \in {d.id : d \in Sed!generated(n, skip)[Home[name]]}
<1>1. \A m, R : Sed!doc(n, m, R).id = Sed!the(n, m)
  BY DEF Sed!doc
<1>2. CASE name \in {"owner", "peer"}
  <2>1. \E R : Sed!doc(n, name, R) \in Sed!generated(n, skip).users
    BY <1>2 DEF Sed!generated
  <2> QED BY <1>1, <1>2, <2>1 DEF Home
<1>3. CASE name = "place"
  <2>1. \E R : Sed!doc(n, name, R) \in Sed!generated(n, skip).places
    BY <1>3 DEF Sed!generated
  <2> QED BY <1>1, <1>3, <2>1 DEF Home
<1>4. CASE name = "event"
  <2>1. \E R : Sed!doc(n, name, R) \in Sed!generated(n, skip).events
    BY <1>4 DEF Sed!generated
  <2> QED BY <1>1, <1>4, <2>1 DEF Home
<1>5. CASE name \in {"ownerImage", "peerImage", "eventImage"}
  <2>1. Home[name] = "images" /\ Sed!generated(n, skip).images = Sed!attachImages(n)
    BY <1>5 DEF Home, Sed!generated
  <2>2. Sed!the(n, name) \in {d.id : d \in Sed!attachImages(n)}
    BY <1>5 DEF Sed!attachImages
  <2> QED BY <2>1, <2>2
<1> QED BY <1>2, <1>3, <1>4, <1>5 DEF Sed!Names

\* Without users nothing is left.
LEMMA NothingWithoutUsers ==
    ASSUME AllShaped, Closed, db["users"] = {} PROVE emptied
<1>1. Sed!ids("users") = {}
  BY DEF Sed!ids
<1>2. ASSUME NEW c \in {"places", "images", "events"}, NEW d \in db[c] PROVE FALSE
  <2>1. c \in Sed!Collections
    BY CollectionsNamed
  <2>2. PICK r \in d.refs : r.gen # 0 /\ r.name \in {"owner", "peer"}
    BY <1>2, <2>1 DEF AllShaped, Shaped
  <2>3. r.name \notin Sed!mutual(c)
    BY <1>2, <2>2 DEF Sed!mutual
  <2>4. r \in Sed!ids("users")
    BY <2>1, <2>2, <2>3 DEF Closed, Home
  <2> QED BY <1>1, <2>4
<1>3. \A e \in Kept : Sed!ids(e) = {}
  BY <1>1, <1>2 DEF Sed!ids, Kept
<1>4. ASSUME NEW c \in Sed!Collections, NEW d \in db[c] PROVE FALSE
  <2>1. c \in Sed!Relations
    BY <1>2, <1>4, CollectionsNamed DEF Sed!Relations
  <2>2. PICK r \in d.refs : r.gen # 0 /\ r.name \in SeedRefersTo[c] \cup Sed!mutual(c)
    BY <1>4, <2>1 DEF AllShaped, Shaped
  <2>3. r.name \in SeedRefersTo[c] /\ r.name \notin Sed!mutual(c)
    BY <2>1, <2>2 DEF Sed!mutual, Sed!Relations
  <2>4. r \in Sed!ids(Home[r.name]) /\ Home[r.name] \in Kept
    BY <1>4, <2>2, <2>3, Orders DEF Closed
  <2> QED BY <1>3, <2>4
<1> QED BY <1>4 DEF emptied

-----------------------------------------------------------------------------
(* The steps                                                               *)

LEMMA IdleRun ==
    ASSUME run \in Sed!Run
    PROVE  /\ Sed!idle \in Sed!Run /\ Sed!idle.pc = "idle" /\ Sed!idle.n = run.n
           /\ Sed!idle.complete = run.complete
BY DEF Sed!idle, Sed!Run

LEMMA SameDocuments ==
    ASSUME db' = db, run'.n = run.n, AllShaped, Closed
    PROVE  /\ AllShaped' /\ Closed' /\ (emptied => emptied') /\ (AllThere => AllThere')
           /\ \A c : Sed!ids(c)' = Sed!ids(c)
<1>1. \A c : Sed!ids(c)' = Sed!ids(c)
  BY DEF Sed!ids
<1> QED BY <1>1 DEF AllShaped, Shaped, Closed, emptied, AllThere

LEMMA EmptiedHolds ==
    ASSUME emptied PROVE AllShaped /\ Closed /\ AllThere /\ Sed!ImagesHaveFiles
<1>1. db["images"] = {}
  BY CollectionsNamed DEF emptied
<1> QED BY <1>1 DEF emptied, AllShaped, Closed, AllThere, Sed!ImagesHaveFiles

LEMMA Beginning == Sed!SeedingAssumption /\ Sed!Init => SeedingInv
<1> SUFFICES ASSUME Sed!SeedingAssumption, Sed!Init PROVE SeedingInv
  OBVIOUS
<1>1. emptied
  BY DEF Sed!Init, emptied
<1>2. Sed!TypeOK
  BY DEF Sed!Init, Sed!TypeOK, Sed!Run, Sed!SeedingAssumption
<1>3. StageOK
  BY DEF Sed!Init, StageOK
<1> QED BY <1>1, <1>2, <1>3, EmptiedHolds DEF SeedingInv

LEMMA StepMain == Sed!SeedingAssumption /\ SeedingInv /\ Sed!main => SeedingInv'
<1> SUFFICES ASSUME Sed!SeedingAssumption, SeedingInv, Sed!main PROVE SeedingInv'
  OBVIOUS
<1>1. PICK reset \in BOOLEAN, skip \in BOOLEAN :
        /\ Sed!ids("users") = {} \/ reset
        /\ run' = [run EXCEPT !.pc = IF reset THEN "find" ELSE "generate",
                              !.reset = reset, !.skipImages = skip]
  BY DEF Sed!main
<1>2. run \in Sed!Run /\ run' \in Sed!Run /\ db' = db /\ bucket' = bucket
      /\ run'.pc = (IF reset THEN "find" ELSE "generate") /\ run'.n = run.n
      /\ run'.complete = run.complete
  BY <1>1 DEF Sed!main, SeedingInv, Sed!TypeOK, Sed!Run
<1>3. AllShaped' /\ Closed' /\ (emptied => emptied') /\ (AllThere => AllThere')
  BY <1>2, SameDocuments DEF SeedingInv
<1>4. ~reset => emptied
  <2>1. Sed!ids("users") = {} => db["users"] = {}
    BY DEF Sed!ids
  <2> QED BY <1>1, <2>1, NothingWithoutUsers DEF SeedingInv
<1>5. StageOK'
  BY <1>2, <1>3, <1>4 DEF StageOK, Sed!main
<1>6. Sed!TypeOK' /\ Sed!ImagesHaveFiles'
  BY <1>2 DEF SeedingInv, Sed!TypeOK, Sed!ImagesHaveFiles
<1> QED BY <1>2, <1>3, <1>5, <1>6 DEF SeedingInv

LEMMA StepPurgeFind == Sed!SeedingAssumption /\ SeedingInv /\ Sed!purgeFind => SeedingInv'
<1> SUFFICES ASSUME Sed!SeedingAssumption, SeedingInv, Sed!purgeFind PROVE SeedingInv'
  OBVIOUS
<1> DEFINE users == Sed!ids("users")
           eventIds == Sed!ownedBy(users, "events")
           places == Sed!ownedBy(users, "places")
<1>1. users \subseteq Sed!Id /\ eventIds \subseteq Sed!Id /\ places \subseteq Sed!Id
  BY CollectionsNamed DEF SeedingInv, Sed!TypeOK, Sed!Document, Sed!ids, Sed!ownedBy
<1>2. /\ run' \in Sed!Run /\ run'.pc = "purge" /\ run'.n = run.n /\ run'.complete = FALSE
      /\ run'.left = (IF users = {} THEN <<"images">> ELSE Sed!Purged)
      /\ run'.users = users /\ run'.events = eventIds /\ run'.places = places
      /\ db' = db /\ bucket' = bucket
  <2>1. (IF users = {} THEN <<"images">> ELSE Sed!Purged) \in Seq(Sed!Collections)
    BY CollectionsNamed
  <2> HIDE DEF users, eventIds, places
  <2>2. run' = [run EXCEPT
             !.pc = "purge", !.users = users, !.complete = FALSE,
             !.left = IF users = {} THEN <<"images">> ELSE Sed!Purged,
             !.events = eventIds, !.places = places]
    BY DEF Sed!purgeFind, users, eventIds, places
  <2>3. db' = db /\ bucket' = bucket
    BY DEF Sed!purgeFind
  <2> QED BY <1>1, <2>1, <2>2, <2>3 DEF SeedingInv, Sed!TypeOK, Sed!Run
<1>3. AllShaped' /\ Closed' /\ (emptied => emptied') /\ \A c : Sed!ids(c)' = Sed!ids(c)
  BY <1>2, SameDocuments DEF SeedingInv
<1>4. ASSUME NEW c \in {"places", "events"}, NEW d \in db[c]
      PROVE  \E r \in d.refs \cap users : r.name = "owner"
  <2>1. c \in Sed!Collections
    BY CollectionsNamed
  <2>2. PICK r \in d.refs : r.gen # 0 /\ r.name = "owner"
    BY <2>1 DEF SeedingInv, AllShaped, Shaped
  <2>3. r.name \notin Sed!mutual(c)
    BY <1>4, <2>2 DEF Sed!mutual
  <2>4. r \in users
    BY <2>1, <2>2, <2>3 DEF SeedingInv, Closed, Home
  <2> QED BY <2>2, <2>4
<1>5. Sed!ids("events") \subseteq eventIds /\ Sed!ids("places") \subseteq places
  BY <1>4 DEF Sed!ids, Sed!ownedBy
<1>6. Purging'
  <2>1. CASE users = {}
    <3>1. db["users"] = {}
      BY <2>1 DEF Sed!ids
    <3>2. emptied'
      BY <1>3, <3>1, NothingWithoutUsers DEF SeedingInv
    <3> QED BY <1>2, <2>1, <3>2 DEF Purging
  <2>2. CASE users # {}
    <3>1. run'.left = Sed!Purged /\ 9 - Len(run'.left) = 0
      BY <1>2, <2>2, CollectionsNamed
    <3>2. \A c \in Sed!Collections : ~(PurgeRank[c] <= 0)
      BY Ranks
    <3>3. endOf(run'.left, Sed!Purged)
      BY <3>1, Whole
    <3>4. Sed!ids("users")' \subseteq run'.users /\ Sed!ids("events")' \subseteq run'.events
          /\ Sed!ids("places")' \subseteq run'.places
      BY <1>2, <1>3, <1>5
    <3> QED BY <3>1, <3>2, <3>3, <3>4 DEF Purging
  <2> QED BY <2>1, <2>2
<1>7. StageOK'
  BY <1>2, <1>6 DEF SeedingInv, StageOK, Sed!purgeFind
<1>8. Sed!TypeOK' /\ Sed!ImagesHaveFiles'
  BY <1>2 DEF SeedingInv, Sed!TypeOK, Sed!ImagesHaveFiles
<1> QED BY <1>2, <1>3, <1>7, <1>8 DEF SeedingInv

\* Whatever is still to be deleted is sought.
LEMMA AllSought ==
    ASSUME AllShaped, Closed, Sed!ids("users") \subseteq run.users,
           Sed!ids("events") \subseteq run.events, Sed!ids("places") \subseteq run.places,
           NEW c \in Sed!Collections, NEW d \in db[c]
    PROVE  Sed!isSought(c, d)
<1>1. CASE c \in {"users", "events", "places"}
  BY <1>1 DEF Sed!isSought, Sed!ids
<1>2. CASE c = "images"
  BY <1>2 DEF Sed!isSought, AllShaped, Shaped
<1>3. CASE c \in Sed!Relations
  <2>1. PICK r \in d.refs : r.gen # 0 /\ r.name \in SeedRefersTo[c] /\ r.name \notin Sed!mutual(c)
    BY <1>3 DEF AllShaped, Shaped, Sed!Relations, Sed!mutual
  <2>2. r \in Sed!ids(Home[r.name])
    BY <2>1 DEF Closed
  <2>3. CASE r.name \in {"owner", "peer"}
    <3>1. r \in run.users
      BY <2>2, <2>3 DEF Home
    <3> QED BY <1>3, <2>1, <3>1 DEF Sed!isSought, Sed!Relations
  <2>4. CASE r.name = "event"
    <3>1. r \in run.events /\ c \in {"invitations", "bookings"}
      BY <1>3, <2>1, <2>2, <2>4 DEF Home, SeedRefersTo, Sed!Relations
    <3> QED BY <2>1, <3>1 DEF Sed!isSought
  <2>5. CASE r.name = "place"
    <3>1. r \in run.places /\ c = "favorites"
      BY <1>3, <2>1, <2>2, <2>5 DEF Home, SeedRefersTo, Sed!Relations
    <3> QED BY <2>1, <3>1 DEF Sed!isSought
  <2> QED BY <1>3, <2>1, <2>3, <2>4, <2>5 DEF SeedRefersTo, Sed!Relations
<1> QED BY <1>1, <1>2, <1>3, CollectionsNamed DEF Sed!Relations

\* What is deleted leaves the rest closed: whatever refers to it is gone already.
LEMMA PurgesClose ==
    ASSUME AllShaped, Closed, NEW c \in Sed!Collections, NEW gone,
           \A e \in Sed!Collections : PurgeRank[e] < PurgeRank[c] => db[e] = {},
           db' = [db EXCEPT ![c] = @ \ gone], DOMAIN db = Sed!Collections, run'.n = run.n
    PROVE  AllShaped' /\ Closed'
<1>1. \A e \in Sed!Collections : db'[e] \subseteq db[e] /\ (e # c => db'[e] = db[e])
  OBVIOUS
<1>2. AllShaped'
  BY <1>1 DEF AllShaped, Shaped
<1>3. ASSUME NEW e \in Sed!Collections, NEW d \in db'[e], NEW r \in d.refs, r.gen # 0,
             r.name \notin Sed!mutual(e)
      PROVE  r \in Sed!ids(Home[r.name])'
  <2>1. d \in db[e] /\ r.name \in SeedRefersTo[e]
    BY <1>1, <1>3 DEF AllShaped, Shaped
  <2>2. PurgeRank[e] >= PurgeRank[c]
    BY <2>1, Ranks
  <2>3. Home[r.name] # c /\ Home[r.name] \in Sed!Collections
    BY <2>1, <2>2, Orders, Ranks
  <2>4. r \in Sed!ids(Home[r.name]) /\ db'[Home[r.name]] = db[Home[r.name]]
    BY <1>1, <1>3, <2>1, <2>3 DEF Closed
  <2> QED BY <2>4 DEF Sed!ids
<1> QED BY <1>2, <1>3 DEF Closed

LEMMA StepPurgeSeedMongo == Sed!SeedingAssumption /\ SeedingInv /\ Sed!purgeSeedMongo => SeedingInv'
<1> SUFFICES ASSUME Sed!SeedingAssumption, SeedingInv, Sed!purgeSeedMongo PROVE SeedingInv'
  OBVIOUS
<1> DEFINE c == Head(run.left)
           sought == {d \in db[c] : Sed!isSought(c, d)}
<1>1. run.pc = "purge" /\ run \in Sed!Run /\ run.left \in Seq(Sed!Collections) /\ Purging
      /\ ~run.complete /\ run.n < MaxGenerations
      /\ bucket' = bucket /\ db \in [Sed!Collections -> SUBSET Sed!Document]
  BY DEF SeedingInv, Sed!TypeOK, Sed!Run, StageOK, Sed!purgeSeedMongo
<1>2. PICK gone \in SUBSET sought, done \in BOOLEAN :
        /\ done => gone = sought
        /\ db' = [db EXCEPT ![c] = @ \ gone]
        /\ Sed!after(done, "bucket")
  BY DEF Sed!purgeSeedMongo
<1>3. Len(run.left) \in 1 .. 9 /\ c \in Sed!Collections /\ Tail(run.left) \in Seq(Sed!Collections)
  <2>1. CASE endOf(run.left, Sed!Purged)
    BY <1>1, <2>1, Ahead, CollectionsNamed
  <2>2. CASE run.left = <<"images">>
    <3>1. Len(run.left) = 1 /\ Head(run.left) = "images"
      BY <2>2
    <3> QED BY <1>1, <2>2, <3>1, Splits, CollectionsNamed
  <2> QED BY <1>1, <2>1, <2>2, CollectionsNamed DEF Purging
<1> DEFINE l == Len(run.left)
<1>4. /\ run' \in Sed!Run /\ run'.n = run.n /\ run'.complete = FALSE
      /\ ~done => run'.pc = "idle"
      /\ done => /\ run'.pc = (IF l = 1 THEN "bucket" ELSE "purge")
                 /\ run'.left = Tail(run.left) /\ run'.users = run.users
                 /\ run'.events = run.events /\ run'.places = run.places
  <2>1. CASE ~done
    <3>1. run' = Sed!idle
      BY <1>2, <2>1 DEF Sed!after
    <3> QED BY <1>1, <2>1, <3>1, IdleRun
  <2>2. CASE done
    <3>1. run' = [run EXCEPT !.left = Tail(@), !.pc = IF l = 1 THEN "bucket" ELSE @]
      BY <1>2, <2>2 DEF Sed!after
    <3> QED BY <1>1, <1>3, <2>2, <3>1 DEF Sed!Run
  <2> QED BY <2>1, <2>2
<1> HIDE DEF c, l
<1>5. \A e \in Sed!Collections : db'[e] \subseteq db[e] /\ (e # c => db'[e] = db[e])
  BY <1>1, <1>2
<1>6. Sed!TypeOK'
  BY <1>1, <1>2, <1>4, <1>5 DEF SeedingInv, Sed!TypeOK
<1>7. Sed!ImagesHaveFiles'
  BY <1>1, <1>5, CollectionsNamed DEF SeedingInv, Sed!ImagesHaveFiles
<1>8. CASE emptied
  <2>1. emptied'
    BY <1>5, <1>8 DEF emptied
  <2>2. Purging => l = 1 \/ endOf(run.left, Sed!Purged)
    <3>1. run.left = <<"images">> => Len(run.left) = 1
      OBVIOUS
    <3> QED BY <3>1 DEF Purging, l
  <2> HIDE DEF sought
  <2>3. run'.pc = "purge" => Purging'
    <3> SUFFICES ASSUME run'.pc = "purge" PROVE Purging'
      OBVIOUS
    <3>1. done /\ l # 1 /\ endOf(run.left, Sed!Purged) /\ run'.left = Tail(run.left)
      BY <1>1, <1>4, <2>2
    <3>2. endOf(run'.left, Sed!Purged)
      BY <1>1, <3>1, Ahead, CollectionsNamed DEF l
    <3>3. \A e \in Sed!Collections : db'[e] = {}
      BY <2>1 DEF emptied
    <3>4. Sed!ids("users")' = {} /\ Sed!ids("events")' = {} /\ Sed!ids("places")' = {}
      BY <3>3, CollectionsNamed DEF Sed!ids
    <3> QED BY <3>2, <3>3, <3>4 DEF Purging
  <2>4. StageOK'
    BY <1>1, <1>4, <2>1, <2>3 DEF StageOK
  <2>5. (AllShaped /\ Closed)'
    BY <2>1, EmptiedHolds, PTL
  <2> QED BY <1>4, <1>6, <1>7, <2>4, <2>5 DEF SeedingInv
<1>9. CASE ~emptied
  <2>1. /\ endOf(run.left, Sed!Purged)
        /\ \A e \in Sed!Collections : PurgeRank[e] <= 9 - l => db[e] = {}
        /\ Sed!ids("users") \subseteq run.users /\ Sed!ids("events") \subseteq run.events
        /\ Sed!ids("places") \subseteq run.places
    BY <1>1, <1>9 DEF Purging, l
  <2>2. c = Sed!Purged[10 - l] /\ (l # 1 => endOf(Tail(run.left), Sed!Purged))
        /\ Len(Tail(run.left)) = l - 1
    BY <1>1, <2>1, Ahead, CollectionsNamed DEF c, l
  <2>3. l \in 1 .. 9 /\ PurgeRank[c] = 10 - l
    <3>1. l \in 1 .. 9 /\ \A k \in 1 .. 9 : 10 - k \in 1 .. 9
      BY <1>3 DEF l
    <3> QED BY <1>3, <2>2, <3>1, Ranks
  <2>4. \A e \in Sed!Collections : PurgeRank[e] < PurgeRank[c] => db[e] = {}
    BY <2>1, <2>3, Ranks
  <2>5. AllShaped' /\ Closed'
    BY <1>1, <1>2, <1>3, <1>4, <2>4, PurgesClose DEF SeedingInv
  <2>6. sought = db[c]
    BY <1>3, <2>1, AllSought DEF SeedingInv
  <2>7. done => \A e \in Sed!Collections : PurgeRank[e] <= 10 - l => db'[e] = {}
    <3> SUFFICES ASSUME done, NEW e \in Sed!Collections, PurgeRank[e] <= 10 - l PROVE db'[e] = {}
      OBVIOUS
    <3>1. CASE e = c
      BY <1>1, <1>2, <1>3, <2>6, <3>1
    <3>2. CASE e # c
      <4>1. PurgeRank[e] # PurgeRank[c]
        BY <1>3, <3>2, Ranks
      <4> QED BY <1>5, <2>1, <2>3, <3>2, <4>1, Ranks
    <3> QED BY <3>1, <3>2
  <2>8. done /\ l = 1 => emptied'
    BY <2>7, Ranks DEF emptied
  <2>9. run'.pc = "purge" => Purging'
    <3> SUFFICES ASSUME run'.pc = "purge" PROVE Purging'
      OBVIOUS
    <3>1. done /\ l # 1 /\ run'.left = Tail(run.left)
      BY <1>4
    <3>2. endOf(run'.left, Sed!Purged) /\ 9 - Len(run'.left) = 10 - l
      BY <2>2, <2>3, <3>1
    <3>3. Sed!ids("users")' \subseteq run'.users /\ Sed!ids("events")' \subseteq run'.events
          /\ Sed!ids("places")' \subseteq run'.places
      BY <1>4, <1>5, <2>1, <3>1, CollectionsNamed DEF Sed!ids
    <3> QED BY <2>7, <3>1, <3>2, <3>3 DEF Purging
  <2>10. StageOK'
    BY <1>1, <1>4, <2>8, <2>9 DEF StageOK
  <2> QED BY <1>4, <1>6, <1>7, <2>5, <2>10 DEF SeedingInv
<1> QED BY <1>8, <1>9

LEMMA StepPurgeSeedS3 == Sed!SeedingAssumption /\ SeedingInv /\ Sed!purgeSeedS3 => SeedingInv'
<1> SUFFICES ASSUME Sed!SeedingAssumption, SeedingInv, Sed!purgeSeedS3 PROVE SeedingInv'
  OBVIOUS
<1>1. /\ run.pc = "bucket" /\ bucket' \subseteq bucket /\ db' = db
      /\ run' = [run EXCEPT !.pc = "generate", !.users = {}, !.events = {}, !.places = {}]
  BY DEF Sed!purgeSeedS3
<1>2. run' \in Sed!Run /\ run'.pc = "generate" /\ run'.n = run.n /\ run'.complete = run.complete
  BY <1>1 DEF SeedingInv, Sed!TypeOK, Sed!Run
<1>3. emptied'
  BY <1>1 DEF SeedingInv, StageOK, emptied
<1>4. (AllShaped /\ Closed /\ AllThere /\ Sed!ImagesHaveFiles)'
  BY <1>3, EmptiedHolds, PTL
<1>5. StageOK'
  BY <1>1, <1>2, <1>3 DEF SeedingInv, StageOK
<1>6. Sed!TypeOK'
  BY <1>1, <1>2 DEF SeedingInv, Sed!TypeOK
<1> QED BY <1>4, <1>5, <1>6 DEF SeedingInv

LEMMA StepGenerate == Sed!SeedingAssumption /\ SeedingInv /\ Sed!generate => SeedingInv'
<1> SUFFICES ASSUME Sed!SeedingAssumption, SeedingInv, Sed!generate PROVE SeedingInv'
  OBVIOUS
<1>1. run.pc = "generate" /\ run \in Sed!Run /\ run.n < MaxGenerations /\ db' = db /\ bucket' = bucket
  BY DEF SeedingInv, Sed!TypeOK, StageOK, Sed!generate
<1>2. emptied'
  BY <1>1 DEF SeedingInv, StageOK, emptied
<1>3. (AllShaped /\ Closed /\ AllThere /\ Sed!ImagesHaveFiles)'
  BY <1>2, EmptiedHolds, PTL
<1>4. run' \in Sed!Run /\ StageOK'
  <2>1. CASE run' = Sed!idle
    BY <1>1, <2>1, IdleRun DEF StageOK
  <2>2. CASE run' # Sed!idle
    <3>1. run' = [run EXCEPT !.n = @ + 1, !.complete = FALSE,
                             !.pc = IF run.skipImages THEN "insert" ELSE "upload",
                             !.left = IF run.skipImages THEN Sed!Inserted ELSE <<>>]
      BY <2>2 DEF Sed!generate
    <3>2. run.n + 1 \in 0 .. MaxGenerations /\ run.n + 1 # 0
      BY <1>1 DEF Sed!Run, Sed!SeedingAssumption
    <3>3. (IF run.skipImages THEN Sed!Inserted ELSE <<>>) \in Seq(Sed!Collections)
      BY CollectionsNamed
    <3>4. /\ run' \in Sed!Run /\ run'.n = run.n + 1 /\ run'.complete = FALSE
          /\ run'.pc = (IF run.skipImages THEN "insert" ELSE "upload")
          /\ run'.left = (IF run.skipImages THEN Sed!Inserted ELSE <<>>)
          /\ run'.skipImages = run.skipImages
      <4> DEFINE first == IF run.skipImages THEN Sed!Inserted ELSE <<>>
      <4> HIDE DEF first
      <4>1. run' = [run EXCEPT !.n = @ + 1, !.complete = FALSE,
                               !.pc = IF run.skipImages THEN "insert" ELSE "upload",
                               !.left = first]
        BY <3>1 DEF first
      <4>2. first \in Seq(Sed!Collections)
        BY <3>3 DEF first
      <4>3. /\ run' \in Sed!Run /\ run'.n = run.n + 1 /\ run'.complete = FALSE
            /\ run'.pc = (IF run.skipImages THEN "insert" ELSE "upload")
            /\ run'.left = first /\ run'.skipImages = run.skipImages
        BY <1>1, <3>2, <4>1, <4>2 DEF Sed!Run
      <4> QED BY <4>3 DEF first
    <3>5. run'.pc = "insert" => Inserting'
      <4> SUFFICES ASSUME run'.pc = "insert" PROVE Inserting'
        OBVIOUS
      <4>1. run'.left = Sed!Inserted /\ run'.skipImages /\ 9 - Len(run'.left) = 0
        BY <3>4, CollectionsNamed
      <4>2. \A c \in Sed!Collections : ~(InsertRank[c] <= 0) /\ db'[c] = {}
        BY <1>2, Ranks DEF emptied
      <4>3. endOf(run'.left, Sed!Inserted)
        BY <4>1, Whole
      <4> QED BY <4>1, <4>2, <4>3 DEF Inserting
    <3> QED BY <1>2, <3>2, <3>4, <3>5 DEF StageOK
  <2> QED BY <2>1, <2>2
<1>5. Sed!TypeOK'
  BY <1>1, <1>4 DEF SeedingInv, Sed!TypeOK
<1> QED BY <1>3, <1>4, <1>5 DEF SeedingInv

LEMMA StepUploadImagePool == Sed!SeedingAssumption /\ SeedingInv /\ Sed!uploadImagePool => SeedingInv'
<1> SUFFICES ASSUME Sed!SeedingAssumption, SeedingInv, Sed!uploadImagePool PROVE SeedingInv'
  OBVIOUS
<1>1. run.pc = "upload" /\ run \in Sed!Run /\ run.n # 0 /\ db' = db
  BY DEF SeedingInv, Sed!TypeOK, StageOK, Sed!uploadImagePool
<1>2. emptied'
  BY <1>1 DEF SeedingInv, StageOK, emptied
<1>3. (AllShaped /\ Closed /\ AllThere /\ Sed!ImagesHaveFiles)'
  BY <1>2, EmptiedHolds, PTL
<1>4. PICK put \in SUBSET Sed!Files :
        /\ bucket' = bucket \cup put
        /\ run' = IF put # Sed!Files THEN Sed!idle
                  ELSE [run EXCEPT !.pc = "insert", !.left = Sed!Inserted]
  BY DEF Sed!uploadImagePool
<1>5. run' \in Sed!Run /\ StageOK'
  <2>1. CASE put # Sed!Files
    BY <1>1, <1>4, <2>1, IdleRun DEF StageOK
  <2>2. CASE put = Sed!Files
    <3>1. /\ run' \in Sed!Run /\ run'.n = run.n /\ run'.pc = "insert" /\ run'.left = Sed!Inserted
          /\ run'.complete = run.complete
      <4>1. run' = [run EXCEPT !.pc = "insert", !.left = Sed!Inserted]
        BY <1>4, <2>2
      <4> QED BY <1>1, <4>1, CollectionsNamed DEF Sed!Run
    <3>2. ~run.complete
      BY <1>1 DEF SeedingInv, StageOK
    <3>3. Inserting'
      <4>1. 9 - Len(run'.left) = 0 /\ Sed!Files \subseteq bucket'
        BY <1>4, <2>2, <3>1, CollectionsNamed
      <4>2. \A c \in Sed!Collections : ~(InsertRank[c] <= 0) /\ db'[c] = {}
        BY <1>2, Ranks DEF emptied
      <4>3. endOf(run'.left, Sed!Inserted)
        BY <3>1, Whole
      <4> QED BY <4>1, <4>2, <4>3 DEF Inserting
    <3> QED BY <1>1, <3>1, <3>2, <3>3 DEF StageOK
  <2> QED BY <2>1, <2>2
<1>6. Sed!TypeOK'
  BY <1>1, <1>4, <1>5 DEF SeedingInv, Sed!TypeOK
<1> QED BY <1>3, <1>5, <1>6 DEF SeedingInv

LEMMA StepPersistSeedContext ==
    Sed!SeedingAssumption /\ SeedingInv /\ Sed!persistSeedContext => SeedingInv'
<1> SUFFICES ASSUME Sed!SeedingAssumption, SeedingInv, Sed!persistSeedContext PROVE SeedingInv'
  OBVIOUS
<1> DEFINE c == Head(run.left)
           l == Len(run.left)
           n == run.n
           made == Sed!generated(run.n, run.skipImages)
<1>1. run.pc = "insert" /\ run \in Sed!Run /\ run.left \in Seq(Sed!Collections) /\ Inserting
      /\ ~run.complete /\ run.skipImages \in BOOLEAN
      /\ bucket' = bucket /\ db \in [Sed!Collections -> SUBSET Sed!Document]
  BY DEF SeedingInv, Sed!TypeOK, Sed!Run, StageOK, Sed!persistSeedContext
<1>2. n \in 1 .. MaxGenerations
  <2>1. n \in 0 .. MaxGenerations /\ n # 0
    BY <1>1 DEF SeedingInv, StageOK, Sed!Run
  <2> QED BY <2>1 DEF Sed!SeedingAssumption
<1>3. PICK put \in SUBSET made[c], done \in BOOLEAN :
        /\ done => put = made[c]
        /\ db' = [db EXCEPT ![c] = @ \cup put]
        /\ IF done /\ l = 1 THEN run' = [Sed!idle EXCEPT !.complete = TRUE]
           ELSE Sed!after(done, "insert")
  BY DEF Sed!persistSeedContext
<1>4. /\ l \in 1 .. 9 /\ c \in Sed!Collections /\ c = Sed!Inserted[10 - l]
      /\ Tail(run.left) \in Seq(Sed!Collections) /\ Len(Tail(run.left)) = l - 1
      /\ l # 1 => endOf(Tail(run.left), Sed!Inserted)
  BY <1>1, Ahead, CollectionsNamed DEF Inserting
<1> HIDE DEF c, l
<1>5. InsertRank[c] = 10 - l
  <2>1. \A k \in 1 .. 9 : 10 - k \in 1 .. 9
    OBVIOUS
  <2> QED BY <1>4, <2>1, Ranks
<1>6. /\ run' \in Sed!Run /\ run'.n = n /\ run'.pc \in {"idle", "insert"}
      /\ run'.pc = "insert" =>
            /\ done /\ l # 1 /\ run'.left = Tail(run.left)
            /\ run'.skipImages = run.skipImages /\ ~run'.complete
      /\ run'.complete => done /\ l = 1
  <2>1. Sed!idle \in Sed!Run /\ Sed!idle.pc = "idle" /\ Sed!idle.n = run.n /\ Sed!idle.complete = FALSE
    BY <1>1, IdleRun DEF Sed!Run
  <2>2. CASE ~done
    <3>1. run' = Sed!idle
      BY <1>3, <2>2 DEF Sed!after
    <3> QED BY <2>1, <3>1
  <2>3. CASE done /\ l = 1
    <3>1. run' = [Sed!idle EXCEPT !.complete = TRUE]
      BY <1>3, <2>3
    <3> QED BY <2>1, <2>3, <3>1 DEF Sed!Run
  <2>4. CASE done /\ l # 1
    <3>1. run' = [run EXCEPT !.left = Tail(@), !.pc = IF l = 1 THEN "insert" ELSE @]
      BY <1>3, <2>4 DEF Sed!after, l
    <3> QED BY <1>1, <1>4, <2>4, <3>1 DEF Sed!Run
  <2> QED BY <2>2, <2>3, <2>4
<1>7. \A e \in Sed!Collections :
        db[e] = IF InsertRank[e] <= 9 - l THEN made[e] ELSE {}
  BY <1>1 DEF Inserting, l
<1>8. db'[c] = put /\ \A e \in Sed!Collections : e # c => db'[e] = db[e]
  <2>1. db[c] = {}
    BY <1>4, <1>5, <1>7
  <2> QED BY <1>1, <1>3, <1>4, <2>1
<1>9. \A e \in Sed!Collections : db'[e] \subseteq made[e] /\ (db'[e] # {} => InsertRank[e] <= 10 - l)
  BY <1>3, <1>4, <1>5, <1>7, <1>8, Ranks
<1>10. \A e \in Sed!Collections : InsertRank[e] <= 9 - l => db'[e] = made[e]
  BY <1>4, <1>5, <1>7, <1>8
<1>11. done => \A e \in Sed!Collections :
        db'[e] = IF InsertRank[e] <= 10 - l THEN made[e] ELSE {}
  <2> SUFFICES ASSUME done, NEW e \in Sed!Collections
               PROVE  db'[e] = IF InsertRank[e] <= 10 - l THEN made[e] ELSE {}
    OBVIOUS
  <2>1. CASE e = c
    <3>1. InsertRank[e] <= 10 - l
      BY <1>4, <1>5, <2>1
    <3> QED BY <1>3, <1>8, <2>1, <3>1
  <2>2. CASE e # c
    <3>1. InsertRank[e] # InsertRank[c]
      BY <1>4, <2>2, Ranks
    <3> QED BY <1>4, <1>5, <1>7, <1>8, <2>2, <3>1, Ranks
  <2> QED BY <2>1, <2>2
<1>12. Sed!TypeOK'
  <2>1. \A e \in Sed!Collections : db'[e] \subseteq Sed!Document
    BY <1>1, <1>2, <1>9, GeneratedDocuments
  <2> QED BY <1>1, <1>3, <1>6, <2>1 DEF SeedingInv, Sed!TypeOK
<1>13. AllShaped'
  <2> SUFFICES ASSUME NEW e \in Sed!Collections, NEW d \in db'[e] PROVE Shaped(e, d)'
    BY DEF AllShaped
  <2>1. d \in made[e] /\ n # 0
    BY <1>2, <1>9
  <2> QED BY <1>1, <1>2, <1>6, <2>1, GeneratedDocuments DEF Shaped
<1>14. Closed'
  <2> SUFFICES ASSUME NEW e \in Sed!Collections, NEW d \in db'[e], NEW r \in d.refs, r.gen # 0,
                      r.name \notin Sed!mutual(e)
               PROVE  r \in Sed!ids(Home[r.name])'
    BY DEF Closed
  <2>1. d \in made[e]
    BY <1>9
  <2>2. /\ r.name \in SeedRefersTo[e] /\ r = Sed!the(n, r.name)
        /\ Home[r.name] = "images" => ~run.skipImages
    BY <1>1, <1>2, <2>1, GeneratedDocuments
  <2> DEFINE home == Home[r.name]
  <2>3. home \in Sed!Collections /\ InsertRank[home] < InsertRank[e]
        /\ r.name \in Sed!Names \ {"none"}
    BY <2>2, Orders
  <2>4. db'[home] = made[home]
    <3> HIDE DEF home
    <3>1. InsertRank[e] <= 10 - l
      BY <1>9
    <3>2. InsertRank[e] \in 1 .. 9 /\ InsertRank[home] \in 1 .. 9
      BY <2>3, Ranks
    <3>3. InsertRank[home] <= 9 - l
      BY <1>4, <2>3, <3>1, <3>2
    <3> QED BY <1>10, <2>3, <3>3
  <2>5. Sed!the(n, r.name) \in {x.id : x \in made[home]}
    BY <1>1, <2>2, <2>3, GeneratedHomes
  <2> QED BY <2>2, <2>4, <2>5 DEF Sed!ids
<1>15. Sed!ImagesHaveFiles'
  <2> SUFFICES ASSUME NEW d \in db'["images"] PROVE d.file \in bucket'
    BY DEF Sed!ImagesHaveFiles
  <2>1. d \in made["images"] /\ "images" \in Sed!Collections
    BY <1>9, CollectionsNamed
  <2>2. ~run.skipImages /\ d.file \in Sed!Files
    BY <1>1, <1>2, <2>1, GeneratedDocuments
  <2> QED BY <1>1, <2>2 DEF Inserting
<1>16. run'.complete => AllThere'
  <2> SUFFICES ASSUME done, l = 1, NEW e \in Sed!Collections, NEW d \in db'[e], NEW r \in d.refs
               PROVE  r \in Sed!ids(Home[r.name])'
    BY <1>6 DEF AllThere
  <2>1. \A x \in Sed!Collections : db'[x] = made[x]
    BY <1>11, Ranks
  <2>2. /\ r.name \in SeedRefersTo[e] \cup Sed!mutual(e) /\ r = Sed!the(n, r.name)
        /\ Home[r.name] = "images" => ~run.skipImages
    BY <1>1, <1>2, <2>1, GeneratedDocuments
  <2>3. Home[r.name] \in Sed!Collections /\ r.name \in Sed!Names \ {"none"}
    BY <2>2, Orders, Mutuals
  <2>4. Sed!the(n, r.name) \in {x.id : x \in made[Home[r.name]]}
    BY <1>1, <2>2, <2>3, GeneratedHomes
  <2> QED BY <2>1, <2>2, <2>3, <2>4 DEF Sed!ids
<1>17. StageOK'
  <2>1. run'.pc = "insert" => Inserting'
    <3> SUFFICES ASSUME run'.pc = "insert" PROVE Inserting'
      OBVIOUS
    <3>1. endOf(run'.left, Sed!Inserted) /\ Len(run'.left) = l - 1
      BY <1>4, <1>6
    <3>2. 9 - Len(run'.left) = 10 - l
      BY <1>4, <3>1
    <3>3. ~run.skipImages => Sed!Files \subseteq bucket
      BY <1>1 DEF Inserting
    <3> QED BY <1>1, <1>6, <1>11, <3>2, <3>3, <3>1 DEF Inserting
  <2> QED BY <1>2, <1>6, <2>1 DEF StageOK
<1> QED BY <1>12, <1>13, <1>14, <1>15, <1>16, <1>17 DEF SeedingInv

LEMMA StepMemberActs == Sed!SeedingAssumption /\ SeedingInv /\ Sed!memberActs => SeedingInv'
<1> SUFFICES ASSUME Sed!SeedingAssumption, SeedingInv, Sed!memberActs PROVE SeedingInv'
  OBVIOUS
<1>1. run.pc = "idle" /\ bucket' = bucket /\ run' = run /\ run.n \in 0 .. MaxGenerations
      /\ db \in [Sed!Collections -> SUBSET Sed!Document]
  BY DEF SeedingInv, Sed!TypeOK, Sed!Run, Sed!memberActs
<1>2. PICK c \in Sed!Relations, n \in {0, run.n}, k \in {0, run.n}, m \in {0, run.n} :
        /\ Sed!between(c, n, k, m).refs \subseteq
                Sed!ids("users") \cup Sed!ids("places") \cup Sed!ids("events")
                    \cup {Sed!the(0, name) : name \in Sed!Names}
        /\ \E r \in Sed!between(c, n, k, m).refs : r.gen # 0
        /\ db' = [db EXCEPT ![c] = @ \cup {Sed!between(c, n, k, m)}]
  BY DEF Sed!memberActs
<1>3. PICK d : d = Sed!between(c, n, k, m)
  OBVIOUS
<1>4. c \in Sed!Collections /\ c \notin {"users", "places", "events", "images"}
  BY CollectionsNamed DEF Sed!Relations
<1>5. \A e \in Sed!Collections : db'[e] = IF e = c THEN db[e] \cup {d} ELSE db[e]
  BY <1>1, <1>2, <1>3
<1>6. \A e \in Kept : db'[e] = db[e]
  BY <1>4, <1>5, CollectionsNamed DEF Kept
<1>7. \A e \in Kept : Sed!ids(e)' = Sed!ids(e)
  BY <1>6 DEF Sed!ids
<1>8. \A g \in {0, run.n}, name \in Sed!Names :
        Sed!the(g, name) \in Sed!Id /\ Sed!the(g, name).gen = g /\ Sed!the(g, name).name = name
  <2>1. 0 \in 0 .. MaxGenerations
    BY DEF Sed!SeedingAssumption
  <2> QED BY <1>1, <2>1 DEF Sed!the, Sed!Id
<1>9. d \in Sed!Document /\ d.id = Sed!the(0, "none")
      /\ \A r \in d.refs : r.gen \in {0, run.n} /\ r.name \in SeedRefersTo[c]
  <2> DEFINE X == CASE c \in {"invitations", "bookings"} -> {Sed!the(n, "event")}
                    [] c = "favorites" -> {Sed!the(n, "place")}
                    [] OTHER -> {}
  <2>1. X \subseteq {Sed!the(g, name) : g \in {0, run.n}, name \in SeedRefersTo[c]}
    <3>1. CASE c \in {"invitations", "bookings"}
      BY <1>2, <3>1 DEF SeedRefersTo
    <3>2. CASE c = "favorites"
      BY <1>2, <3>2 DEF SeedRefersTo
    <3>3. CASE c \in {"follows", "partnerships"}
      BY <3>3
    <3> QED BY <3>1, <3>2, <3>3 DEF Sed!Relations
  <2> HIDE DEF X
  <2>2. {Sed!the(k, "owner"), Sed!the(m, "peer")} \subseteq
        {Sed!the(g, name) : g \in {0, run.n}, name \in SeedRefersTo[c]}
    BY <1>2 DEF SeedRefersTo, Sed!Relations
  <2>3. PICK R : R = {Sed!the(k, "owner"), Sed!the(m, "peer")} \cup X
    OBVIOUS
  <2>4. R \subseteq {Sed!the(g, name) : g \in {0, run.n}, name \in SeedRefersTo[c]}
    BY <2>1, <2>2, <2>3
  <2>5. d = [id |-> Sed!the(0, "none"), file |-> "none", refs |-> R]
    BY <1>3, <2>3 DEF Sed!between, X
  <2>6. SeedRefersTo[c] \subseteq Sed!Names /\ "none" \in Sed!Names
    BY <1>4, Orders DEF Sed!Names
  <2>7. R \subseteq Sed!Id /\ Sed!the(0, "none") \in Sed!Id
    BY <1>8, <2>4, <2>6
  <2>8. \A r \in R : r.gen \in {0, run.n} /\ r.name \in SeedRefersTo[c]
    BY <1>8, <2>4, <2>6
  <2> QED BY <2>5, <2>7, <2>8 DEF Sed!Document
<1>10. Sed!the(0, "none").gen = 0
  BY DEF Sed!the
<1>11. Sed!TypeOK'
  BY <1>1, <1>2, <1>3, <1>9 DEF SeedingInv, Sed!TypeOK
<1>12. AllShaped'
  <2> SUFFICES ASSUME NEW e \in Sed!Collections, NEW x \in db'[e] PROVE Shaped(e, x)'
    BY DEF AllShaped
  <2>1. CASE x \in db[e]
    BY <1>1, <2>1 DEF SeedingInv, AllShaped, Shaped
  <2>2. CASE e = c /\ x = d
    BY <1>1, <1>2, <1>3, <1>4, <1>9, <1>10, <2>2 DEF Shaped, Kept
  <2> QED BY <1>5, <2>1, <2>2
<1>13. \A r \in d.refs : r.gen # 0 => r \in Sed!ids(Home[r.name])
  <2> SUFFICES ASSUME NEW r \in d.refs, r.gen # 0 PROVE r \in Sed!ids(Home[r.name])
    OBVIOUS
  <2>1. PICK e \in {"users", "places", "events"} : r \in Sed!ids(e)
    <3>1. r \notin {Sed!the(0, name) : name \in Sed!Names}
      BY DEF Sed!the
    <3> QED BY <1>2, <1>3, <3>1
  <2>2. PICK x \in db[e] : r = x.id
    BY <2>1 DEF Sed!ids
  <2>3. Home[r.name] = e
    BY <2>2, CollectionsNamed DEF SeedingInv, AllShaped, Shaped, Kept
  <2> QED BY <2>1, <2>3
<1>14. Closed'
  <2> SUFFICES ASSUME NEW e \in Sed!Collections, NEW x \in db'[e], NEW r \in x.refs, r.gen # 0,
                      r.name \notin Sed!mutual(e)
               PROVE  r \in Sed!ids(Home[r.name])'
    BY DEF Closed
  <2>1. r \in Sed!ids(Home[r.name]) /\ r.name \in SeedRefersTo[e]
    <3>1. CASE x \in db[e]
      BY <3>1 DEF SeedingInv, Closed, AllShaped, Shaped
    <3>2. CASE e = c /\ x = d
      BY <1>9, <1>13, <3>2
    <3> QED BY <1>5, <3>1, <3>2
  <2> QED BY <1>7, <2>1, Orders
<1>15. Sed!ImagesHaveFiles'
  BY <1>1, <1>6 DEF SeedingInv, Sed!ImagesHaveFiles, Kept
<1>16. run'.complete => AllThere'
  <2> SUFFICES ASSUME AllThere, NEW e \in Sed!Collections, NEW x \in db'[e], NEW r \in x.refs,
                      r.gen # 0
               PROVE  r \in Sed!ids(Home[r.name])'
    BY <1>1 DEF SeedingInv, AllThere
  <2>1. r \in Sed!ids(Home[r.name]) /\ r.name \in SeedRefersTo[e] \cup Sed!mutual(e)
    <3>1. CASE x \in db[e]
      BY <3>1 DEF SeedingInv, AllThere, AllShaped, Shaped
    <3>2. CASE e = c /\ x = d
      BY <1>9, <1>13, <3>2
    <3> QED BY <1>5, <3>1, <3>2
  <2> QED BY <1>7, <2>1, Orders, Mutuals
<1>17. StageOK'
  BY <1>1 DEF SeedingInv, StageOK
<1> QED BY <1>11, <1>12, <1>14, <1>15, <1>16, <1>17 DEF SeedingInv

\* The inductive invariant of the script: what each of its stages relies on, wherever the
\* run before it broke off (index.ts, purge.ts, persist.ts).
THEOREM SeedsInvariant == ASSUME Sed!SeedingAssumption PROVE Sed!Spec => []SeedingInv
<1>1. SeedingInv /\ [Sed!Next]_Sed!vars => SeedingInv'
  <2> SUFFICES ASSUME SeedingInv, [Sed!Next]_Sed!vars PROVE SeedingInv'
    OBVIOUS
  <2>1. CASE UNCHANGED Sed!vars
    <3>1. db' = db /\ run' = run /\ bucket' = bucket
      BY <2>1 DEF Sed!vars
    <3>2. AllShaped' /\ Closed' /\ (emptied => emptied') /\ (AllThere => AllThere')
          /\ \A c : Sed!ids(c)' = Sed!ids(c)
      BY <3>1, SameDocuments DEF SeedingInv
    <3>3. Sed!TypeOK' /\ Sed!ImagesHaveFiles' /\ StageOK'
      BY <3>1, <3>2 DEF SeedingInv, Sed!TypeOK, Sed!ImagesHaveFiles, StageOK, Purging, Inserting
    <3> QED BY <3>1, <3>2, <3>3 DEF SeedingInv
  <2> QED
    BY <2>1, StepMain, StepPurgeFind, StepPurgeSeedMongo, StepPurgeSeedS3, StepGenerate,
       StepUploadImagePool, StepPersistSeedContext, StepMemberActs DEF Sed!Next
<1>2. Sed!Init => SeedingInv
  BY Beginning
<1> QED BY <1>1, <1>2, PTL DEF Sed!Spec

\* For any host and number of generations and of members' documents, the collections, the
\* bucket and what a run read before it deletes keep their types.
THEOREM SeedTypes == ASSUME Sed!SeedingAssumption PROVE Sed!Spec => []Sed!TypeOK
<1>1. SeedingInv => Sed!TypeOK
  BY DEF SeedingInv
<1> QED BY <1>1, SeedsInvariant, PTL

\* Wherever a run of the script breaks off, and whatever members make in between, the
\* documents refer to stored ones, the mutual references of users, places, images and
\* events apart, and those too once a run has ended; the seeded ones are of one generation:
\* purgeSeedMongo deletes from the leaves to the users, persistSeedContext inserts the other
\* way round, so the next run finds all that is left (purge.ts:35-64, persist.ts:40-70).
THEOREM SeedsNeverDangle == ASSUME Sed!SeedingAssumption PROVE Sed!Spec => []Sed!NoDangling
<1>1. SeedingInv => Sed!NoDangling
  <2> SUFFICES ASSUME SeedingInv PROVE Sed!NoDangling
    OBVIOUS
  <2>1. ASSUME NEW c \in Sed!Collections, NEW d \in db[c], NEW r \in d.refs, r.gen # 0,
               run.complete \/ r.name \notin Sed!mutual(c)
        PROVE  r \in Sed!stored
    <3>1. r.name \in SeedRefersTo[c] \cup Sed!mutual(c)
      BY DEF SeedingInv, AllShaped, Shaped
    <3>2. Home[r.name] \in Kept
      BY <3>1, Orders, Mutuals
    <3>3. r \in Sed!ids(Home[r.name])
      BY <2>1 DEF SeedingInv, Closed, AllThere
    <3> QED BY <3>2, <3>3 DEF Sed!stored, Kept
  <2>2. run.complete \in BOOLEAN
    BY DEF SeedingInv, Sed!TypeOK, Sed!Run
  <2>3. \A c \in Sed!Collections : \A i \in Sed!ids(c) : i.gen \in {0, run.n}
    BY DEF SeedingInv, AllShaped, Shaped, Sed!ids
  <2> QED BY <2>1, <2>2, <2>3 DEF Sed!NoDangling
<1> QED BY <1>1, SeedsInvariant, PTL

\* Wherever a run of the script breaks off, the files of a stored seed image are in the
\* bucket: the pool is only emptied when no image is left, and is whole before the first
\* is inserted (index.ts:77-91, 123-134).
THEOREM SeededImagesHaveFiles == ASSUME Sed!SeedingAssumption PROVE Sed!Spec => []Sed!ImagesHaveFiles
<1>1. SeedingInv => Sed!ImagesHaveFiles
  BY DEF SeedingInv
<1> QED BY <1>1, SeedsInvariant, PTL

\* After a run of the script that ended, a user is linked to a stored place, which was not
\* there when the user was inserted, and the place to the user (persist.ts:41-46).
THEOREM SeededOwnersHaveTheirPlace ==
    ASSUME Sed!SeedingAssumption PROVE Sed!Spec => []Sed!PlaceLinkAgrees
<1>1. SeedingInv => Sed!PlaceLinkAgrees
  <2> SUFFICES ASSUME SeedingInv, run.complete, NEW u \in db["users"], NEW r \in u.refs,
                      r.name = "place"
               PROVE  \E p \in db["places"] : p.id = r /\ u.id \in p.refs
    BY DEF Sed!PlaceLinkAgrees
  <2>1. "users" \in Sed!Collections /\ "places" \in Sed!Collections
    BY CollectionsNamed
  <2>2. /\ u.id \in Sed!Id /\ u.id.gen \in {0, run.n} /\ u.id.gen # 0
        /\ r.gen = u.id.gen /\ u.id.name = "owner"
    BY <2>1 DEF SeedingInv, Sed!TypeOK, Sed!Document, AllShaped, Shaped, Kept, Sed!Relations
  <2>3. r \in Sed!ids("places")
    BY <2>1, <2>2 DEF SeedingInv, AllThere, Home
  <2>4. PICK p \in db["places"] : p.id = r
    BY <2>3 DEF Sed!ids
  <2>5. p \in Sed!Document /\ Shaped("places", p)
    BY <2>1 DEF SeedingInv, Sed!TypeOK, AllShaped
  <2>6. PICK o \in p.refs : o.gen = u.id.gen /\ o.name = "owner" /\ o \in Sed!Id
    BY <2>2, <2>4, <2>5 DEF Shaped, Kept, Sed!Document
  <2>7. o = u.id
    BY <2>2, <2>6 DEF Sed!Id
  <2> QED BY <2>4, <2>6, <2>7
<1> QED BY <1>1, SeedsInvariant, PTL

-----------------------------------------------------------------------------
(* MADE-UP DOCUMENTS                                                       *)

\* A set covered by a function of a finite set is no larger than it.
LEMMA Covered ==
    ASSUME NEW P, IsFiniteSet(P), NEW f, NEW H, \A h \in H : \E p \in P : f[p] = h
    PROVE  IsFiniteSet(H) /\ Cardinality(H) <= Cardinality(P)
<1> DEFINE P0 == {p \in P : f[p] \in H}
           g  == [p \in P0 |-> f[p]]
<1>1. IsFiniteSet(P0) /\ Cardinality(P0) <= Cardinality(P)
  BY FS_Subset
<1>2. g \in Surjection(P0, H)
  BY DEF Surjection
<1>3. IsFiniteSet(H) /\ Cardinality(H) <= Cardinality(P0)
  <2> HIDE DEF P0, g
  <2> QED BY <1>1, <1>2, FS_Surjection
<1>4. /\ Cardinality(H) \in Nat /\ Cardinality(P0) \in Nat
      /\ Cardinality(P) \in Nat
  BY <1>1, <1>3, FS_CardinalityType
<1> QED BY <1>1, <1>3, <1>4

\* Counting is the same in the instance.
LEMMA ContextSets == \A S : Ctx!Cardinality(S) = Cardinality(S)
BY DEF Ctx!Cardinality, Cardinality

seatsTaken(e) ==
    UNION {{b} \X (1 .. b.seats) : b \in {b \in bookings : b.event = e /\ b.status = "confirmed"}}

\* The events keep their owner, place and capacity once they are made; what else a
\* generator relies on is the part of the work that those before it have done.
EventsMade == loop.pc # "events" => Len(events) = EVENT_COUNT

NotYet ==
    /\ loop.pc \in {"events", "invitations"} => /\ bookings = {} /\ loop.event = 1
                                                /\ invitations = {}
    /\ partnerships # {} => loop.pc = "done"

BookingsInTurn ==
    /\ loop.pc = "bookings" => \A b \in bookings : b.event < loop.event
    /\ loop.pc = "attendees" => \A b \in bookings : b.event <= loop.event
    /\ loop.pc \in {"events", "invitations", "bookings", "attendees"} =>
            \A e \in DOMAIN events : loop.event <= e => events[e].status # "full"

SeatsCounted ==
    /\ \A e \in Ctx!EventNumbers : IsFiniteSet(seatsTaken(e))
    /\ loop.pc = "attendees" =>
            /\ loop.event \in DOMAIN events /\ Ctx!isBooked(loop.event) /\ guests # <<>>
            /\ Ctx!confirmedSeats(loop.event) = loop.seats
            /\ loop.seats <= events[loop.event].capacity

CapacityKept ==
    \A e \in DOMAIN events : events[e].capacity # 0 => Ctx!confirmedSeats(e) <= events[e].capacity

\* The events before the one that is being booked are passed while it is, too.
behind(e) ==
    \/ Ctx!passed(e)
    \/ loop.pc = "attendees" /\ e < loop.event

FullWhenTaken ==
    \A e \in DOMAIN events :
        behind(e) /\ Ctx!isBooked(e) /\ guests # <<>> =>
            (events[e].status = "full" <=> Ctx!confirmedSeats(e) = events[e].capacity)

CollaboratorsAgree ==
    \A e \in DOMAIN events :
        events[e].collaborators =
            {v.collaborator : v \in {v \in invitations : v.event = e /\ v.status = "accepted"}}

ContextInv ==
    /\ Ctx!TypeOK /\ EventsMade /\ NotYet /\ BookingsInTurn /\ SeatsCounted
    /\ CapacityKept /\ FullWhenTaken /\ CollaboratorsAgree /\ Ctx!GeneratedOnce

-----------------------------------------------------------------------------
(* The arithmetic and the places                                           *)

LEMMA CreatorsInPlace ==
    ASSUME Ctx!SeedAssumption
    PROVE  /\ \A i \in DOMAIN creators : creators[i] \in Ctx!Creators
           /\ \A i \in Nat \ {0} : Ctx!at(creators, i) \in Ctx!Creators
<1>1. \A i \in DOMAIN creators : creators[i] \in Ctx!Creators
  BY DEF Ctx!Creators, Ctx!ToSet
<1>2. ASSUME NEW i \in Nat \ {0} PROVE Ctx!at(creators, i) \in Ctx!Creators
  <2>1. Len(creators) \in Nat /\ Len(creators) > 0 /\ DOMAIN creators = 1 .. Len(creators)
    BY DEF Ctx!SeedAssumption
  <2>2. i - 1 \in Nat
    OBVIOUS
  <2>3. ((i - 1) % Len(creators)) + 1 \in 1 .. Len(creators)
    <3> DEFINE n == Len(creators) m == i - 1
    <3>1. n \in Nat \ {0} /\ m \in Nat
      BY <2>1, <2>2
    <3> HIDE DEF n, m
    <3>2. m % n \in 0 .. n - 1
      BY <3>1
    <3>3. (m % n) + 1 \in 1 .. n
      BY <3>1, <3>2
    <3> QED BY <3>3 DEF n, m
  <2> QED BY <1>1, <2>1, <2>3 DEF Ctx!at
<1> QED BY <1>1, <1>2

LEMMA PlacesOfCreators == ASSUME Ctx!SeedAssumption PROVE Ctx!Sites \subseteq Ctx!Creators
BY CreatorsInPlace DEF Ctx!Sites, Ctx!creatorsWithPlace

\* A share of a number is a number no larger than it.
LEMMA ShareBound ==
    ASSUME NEW n \in Nat, NEW percent \in 0 .. 100
    PROVE  Ctx!share(n, percent) \in Nat /\ Ctx!share(n, percent) <= n
<1>1. n * percent \in Nat /\ n * percent <= n * 100
  OBVIOUS
<1> DEFINE m == n * percent
<1>2. (m + 50) \div 100 \in Nat /\ (m + 50) \div 100 <= n
  <2>1. m \in Nat /\ m <= n * 100
    BY <1>1
  <2> HIDE DEF m
  <2> QED BY <2>1
<1> QED BY <1>2 DEF Ctx!share

LEMMA CapacityOf ==
    ASSUME Ctx!SeedAssumption, NEW event \in Ctx!Event
    PROVE  event.capacity \in Nat /\ event.maxSeats \in Nat \ {0}
<1>1. event.capacity \in Capacities \cup {0} /\ event.maxSeats \in SeatLimits \cup {1}
  BY DEF Ctx!Event
<1>2. Capacities \subseteq Nat \ {0} /\ SeatLimits \subseteq Nat \ {0}
  BY DEF Ctx!SeedAssumption
<1>3. \A n \in Capacities \cup {0} : n \in Nat
  BY <1>2
<1>4. \A n \in SeatLimits \cup {1} : n \in Nat \ {0}
  BY <1>2
<1> QED BY <1>1, <1>3, <1>4

LEMMA UsersFinite ==
    ASSUME Ctx!SeedAssumption PROVE IsFiniteSet(Ctx!People) /\ IsFiniteSet(Ctx!Creators)
<1>1. ASSUME NEW S, NEW s \in Seq(S) PROVE IsFiniteSet(Ctx!ToSet(s))
  <2>1. Len(s) \in Nat /\ DOMAIN s = 1 .. Len(s)
    OBVIOUS
  <2>2. IsFiniteSet(1 .. Len(s))
    BY <2>1, FS_Interval
  <2>3. \A h \in Ctx!ToSet(s) : \E p \in 1 .. Len(s) : s[p] = h
    BY <2>1 DEF Ctx!ToSet
  <2> QED BY <2>2, <2>3, Covered
<1>2. IsFiniteSet(Ctx!Creators) /\ IsFiniteSet(Ctx!Guests)
  BY <1>1 DEF Ctx!SeedAssumption, Ctx!Creators, Ctx!Guests
<1> QED BY <1>2, FS_Union DEF Ctx!People

LEMMA FollowsFinite ==
    ASSUME Ctx!SeedAssumption, NEW F \in SUBSET Ctx!Follow
    PROVE  IsFiniteSet(F)
<1> DEFINE P == Ctx!People \X Ctx!Creators
           f == [p \in P |-> [follower |-> p[1], following |-> p[2]]]
<1>1. IsFiniteSet(P)
  BY UsersFinite, FS_Product
<1>2. ASSUME NEW h \in F PROVE \E p \in P : f[p] = h
  <2>1. h.follower \in Ctx!People /\ h.following \in Ctx!Creators
        /\ h = [follower |-> h.follower, following |-> h.following]
    BY DEF Ctx!Follow
  <2>2. <<h.follower, h.following>> \in P
    BY <2>1
  <2>3. f[<<h.follower, h.following>>] = h
    BY <2>1, <2>2
  <2> QED BY <2>2, <2>3
<1> HIDE DEF P, f
<1> QED BY <1>1, <1>2, Covered

-----------------------------------------------------------------------------
(* The seats of the bookings                                               *)

\* One more confirmed booking takes its seats, of its event and no other.
LEMMA SeatsAdded ==
    ASSUME NEW b, b \notin bookings, b.seats \in Nat, b.status = "confirmed",
           bookings' = bookings \cup {b}, NEW e, IsFiniteSet(seatsTaken(e))
    PROVE  /\ IsFiniteSet(seatsTaken(e)')
           /\ b.event # e => Ctx!confirmedSeats(e)' = Ctx!confirmedSeats(e)
           /\ b.event = e => Ctx!confirmedSeats(e)' = Ctx!confirmedSeats(e) + b.seats
<1> DEFINE S == {b} \X (1 .. b.seats)
<1>1. IsFiniteSet(S) /\ Cardinality(S) = b.seats
  <2>1. ASSUME NEW n \in Nat
        PROVE  IsFiniteSet({b} \X (1 .. n)) /\ Cardinality({b} \X (1 .. n)) = n
    <3>1. IsFiniteSet(1 .. n) /\ Cardinality(1 .. n) = n
      BY FS_Interval
    <3>2. IsFiniteSet({b}) /\ Cardinality({b}) = 1
      BY FS_Singleton
    <3>3. 1 * n = n
      OBVIOUS
    <3> DEFINE T == 1 .. n
    <3> HIDE DEF T
    <3>4. IsFiniteSet(T) /\ Cardinality(T) = n
      BY <3>1 DEF T
    <3>5. IsFiniteSet({b} \X T) /\ Cardinality({b} \X T) = Cardinality({b}) * Cardinality(T)
      BY <3>2, <3>4, FS_Product
    <3> QED BY <3>2, <3>3, <3>4, <3>5 DEF T
  <2> QED BY <2>1
<1>2. CASE b.event # e
  <2>1. seatsTaken(e)' = seatsTaken(e)
    <3>1. {c \in bookings' : c.event = e /\ c.status = "confirmed"}
              = {c \in bookings : c.event = e /\ c.status = "confirmed"}
      BY <1>2
    <3> QED BY <3>1 DEF seatsTaken
  <2> QED BY <1>2, <2>1, ContextSets DEF Ctx!confirmedSeats, seatsTaken
<1>3. CASE b.event = e
  <2>1. seatsTaken(e)' = seatsTaken(e) \cup S
    <3>1. {c \in bookings' : c.event = e /\ c.status = "confirmed"}
              = {c \in bookings : c.event = e /\ c.status = "confirmed"} \cup {b}
      BY <1>3
    <3> QED BY <3>1 DEF seatsTaken
  <2>2. seatsTaken(e) \cap S = {}
    <3>1. \A x \in seatsTaken(e) : x[1] \in bookings
      BY DEF seatsTaken
    <3> QED BY <3>1
  <2>3. Cardinality(seatsTaken(e)') = Cardinality(seatsTaken(e)) + b.seats
        /\ IsFiniteSet(seatsTaken(e)')
    <3>1. IsFiniteSet(seatsTaken(e) \cup S)
          /\ Cardinality(seatsTaken(e) \cup S)
                = Cardinality(seatsTaken(e)) + Cardinality(S)
                      - Cardinality(seatsTaken(e) \cap S)
      <4> HIDE DEF S
      <4> QED BY <1>1, FS_Union
    <3>2. Cardinality(seatsTaken(e) \cap S) = 0
      BY <2>2, FS_EmptySet
    <3>3. Cardinality(seatsTaken(e)) \in Nat
      BY FS_CardinalityType
    <3> QED BY <1>1, <2>1, <3>1, <3>2, <3>3
  <2> QED BY <1>3, <2>3, ContextSets DEF Ctx!confirmedSeats, seatsTaken
<1> QED BY <1>2, <1>3

\* A cancelled one takes none.
LEMMA SeatsKept ==
    ASSUME NEW b, b.status # "confirmed", bookings' = bookings \cup {b}, NEW e
    PROVE  seatsTaken(e)' = seatsTaken(e) /\ Ctx!confirmedSeats(e)' = Ctx!confirmedSeats(e)
<1>1. {c \in bookings' : c.event = e /\ c.status = "confirmed"}
          = {c \in bookings : c.event = e /\ c.status = "confirmed"}
  OBVIOUS
<1> QED BY <1>1 DEF seatsTaken, Ctx!confirmedSeats

LEMMA NoSeats ==
    ASSUME NEW e, \A b \in bookings : b.event # e
    PROVE  IsFiniteSet(seatsTaken(e)) /\ Ctx!confirmedSeats(e) = 0
<1>1. seatsTaken(e) = {}
  BY DEF seatsTaken
<1>2. IsFiniteSet(seatsTaken(e)) /\ Cardinality(seatsTaken(e)) = 0
  BY <1>1, FS_EmptySet
<1> QED BY <1>2, ContextSets DEF Ctx!confirmedSeats, seatsTaken

-----------------------------------------------------------------------------
(* The generators keep the invariant                                       *)

LEMMA ContextInit == ASSUME Ctx!SeedAssumption PROVE Ctx!Init => ContextInv
<1> SUFFICES ASSUME Ctx!Init PROVE ContextInv
  OBVIOUS
<1> USE DEF Ctx!Init
<1>1. events = <<>> /\ Len(events) = 0 /\ DOMAIN events = {}
  OBVIOUS
<1>2. Ctx!TypeOK
  <2>1. events \in Seq(Ctx!Event)
    BY <1>1
  <2>2. loop \in Ctx!Loop /\ Len(events) <= EVENT_COUNT
    BY <1>1 DEF Ctx!Loop, Ctx!SeedAssumption
  <2> QED BY <2>1, <2>2 DEF Ctx!TypeOK
<1>3. EventsMade /\ NotYet /\ CollaboratorsAgree /\ Ctx!GeneratedOnce /\ CapacityKept /\ FullWhenTaken
  BY <1>1
  DEF EventsMade, NotYet, CollaboratorsAgree, Ctx!GeneratedOnce, CapacityKept, FullWhenTaken
<1>4. BookingsInTurn
  BY <1>1 DEF BookingsInTurn
<1>5. SeatsCounted
  BY NoSeats DEF SeatsCounted
<1> QED BY <1>2, <1>3, <1>4, <1>5 DEF ContextInv

\* What the other generators leave alone, but for where the script is.
LEMMA ContextAt ==
    ASSUME ContextInv, UNCHANGED <<events, invitations, bookings>>,
           loop'.pc \in {"follows", "favorites", "partnerships", "done", "failed"},
           loop.pc \notin {"events", "invitations", "attendees"},
           loop' \in Ctx!Loop,
           loop'.pc # "failed" => \A e \in DOMAIN events : behind(e) \/ guests = <<>>,
           partnerships' # {} => loop'.pc = "done",
           follows' \subseteq Ctx!Follow, followers' \in [Ctx!People -> Nat],
           favorites' \subseteq Ctx!Favorite, partnerships' \subseteq Ctx!Partnership,
           \A p, q \in partnerships' :
                {p.initiator, p.collaborator} = {q.initiator, q.collaborator} => p = q
    PROVE  ContextInv'
<1>1. Ctx!TypeOK'
  BY DEF ContextInv, Ctx!TypeOK
<1>2. EventsMade' /\ NotYet' /\ BookingsInTurn' /\ CollaboratorsAgree' /\ Ctx!GeneratedOnce'
  BY DEF ContextInv, EventsMade, NotYet, BookingsInTurn, CollaboratorsAgree, Ctx!GeneratedOnce
<1>3. \A e : seatsTaken(e)' = seatsTaken(e) /\ Ctx!confirmedSeats(e)' = Ctx!confirmedSeats(e)
  BY DEF seatsTaken, Ctx!confirmedSeats
<1>4. SeatsCounted' /\ CapacityKept'
  BY <1>3 DEF ContextInv, SeatsCounted, CapacityKept
<1>5. FullWhenTaken'
  BY <1>3 DEF ContextInv, FullWhenTaken, behind, Ctx!passed, Ctx!isBooked
<1> QED BY <1>1, <1>2, <1>4, <1>5 DEF ContextInv

LEMMA ContextGenerateEvent ==
    ASSUME Ctx!SeedAssumption, ContextInv, Ctx!generateEvent PROVE ContextInv'
<1> USE DEF Ctx!generateEvent
<1>1. /\ events \in Seq(Ctx!Event) /\ Len(events) \in Nat /\ DOMAIN events = 1 .. Len(events)
      /\ EVENT_COUNT \in Nat /\ Len(events) < EVENT_COUNT
  BY DEF ContextInv, Ctx!TypeOK, Ctx!SeedAssumption
<1>2. PICK new \in Ctx!Event : /\ new.status # "full" /\ new.collaborators = {}
                               /\ events' = Append(events, new)
  <2> DEFINE owner == Ctx!at(creators, Len(events) + 1)
  <2>1. PICK venue \in Ctx!venues(owner), status \in {"available", "cancelled"},
             capacity \in Capacities \cup {0}, limit \in SeatLimits :
               events' = Append(events,
                    [owner |-> owner, online |-> venue.online, place |-> venue.place,
                     location |-> venue.location, status |-> status,
                     capacity |-> capacity, maxSeats |-> IF capacity = 0 THEN 1 ELSE limit,
                     collaborators |-> {}])
    OBVIOUS
  <2>2. owner \in Ctx!Creators
    BY <1>1, CreatorsInPlace
  <2>3. venue.online \in BOOLEAN /\ venue.location \in BOOLEAN
        /\ venue.place \in Ctx!Creators \cup {None}
    <3> HIDE DEF owner
    <3> QED BY <2>2, PlacesOfCreators DEF Ctx!venues
  <2> DEFINE new == [owner |-> owner, online |-> venue.online, place |-> venue.place,
                     location |-> venue.location, status |-> status,
                     capacity |-> capacity, maxSeats |-> IF capacity = 0 THEN 1 ELSE limit,
                     collaborators |-> {}]
  <2> HIDE DEF owner
  <2>4. new \in Ctx!Event
    BY <2>2, <2>3 DEF Ctx!Event
  <2>5. new.status # "full" /\ new.collaborators = {}
    OBVIOUS
  <2> HIDE DEF new
  <2> QED BY <2>1, <2>4, <2>5 DEF new, owner
<1>3. /\ events' \in Seq(Ctx!Event) /\ Len(events') = Len(events) + 1
      /\ DOMAIN events' = 1 .. Len(events) + 1
      /\ \A e \in DOMAIN events : events'[e] = events[e]
      /\ events'[Len(events) + 1] = new
  BY <1>1, <1>2
<1>4. /\ bookings = {} /\ loop.event = 1 /\ invitations = {} /\ loop.pc = "events"
      /\ UNCHANGED <<bookings, loop, invitations, partnerships>>
  BY DEF ContextInv, NotYet
<1>5. Ctx!TypeOK'
  BY <1>1, <1>3 DEF ContextInv, Ctx!TypeOK
<1>6. EventsMade' /\ NotYet' /\ Ctx!GeneratedOnce' /\ FullWhenTaken'
  BY <1>4
  DEF ContextInv, EventsMade, NotYet, Ctx!GeneratedOnce, FullWhenTaken, behind, Ctx!passed
<1>7. BookingsInTurn'
  BY <1>1, <1>2, <1>3, <1>4 DEF ContextInv, BookingsInTurn
<1>8. SeatsCounted' /\ CapacityKept'
  <2>1. \A e : IsFiniteSet(seatsTaken(e)) /\ Ctx!confirmedSeats(e) = 0
    BY <1>4, NoSeats
  <2>2. \A e : seatsTaken(e)' = seatsTaken(e) /\ Ctx!confirmedSeats(e)' = Ctx!confirmedSeats(e)
    BY <1>4 DEF seatsTaken, Ctx!confirmedSeats
  <2>3. \A e \in DOMAIN events' : events'[e].capacity \in Nat
    <3>1. \A e \in DOMAIN events' : events'[e] \in Ctx!Event
      BY <1>1, <1>3
    <3> QED BY <3>1, CapacityOf
  <2> QED BY <1>4, <2>1, <2>2, <2>3 DEF SeatsCounted, CapacityKept
<1>9. CollaboratorsAgree'
  BY <1>1, <1>2, <1>3, <1>4 DEF ContextInv, CollaboratorsAgree
<1> QED BY <1>5, <1>6, <1>7, <1>8, <1>9 DEF ContextInv

LEMMA ContextGeneratedEvents ==
    ASSUME Ctx!SeedAssumption, ContextInv, Ctx!generatedEvents PROVE ContextInv'
<1> USE DEF Ctx!generatedEvents, Ctx!goto
<1>1. /\ loop' \in Ctx!Loop /\ loop'.pc = "invitations" /\ loop'.event = 1
      /\ UNCHANGED <<events, invitations, bookings, follows, followers, favorites, partnerships>>
      /\ loop.pc = "events" /\ loop.event = 1 /\ bookings = {} /\ invitations = {}
  BY DEF ContextInv, Ctx!TypeOK, NotYet, Ctx!Loop, Ctx!SeedAssumption
<1>2. Ctx!TypeOK'
  BY <1>1 DEF ContextInv, Ctx!TypeOK
<1>3. EventsMade' /\ NotYet' /\ BookingsInTurn' /\ CollaboratorsAgree' /\ Ctx!GeneratedOnce'
  BY <1>1
  DEF ContextInv, EventsMade, NotYet, BookingsInTurn, CollaboratorsAgree, Ctx!GeneratedOnce
<1>4. \A e : seatsTaken(e)' = seatsTaken(e) /\ Ctx!confirmedSeats(e)' = Ctx!confirmedSeats(e)
  BY <1>1 DEF seatsTaken, Ctx!confirmedSeats
<1>5. SeatsCounted' /\ CapacityKept'
  BY <1>1, <1>4 DEF ContextInv, SeatsCounted, CapacityKept
<1>6. FullWhenTaken'
  BY <1>1 DEF FullWhenTaken, behind, Ctx!passed
<1> QED BY <1>2, <1>3, <1>5, <1>6 DEF ContextInv

\* The events with the collaborators put in: what they were otherwise.
LEMMA ContextInvitations ==
    ASSUME Ctx!SeedAssumption, ContextInv, Ctx!generateInvitations PROVE ContextInv'
<1> DEFINE target == IF Len(creators) < 2 THEN 0 ELSE Ctx!share(EVENT_COUNT, INVITATION_PERCENT)
<1>1. /\ loop.pc = "invitations" /\ loop' \in Ctx!Loop /\ loop'.pc = "bookings" /\ loop'.event = 1
      /\ bookings = {} /\ invitations = {} /\ partnerships = {} /\ loop.event = 1
      /\ UNCHANGED <<bookings, follows, followers, favorites, partnerships>>
  <2>1. /\ loop.pc = "invitations" /\ loop' = [loop EXCEPT !.pc = "bookings", !.event = 1]
        /\ UNCHANGED <<bookings, follows, followers, favorites, partnerships>>
    BY DEF Ctx!generateInvitations, Ctx!goto
  <2> QED BY <2>1 DEF ContextInv, Ctx!TypeOK, NotYet, Ctx!Loop, Ctx!SeedAssumption
<1>2. /\ EVENT_COUNT \in Nat /\ Len(events) = EVENT_COUNT /\ events \in Seq(Ctx!Event)
      /\ DOMAIN events = Ctx!EventNumbers /\ \A e \in Ctx!EventNumbers : events[e] \in Ctx!Event
  <2>1. EVENT_COUNT \in Nat /\ Len(events) = EVENT_COUNT /\ events \in Seq(Ctx!Event)
    BY <1>1 DEF ContextInv, EventsMade, Ctx!TypeOK, Ctx!SeedAssumption
  <2>2. DOMAIN events = Ctx!EventNumbers
    BY <2>1 DEF Ctx!EventNumbers
  <2>3. \A e \in Ctx!EventNumbers : events[e] \in Ctx!Event
    BY <2>1 DEF Ctx!EventNumbers
  <2> QED BY <2>1, <2>2, <2>3
<1>3. target \in Nat /\ target <= EVENT_COUNT
  <2>1. INVITATION_PERCENT \in 0 .. 100
    BY DEF Ctx!SeedAssumption
  <2>2. Ctx!share(EVENT_COUNT, INVITATION_PERCENT) \in Nat
        /\ Ctx!share(EVENT_COUNT, INVITATION_PERCENT) <= EVENT_COUNT
    BY <1>2, <2>1, ShareBound
  <2> QED BY <1>2, <2>2
<1>4. PICK who \in [1 .. target -> Ctx!Creators],
           answer \in [1 .. target -> {"pending", "accepted", "refused", "cancelled"}] :
        /\ invitations' = {[event |-> e, initiator |-> events[e].owner,
                            collaborator |-> who[e], status |-> answer[e]] :
                                e \in 1 .. target}
        /\ events' = [e \in Ctx!EventNumbers |->
                IF e \in 1 .. target /\ answer[e] = "accepted"
                THEN [events[e] EXCEPT !.collaborators = {who[e]}] ELSE events[e]]
  BY DEF Ctx!generateInvitations
<1> HIDE DEF target
<1>5. 1 .. target \subseteq Ctx!EventNumbers
  BY <1>2, <1>3 DEF Ctx!EventNumbers
<1>6. \A e \in Ctx!EventNumbers :
        /\ events'[e] \in Ctx!Event
        /\ events'[e].status = events[e].status /\ events'[e].capacity = events[e].capacity
        /\ events'[e].collaborators = IF e \in 1 .. target /\ answer[e] = "accepted"
                                      THEN {who[e]} ELSE events[e].collaborators
  <2> SUFFICES ASSUME NEW e \in Ctx!EventNumbers
               PROVE  /\ events'[e] \in Ctx!Event
                      /\ events'[e].status = events[e].status
                      /\ events'[e].capacity = events[e].capacity
                      /\ events'[e].collaborators =
                            IF e \in 1 .. target /\ answer[e] = "accepted"
                            THEN {who[e]} ELSE events[e].collaborators
    OBVIOUS
  <2>1. events[e] \in Ctx!Event
    BY <1>2
  <2>2. CASE e \in 1 .. target /\ answer[e] = "accepted"
    <3>1. events'[e] = [events[e] EXCEPT !.collaborators = {who[e]}]
      BY <1>4, <2>2
    <3>2. {who[e]} \in SUBSET Ctx!Creators
      BY <2>2
    <3> QED BY <2>1, <2>2, <3>1, <3>2 DEF Ctx!Event
  <2>3. CASE ~(e \in 1 .. target /\ answer[e] = "accepted")
    BY <1>4, <2>1, <2>3
  <2> QED BY <2>2, <2>3
<1>7. events' \in Seq(Ctx!Event) /\ Len(events') = EVENT_COUNT /\ DOMAIN events' = Ctx!EventNumbers
  <2>1. events' \in [1 .. EVENT_COUNT -> Ctx!Event] /\ DOMAIN events' = Ctx!EventNumbers
    BY <1>4, <1>6 DEF Ctx!EventNumbers
  <2> QED BY <1>2, <2>1
<1>8. Ctx!TypeOK'
  <2>1. invitations' \subseteq Ctx!Invitation
    <3> SUFFICES ASSUME NEW e \in 1 .. target
                 PROVE  [event |-> e, initiator |-> events[e].owner,
                         collaborator |-> who[e], status |-> answer[e]] \in Ctx!Invitation
      BY <1>4
    <3>1. events[e].owner \in Ctx!Creators /\ e \in Ctx!EventNumbers
      BY <1>2, <1>5 DEF Ctx!Event
    <3> QED BY <3>1 DEF Ctx!Invitation
  <2> QED BY <1>1, <1>2, <1>7, <2>1 DEF ContextInv, Ctx!TypeOK
<1>9. EventsMade' /\ NotYet' /\ Ctx!GeneratedOnce'
  BY <1>1, <1>7 DEF ContextInv, EventsMade, NotYet, Ctx!GeneratedOnce
<1>10. BookingsInTurn'
  BY <1>1, <1>2, <1>6, <1>7 DEF ContextInv, BookingsInTurn, Ctx!EventNumbers
<1>11. /\ \A e : IsFiniteSet(seatsTaken(e)) /\ Ctx!confirmedSeats(e) = 0
       /\ \A e : seatsTaken(e)' = seatsTaken(e) /\ Ctx!confirmedSeats(e)' = Ctx!confirmedSeats(e)
  BY <1>1, NoSeats DEF seatsTaken, Ctx!confirmedSeats
<1>12. SeatsCounted' /\ CapacityKept'
  <2>1. \A e \in DOMAIN events' : events'[e].capacity \in Nat
    BY <1>6, <1>7, CapacityOf
  <2> QED BY <1>1, <1>11, <2>1 DEF SeatsCounted, CapacityKept
<1>13. FullWhenTaken'
  <2>1. \A e \in Ctx!EventNumbers : ~behind(e)'
    BY <1>1, <1>2 DEF behind, Ctx!passed, Ctx!EventNumbers
  <2> QED BY <1>7, <2>1 DEF FullWhenTaken
<1>14. CollaboratorsAgree'
  <2> SUFFICES ASSUME NEW e \in Ctx!EventNumbers
               PROVE  events'[e].collaborators =
                        {v.collaborator : v \in {v \in invitations' :
                                            v.event = e /\ v.status = "accepted"}}
    BY <1>7 DEF CollaboratorsAgree
  <2>1. events[e].collaborators = {}
    BY <1>1, <1>2 DEF ContextInv, CollaboratorsAgree
  <2>2. CASE e \in 1 .. target /\ answer[e] = "accepted"
    <3> DEFINE v == [event |-> e, initiator |-> events[e].owner,
                     collaborator |-> who[e], status |-> answer[e]]
    <3>1. {w \in invitations' : w.event = e /\ w.status = "accepted"} = {v}
      BY <1>4, <2>2
    <3>2. {w.collaborator : w \in {v}} = {who[e]}
      OBVIOUS
    <3> HIDE DEF v
    <3> QED BY <1>6, <2>2, <3>1, <3>2
  <2>3. CASE ~(e \in 1 .. target /\ answer[e] = "accepted")
    <3>1. {w \in invitations' : w.event = e /\ w.status = "accepted"} = {}
      BY <1>4, <2>3
    <3> QED BY <1>6, <2>1, <2>3, <3>1
  <2> QED BY <2>2, <2>3
<1> QED BY <1>8, <1>9, <1>10, <1>12, <1>13, <1>14 DEF ContextInv

\* The events that take bookings come one after the other.
LEMMA ContextPassedOver ==
    ASSUME Ctx!SeedAssumption, ContextInv, loop.pc = "bookings",
           loop.event \in Ctx!EventNumbers,
           ~Ctx!isBooked(loop.event), loop' = [loop EXCEPT !.event = @ + 1],
           UNCHANGED <<events, invitations, bookings, follows, followers, favorites,
                       partnerships>>
    PROVE  ContextInv'
<1>1. /\ loop \in Ctx!Loop /\ EVENT_COUNT \in Nat /\ Len(events) = EVENT_COUNT
      /\ events \in Seq(Ctx!Event)
  BY DEF ContextInv, EventsMade, Ctx!TypeOK, Ctx!SeedAssumption
<1>2. /\ loop'.pc = "bookings" /\ loop'.event = loop.event + 1 /\ loop' \in Ctx!Loop
      /\ DOMAIN events = Ctx!EventNumbers
  BY <1>1 DEF Ctx!Loop, Ctx!EventNumbers
<1>3. \A e : seatsTaken(e)' = seatsTaken(e) /\ Ctx!confirmedSeats(e)' = Ctx!confirmedSeats(e)
  BY DEF seatsTaken, Ctx!confirmedSeats
<1>4. Ctx!TypeOK' /\ EventsMade' /\ NotYet' /\ CollaboratorsAgree' /\ Ctx!GeneratedOnce'
  BY <1>2 DEF ContextInv, Ctx!TypeOK, EventsMade, NotYet, CollaboratorsAgree, Ctx!GeneratedOnce
<1>5. BookingsInTurn'
  <2>1. /\ \A b \in bookings : b.event \in Nat /\ b.event < loop.event
        /\ \A e \in Ctx!EventNumbers : loop.event <= e => events[e].status # "full"
        /\ loop.event \in Nat /\ \A e \in Ctx!EventNumbers : e \in Nat
    BY <1>2 DEF ContextInv, Ctx!TypeOK, Ctx!Booking, Ctx!EventNumbers, BookingsInTurn
  <2> QED BY <1>2, <2>1 DEF BookingsInTurn
<1>6. SeatsCounted' /\ CapacityKept'
  BY <1>2, <1>3 DEF ContextInv, SeatsCounted, CapacityKept
<1>7. FullWhenTaken'
  <2> SUFFICES ASSUME NEW e \in Ctx!EventNumbers, behind(e)', Ctx!isBooked(e)', guests # <<>>
               PROVE  events[e].status = "full" <=> Ctx!confirmedSeats(e) = events[e].capacity
    BY <1>2, <1>3 DEF FullWhenTaken
  <2>1. e <= loop.event /\ e # loop.event
    BY <1>2 DEF behind, Ctx!passed, Ctx!isBooked, Ctx!EventNumbers
  <2>2. behind(e) /\ Ctx!isBooked(e)
    BY <2>1 DEF behind, Ctx!passed, Ctx!isBooked, Ctx!EventNumbers
  <2> QED BY <1>2, <2>2 DEF ContextInv, FullWhenTaken
<1> QED BY <1>4, <1>5, <1>6, <1>7 DEF ContextInv

LEMMA ContextBegun ==
    ASSUME Ctx!SeedAssumption, ContextInv, loop.pc = "bookings",
           loop.event \in Ctx!EventNumbers,
           Ctx!isBooked(loop.event), guests # <<>>, NEW n \in Nat,
           loop' = [loop EXCEPT !.pc = "attendees", !.left = n, !.seats = 0],
           UNCHANGED <<events, invitations, bookings, follows, followers, favorites,
                       partnerships>>
    PROVE  ContextInv'
<1>1. /\ loop \in Ctx!Loop /\ EVENT_COUNT \in Nat /\ Len(events) = EVENT_COUNT
      /\ events \in Seq(Ctx!Event)
  BY DEF ContextInv, EventsMade, Ctx!TypeOK, Ctx!SeedAssumption
<1>2. /\ loop'.pc = "attendees" /\ loop'.event = loop.event /\ loop'.seats = 0 /\ loop' \in Ctx!Loop
      /\ DOMAIN events = Ctx!EventNumbers /\ events[loop.event] \in Ctx!Event
  <2>1. DOMAIN events = Ctx!EventNumbers /\ events[loop.event] \in Ctx!Event
    BY <1>1 DEF Ctx!EventNumbers
  <2>2. loop' = [pc |-> "attendees", event |-> loop.event, left |-> n, seats |-> 0]
    BY <1>1 DEF Ctx!Loop
  <2>3. loop.event \in 1 .. EVENT_COUNT + 1
    BY <1>1 DEF Ctx!Loop
  <2> QED BY <2>1, <2>2, <2>3 DEF Ctx!Loop
<1>3. \A e : seatsTaken(e)' = seatsTaken(e) /\ Ctx!confirmedSeats(e)' = Ctx!confirmedSeats(e)
  BY DEF seatsTaken, Ctx!confirmedSeats
<1>4. Ctx!TypeOK' /\ EventsMade' /\ NotYet' /\ CollaboratorsAgree' /\ Ctx!GeneratedOnce'
  BY <1>2 DEF ContextInv, Ctx!TypeOK, EventsMade, NotYet, CollaboratorsAgree, Ctx!GeneratedOnce
<1>5. \A b \in bookings : b.event \in Nat /\ b.event < loop.event /\ loop.event \in Nat
  BY DEF ContextInv, Ctx!TypeOK, Ctx!Booking, Ctx!EventNumbers, BookingsInTurn
<1>6. BookingsInTurn'
  BY <1>2, <1>5 DEF ContextInv, BookingsInTurn
<1>7. SeatsCounted'
  <2>1. Ctx!confirmedSeats(loop.event) = 0
    BY <1>5, NoSeats
  <2>2. events[loop.event].capacity \in Nat
    BY <1>2 DEF Ctx!Event, Ctx!SeedAssumption
  <2>3. \A e \in Ctx!EventNumbers : IsFiniteSet(seatsTaken(e)')
    BY <1>3 DEF ContextInv, SeatsCounted
  <2>4. Ctx!confirmedSeats(loop.event)' = 0
    BY <1>3, <2>1
  <2> QED BY <1>2, <2>2, <2>3, <2>4 DEF SeatsCounted, Ctx!isBooked, Ctx!confirmedSeats
<1>8. CapacityKept'
  BY <1>3 DEF ContextInv, CapacityKept
<1>9. FullWhenTaken'
  <2> SUFFICES ASSUME NEW e \in Ctx!EventNumbers, behind(e)', Ctx!isBooked(e)', guests # <<>>
               PROVE  events[e].status = "full" <=> Ctx!confirmedSeats(e) = events[e].capacity
    BY <1>2, <1>3 DEF FullWhenTaken
  <2>1. behind(e) /\ Ctx!isBooked(e)
    BY <1>2 DEF behind, Ctx!passed, Ctx!isBooked
  <2> QED BY <1>2, <2>1 DEF ContextInv, FullWhenTaken
<1> QED BY <1>4, <1>6, <1>7, <1>8, <1>9 DEF ContextInv

LEMMA ContextBookings ==
    ASSUME Ctx!SeedAssumption, ContextInv, Ctx!generateBookings PROVE ContextInv'
<1>1. /\ loop.pc = "bookings" /\ loop \in Ctx!Loop
      /\ UNCHANGED <<events, invitations, bookings, follows, followers, favorites, partnerships>>
      /\ EVENT_COUNT \in Nat /\ Len(events) = EVENT_COUNT /\ partnerships = {}
  BY DEF Ctx!generateBookings, ContextInv, EventsMade, Ctx!TypeOK, NotYet, Ctx!SeedAssumption
<1>2. loop.event \in 1 .. EVENT_COUNT + 1 /\ DOMAIN events = Ctx!EventNumbers
  <2>1. events \in Seq(Ctx!Event)
    BY DEF ContextInv, Ctx!TypeOK
  <2> QED BY <1>1, <2>1 DEF Ctx!EventNumbers, Ctx!Loop
<1>3. \/ (guests = <<>> \/ loop.event > EVENT_COUNT) /\ Ctx!goto("follows")
      \/ /\ guests # <<>> /\ ~(loop.event > EVENT_COUNT)
         /\ \/ ~Ctx!isBooked(loop.event) /\ loop' = [loop EXCEPT !.event = @ + 1]
            \/ Ctx!throw
            \/ /\ Ctx!isBooked(loop.event)
               /\ \E n \in Ctx!drawn(ATTENDEES, Len(guests)) :
                    loop' = [loop EXCEPT !.pc = "attendees", !.left = n, !.seats = 0]
  BY DEF Ctx!generateBookings
<1>4. ~(loop.event > EVENT_COUNT) => loop.event \in Ctx!EventNumbers
  BY <1>1, <1>2 DEF Ctx!EventNumbers
<1>5. ASSUME loop'.pc \in {"follows", "failed"}, loop' \in Ctx!Loop,
             loop'.pc # "failed" => guests = <<>> \/ loop.event > EVENT_COUNT
      PROVE  ContextInv'
  <2>1. loop'.pc # "failed" => \A e \in DOMAIN events : behind(e) \/ guests = <<>>
    BY <1>1, <1>2, <1>5 DEF behind, Ctx!passed, Ctx!EventNumbers
  <2> QED BY <1>1, <1>5, <2>1, ContextAt DEF ContextInv, Ctx!TypeOK, Ctx!GeneratedOnce
<1>6. CASE (guests = <<>> \/ loop.event > EVENT_COUNT) /\ Ctx!goto("follows")
  <2>1. loop' = [pc |-> "follows", event |-> 1, left |-> loop.left, seats |-> loop.seats]
    BY <1>1, <1>6 DEF Ctx!Loop, Ctx!goto
  <2>2. loop'.pc = "follows" /\ loop' \in Ctx!Loop
    BY <1>1, <2>1 DEF Ctx!Loop
  <2> QED BY <1>5, <1>6, <2>2
<1>7. CASE Ctx!throw
  <2>1. loop'.pc = "failed" /\ loop' \in Ctx!Loop
    BY <1>1, <1>7 DEF Ctx!Loop, Ctx!throw
  <2> QED BY <1>5, <2>1
<1>8. CASE /\ ~(loop.event > EVENT_COUNT)
           /\ ~Ctx!isBooked(loop.event) /\ loop' = [loop EXCEPT !.event = @ + 1]
  BY <1>1, <1>4, <1>8, ContextPassedOver
<1>9. ASSUME ~(loop.event > EVENT_COUNT), guests # <<>>, Ctx!isBooked(loop.event),
             NEW n \in Ctx!drawn(ATTENDEES, Len(guests)),
             loop' = [loop EXCEPT !.pc = "attendees", !.left = n, !.seats = 0]
      PROVE  ContextInv'
  <2>1. n \in Nat
    <3>1. ATTENDEES[1] \in Nat /\ ATTENDEES[2] \in Nat /\ Len(guests) \in Nat
      BY DEF Ctx!SeedAssumption
    <3> QED BY <3>1 DEF Ctx!drawn, Ctx!least
  <2> QED BY <1>1, <1>4, <1>9, <2>1, ContextBegun
<1> QED BY <1>3, <1>6, <1>7, <1>8, <1>9

LEMMA ContextAttendee ==
    ASSUME Ctx!SeedAssumption, ContextInv, Ctx!bookAttendee PROVE ContextInv'
<1>1. /\ loop.pc = "attendees" /\ loop \in Ctx!Loop /\ loop.left > 0
      /\ loop.seats < events[loop.event].capacity
      /\ UNCHANGED <<events, invitations, follows, followers, favorites, partnerships>>
      /\ EVENT_COUNT \in Nat /\ Len(events) = EVENT_COUNT /\ events \in Seq(Ctx!Event)
      /\ loop.event \in DOMAIN events
      /\ Ctx!isBooked(loop.event) /\ guests # <<>> /\ Ctx!confirmedSeats(loop.event) = loop.seats
  BY DEF Ctx!bookAttendee, ContextInv, EventsMade, Ctx!TypeOK, Ctx!SeedAssumption, SeatsCounted
<1>2. /\ DOMAIN events = Ctx!EventNumbers /\ loop.event \in Ctx!EventNumbers
      /\ events[loop.event].capacity \in Nat /\ events[loop.event].maxSeats \in Nat \ {0}
      /\ loop.left \in Nat /\ loop.seats \in Nat
  <2>1. DOMAIN events = Ctx!EventNumbers /\ events[loop.event] \in Ctx!Event
    BY <1>1 DEF Ctx!EventNumbers
  <2> QED BY <1>1, <2>1, CapacityOf DEF Ctx!Loop
\* Whatever the step, the loop is where it was and the events are those there are.
<1>3. ASSUME loop' \in Ctx!Loop, loop'.pc = "attendees", loop'.event = loop.event,
             bookings' \subseteq Ctx!Booking, \A b \in bookings' : b.event <= loop.event,
             \A e \in Ctx!EventNumbers : IsFiniteSet(seatsTaken(e)'),
             \A e \in Ctx!EventNumbers : e # loop.event => Ctx!confirmedSeats(e)' = Ctx!confirmedSeats(e),
             Ctx!confirmedSeats(loop.event)' = loop'.seats,
             loop'.seats <= events[loop.event].capacity,
             \A b, c \in bookings' : b.event = c.event /\ b.user = c.user => b = c
      PROVE  ContextInv'
  <2>1. Ctx!TypeOK' /\ EventsMade' /\ NotYet' /\ CollaboratorsAgree' /\ Ctx!GeneratedOnce'
    BY <1>1, <1>3
    DEF ContextInv, Ctx!TypeOK, EventsMade, NotYet, CollaboratorsAgree, Ctx!GeneratedOnce
  <2>2. BookingsInTurn'
    BY <1>1, <1>3 DEF ContextInv, BookingsInTurn
  <2>3. SeatsCounted'
    BY <1>1, <1>2, <1>3 DEF SeatsCounted, Ctx!isBooked, Ctx!confirmedSeats
  <2>4. CapacityKept'
    BY <1>1, <1>2, <1>3 DEF ContextInv, CapacityKept
  <2>5. FullWhenTaken'
    <3> SUFFICES ASSUME NEW e \in Ctx!EventNumbers, behind(e)', Ctx!isBooked(e)', guests # <<>>
                 PROVE  events[e].status = "full" <=> Ctx!confirmedSeats(e)' = events[e].capacity
      BY <1>1, <1>2 DEF FullWhenTaken
    <3>1. behind(e) /\ Ctx!isBooked(e) /\ e # loop.event
      BY <1>1, <1>2, <1>3 DEF behind, Ctx!passed, Ctx!isBooked, Ctx!EventNumbers
    <3> QED BY <1>2, <1>3, <3>1 DEF ContextInv, FullWhenTaken
  <2> QED BY <2>1, <2>2, <2>3, <2>4, <2>5 DEF ContextInv
<1>4. /\ bookings \subseteq Ctx!Booking /\ \A b \in bookings : b.event <= loop.event
      /\ \A e \in Ctx!EventNumbers : IsFiniteSet(seatsTaken(e))
      /\ \A b, c \in bookings : b.event = c.event /\ b.user = c.user => b = c
  BY <1>1 DEF ContextInv, Ctx!TypeOK, BookingsInTurn, SeatsCounted, Ctx!GeneratedOnce
<1>5. CASE UNCHANGED bookings /\ loop' = [loop EXCEPT !.left = @ - 1]
  <2>1. /\ loop' \in Ctx!Loop /\ loop'.pc = "attendees" /\ loop'.event = loop.event
        /\ loop'.seats = loop.seats
    BY <1>1, <1>2, <1>5 DEF Ctx!Loop
  <2>2. \A e : seatsTaken(e)' = seatsTaken(e) /\ Ctx!confirmedSeats(e)' = Ctx!confirmedSeats(e)
    BY <1>5 DEF seatsTaken, Ctx!confirmedSeats
  <2>3. Ctx!confirmedSeats(loop.event)' = Ctx!confirmedSeats(loop.event)
    BY <2>1, <2>2
  <2> QED BY <1>1, <1>2, <1>3, <1>4, <1>5, <2>1, <2>2, <2>3
<1>6. ASSUME NEW guest \in Ctx!Guests, NEW cancelled \in BOOLEAN,
             ~ \E b \in bookings : b.event = loop.event /\ b.user = guest,
             NEW seats \in IF cancelled THEN 1 .. events[loop.event].maxSeats
                           ELSE {Ctx!least(events[loop.event].maxSeats,
                                       Ctx!atLeastOne(events[loop.event].capacity - loop.seats))},
             bookings' = bookings \cup
                    {[event |-> loop.event, user |-> guest, seats |-> seats,
                      status |-> IF cancelled THEN "cancelled" ELSE "confirmed"]},
             loop' = [loop EXCEPT !.left = @ - 1,
                                  !.seats = @ + IF cancelled THEN 0 ELSE seats]
      PROVE  ContextInv'
  <2> DEFINE new == [event |-> loop.event, user |-> guest, seats |-> seats,
                     status |-> IF cancelled THEN "cancelled" ELSE "confirmed"]
  <2>1. /\ seats \in Nat \ {0}
        /\ ~cancelled => seats <= events[loop.event].capacity - loop.seats
    BY <1>1, <1>2, <1>6 DEF Ctx!least, Ctx!atLeastOne
  <2>2. /\ loop' \in Ctx!Loop /\ loop'.pc = "attendees" /\ loop'.event = loop.event
        /\ loop'.seats = loop.seats + IF cancelled THEN 0 ELSE seats
    <3>1. loop' = [pc |-> "attendees", event |-> loop.event, left |-> loop.left - 1,
                   seats |-> loop.seats + IF cancelled THEN 0 ELSE seats]
      BY <1>1, <1>6 DEF Ctx!Loop
    <3>2. loop.left - 1 \in Nat /\ loop.seats + (IF cancelled THEN 0 ELSE seats) \in Nat
      BY <1>1, <1>2, <2>1
    <3>3. loop.event \in 1 .. EVENT_COUNT + 1
      BY <1>1 DEF Ctx!Loop
    <3> QED BY <3>1, <3>2, <3>3 DEF Ctx!Loop
  <2>3. new \in Ctx!Booking /\ new.event = loop.event /\ new.user = guest /\ new.seats = seats
    BY <1>2, <2>1 DEF Ctx!Booking
  <2>4. bookings' = bookings \cup {new} /\ new \notin bookings
    BY <1>6, <2>3
  <2>5. loop.event <= loop.event
    BY <1>2 DEF Ctx!EventNumbers
  <2>6. /\ bookings' \subseteq Ctx!Booking /\ \A b \in bookings' : b.event <= loop.event
        /\ \A b, c \in bookings' : b.event = c.event /\ b.user = c.user => b = c
    <3> HIDE DEF new
    <3> QED BY <1>4, <1>6, <2>3, <2>4, <2>5
  <2>7. CASE cancelled
    <3>1. new.status # "confirmed"
      BY <2>7
    <3>2. \A e : seatsTaken(e)' = seatsTaken(e) /\ Ctx!confirmedSeats(e)' = Ctx!confirmedSeats(e)
      <4> HIDE DEF new
      <4> QED BY <2>4, <3>1, SeatsKept
    <3>3. loop'.seats = loop.seats
      BY <1>2, <2>2, <2>7
    <3>4. Ctx!confirmedSeats(loop.event)' = Ctx!confirmedSeats(loop.event)
      BY <2>2, <3>2
    <3> QED BY <1>1, <1>2, <1>3, <1>4, <2>2, <2>6, <3>2, <3>3, <3>4
  <2>8. CASE ~cancelled
    <3>1. new.status = "confirmed" /\ new.seats \in Nat
      BY <2>1, <2>8
    <3>2. ASSUME NEW e \in Ctx!EventNumbers
          PROVE  /\ IsFiniteSet(seatsTaken(e)')
                 /\ loop.event # e => Ctx!confirmedSeats(e)' = Ctx!confirmedSeats(e)
                 /\ loop.event = e => Ctx!confirmedSeats(e)' = Ctx!confirmedSeats(e) + seats
      <4>1. IsFiniteSet(seatsTaken(e))
        BY <1>4
      <4> HIDE DEF new
      <4> QED BY <2>3, <2>4, <3>1, <4>1, SeatsAdded
    <3>3. Ctx!confirmedSeats(loop.event)' = loop'.seats
      <4>1. \A e \in Ctx!EventNumbers : loop.event = e => Ctx!confirmedSeats(e)' = Ctx!confirmedSeats(e) + seats
        BY <3>2
      <4>2. Ctx!confirmedSeats(loop.event)' = loop.seats + seats
        BY <1>1, <1>2, <2>2, <4>1
      <4> QED BY <2>2, <2>8, <4>2
    <3>4. loop'.seats <= events[loop.event].capacity
      BY <1>2, <2>1, <2>2, <2>8
    <3> QED BY <1>3, <2>2, <2>6, <3>2, <3>3, <3>4
  <2> QED BY <2>7, <2>8
<1> QED BY <1>5, <1>6 DEF Ctx!bookAttendee

LEMMA ContextBookedEvent ==
    ASSUME Ctx!SeedAssumption, ContextInv, Ctx!bookedEvent PROVE ContextInv'
<1> DEFINE last == loop.event
<1>1. /\ loop.pc = "attendees" /\ loop \in Ctx!Loop
      /\ UNCHANGED <<invitations, bookings, follows, followers, favorites, partnerships>>
      /\ loop' = [loop EXCEPT !.pc = "bookings", !.event = @ + 1, !.left = 0, !.seats = 0]
      /\ events' = IF loop.seats >= events[last].capacity
                   THEN [events EXCEPT ![last].status = "full"] ELSE events
      /\ EVENT_COUNT \in Nat /\ Len(events) = EVENT_COUNT /\ events \in Seq(Ctx!Event)
      /\ last \in DOMAIN events
      /\ Ctx!isBooked(last) /\ guests # <<>> /\ Ctx!confirmedSeats(last) = loop.seats
      /\ loop.seats <= events[last].capacity
  BY DEF Ctx!bookedEvent, ContextInv, EventsMade, Ctx!TypeOK, Ctx!SeedAssumption, SeatsCounted
<1>2. /\ DOMAIN events = Ctx!EventNumbers /\ last \in Ctx!EventNumbers
      /\ events[last].capacity \in Nat /\ loop.seats \in Nat
      /\ \A e \in Ctx!EventNumbers : events[e] \in Ctx!Event
  <2>1. DOMAIN events = Ctx!EventNumbers /\ \A e \in Ctx!EventNumbers : events[e] \in Ctx!Event
    BY <1>1 DEF Ctx!EventNumbers
  <2>2. last \in Ctx!EventNumbers
    BY <1>1, <2>1
  <2> QED BY <1>1, <2>1, <2>2, CapacityOf DEF Ctx!Loop
<1>3. /\ loop' \in Ctx!Loop /\ loop'.pc = "bookings" /\ loop'.event = last + 1
  <2>1. loop' = [pc |-> "bookings", event |-> last + 1, left |-> 0, seats |-> 0]
    BY <1>1 DEF Ctx!Loop
  <2>2. last + 1 \in 1 .. EVENT_COUNT + 1
    BY <1>1, <1>2 DEF Ctx!EventNumbers
  <2> QED BY <2>1, <2>2 DEF Ctx!Loop
<1>4. /\ events' \in Seq(Ctx!Event) /\ Len(events') = EVENT_COUNT /\ DOMAIN events' = Ctx!EventNumbers
      /\ \A e \in Ctx!EventNumbers :
            /\ events'[e].capacity = events[e].capacity
            /\ events'[e].collaborators = events[e].collaborators
            /\ e # last => events'[e].status = events[e].status
      /\ loop.seats = events[last].capacity => events'[last].status = "full"
      /\ loop.seats < events[last].capacity => events'[last].status = events[last].status
  <2>1. CASE loop.seats = events[last].capacity
    <3> DEFINE new == [events[last] EXCEPT !.status = "full"]
    <3>1. new \in Ctx!Event /\ new.status = "full" /\ new.capacity = events[last].capacity
          /\ new.collaborators = events[last].collaborators
      <4>1. events[last] \in Ctx!Event
        BY <1>2
      <4> HIDE DEF last
      <4> QED BY <4>1 DEF Ctx!Event
    <3>2. events' = [events EXCEPT ![last] = new]
      BY <1>1, <1>2, <2>1
    <3> HIDE DEF new, last
    <3>3. events' \in Seq(Ctx!Event) /\ Len(events') = EVENT_COUNT
      BY <1>1, <3>1, <3>2
    <3>4. DOMAIN events' = Ctx!EventNumbers /\ \A e \in Ctx!EventNumbers : events'[e] = IF e = last THEN new ELSE events[e]
      BY <1>1, <1>2, <3>2
    <3> QED BY <1>2, <2>1, <3>1, <3>3, <3>4
  <2>2. CASE loop.seats < events[last].capacity
    BY <1>1, <1>2, <2>2
  <2> QED BY <1>1, <1>2, <2>1, <2>2
<1>5. Ctx!TypeOK' /\ EventsMade' /\ NotYet' /\ CollaboratorsAgree' /\ Ctx!GeneratedOnce'
  <2>1. Ctx!TypeOK'
    BY <1>1, <1>3, <1>4 DEF ContextInv, Ctx!TypeOK
  <2>2. EventsMade' /\ NotYet' /\ Ctx!GeneratedOnce'
    BY <1>1, <1>3, <1>4 DEF ContextInv, EventsMade, NotYet, Ctx!GeneratedOnce
  <2>3. CollaboratorsAgree'
    BY <1>1, <1>2, <1>4 DEF ContextInv, CollaboratorsAgree
  <2> QED BY <2>1, <2>2, <2>3
<1>6. BookingsInTurn'
  <2>1. /\ \A b \in bookings : b.event \in Nat /\ b.event <= last
        /\ \A e \in Ctx!EventNumbers : last <= e => events[e].status # "full"
        /\ last \in Nat /\ \A e \in Ctx!EventNumbers : e \in Nat
    BY <1>1, <1>2 DEF ContextInv, Ctx!TypeOK, Ctx!Booking, Ctx!EventNumbers, BookingsInTurn
  <2> QED BY <1>1, <1>3, <1>4, <2>1 DEF BookingsInTurn
<1>7. \A e : seatsTaken(e)' = seatsTaken(e) /\ Ctx!confirmedSeats(e)' = Ctx!confirmedSeats(e)
  BY <1>1 DEF seatsTaken, Ctx!confirmedSeats
<1>8. SeatsCounted' /\ CapacityKept'
  <2>1. SeatsCounted'
    <3>1. \A e \in Ctx!EventNumbers : IsFiniteSet(seatsTaken(e))'
      BY <1>7 DEF ContextInv, SeatsCounted
    <3>2. loop'.pc # "attendees"
      BY <1>3
    <3> QED BY <3>1, <3>2 DEF SeatsCounted
  <2>2. ASSUME NEW e \in Ctx!EventNumbers, events'[e].capacity # 0
        PROVE  Ctx!confirmedSeats(e)' <= events'[e].capacity
    <3>1. Ctx!confirmedSeats(e)' = Ctx!confirmedSeats(e) /\ events'[e].capacity = events[e].capacity
      BY <1>1, <1>4 DEF Ctx!confirmedSeats, seatsTaken
    <3> QED BY <1>2, <2>2, <3>1 DEF ContextInv, CapacityKept
  <2>3. CapacityKept'
    BY <1>4, <2>2 DEF CapacityKept
  <2> QED BY <2>1, <2>3
<1>9. FullWhenTaken'
  <2> SUFFICES ASSUME NEW e \in Ctx!EventNumbers, behind(e)', Ctx!isBooked(e)', guests # <<>>
               PROVE  events'[e].status = "full" <=> Ctx!confirmedSeats(e) = events[e].capacity
    <3>1. \A e \in Ctx!EventNumbers :
            /\ events'[e].capacity = events[e].capacity
            /\ Ctx!confirmedSeats(e)' = Ctx!confirmedSeats(e)
      BY <1>1, <1>4 DEF Ctx!confirmedSeats, seatsTaken
    <3> QED BY <1>4, <3>1 DEF FullWhenTaken
  <2>1. CASE e = last
    <3>1. events[last].status # "full"
      <4>1. last \in DOMAIN events /\ last <= last
        BY <1>1, <1>2 DEF Ctx!EventNumbers
      <4> QED BY <1>1, <4>1 DEF ContextInv, BookingsInTurn
    <3>2. loop.seats = events[last].capacity \/ loop.seats < events[last].capacity
      BY <1>1, <1>2
    <3> QED BY <1>1, <1>2, <1>4, <2>1, <3>1, <3>2
  <2>2. CASE e # last
    <3>1. e < last
      BY <1>2, <1>3, <2>2 DEF behind, Ctx!passed, Ctx!EventNumbers
    <3>2. behind(e) /\ Ctx!isBooked(e)
      BY <1>1, <1>4, <2>2, <3>1 DEF behind, Ctx!isBooked
    <3>3. events[e].status = "full" <=> Ctx!confirmedSeats(e) = events[e].capacity
      BY <1>2, <3>2 DEF ContextInv, FullWhenTaken
    <3> QED BY <1>4, <2>2, <3>3 DEF Ctx!EventNumbers
  <2> QED BY <2>1, <2>2
<1> QED BY <1>5, <1>6, <1>8, <1>9 DEF ContextInv

\* What the last three generators share: the bookings are made, nothing is left of the loop.
LEMMA ContextAfter ==
    ASSUME ContextInv, loop.pc \in {"follows", "favorites", "partnerships"}
    PROVE  \A e \in DOMAIN events : behind(e)
BY DEF behind, Ctx!passed

LEMMA LoopMoves ==
    ASSUME Ctx!SeedAssumption, loop \in Ctx!Loop
    PROVE  /\ \A pc \in {"favorites", "partnerships", "done"} :
                Ctx!goto(pc) => loop' \in Ctx!Loop /\ loop'.pc = pc
           /\ Ctx!throw => loop' \in Ctx!Loop /\ loop'.pc = "failed"
<1>1. ASSUME NEW pc \in {"favorites", "partnerships", "done"}, Ctx!goto(pc)
      PROVE  loop' \in Ctx!Loop /\ loop'.pc = pc
  <2>1. loop' = [pc |-> pc, event |-> 1, left |-> loop.left, seats |-> loop.seats]
    BY <1>1 DEF Ctx!Loop, Ctx!goto
  <2>2. 1 \in 1 .. EVENT_COUNT + 1
    BY DEF Ctx!SeedAssumption
  <2> QED BY <2>1, <2>2 DEF Ctx!Loop
<1>2. Ctx!throw => loop' \in Ctx!Loop /\ loop'.pc = "failed"
  BY DEF Ctx!Loop, Ctx!throw
<1> QED BY <1>1, <1>2

LEMMA ContextFollows ==
    ASSUME Ctx!SeedAssumption, ContextInv, Ctx!generateFollows PROVE ContextInv'
<1>1. /\ loop.pc = "follows" /\ loop \in Ctx!Loop
      /\ UNCHANGED <<events, invitations, bookings, favorites, partnerships>>
      /\ follows \subseteq Ctx!Follow /\ followers \in [Ctx!People -> Nat]
      /\ favorites \subseteq Ctx!Favorite /\ partnerships = {}
  BY DEF Ctx!generateFollows, ContextInv, Ctx!TypeOK, NotYet
<1>2. CASE Ctx!throw /\ UNCHANGED <<follows, followers>>
  <2>1. loop' \in Ctx!Loop /\ loop'.pc = "failed"
    BY <1>1, <1>2, LoopMoves
  <2> QED BY <1>1, <1>2, <2>1, ContextAfter, ContextAt
<1>3. ASSUME NEW byGuests \in [Ctx!Guests -> SUBSET Ctx!Creators],
             NEW byCreators \in [Ctx!Creators -> SUBSET Ctx!Creators],
             follows' = Ctx!followsOf(byGuests) \cup Ctx!followsOf(byCreators),
             followers' = [u \in Ctx!People |-> Cardinality({f \in follows' : f.following = u})],
             Ctx!goto("favorites")
      PROVE  ContextInv'
  <2>1. follows' \subseteq Ctx!Follow
    BY <1>3 DEF Ctx!followsOf, Ctx!Follow, Ctx!People
  <2>2. followers' \in [Ctx!People -> Nat]
    <3>1. \A u \in Ctx!People : {f \in follows' : f.following = u} \in SUBSET Ctx!Follow
      BY <2>1
    <3>2. \A u \in Ctx!People : Cardinality({f \in follows' : f.following = u}) \in Nat
      BY <3>1, FollowsFinite, FS_CardinalityType
    <3> QED BY <1>3, <3>2
  <2>3. loop' \in Ctx!Loop /\ loop'.pc = "favorites"
    BY <1>1, <1>3, LoopMoves
  <2> QED BY <1>1, <2>1, <2>2, <2>3, ContextAfter, ContextAt
<1>4. \/ Ctx!throw /\ UNCHANGED <<follows, followers>>
      \/ \E byGuests \in [Ctx!Guests -> SUBSET Ctx!Creators],
            byCreators \in [Ctx!Creators -> SUBSET Ctx!Creators] :
                /\ follows' = Ctx!followsOf(byGuests) \cup Ctx!followsOf(byCreators)
                /\ followers' = [u \in Ctx!People |->
                        Cardinality({f \in follows' : f.following = u})]
                /\ Ctx!goto("favorites")
  <2>1. \A counts : Ctx!picks(Ctx!Creators, counts) \subseteq SUBSET Ctx!Creators
    BY DEF Ctx!picks
  <2> DEFINE ofGuest   == Ctx!drawn(GUEST_FOLLOWS, Len(creators))
             ofCreator == Ctx!drawn(CREATOR_FOLLOWS, Ctx!atLeastOne(Len(creators) - 1))
             G == Ctx!picks(Ctx!Creators, ofGuest)
             C == Ctx!picks(Ctx!Creators, ofCreator) \cup Ctx!picks(Ctx!Creators, {0})
  <2>2. G \subseteq SUBSET Ctx!Creators /\ C \subseteq SUBSET Ctx!Creators
    BY <2>1
  <2>3. \/ Ctx!throw /\ UNCHANGED <<follows, followers>>
        \/ /\ \E byGuests \in [Ctx!Guests -> G], byCreators \in [Ctx!Creators -> C] :
                  follows' = Ctx!followsOf(byGuests) \cup Ctx!followsOf(byCreators)
           /\ followers' = [u \in Ctx!People |->
                    Cardinality({f \in follows' : f.following = u})]
           /\ Ctx!goto("favorites")
    BY ContextSets DEF Ctx!generateFollows
  <2> HIDE DEF G, C
  <2> QED BY <2>2, <2>3
<1> QED BY <1>2, <1>3, <1>4

LEMMA ContextFavorites ==
    ASSUME Ctx!SeedAssumption, ContextInv, Ctx!generateFavorites PROVE ContextInv'
<1>1. /\ loop.pc = "favorites" /\ loop \in Ctx!Loop
      /\ UNCHANGED <<events, invitations, bookings, follows, followers, partnerships>>
      /\ follows \subseteq Ctx!Follow /\ followers \in [Ctx!People -> Nat]
      /\ favorites \subseteq Ctx!Favorite /\ partnerships = {}
  BY DEF Ctx!generateFavorites, ContextInv, Ctx!TypeOK, NotYet
<1>2. favorites' \subseteq Ctx!Favorite /\ (Ctx!goto("partnerships") \/ Ctx!throw)
  <2>1. ASSUME NEW f \in [Ctx!Guests -> Ctx!picks(Ctx!Sites, Ctx!drawn(FAVORITES,
               Cardinality(Ctx!Sites)))],
               favorites' = UNION {{[user |-> g, place |-> p] : p \in f[g]} : g \in Ctx!Guests}
        PROVE  favorites' \subseteq Ctx!Favorite
    <3>1. \A g \in Ctx!Guests : f[g] \subseteq Ctx!Creators
      <4>1. Ctx!picks(Ctx!Sites, Ctx!drawn(FAVORITES, Cardinality(Ctx!Sites))) \subseteq SUBSET Ctx!Creators
        BY PlacesOfCreators DEF Ctx!picks
      <4> QED BY <4>1
    <3> QED BY <2>1, <3>1 DEF Ctx!Favorite
  <2> QED BY <1>1, <2>1, ContextSets DEF Ctx!generateFavorites
<1>3. loop' \in Ctx!Loop /\ loop'.pc \in {"partnerships", "failed"}
  BY <1>1, <1>2, LoopMoves
<1> QED BY <1>1, <1>2, <1>3, ContextAfter, ContextAt

LEMMA ContextPartnerships ==
    ASSUME Ctx!SeedAssumption, ContextInv, Ctx!generatePartnerships PROVE ContextInv'
<1>1. /\ loop.pc = "partnerships" /\ loop \in Ctx!Loop /\ Ctx!goto("done")
      /\ UNCHANGED <<events, invitations, bookings, follows, followers, favorites>>
      /\ follows \subseteq Ctx!Follow /\ followers \in [Ctx!People -> Nat]
      /\ favorites \subseteq Ctx!Favorite
  BY DEF Ctx!generatePartnerships, ContextInv, Ctx!TypeOK
<1>2. PICK Asking \in SUBSET Ctx!creatorsWithPlace :
        \E who \in [Asking -> Ctx!Sites],
           answer \in [Asking -> {"pending", "accepted", "refused"}] :
                partnerships' = Ctx!partnershipsOf(Asking, who, answer)
  <2> DEFINE owners == Cardinality(Ctx!creatorsWithPlace)
             Asking == IF owners < 2 THEN {} ELSE Ctx!asking(Ctx!share(owners, PARTNERSHIP_PERCENT))
  <2>1. Asking \in SUBSET Ctx!creatorsWithPlace
    BY DEF Ctx!asking
  <2>2. \E who \in [Asking -> Ctx!Sites],
           answer \in [Asking -> {"pending", "accepted", "refused"}] :
                partnerships' = Ctx!partnershipsOf(Asking, who, answer)
    BY ContextSets DEF Ctx!generatePartnerships
  <2> HIDE DEF Asking
  <2> QED BY <2>1, <2>2
<1>3. PICK who \in [Asking -> Ctx!Sites],
           answer \in [Asking -> {"pending", "accepted", "refused"}] :
                partnerships' = Ctx!partnershipsOf(Asking, who, answer)
  BY <1>2
<1>4. \A i \in Asking : i \in Int /\ creators[i] \in Ctx!Creators /\ who[i] \in Ctx!Creators
                        /\ answer[i] \in {"pending", "accepted", "refused"}
  <2>1. \A i \in Asking : i \in DOMAIN creators /\ i \in Int
    <3>1. DOMAIN creators = 1 .. Len(creators) /\ Len(creators) \in Nat
      BY DEF Ctx!SeedAssumption
    <3>2. Ctx!creatorsWithPlace \subseteq DOMAIN creators
      BY DEF Ctx!creatorsWithPlace
    <3> QED BY <3>1, <3>2
  <2> QED BY <2>1, CreatorsInPlace, PlacesOfCreators
<1>5. partnerships' \subseteq Ctx!Partnership
  BY <1>3, <1>4 DEF Ctx!partnershipsOf, Ctx!Partnership
<1>6. ASSUME NEW p \in partnerships', NEW q \in partnerships',
             {p.initiator, p.collaborator} = {q.initiator, q.collaborator}
      PROVE  p = q
  <2> DEFINE first(i) == \A j \in Asking :
                            {creators[j], who[j]} = {creators[i], who[i]} => i <= j
             made(i) == [initiator |-> creators[i], collaborator |-> who[i],
                         status |-> answer[i]]
  <2>1. PICK i \in Asking : first(i) /\ p = made(i)
    BY <1>3 DEF Ctx!partnershipsOf
  <2>2. PICK j \in Asking : first(j) /\ q = made(j)
    BY <1>3 DEF Ctx!partnershipsOf
  <2>3. {creators[j], who[j]} = {creators[i], who[i]}
    BY <1>6, <2>1, <2>2
  <2>4. i <= j /\ j <= i
    BY <2>1, <2>2, <2>3
  <2>5. i = j
    BY <1>4, <2>4
  <2> QED BY <2>1, <2>2, <2>5
<1>7. loop' \in Ctx!Loop /\ loop'.pc = "done"
  BY <1>1, LoopMoves
<1> QED BY <1>1, <1>5, <1>6, <1>7, ContextAfter, ContextAt

LEMMA ContextNext == ASSUME Ctx!SeedAssumption PROVE ContextInv /\ [Ctx!Next]_Ctx!vars => ContextInv'
<1> SUFFICES ASSUME ContextInv, [Ctx!Next]_Ctx!vars PROVE ContextInv'
  OBVIOUS
<1>1. CASE Ctx!Next
  BY <1>1, ContextGenerateEvent, ContextGeneratedEvents, ContextInvitations, ContextBookings,
     ContextAttendee, ContextBookedEvent, ContextFollows, ContextFavorites, ContextPartnerships
  DEF Ctx!Next
<1>2. CASE UNCHANGED Ctx!vars
  BY <1>2
  DEF Ctx!vars, ContextInv, Ctx!TypeOK, EventsMade, NotYet, BookingsInTurn, SeatsCounted,
      CapacityKept,
      FullWhenTaken, CollaboratorsAgree, Ctx!GeneratedOnce, seatsTaken, Ctx!confirmedSeats,
      Ctx!isBooked,
      behind, Ctx!passed
<1> QED BY <1>1, <1>2

LEMMA ContextInvariant == ASSUME Ctx!SeedAssumption PROVE Ctx!Spec => []ContextInv
BY ContextInit, ContextNext, PTL DEF Ctx!Spec

\* For any generated users, ranges and percentages: every document the generators make up
\* has its types, and the events are one for each number asked for.
THEOREM GeneratedTypes == ASSUME Ctx!SeedAssumption PROVE Ctx!Spec => []Ctx!TypeOK
<1>1. ContextInv => Ctx!TypeOK
  BY DEF ContextInv
<1> QED BY <1>1, ContextInvariant, PTL

\* For any of them: no event is given more confirmed seats than it has, it is full when
\* they are all taken and only then, and the collaborators of a schedule are those whose
\* invitation was made up as accepted (generators/bookings.ts, relations.ts:24-130).
THEOREM FiguresAreGenerated == ASSUME Ctx!SeedAssumption PROVE Ctx!Spec => []Ctx!GeneratedFigures
<1>1. ContextInv => Ctx!GeneratedFigures
  BY DEF ContextInv, CapacityKept, FullWhenTaken, CollaboratorsAgree, behind,
     Ctx!GeneratedFigures
<1> QED BY <1>1, ContextInvariant, PTL

\* For any of them: a guest has one booking at an event, although guests come up again in
\* the rotation, and two creators have one partnership, whoever of them asked
\* (bookings.ts, relations.ts:224-258).
THEOREM PairsAreGeneratedOnce == ASSUME Ctx!SeedAssumption PROVE Ctx!Spec => []Ctx!GeneratedOnce
<1>1. ContextInv => Ctx!GeneratedOnce
  BY DEF ContextInv
<1> QED BY <1>1, ContextInvariant, PTL
=============================================================================
