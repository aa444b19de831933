------------------------- MODULE ServicePartsProofs --------------------------
(***************************************************************************)
(* Proofs about OwnershipParts and ServiceParts, the way SocialPartsProofs *)
(* has them about SocialParts and AccountParts: what the theorems about    *)
(* the components say of every part holds of the compositions.             *)
(***************************************************************************)
EXTENDS OwnershipParts, ServiceParts, TLAPS

\* What the proofs about the components speak of besides, whatever its value.
CONSTANTS
    creators, guests, Sited, EVENT_COUNT, Capacities, SeatLimits, PLACE_PERCENT,
    INVITATION_PERCENT, PARTNERSHIP_PERCENT, ATTENDEES, GUEST_FOLLOWS,
    CREATOR_FOLLOWS, FAVORITES, FollowIds, Members, Authors, ReviewIds, Ratings,
    ReviewedPlaces, ReviewedEvents, Slugs, AnnouncementIds, Texts,
    NotificationIds, Notifiers, ConversationIds, MessageIds, Listeners,
    Creators, PartnershipIds

VARIABLES
    doc, accounts, events, invitations, bookings, follows, followers, favorites,
    partnerships, loop, missed, reviews, rating, stale, announcements,
    notifications, optedIn, mails, conversations, messages, sockets, pushed,
    excused

\* Cascades and the seed script, one request at a time.
Cascades == INSTANCE OwnershipProofs WITH
    doc <- content, place <- position, accounts <- members, Reviews <- {},
    Comments <- {}, Images <- {}, Requests <- {alone}

\* Reviews, comments and images, one request at a time.
Discussions == INSTANCE OwnershipProofs WITH
    doc <- content, place <- position, accounts <- members,
    Places <- OtherPlaces, Images <- OtherImages, Favorites <- {},
    Notifications <- {}, Requests <- {alone}

\* Images, several requests at once.
Pictures == INSTANCE OwnershipProofs WITH
    doc <- content, place <- position, accounts <- members, Users <- OtherUsers,
    Places <- {}, Reviews <- {}, Comments <- {}, Favorites <- {},
    Notifications <- {}

\* The routes, the events of the map and the week, one request at a time.
Callers == INSTANCE CollectionProofs WITH
    Requests <- {alone}, Members <- Users, Served <- allRoutes,
    Boxes <- FewBoxes, Kinds <- {"events"}

\* Some routes, products, and the places of the map, several requests at once.
Crowd == INSTANCE CollectionProofs WITH
    Users <- OtherUsers, accounts <- sellers, Members <- Admins, Events <- {},
    Kinds <- {"places"}

\* The other cached reads, one request at a time.
Lookups == INSTANCE CollectionProofs WITH
    Requests <- {alone}, Places <- {}, Events <- {}, Positions <- {},
    Boxes <- {}, Kinds <- {"categories", "suggest", "reverse"}

-----------------------------------------------------------------------------
(* OWNERSHIP AND CASCADES                                                  *)

\* No step changes the part that runs.
LEMMA OwnershipKeepsPart == [OwnershipNext]_ownershipVars => part' = part
BY Zenon DEF OwnershipNext, ownershipVars

\* In the part named "cascade", the formulas are those of Ownership.
LEMMA CascadeSame ==
    /\ Cascade!Init <=> Cascades!Init
    /\ [Cascade!Next]_Cascade!vars <=> [Cascades!Next]_Cascades!vars
    /\ Cascade!OwnershipAssumption <=> Cascades!OwnershipAssumption
    /\ Cascade!TypeOK <=> Cascades!TypeOK
    /\ Cascade!NoDangling <=> Cascades!NoDangling
    /\ Cascade!PlaceLinkAgrees <=> Cascades!PlaceLinkAgrees
BY ZenonT(60) DEF
    Cascade!Ids, Cascade!OwnershipAssumption, Cascade!vars, Cascade!Absent, Cascade!Removed,
    Cascade!Docs, Cascade!PlaceDocs, Cascade!ReviewDocs, Cascade!CommentDocs,
    Cascade!ImageDocs, Cascade!FavoriteDocs, Cascade!NotificationDocs, Cascade!EventDocs,
    Cascade!Idle, Cascade!Steps, Cascade!TypeOK, Cascade!Init, Cascade!stored,
    Cascade!findIdsByReferences, Cascade!findIdsByOwner, Cascade!free, Cascade!save,
    Cascade!deleteMany, Cascade!findByUserAndReference, Cascade!linkPlace, Cascade!become,
    Cascade!goto, Cascade!start, Cascade!documents, Cascade!RequestFail,
    Cascade!assertCanCreatePlace, Cascade!CreatePlaceFind, Cascade!CreatePlaceSave,
    Cascade!CreatePlaceLink, Cascade!UpdateUserFind, Cascade!UpdateUserWrite,
    Cascade!placeOwned, Cascade!CreateEventFind, Cascade!CreateReviewFind,
    Cascade!commentReferenceExists, Cascade!CreateCommentFind, Cascade!CreateFavoriteFind,
    Cascade!NotifyFind, Cascade!CreateSave, Cascade!imageReferenceOwned, Cascade!UploadFind,
    Cascade!upload, Cascade!saveMany, Cascade!DeleteOwnFind, Cascade!DeleteReviewFind,
    Cascade!DeleteCommentFind, Cascade!DeleteFavoriteFind, Cascade!DeleteOwn,
    Cascade!afterEvents, Cascade!deleteEvents, Cascade!DeleteEventFind,
    Cascade!DeletePlaceFind, Cascade!findIdsByPlace, Cascade!deleteReviewsFind,
    Cascade!afterThreads, Cascade!deleteCommentThreadsFind, Cascade!deleteCommentThreads,
    Cascade!deleteReviewsOn, Cascade!deleteAllByReference, Cascade!deleteByReferences,
    Cascade!deleteImages, Cascade!findImageIds, Cascade!DeleteImagesFind,
    Cascade!DeleteImagesLoad, Cascade!DeleteImagesDelete, Cascade!DeleteImagesFiles,
    Cascade!deleteManyByIds, Cascade!deletePlace, Cascade!deleteUser,
    Cascade!DeletePlaceUnlink, Cascade!AccountFind, Cascade!AccountPlaces,
    Cascade!AccountNextPlace, Cascade!AccountEvents, Cascade!deleteAllByUserId,
    Cascade!deleteByUser, Cascade!AccountImages, Cascade!AccountReferences, Cascade!Step,
    Cascade!Next, Cascade!NoDangling, Cascade!PlaceLinkAgrees, Cascades!Ids,
    Cascades!OwnershipAssumption, Cascades!vars, Cascades!Absent, Cascades!Removed,
    Cascades!Docs, Cascades!PlaceDocs, Cascades!ReviewDocs, Cascades!CommentDocs,
    Cascades!ImageDocs, Cascades!FavoriteDocs, Cascades!NotificationDocs,
    Cascades!EventDocs, Cascades!Idle, Cascades!Steps, Cascades!TypeOK, Cascades!Init,
    Cascades!stored, Cascades!findIdsByReferences, Cascades!findIdsByOwner, Cascades!free,
    Cascades!save, Cascades!deleteMany, Cascades!findByUserAndReference, Cascades!linkPlace,
    Cascades!become, Cascades!goto, Cascades!start, Cascades!documents,
    Cascades!RequestFail, Cascades!assertCanCreatePlace, Cascades!CreatePlaceFind,
    Cascades!CreatePlaceSave, Cascades!CreatePlaceLink, Cascades!UpdateUserFind,
    Cascades!UpdateUserWrite, Cascades!placeOwned, Cascades!CreateEventFind,
    Cascades!CreateReviewFind, Cascades!commentReferenceExists, Cascades!CreateCommentFind,
    Cascades!CreateFavoriteFind, Cascades!NotifyFind, Cascades!CreateSave,
    Cascades!imageReferenceOwned, Cascades!UploadFind, Cascades!upload, Cascades!saveMany,
    Cascades!DeleteOwnFind, Cascades!DeleteReviewFind, Cascades!DeleteCommentFind,
    Cascades!DeleteFavoriteFind, Cascades!DeleteOwn, Cascades!afterEvents,
    Cascades!deleteEvents, Cascades!DeleteEventFind, Cascades!DeletePlaceFind,
    Cascades!findIdsByPlace, Cascades!deleteReviewsFind, Cascades!afterThreads,
    Cascades!deleteCommentThreadsFind, Cascades!deleteCommentThreads,
    Cascades!deleteReviewsOn, Cascades!deleteAllByReference, Cascades!deleteByReferences,
    Cascades!deleteImages, Cascades!findImageIds, Cascades!DeleteImagesFind,
    Cascades!DeleteImagesLoad, Cascades!DeleteImagesDelete, Cascades!DeleteImagesFiles,
    Cascades!deleteManyByIds, Cascades!deletePlace, Cascades!deleteUser,
    Cascades!DeletePlaceUnlink, Cascades!AccountFind, Cascades!AccountPlaces,
    Cascades!AccountNextPlace, Cascades!AccountEvents, Cascades!deleteAllByUserId,
    Cascades!deleteByUser, Cascades!AccountImages, Cascades!AccountReferences,
    Cascades!Step, Cascades!Next, Cascades!NoDangling, Cascades!PlaceLinkAgrees

LEMMA CascadeRuns ==
    OwnershipSpec =>
        /\ [](part = "cascade" => Cascade!TypeOK)
        /\ [](part = "cascade" => Cascade!NoDangling)
        /\ [](part = "cascade" => Cascade!PlaceLinkAgrees)
<1>1. part = "cascade" /\ OwnershipInit => Cascades!Init
  BY Zenon, CascadeSame DEF OwnershipInit
<1>2. part = "cascade" /\ [OwnershipNext]_ownershipVars => [Cascades!Next]_Cascades!vars
  BY Zenon, CascadeSame
  DEF OwnershipNext, ownershipVars, contentVars, productVars, seedVars, Cascade!vars
<1>3. /\ part = "cascade" /\ [OwnershipNext]_ownershipVars => (part = "cascade")'
      /\ ~(part = "cascade") /\ [OwnershipNext]_ownershipVars => ~(part = "cascade")'
  BY Zenon, OwnershipKeepsPart
<1>4. Cascades!Spec =>
        /\ []Cascades!TypeOK
        /\ []Cascades!NoDangling
        /\ []Cascades!PlaceLinkAgrees
  BY CascadeSame, OwnershipPartsAssumption, Cascades!OwnershipTypes,
     Cascades!NothingDangles, Cascades!PlaceLinksAgree
  DEF OwnershipPartsAssumption
<1> QED BY CascadeSame, <1>1, <1>2, <1>3, <1>4, PTL
       DEF OwnershipSpec, Cascades!Spec

\* In the part named "threads", the formulas are those of Ownership.
LEMMA ThreadsSame ==
    /\ Threads!Init <=> Discussions!Init
    /\ [Threads!Next]_Threads!vars <=> [Discussions!Next]_Discussions!vars
    /\ Threads!OwnershipAssumption <=> Discussions!OwnershipAssumption
    /\ Threads!TypeOK <=> Discussions!TypeOK
    /\ Threads!NoDangling <=> Discussions!NoDangling
    /\ Threads!ImagesHaveFiles <=> Discussions!ImagesHaveFiles
BY ZenonT(60) DEF
    Threads!Ids, Threads!OwnershipAssumption, Threads!vars, Threads!Absent, Threads!Removed,
    Threads!Docs, Threads!PlaceDocs, Threads!ReviewDocs, Threads!CommentDocs,
    Threads!ImageDocs, Threads!FavoriteDocs, Threads!NotificationDocs, Threads!EventDocs,
    Threads!Idle, Threads!Steps, Threads!TypeOK, Threads!Init, Threads!stored,
    Threads!findIdsByReferences, Threads!findIdsByOwner, Threads!free, Threads!save,
    Threads!deleteMany, Threads!findByUserAndReference, Threads!linkPlace, Threads!become,
    Threads!goto, Threads!start, Threads!documents, Threads!RequestFail,
    Threads!assertCanCreatePlace, Threads!CreatePlaceFind, Threads!CreatePlaceSave,
    Threads!CreatePlaceLink, Threads!UpdateUserFind, Threads!UpdateUserWrite,
    Threads!placeOwned, Threads!CreateEventFind, Threads!CreateReviewFind,
    Threads!commentReferenceExists, Threads!CreateCommentFind, Threads!CreateFavoriteFind,
    Threads!NotifyFind, Threads!CreateSave, Threads!imageReferenceOwned, Threads!UploadFind,
    Threads!upload, Threads!saveMany, Threads!DeleteOwnFind, Threads!DeleteReviewFind,
    Threads!DeleteCommentFind, Threads!DeleteFavoriteFind, Threads!DeleteOwn,
    Threads!afterEvents, Threads!deleteEvents, Threads!DeleteEventFind,
    Threads!DeletePlaceFind, Threads!findIdsByPlace, Threads!deleteReviewsFind,
    Threads!afterThreads, Threads!deleteCommentThreadsFind, Threads!deleteCommentThreads,
    Threads!deleteReviewsOn, Threads!deleteAllByReference, Threads!deleteByReferences,
    Threads!deleteImages, Threads!findImageIds, Threads!DeleteImagesFind,
    Threads!DeleteImagesLoad, Threads!DeleteImagesDelete, Threads!DeleteImagesFiles,
    Threads!deleteManyByIds, Threads!deletePlace, Threads!deleteUser,
    Threads!DeletePlaceUnlink, Threads!AccountFind, Threads!AccountPlaces,
    Threads!AccountNextPlace, Threads!AccountEvents, Threads!deleteAllByUserId,
    Threads!deleteByUser, Threads!AccountImages, Threads!AccountReferences, Threads!Step,
    Threads!Next, Threads!NoDangling, Threads!ImagesHaveFiles, Discussions!Ids,
    Discussions!OwnershipAssumption, Discussions!vars, Discussions!Absent,
    Discussions!Removed, Discussions!Docs, Discussions!PlaceDocs, Discussions!ReviewDocs,
    Discussions!CommentDocs, Discussions!ImageDocs, Discussions!FavoriteDocs,
    Discussions!NotificationDocs, Discussions!EventDocs, Discussions!Idle,
    Discussions!Steps, Discussions!TypeOK, Discussions!Init, Discussions!stored,
    Discussions!findIdsByReferences, Discussions!findIdsByOwner, Discussions!free,
    Discussions!save, Discussions!deleteMany, Discussions!findByUserAndReference,
    Discussions!linkPlace, Discussions!become, Discussions!goto, Discussions!start,
    Discussions!documents, Discussions!RequestFail, Discussions!assertCanCreatePlace,
    Discussions!CreatePlaceFind, Discussions!CreatePlaceSave, Discussions!CreatePlaceLink,
    Discussions!UpdateUserFind, Discussions!UpdateUserWrite, Discussions!placeOwned,
    Discussions!CreateEventFind, Discussions!CreateReviewFind,
    Discussions!commentReferenceExists, Discussions!CreateCommentFind,
    Discussions!CreateFavoriteFind, Discussions!NotifyFind, Discussions!CreateSave,
    Discussions!imageReferenceOwned, Discussions!UploadFind, Discussions!upload,
    Discussions!saveMany, Discussions!DeleteOwnFind, Discussions!DeleteReviewFind,
    Discussions!DeleteCommentFind, Discussions!DeleteFavoriteFind, Discussions!DeleteOwn,
    Discussions!afterEvents, Discussions!deleteEvents, Discussions!DeleteEventFind,
    Discussions!DeletePlaceFind, Discussions!findIdsByPlace, Discussions!deleteReviewsFind,
    Discussions!afterThreads, Discussions!deleteCommentThreadsFind,
    Discussions!deleteCommentThreads, Discussions!deleteReviewsOn,
    Discussions!deleteAllByReference, Discussions!deleteByReferences,
    Discussions!deleteImages, Discussions!findImageIds, Discussions!DeleteImagesFind,
    Discussions!DeleteImagesLoad, Discussions!DeleteImagesDelete,
    Discussions!DeleteImagesFiles, Discussions!deleteManyByIds, Discussions!deletePlace,
    Discussions!deleteUser, Discussions!DeletePlaceUnlink, Discussions!AccountFind,
    Discussions!AccountPlaces, Discussions!AccountNextPlace, Discussions!AccountEvents,
    Discussions!deleteAllByUserId, Discussions!deleteByUser, Discussions!AccountImages,
    Discussions!AccountReferences, Discussions!Step, Discussions!Next,
    Discussions!NoDangling, Discussions!ImagesHaveFiles

LEMMA ThreadsRuns ==
    OwnershipSpec =>
        /\ [](part = "threads" => Threads!TypeOK)
        /\ [](part = "threads" => Threads!NoDangling)
        /\ [](part = "threads" => Threads!ImagesHaveFiles)
<1>1. part = "threads" /\ OwnershipInit => Discussions!Init
  BY Zenon, ThreadsSame DEF OwnershipInit
<1>2. part = "threads" /\ [OwnershipNext]_ownershipVars => [Discussions!Next]_Discussions!vars
  BY Zenon, ThreadsSame
  DEF OwnershipNext, ownershipVars, contentVars, productVars, seedVars, Threads!vars
<1>3. /\ part = "threads" /\ [OwnershipNext]_ownershipVars => (part = "threads")'
      /\ ~(part = "threads") /\ [OwnershipNext]_ownershipVars => ~(part = "threads")'
  BY Zenon, OwnershipKeepsPart
<1>4. Discussions!Spec =>
        /\ []Discussions!TypeOK
        /\ []Discussions!NoDangling
        /\ []Discussions!ImagesHaveFiles
  BY ThreadsSame, OwnershipPartsAssumption, Discussions!OwnershipTypes,
     Discussions!NothingDangles, Discussions!ImagesAlwaysHaveFiles
  DEF OwnershipPartsAssumption
<1> QED BY ThreadsSame, <1>1, <1>2, <1>3, <1>4, PTL
       DEF OwnershipSpec, Discussions!Spec

\* In the part named "uploads", the formulas are those of Ownership.
LEMMA UploadsSame ==
    /\ Uploads!Init <=> Pictures!Init
    /\ [Uploads!Next]_Uploads!vars <=> [Pictures!Next]_Pictures!vars
    /\ Uploads!OwnershipAssumption <=> Pictures!OwnershipAssumption
    /\ Uploads!TypeOK <=> Pictures!TypeOK
    /\ Uploads!ImagesHaveFiles <=> Pictures!ImagesHaveFiles
BY ZenonT(60) DEF
    Uploads!Ids, Uploads!OwnershipAssumption, Uploads!vars, Uploads!Absent, Uploads!Removed,
    Uploads!Docs, Uploads!PlaceDocs, Uploads!ReviewDocs, Uploads!CommentDocs,
    Uploads!ImageDocs, Uploads!FavoriteDocs, Uploads!NotificationDocs, Uploads!EventDocs,
    Uploads!Idle, Uploads!Steps, Uploads!TypeOK, Uploads!Init, Uploads!stored,
    Uploads!findIdsByReferences, Uploads!findIdsByOwner, Uploads!free, Uploads!save,
    Uploads!deleteMany, Uploads!findByUserAndReference, Uploads!linkPlace, Uploads!become,
    Uploads!goto, Uploads!start, Uploads!documents, Uploads!RequestFail,
    Uploads!assertCanCreatePlace, Uploads!CreatePlaceFind, Uploads!CreatePlaceSave,
    Uploads!CreatePlaceLink, Uploads!UpdateUserFind, Uploads!UpdateUserWrite,
    Uploads!placeOwned, Uploads!CreateEventFind, Uploads!CreateReviewFind,
    Uploads!commentReferenceExists, Uploads!CreateCommentFind, Uploads!CreateFavoriteFind,
    Uploads!NotifyFind, Uploads!CreateSave, Uploads!imageReferenceOwned, Uploads!UploadFind,
    Uploads!upload, Uploads!saveMany, Uploads!DeleteOwnFind, Uploads!DeleteReviewFind,
    Uploads!DeleteCommentFind, Uploads!DeleteFavoriteFind, Uploads!DeleteOwn,
    Uploads!afterEvents, Uploads!deleteEvents, Uploads!DeleteEventFind,
    Uploads!DeletePlaceFind, Uploads!findIdsByPlace, Uploads!deleteReviewsFind,
    Uploads!afterThreads, Uploads!deleteCommentThreadsFind, Uploads!deleteCommentThreads,
    Uploads!deleteReviewsOn, Uploads!deleteAllByReference, Uploads!deleteByReferences,
    Uploads!deleteImages, Uploads!findImageIds, Uploads!DeleteImagesFind,
    Uploads!DeleteImagesLoad, Uploads!DeleteImagesDelete, Uploads!DeleteImagesFiles,
    Uploads!deleteManyByIds, Uploads!deletePlace, Uploads!deleteUser,
    Uploads!DeletePlaceUnlink, Uploads!AccountFind, Uploads!AccountPlaces,
    Uploads!AccountNextPlace, Uploads!AccountEvents, Uploads!deleteAllByUserId,
    Uploads!deleteByUser, Uploads!AccountImages, Uploads!AccountReferences, Uploads!Step,
    Uploads!Next, Uploads!ImagesHaveFiles, Pictures!Ids, Pictures!OwnershipAssumption,
    Pictures!vars, Pictures!Absent, Pictures!Removed, Pictures!Docs, Pictures!PlaceDocs,
    Pictures!ReviewDocs, Pictures!CommentDocs, Pictures!ImageDocs, Pictures!FavoriteDocs,
    Pictures!NotificationDocs, Pictures!EventDocs, Pictures!Idle, Pictures!Steps,
    Pictures!TypeOK, Pictures!Init, Pictures!stored, Pictures!findIdsByReferences,
    Pictures!findIdsByOwner, Pictures!free, Pictures!save, Pictures!deleteMany,
    Pictures!findByUserAndReference, Pictures!linkPlace, Pictures!become, Pictures!goto,
    Pictures!start, Pictures!documents, Pictures!RequestFail, Pictures!assertCanCreatePlace,
    Pictures!CreatePlaceFind, Pictures!CreatePlaceSave, Pictures!CreatePlaceLink,
    Pictures!UpdateUserFind, Pictures!UpdateUserWrite, Pictures!placeOwned,
    Pictures!CreateEventFind, Pictures!CreateReviewFind, Pictures!commentReferenceExists,
    Pictures!CreateCommentFind, Pictures!CreateFavoriteFind, Pictures!NotifyFind,
    Pictures!CreateSave, Pictures!imageReferenceOwned, Pictures!UploadFind, Pictures!upload,
    Pictures!saveMany, Pictures!DeleteOwnFind, Pictures!DeleteReviewFind,
    Pictures!DeleteCommentFind, Pictures!DeleteFavoriteFind, Pictures!DeleteOwn,
    Pictures!afterEvents, Pictures!deleteEvents, Pictures!DeleteEventFind,
    Pictures!DeletePlaceFind, Pictures!findIdsByPlace, Pictures!deleteReviewsFind,
    Pictures!afterThreads, Pictures!deleteCommentThreadsFind, Pictures!deleteCommentThreads,
    Pictures!deleteReviewsOn, Pictures!deleteAllByReference, Pictures!deleteByReferences,
    Pictures!deleteImages, Pictures!findImageIds, Pictures!DeleteImagesFind,
    Pictures!DeleteImagesLoad, Pictures!DeleteImagesDelete, Pictures!DeleteImagesFiles,
    Pictures!deleteManyByIds, Pictures!deletePlace, Pictures!deleteUser,
    Pictures!DeletePlaceUnlink, Pictures!AccountFind, Pictures!AccountPlaces,
    Pictures!AccountNextPlace, Pictures!AccountEvents, Pictures!deleteAllByUserId,
    Pictures!deleteByUser, Pictures!AccountImages, Pictures!AccountReferences,
    Pictures!Step, Pictures!Next, Pictures!ImagesHaveFiles

LEMMA UploadsRuns ==
    OwnershipSpec =>
        /\ [](part = "uploads" => Uploads!TypeOK)
        /\ [](part = "uploads" => Uploads!ImagesHaveFiles)
<1>1. part = "uploads" /\ OwnershipInit => Pictures!Init
  BY Zenon, UploadsSame DEF OwnershipInit
<1>2. part = "uploads" /\ [OwnershipNext]_ownershipVars => [Pictures!Next]_Pictures!vars
  BY Zenon, UploadsSame
  DEF OwnershipNext, ownershipVars, contentVars, productVars, seedVars, Uploads!vars
<1>3. /\ part = "uploads" /\ [OwnershipNext]_ownershipVars => (part = "uploads")'
      /\ ~(part = "uploads") /\ [OwnershipNext]_ownershipVars => ~(part = "uploads")'
  BY Zenon, OwnershipKeepsPart
<1>4. Pictures!Spec =>
        /\ []Pictures!TypeOK
        /\ []Pictures!ImagesHaveFiles
  BY UploadsSame, OwnershipPartsAssumption, Pictures!OwnershipTypes,
     Pictures!ImagesAlwaysHaveFiles
  DEF OwnershipPartsAssumption
<1> QED BY UploadsSame, <1>1, <1>2, <1>3, <1>4, PTL
       DEF OwnershipSpec, Pictures!Spec

\* In the part named "selling", the formulas are those of Product.
LEMMA SellingSame ==
    /\ Selling!Init <=> Crowd!Init
    /\ [Selling!Next]_Selling!vars <=> [Crowd!Next]_Crowd!vars
    /\ Selling!ProductAssumption <=> Crowd!ProductAssumption
    /\ Selling!TypeOK <=> Crowd!TypeOK
    /\ Selling!ProductQuota <=> Crowd!ProductQuota
BY ZenonT(60) DEF
    Selling!IsFiniteSet, Selling!Cardinality, Selling!ProductAssumption, Selling!vars,
    Selling!Absent, Selling!Removed, Selling!ProductDocs, Selling!Idle, Selling!Local,
    Selling!TypeOK, Selling!Init, Selling!stored, Selling!findByUserId,
    Selling!countByUserId, Selling!save, Selling!update, Selling!deleteAll, Selling!goto,
    Selling!finish, Selling!RequestFail, Selling!CreateCount, Selling!CreateSave,
    Selling!FindOwn, Selling!UpdateFind, Selling!UpdateWrite, Selling!DeleteFind,
    Selling!DeleteDelete, Selling!AccountFind, Selling!deleteManyByUserId,
    Selling!AccountDelete, Selling!Step, Selling!Next, Selling!saving, Selling!ProductQuota,
    Crowd!IsFiniteSet, Crowd!Cardinality, Crowd!ProductAssumption, Crowd!vars, Crowd!Absent,
    Crowd!Removed, Crowd!ProductDocs, Crowd!Idle, Crowd!Local, Crowd!TypeOK, Crowd!Init,
    Crowd!stored, Crowd!findByUserId, Crowd!countByUserId, Crowd!save, Crowd!update,
    Crowd!deleteAll, Crowd!goto, Crowd!finish, Crowd!RequestFail, Crowd!CreateCount,
    Crowd!CreateSave, Crowd!FindOwn, Crowd!UpdateFind, Crowd!UpdateWrite, Crowd!DeleteFind,
    Crowd!DeleteDelete, Crowd!AccountFind, Crowd!deleteManyByUserId, Crowd!AccountDelete,
    Crowd!Step, Crowd!Next, Crowd!saving, Crowd!ProductQuota

LEMMA SellingRuns ==
    OwnershipSpec =>
        /\ [](part = "selling" => Selling!TypeOK)
        /\ [](part = "selling" => Selling!ProductQuota)
<1>1. part = "selling" /\ OwnershipInit => Crowd!Init
  BY Zenon, SellingSame DEF OwnershipInit
<1>2. part = "selling" /\ [OwnershipNext]_ownershipVars => [Crowd!Next]_Crowd!vars
  BY Zenon, SellingSame
  DEF OwnershipNext, ownershipVars, contentVars, productVars, seedVars, Selling!vars
<1>3. /\ part = "selling" /\ [OwnershipNext]_ownershipVars => (part = "selling")'
      /\ ~(part = "selling") /\ [OwnershipNext]_ownershipVars => ~(part = "selling")'
  BY Zenon, OwnershipKeepsPart
<1>4. Crowd!Spec =>
        /\ []Crowd!TypeOK
        /\ []Crowd!ProductQuota
  BY SellingSame, OwnershipPartsAssumption, Crowd!ProductTypes, Crowd!QuotaBound
  DEF OwnershipPartsAssumption
<1> QED BY SellingSame, <1>1, <1>2, <1>3, <1>4, PTL
       DEF OwnershipSpec, Crowd!Spec

\* In the part named "seed", the formulas are those of Seeding.
LEMMA SeedSame ==
    /\ Seed!Init <=> Cascades!Sed!Init
    /\ [Seed!Next]_Seed!vars <=> [Cascades!Sed!Next]_Cascades!Sed!vars
    /\ Seed!SeedingAssumption <=> Cascades!Sed!SeedingAssumption
    /\ Seed!TypeOK <=> Cascades!Sed!TypeOK
    /\ Seed!NoDangling <=> Cascades!Sed!NoDangling
    /\ Seed!ImagesHaveFiles <=> Cascades!Sed!ImagesHaveFiles
    /\ Seed!PlaceLinkAgrees <=> Cascades!Sed!PlaceLinkAgrees
BY ZenonT(60) DEF
    Seed!Cardinality, Seed!ToSet, Seed!SeedingAssumption, Seed!vars, Seed!Inserted,
    Seed!Purged, Seed!Collections, Seed!Relations, Seed!Names, Seed!Id, Seed!Files,
    Seed!Document, Seed!Run, Seed!TypeOK, Seed!idle, Seed!Init, Seed!ids, Seed!the,
    Seed!doc, Seed!attachImages, Seed!image, Seed!ownedBy, Seed!stored, Seed!mutual,
    Seed!generated, Seed!between, Seed!assertAllowedTarget,
    Seed!main, Seed!purgeFind, Seed!isSought, Seed!after, Seed!purgeSeedMongo,
    Seed!purgeSeedS3, Seed!generate, Seed!uploadImagePool, Seed!persistSeedContext,
    Seed!memberActs, Seed!Next, Seed!NoDangling, Seed!ImagesHaveFiles, Seed!PlaceLinkAgrees,
    Cascades!Sed!Cardinality, Cascades!Sed!ToSet, Cascades!Sed!SeedingAssumption,
    Cascades!Sed!vars, Cascades!Sed!Inserted, Cascades!Sed!Purged, Cascades!Sed!Collections,
    Cascades!Sed!Relations, Cascades!Sed!Names, Cascades!Sed!Id, Cascades!Sed!Files,
    Cascades!Sed!Document, Cascades!Sed!Run, Cascades!Sed!TypeOK, Cascades!Sed!idle,
    Cascades!Sed!Init, Cascades!Sed!ids, Cascades!Sed!the, Cascades!Sed!doc,
    Cascades!Sed!attachImages, Cascades!Sed!image, Cascades!Sed!ownedBy,
    Cascades!Sed!stored, Cascades!Sed!mutual, Cascades!Sed!generated, Cascades!Sed!between,
    Cascades!Sed!assertAllowedTarget, Cascades!Sed!main, Cascades!Sed!purgeFind,
    Cascades!Sed!isSought, Cascades!Sed!after, Cascades!Sed!purgeSeedMongo,
    Cascades!Sed!purgeSeedS3, Cascades!Sed!generate, Cascades!Sed!uploadImagePool,
    Cascades!Sed!persistSeedContext, Cascades!Sed!memberActs, Cascades!Sed!Next,
    Cascades!Sed!NoDangling, Cascades!Sed!ImagesHaveFiles, Cascades!Sed!PlaceLinkAgrees

LEMMA SeedRuns ==
    OwnershipSpec =>
        /\ [](part = "seed" => Seed!TypeOK)
        /\ [](part = "seed" => Seed!NoDangling)
        /\ [](part = "seed" => Seed!ImagesHaveFiles)
        /\ [](part = "seed" => Seed!PlaceLinkAgrees)
<1>1. part = "seed" /\ OwnershipInit => Cascades!Sed!Init
  BY Zenon, SeedSame DEF OwnershipInit
<1>2. part = "seed" /\ [OwnershipNext]_ownershipVars => [Cascades!Sed!Next]_Cascades!Sed!vars
  BY Zenon, SeedSame
  DEF OwnershipNext, ownershipVars, contentVars, productVars, seedVars, Seed!vars
<1>3. /\ part = "seed" /\ [OwnershipNext]_ownershipVars => (part = "seed")'
      /\ ~(part = "seed") /\ [OwnershipNext]_ownershipVars => ~(part = "seed")'
  BY Zenon, OwnershipKeepsPart
<1>4. Cascades!Sed!Spec =>
        /\ []Cascades!Sed!TypeOK
        /\ []Cascades!Sed!NoDangling
        /\ []Cascades!Sed!ImagesHaveFiles
        /\ []Cascades!Sed!PlaceLinkAgrees
  BY SeedSame, OwnershipPartsAssumption, Cascades!SeedTypes, Cascades!SeedsNeverDangle,
     Cascades!SeededImagesHaveFiles, Cascades!SeededOwnersHaveTheirPlace
  DEF OwnershipPartsAssumption
<1> QED BY SeedSame, <1>1, <1>2, <1>3, <1>4, PTL
       DEF OwnershipSpec, Cascades!Sed!Spec

\* Every part keeps to its types.
THEOREM OwnershipPartsTypes == OwnershipSpec => []OwnershipTypeOK
BY CascadeRuns, ThreadsRuns, UploadsRuns, SellingRuns, SeedRuns, PTL DEF OwnershipTypeOK

\* Neither an interrupted cascade, one request at a time, nor a broken-off seed leaves a
\* reference to what is not stored, but for users and their place or image and images and
\* their event in a seed that is incomplete; in a complete one nothing dangles.
THEOREM NothingIsLeftBehind == OwnershipSpec => []NoDangling
BY CascadeRuns, ThreadsRuns, SeedRuns, PTL DEF NoDangling

\* The files of a stored image are in the bucket, however requests overlap and wherever a
\* seed breaks off.
THEOREM FilesAreThere == OwnershipSpec => []ImagesHaveFiles
BY ThreadsRuns, UploadsRuns, SeedRuns, PTL DEF ImagesHaveFiles

\* A user is linked to the place it owns, one request at a time; in a seed that is
\* complete, each of the two refers to the other.
THEOREM OwnersAreLinked == OwnershipSpec => []PlaceLinkAgrees
BY CascadeRuns, SeedRuns, PTL DEF PlaceLinkAgrees

\* The limit of products is passed by no more than the requests served at once, less one.
THEOREM ProductsAreLimited == OwnershipSpec => []ProductQuota
BY SellingRuns, PTL DEF ProductQuota

-----------------------------------------------------------------------------
(* THE FRONT, CACHED READS AND THE PAGE OF A PLACE                         *)

\* No step changes the part that runs.
LEMMA ServiceKeepsPart == [ServiceNext]_serviceVars => part' = part
BY Zenon DEF ServiceNext, serviceVars

\* In the part named "http one", the formulas are those of HttpApi.
LEMMA HttpOneSame ==
    /\ HttpOne!Init <=> Callers!Http!Init
    /\ [HttpOne!Next]_HttpOne!vars <=> [Callers!Http!Next]_Callers!Http!vars
    /\ HttpOne!HttpAssumption <=> Callers!Http!HttpAssumption
    /\ HttpOne!TypeOK <=> Callers!Http!TypeOK
    /\ HttpOne!ActorKnown <=> Callers!Http!ActorKnown
BY ZenonT(60) DEF
    HttpOne!HttpAssumption, HttpOne!vars, HttpOne!open, HttpOne!verify, HttpOne!optional,
    HttpOne!admin, HttpOne!strictly, HttpOne!limited, HttpOne!adminUserRoutes,
    HttpOne!adminAnnouncementRoutes, HttpOne!adminResourceRoutes,
    HttpOne!announcementRoutes, HttpOne!authRoutes, HttpOne!categoryRoutes,
    HttpOne!commentRoutes, HttpOne!eventRoutes, HttpOne!eventBookingRoutes,
    HttpOne!eventInvitationRoutes, HttpOne!favoriteRoutes, HttpOne!followRoutes,
    HttpOne!geocodeRoutes, HttpOne!imageRoutes, HttpOne!messageRoutes,
    HttpOne!notificationRoutes, HttpOne!partnershipRoutes, HttpOne!placeRoutes,
    HttpOne!productRoutes, HttpOne!reviewRoutes, HttpOne!userRoutes, HttpOne!Routers,
    HttpOne!apiLimit, HttpOne!middlewares, HttpOne!AdminUsersController,
    HttpOne!AdminResourcesController, HttpOne!AnnouncementsController,
    HttpOne!AuthController, HttpOne!CategoriesController, HttpOne!CommentsController,
    HttpOne!EventsController, HttpOne!EventBookingsController,
    HttpOne!EventInvitationsController, HttpOne!FavoritesController,
    HttpOne!FollowsController, HttpOne!GeocodingController, HttpOne!ImagesController,
    HttpOne!MessagesController, HttpOne!NotificationsController,
    HttpOne!PartnershipsController, HttpOne!PlacesController, HttpOne!ProductsController,
    HttpOne!ReviewsController, HttpOne!UsersController, HttpOne!Controllers,
    HttpOne!requireAuth, HttpOne!adminOnly, HttpOne!Idle, HttpOne!Statuses, HttpOne!TypeOK,
    HttpOne!Init, HttpOne!running, HttpOne!Arrive, HttpOne!at, HttpOne!next, HttpOne!decode,
    HttpOne!answer, HttpOne!nextError, HttpOne!Limit, HttpOne!canAuthenticate,
    HttpOne!Verify, HttpOne!VerifyOptional, HttpOne!isAdmin, HttpOne!RequireAdmin,
    HttpOne!RequireAdminRejects, HttpOne!Upload, HttpOne!Handle, HttpOne!Restart,
    HttpOne!ChangeStanding, HttpOne!Step, HttpOne!Next, HttpOne!ActorKnown,
    Callers!Http!HttpAssumption, Callers!Http!vars, Callers!Http!open, Callers!Http!verify,
    Callers!Http!optional, Callers!Http!admin, Callers!Http!strictly, Callers!Http!limited,
    Callers!Http!adminUserRoutes, Callers!Http!adminAnnouncementRoutes,
    Callers!Http!adminResourceRoutes, Callers!Http!announcementRoutes,
    Callers!Http!authRoutes, Callers!Http!categoryRoutes, Callers!Http!commentRoutes,
    Callers!Http!eventRoutes, Callers!Http!eventBookingRoutes,
    Callers!Http!eventInvitationRoutes, Callers!Http!favoriteRoutes,
    Callers!Http!followRoutes, Callers!Http!geocodeRoutes, Callers!Http!imageRoutes,
    Callers!Http!messageRoutes, Callers!Http!notificationRoutes,
    Callers!Http!partnershipRoutes, Callers!Http!placeRoutes, Callers!Http!productRoutes,
    Callers!Http!reviewRoutes, Callers!Http!userRoutes, Callers!Http!Routers,
    Callers!Http!apiLimit, Callers!Http!middlewares, Callers!Http!AdminUsersController,
    Callers!Http!AdminResourcesController, Callers!Http!AnnouncementsController,
    Callers!Http!AuthController, Callers!Http!CategoriesController,
    Callers!Http!CommentsController, Callers!Http!EventsController,
    Callers!Http!EventBookingsController, Callers!Http!EventInvitationsController,
    Callers!Http!FavoritesController, Callers!Http!FollowsController,
    Callers!Http!GeocodingController, Callers!Http!ImagesController,
    Callers!Http!MessagesController, Callers!Http!NotificationsController,
    Callers!Http!PartnershipsController, Callers!Http!PlacesController,
    Callers!Http!ProductsController, Callers!Http!ReviewsController,
    Callers!Http!UsersController, Callers!Http!Controllers, Callers!Http!requireAuth,
    Callers!Http!adminOnly, Callers!Http!Idle, Callers!Http!Statuses, Callers!Http!TypeOK,
    Callers!Http!Init, Callers!Http!running, Callers!Http!Arrive, Callers!Http!at,
    Callers!Http!next, Callers!Http!decode, Callers!Http!answer, Callers!Http!nextError,
    Callers!Http!Limit, Callers!Http!canAuthenticate, Callers!Http!Verify,
    Callers!Http!VerifyOptional, Callers!Http!isAdmin, Callers!Http!RequireAdmin,
    Callers!Http!RequireAdminRejects, Callers!Http!Upload, Callers!Http!Handle,
    Callers!Http!Restart, Callers!Http!ChangeStanding, Callers!Http!Step, Callers!Http!Next,
    Callers!Http!ActorKnown

LEMMA HttpOneRuns ==
    ServiceSpec =>
        /\ [](part = "http one" => HttpOne!TypeOK)
        /\ [](part = "http one" => HttpOne!ActorKnown)
<1>1. part = "http one" /\ ServiceInit => Callers!Http!Init
  BY Zenon, HttpOneSame DEF ServiceInit
<1>2. part = "http one" /\ [ServiceNext]_serviceVars => [Callers!Http!Next]_Callers!Http!vars
  BY Zenon, HttpOneSame
  DEF ServiceNext, serviceVars, httpVars, mapVars, HttpOne!vars
<1>3. /\ part = "http one" /\ [ServiceNext]_serviceVars => (part = "http one")'
      /\ ~(part = "http one") /\ [ServiceNext]_serviceVars => ~(part = "http one")'
  BY Zenon, ServiceKeepsPart
<1>4. Callers!Http!Init /\ [][Callers!Http!Next]_Callers!Http!vars =>
        /\ []Callers!Http!TypeOK
        /\ []Callers!Http!ActorKnown
  BY HttpOneSame, ServicesAssumption, Callers!RoutesFromTheStart
  DEF ServicesAssumption
<1> QED BY HttpOneSame, <1>1, <1>2, <1>3, <1>4, PTL DEF ServiceSpec

\* In the part named "http two", the formulas are those of HttpApi.
LEMMA HttpTwoSame ==
    /\ HttpTwo!Init <=> Crowd!Http!Init
    /\ [HttpTwo!Next]_HttpTwo!vars <=> [Crowd!Http!Next]_Crowd!Http!vars
    /\ HttpTwo!HttpAssumption <=> Crowd!Http!HttpAssumption
    /\ HttpTwo!TypeOK <=> Crowd!Http!TypeOK
    /\ HttpTwo!ActorKnown <=> Crowd!Http!ActorKnown
BY ZenonT(60) DEF
    HttpTwo!HttpAssumption, HttpTwo!vars, HttpTwo!open, HttpTwo!verify, HttpTwo!optional,
    HttpTwo!admin, HttpTwo!strictly, HttpTwo!limited, HttpTwo!adminUserRoutes,
    HttpTwo!adminAnnouncementRoutes, HttpTwo!adminResourceRoutes,
    HttpTwo!announcementRoutes, HttpTwo!authRoutes, HttpTwo!categoryRoutes,
    HttpTwo!commentRoutes, HttpTwo!eventRoutes, HttpTwo!eventBookingRoutes,
    HttpTwo!eventInvitationRoutes, HttpTwo!favoriteRoutes, HttpTwo!followRoutes,
    HttpTwo!geocodeRoutes, HttpTwo!imageRoutes, HttpTwo!messageRoutes,
    HttpTwo!notificationRoutes, HttpTwo!partnershipRoutes, HttpTwo!placeRoutes,
    HttpTwo!productRoutes, HttpTwo!reviewRoutes, HttpTwo!userRoutes, HttpTwo!Routers,
    HttpTwo!apiLimit, HttpTwo!middlewares, HttpTwo!AdminUsersController,
    HttpTwo!AdminResourcesController, HttpTwo!AnnouncementsController,
    HttpTwo!AuthController, HttpTwo!CategoriesController, HttpTwo!CommentsController,
    HttpTwo!EventsController, HttpTwo!EventBookingsController,
    HttpTwo!EventInvitationsController, HttpTwo!FavoritesController,
    HttpTwo!FollowsController, HttpTwo!GeocodingController, HttpTwo!ImagesController,
    HttpTwo!MessagesController, HttpTwo!NotificationsController,
    HttpTwo!PartnershipsController, HttpTwo!PlacesController, HttpTwo!ProductsController,
    HttpTwo!ReviewsController, HttpTwo!UsersController, HttpTwo!Controllers,
    HttpTwo!requireAuth, HttpTwo!adminOnly, HttpTwo!Idle, HttpTwo!Statuses, HttpTwo!TypeOK,
    HttpTwo!Init, HttpTwo!running, HttpTwo!Arrive, HttpTwo!at, HttpTwo!next, HttpTwo!decode,
    HttpTwo!answer, HttpTwo!nextError, HttpTwo!Limit, HttpTwo!canAuthenticate,
    HttpTwo!Verify, HttpTwo!VerifyOptional, HttpTwo!isAdmin, HttpTwo!RequireAdmin,
    HttpTwo!RequireAdminRejects, HttpTwo!Upload, HttpTwo!Handle, HttpTwo!Restart,
    HttpTwo!ChangeStanding, HttpTwo!Step, HttpTwo!Next, HttpTwo!ActorKnown,
    Crowd!Http!HttpAssumption, Crowd!Http!vars, Crowd!Http!open, Crowd!Http!verify,
    Crowd!Http!optional, Crowd!Http!admin, Crowd!Http!strictly, Crowd!Http!limited,
    Crowd!Http!adminUserRoutes, Crowd!Http!adminAnnouncementRoutes,
    Crowd!Http!adminResourceRoutes, Crowd!Http!announcementRoutes, Crowd!Http!authRoutes,
    Crowd!Http!categoryRoutes, Crowd!Http!commentRoutes, Crowd!Http!eventRoutes,
    Crowd!Http!eventBookingRoutes, Crowd!Http!eventInvitationRoutes,
    Crowd!Http!favoriteRoutes, Crowd!Http!followRoutes, Crowd!Http!geocodeRoutes,
    Crowd!Http!imageRoutes, Crowd!Http!messageRoutes, Crowd!Http!notificationRoutes,
    Crowd!Http!partnershipRoutes, Crowd!Http!placeRoutes, Crowd!Http!productRoutes,
    Crowd!Http!reviewRoutes, Crowd!Http!userRoutes, Crowd!Http!Routers, Crowd!Http!apiLimit,
    Crowd!Http!middlewares, Crowd!Http!AdminUsersController,
    Crowd!Http!AdminResourcesController, Crowd!Http!AnnouncementsController,
    Crowd!Http!AuthController, Crowd!Http!CategoriesController,
    Crowd!Http!CommentsController, Crowd!Http!EventsController,
    Crowd!Http!EventBookingsController, Crowd!Http!EventInvitationsController,
    Crowd!Http!FavoritesController, Crowd!Http!FollowsController,
    Crowd!Http!GeocodingController, Crowd!Http!ImagesController,
    Crowd!Http!MessagesController, Crowd!Http!NotificationsController,
    Crowd!Http!PartnershipsController, Crowd!Http!PlacesController,
    Crowd!Http!ProductsController, Crowd!Http!ReviewsController, Crowd!Http!UsersController,
    Crowd!Http!Controllers, Crowd!Http!requireAuth, Crowd!Http!adminOnly, Crowd!Http!Idle,
    Crowd!Http!Statuses, Crowd!Http!TypeOK, Crowd!Http!Init, Crowd!Http!running,
    Crowd!Http!Arrive, Crowd!Http!at, Crowd!Http!next, Crowd!Http!decode, Crowd!Http!answer,
    Crowd!Http!nextError, Crowd!Http!Limit, Crowd!Http!canAuthenticate, Crowd!Http!Verify,
    Crowd!Http!VerifyOptional, Crowd!Http!isAdmin, Crowd!Http!RequireAdmin,
    Crowd!Http!RequireAdminRejects, Crowd!Http!Upload, Crowd!Http!Handle,
    Crowd!Http!Restart, Crowd!Http!ChangeStanding, Crowd!Http!Step, Crowd!Http!Next,
    Crowd!Http!ActorKnown

LEMMA HttpTwoRuns ==
    ServiceSpec =>
        /\ [](part = "http two" => HttpTwo!TypeOK)
        /\ [](part = "http two" => HttpTwo!ActorKnown)
<1>1. part = "http two" /\ ServiceInit => Crowd!Http!Init
  BY Zenon, HttpTwoSame DEF ServiceInit
<1>2. part = "http two" /\ [ServiceNext]_serviceVars => [Crowd!Http!Next]_Crowd!Http!vars
  BY Zenon, HttpTwoSame
  DEF ServiceNext, serviceVars, httpVars, mapVars, HttpTwo!vars
<1>3. /\ part = "http two" /\ [ServiceNext]_serviceVars => (part = "http two")'
      /\ ~(part = "http two") /\ [ServiceNext]_serviceVars => ~(part = "http two")'
  BY Zenon, ServiceKeepsPart
<1>4. Crowd!Http!Init /\ [][Crowd!Http!Next]_Crowd!Http!vars =>
        /\ []Crowd!Http!TypeOK
        /\ []Crowd!Http!ActorKnown
  BY HttpTwoSame, ServicesAssumption, Crowd!RoutesFromTheStart
  DEF ServicesAssumption
<1> QED BY HttpTwoSame, <1>1, <1>2, <1>3, <1>4, PTL DEF ServiceSpec

\* In the part named "places", the formulas are those of MapView.
LEMMA MapPlacesSame ==
    /\ MapPlaces!Init <=> Crowd!Map!Init
    /\ [MapPlaces!Next]_MapPlaces!vars <=> [Crowd!Map!Next]_Crowd!Map!vars
    /\ MapPlaces!TypeOK <=> Crowd!Map!TypeOK
BY ZenonT(60) DEF
    MapPlaces!vars, MapPlaces!NoPlace, MapPlaces!NoEvent, MapPlaces!PlaceDocs,
    MapPlaces!EventDocs, MapPlaces!Lookups, MapPlaces!cacheKey, MapPlaces!Keys,
    MapPlaces!Items, MapPlaces!Miss, MapPlaces!Entries, MapPlaces!Idle, MapPlaces!TypeOK,
    MapPlaces!Init, MapPlaces!findPlacesInView, MapPlaces!displayLocation,
    MapPlaces!findEventsInView, MapPlaces!findAllCategories, MapPlaces!suggest,
    MapPlaces!reverse, MapPlaces!source, MapPlaces!data, MapPlaces!finish,
    MapPlaces!RequestFail, MapPlaces!Lookup, MapPlaces!get, MapPlaces!Find, MapPlaces!set,
    MapPlaces!Expire, MapPlaces!changePlace, MapPlaces!changeEvent, MapPlaces!savePlace,
    MapPlaces!updatePlace, MapPlaces!softDeletePlace, MapPlaces!deletePlace,
    MapPlaces!saveEvent, MapPlaces!cancelEvent, MapPlaces!softDeleteEvent,
    MapPlaces!updateLifecycle, MapPlaces!deleteEvent, MapPlaces!Mapbox, MapPlaces!Step,
    MapPlaces!Source, MapPlaces!Next, Crowd!Map!vars, Crowd!Map!NoPlace, Crowd!Map!NoEvent,
    Crowd!Map!PlaceDocs, Crowd!Map!EventDocs, Crowd!Map!Lookups, Crowd!Map!cacheKey,
    Crowd!Map!Keys, Crowd!Map!Items, Crowd!Map!Miss, Crowd!Map!Entries, Crowd!Map!Idle,
    Crowd!Map!TypeOK, Crowd!Map!Init, Crowd!Map!findPlacesInView, Crowd!Map!displayLocation,
    Crowd!Map!findEventsInView, Crowd!Map!findAllCategories, Crowd!Map!suggest,
    Crowd!Map!reverse, Crowd!Map!source, Crowd!Map!data, Crowd!Map!finish,
    Crowd!Map!RequestFail, Crowd!Map!Lookup, Crowd!Map!get, Crowd!Map!Find, Crowd!Map!set,
    Crowd!Map!Expire, Crowd!Map!changePlace, Crowd!Map!changeEvent, Crowd!Map!savePlace,
    Crowd!Map!updatePlace, Crowd!Map!softDeletePlace, Crowd!Map!deletePlace,
    Crowd!Map!saveEvent, Crowd!Map!cancelEvent, Crowd!Map!softDeleteEvent,
    Crowd!Map!updateLifecycle, Crowd!Map!deleteEvent, Crowd!Map!Mapbox, Crowd!Map!Step,
    Crowd!Map!Source, Crowd!Map!Next

LEMMA MapPlacesRuns ==
    ServiceSpec =>
        /\ [](part = "places" => MapPlaces!TypeOK)
<1>1. part = "places" /\ ServiceInit => Crowd!Map!Init
  BY Zenon, MapPlacesSame DEF ServiceInit
<1>2. part = "places" /\ [ServiceNext]_serviceVars => [Crowd!Map!Next]_Crowd!Map!vars
  BY Zenon, MapPlacesSame
  DEF ServiceNext, serviceVars, httpVars, mapVars, MapPlaces!vars
<1>3. /\ part = "places" /\ [ServiceNext]_serviceVars => (part = "places")'
      /\ ~(part = "places") /\ [ServiceNext]_serviceVars => ~(part = "places")'
  BY Zenon, ServiceKeepsPart
<1>4. Crowd!Map!Init /\ [][Crowd!Map!Next]_Crowd!Map!vars =>
        /\ []Crowd!Map!TypeOK
  BY Crowd!MapFromTheStart
<1> QED BY MapPlacesSame, <1>1, <1>2, <1>3, <1>4, PTL DEF ServiceSpec

\* In the part named "events", the formulas are those of MapView.
LEMMA MapEventsSame ==
    /\ MapEvents!Init <=> Callers!Map!Init
    /\ [MapEvents!Next]_MapEvents!vars <=> [Callers!Map!Next]_Callers!Map!vars
    /\ MapEvents!TypeOK <=> Callers!Map!TypeOK
BY ZenonT(60) DEF
    MapEvents!vars, MapEvents!NoPlace, MapEvents!NoEvent, MapEvents!PlaceDocs,
    MapEvents!EventDocs, MapEvents!Lookups, MapEvents!cacheKey, MapEvents!Keys,
    MapEvents!Items, MapEvents!Miss, MapEvents!Entries, MapEvents!Idle, MapEvents!TypeOK,
    MapEvents!Init, MapEvents!findPlacesInView, MapEvents!displayLocation,
    MapEvents!findEventsInView, MapEvents!findAllCategories, MapEvents!suggest,
    MapEvents!reverse, MapEvents!source, MapEvents!data, MapEvents!finish,
    MapEvents!RequestFail, MapEvents!Lookup, MapEvents!get, MapEvents!Find, MapEvents!set,
    MapEvents!Expire, MapEvents!changePlace, MapEvents!changeEvent, MapEvents!savePlace,
    MapEvents!updatePlace, MapEvents!softDeletePlace, MapEvents!deletePlace,
    MapEvents!saveEvent, MapEvents!cancelEvent, MapEvents!softDeleteEvent,
    MapEvents!updateLifecycle, MapEvents!deleteEvent, MapEvents!Mapbox, MapEvents!Step,
    MapEvents!Source, MapEvents!Next, Callers!Map!vars, Callers!Map!NoPlace,
    Callers!Map!NoEvent, Callers!Map!PlaceDocs, Callers!Map!EventDocs, Callers!Map!Lookups,
    Callers!Map!cacheKey, Callers!Map!Keys, Callers!Map!Items, Callers!Map!Miss,
    Callers!Map!Entries, Callers!Map!Idle, Callers!Map!TypeOK, Callers!Map!Init,
    Callers!Map!findPlacesInView, Callers!Map!displayLocation, Callers!Map!findEventsInView,
    Callers!Map!findAllCategories, Callers!Map!suggest, Callers!Map!reverse,
    Callers!Map!source, Callers!Map!data, Callers!Map!finish, Callers!Map!RequestFail,
    Callers!Map!Lookup, Callers!Map!get, Callers!Map!Find, Callers!Map!set,
    Callers!Map!Expire, Callers!Map!changePlace, Callers!Map!changeEvent,
    Callers!Map!savePlace, Callers!Map!updatePlace, Callers!Map!softDeletePlace,
    Callers!Map!deletePlace, Callers!Map!saveEvent, Callers!Map!cancelEvent,
    Callers!Map!softDeleteEvent, Callers!Map!updateLifecycle, Callers!Map!deleteEvent,
    Callers!Map!Mapbox, Callers!Map!Step, Callers!Map!Source, Callers!Map!Next

LEMMA MapEventsRuns ==
    ServiceSpec =>
        /\ [](part = "events" => MapEvents!TypeOK)
<1>1. part = "events" /\ ServiceInit => Callers!Map!Init
  BY Zenon, MapEventsSame DEF ServiceInit
<1>2. part = "events" /\ [ServiceNext]_serviceVars => [Callers!Map!Next]_Callers!Map!vars
  BY Zenon, MapEventsSame
  DEF ServiceNext, serviceVars, httpVars, mapVars, MapEvents!vars
<1>3. /\ part = "events" /\ [ServiceNext]_serviceVars => (part = "events")'
      /\ ~(part = "events") /\ [ServiceNext]_serviceVars => ~(part = "events")'
  BY Zenon, ServiceKeepsPart
<1>4. Callers!Map!Init /\ [][Callers!Map!Next]_Callers!Map!vars =>
        /\ []Callers!Map!TypeOK
  BY Callers!MapFromTheStart
<1> QED BY MapEventsSame, <1>1, <1>2, <1>3, <1>4, PTL DEF ServiceSpec

\* In the part named "others", the formulas are those of MapView.
LEMMA MapOthersSame ==
    /\ MapOthers!Init <=> Lookups!Map!Init
    /\ [MapOthers!Next]_MapOthers!vars <=> [Lookups!Map!Next]_Lookups!Map!vars
    /\ MapOthers!TypeOK <=> Lookups!Map!TypeOK
BY ZenonT(60) DEF
    MapOthers!vars, MapOthers!NoPlace, MapOthers!NoEvent, MapOthers!PlaceDocs,
    MapOthers!EventDocs, MapOthers!Lookups, MapOthers!cacheKey, MapOthers!Keys,
    MapOthers!Items, MapOthers!Miss, MapOthers!Entries, MapOthers!Idle, MapOthers!TypeOK,
    MapOthers!Init, MapOthers!findPlacesInView, MapOthers!displayLocation,
    MapOthers!findEventsInView, MapOthers!findAllCategories, MapOthers!suggest,
    MapOthers!reverse, MapOthers!source, MapOthers!data, MapOthers!finish,
    MapOthers!RequestFail, MapOthers!Lookup, MapOthers!get, MapOthers!Find, MapOthers!set,
    MapOthers!Expire, MapOthers!changePlace, MapOthers!changeEvent, MapOthers!savePlace,
    MapOthers!updatePlace, MapOthers!softDeletePlace, MapOthers!deletePlace,
    MapOthers!saveEvent, MapOthers!cancelEvent, MapOthers!softDeleteEvent,
    MapOthers!updateLifecycle, MapOthers!deleteEvent, MapOthers!Mapbox, MapOthers!Step,
    MapOthers!Source, MapOthers!Next, Lookups!Map!vars, Lookups!Map!NoPlace,
    Lookups!Map!NoEvent, Lookups!Map!PlaceDocs, Lookups!Map!EventDocs, Lookups!Map!Lookups,
    Lookups!Map!cacheKey, Lookups!Map!Keys, Lookups!Map!Items, Lookups!Map!Miss,
    Lookups!Map!Entries, Lookups!Map!Idle, Lookups!Map!TypeOK, Lookups!Map!Init,
    Lookups!Map!findPlacesInView, Lookups!Map!displayLocation, Lookups!Map!findEventsInView,
    Lookups!Map!findAllCategories, Lookups!Map!suggest, Lookups!Map!reverse,
    Lookups!Map!source, Lookups!Map!data, Lookups!Map!finish, Lookups!Map!RequestFail,
    Lookups!Map!Lookup, Lookups!Map!get, Lookups!Map!Find, Lookups!Map!set,
    Lookups!Map!Expire, Lookups!Map!changePlace, Lookups!Map!changeEvent,
    Lookups!Map!savePlace, Lookups!Map!updatePlace, Lookups!Map!softDeletePlace,
    Lookups!Map!deletePlace, Lookups!Map!saveEvent, Lookups!Map!cancelEvent,
    Lookups!Map!softDeleteEvent, Lookups!Map!updateLifecycle, Lookups!Map!deleteEvent,
    Lookups!Map!Mapbox, Lookups!Map!Step, Lookups!Map!Source, Lookups!Map!Next

LEMMA MapOthersRuns ==
    ServiceSpec =>
        /\ [](part = "others" => MapOthers!TypeOK)
<1>1. part = "others" /\ ServiceInit => Lookups!Map!Init
  BY Zenon, MapOthersSame DEF ServiceInit
<1>2. part = "others" /\ [ServiceNext]_serviceVars => [Lookups!Map!Next]_Lookups!Map!vars
  BY Zenon, MapOthersSame
  DEF ServiceNext, serviceVars, httpVars, mapVars, MapOthers!vars
<1>3. /\ part = "others" /\ [ServiceNext]_serviceVars => (part = "others")'
      /\ ~(part = "others") /\ [ServiceNext]_serviceVars => ~(part = "others")'
  BY Zenon, ServiceKeepsPart
<1>4. Lookups!Map!Init /\ [][Lookups!Map!Next]_Lookups!Map!vars =>
        /\ []Lookups!Map!TypeOK
  BY Lookups!MapFromTheStart
<1> QED BY MapOthersSame, <1>1, <1>2, <1>3, <1>4, PTL DEF ServiceSpec

\* In the part named "week", the formulas are those of WeekSchedule.
LEMMA WeekSame ==
    /\ Week!Init <=> Callers!Week!Init
    /\ [Week!Next]_Week!vars <=> [Callers!Week!Next]_Callers!Week!vars
    /\ Week!WeekAssumption <=> Callers!Week!WeekAssumption
    /\ Week!TypeOK <=> Callers!Week!TypeOK
    /\ Week!WeekShown <=> Callers!Week!WeekShown
BY ZenonT(60) DEF
    Week!WeekAssumption, Week!vars, Week!EventDocs, Week!WeekDays, Week!NoEvents, Week!Idle,
    Week!TypeOK, Week!Init, Week!getDay, Week!getDayOfWeek, Week!getCurrentWeekRange,
    Week!getDatesBetween, Week!later, Week!earlier, Week!groupEventsByDay,
    Week!findByPlaceInDateRange, Week!become, Week!Start, Week!FindEvents, Week!Group,
    Week!RequestFail, Week!Tick, Week!Next, Week!on, Week!daysFrom, Week!WeekShown,
    Callers!Week!WeekAssumption, Callers!Week!vars, Callers!Week!EventDocs,
    Callers!Week!WeekDays, Callers!Week!NoEvents, Callers!Week!Idle, Callers!Week!TypeOK,
    Callers!Week!Init, Callers!Week!getDay, Callers!Week!getDayOfWeek,
    Callers!Week!getCurrentWeekRange, Callers!Week!getDatesBetween, Callers!Week!later,
    Callers!Week!earlier, Callers!Week!groupEventsByDay,
    Callers!Week!findByPlaceInDateRange, Callers!Week!become, Callers!Week!Start,
    Callers!Week!FindEvents, Callers!Week!Group, Callers!Week!RequestFail,
    Callers!Week!Tick, Callers!Week!Next, Callers!Week!on, Callers!Week!daysFrom,
    Callers!Week!WeekShown

LEMMA WeekRuns ==
    ServiceSpec =>
        /\ [](part = "week" => Week!TypeOK)
        /\ [](part = "week" => Week!WeekShown)
<1>1. part = "week" /\ ServiceInit => Callers!Week!Init
  BY Zenon, WeekSame DEF ServiceInit
<1>2. part = "week" /\ [ServiceNext]_serviceVars => [Callers!Week!Next]_Callers!Week!vars
  BY Zenon, WeekSame
  DEF ServiceNext, serviceVars, httpVars, mapVars, Week!vars
<1>3. /\ part = "week" /\ [ServiceNext]_serviceVars => (part = "week")'
      /\ ~(part = "week") /\ [ServiceNext]_serviceVars => ~(part = "week")'
  BY Zenon, ServiceKeepsPart
<1>4. Callers!Week!Spec =>
        /\ []Callers!Week!TypeOK
        /\ []Callers!Week!WeekShown
  BY WeekSame, ServicesAssumption, Callers!WeekTypes, Callers!PagesShowTheWeek
  DEF ServicesAssumption
<1> QED BY WeekSame, <1>1, <1>2, <1>3, <1>4, PTL
       DEF ServiceSpec, Callers!Week!Spec

\* Every part keeps to its types.
THEOREM ServiceTypes == ServiceSpec => []ServiceTypeOK
BY HttpOneRuns, HttpTwoRuns, MapPlacesRuns, MapEventsRuns, MapOthersRuns, WeekRuns,
   PTL DEF ServiceTypeOK

\* Handlers run for callers they know, on every route there is.
THEOREM ActorsAreKnown == ServiceSpec => []ActorKnown
BY HttpOneRuns, HttpTwoRuns, PTL DEF ActorKnown

\* The page of a place shows the events of the week on their days.
THEOREM WeeksAreShown == ServiceSpec => []WeekShown
BY WeekRuns, PTL DEF WeekShown
=============================================================================
