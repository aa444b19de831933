-------------------------- MODULE SocialPartsProofs --------------------------
(***************************************************************************)
(* Proofs about SocialParts and AccountParts: what the theorems about the  *)
(* components say of every part holds of the compositions, for every value *)
(* of their constants.  In each part the composition is the component: the *)
(* formulas of the two are the same, the initial states of the part are    *)
(* the component's, and every step of the composition in the part is a     *)
(* step of the component, or leaves its variables alone.                   *)
(***************************************************************************)
EXTENDS SocialParts, AccountParts, TLAPS

\* What the proofs about the components speak of besides, whatever its value.
CONSTANTS
    Products, Categories, MAX_PRODUCTS_PER_USER, Comments, Reviews, Images,
    NotificationIds, Served(_, _), Schedules, Days, Positions, Boxes,
    Rounded(_), Kinds, Favorites, Notifications, Host, Production,
    MaxGenerations, MaxMemberDocs

VARIABLES
    products, up, standing, event, today, place, geocoder, cache, files, left,
    interrupted, db, bucket, run

\* One request at a time.
Alone == INSTANCE CollectionProofs WITH
    Requests <- {alone}, FollowIds <- Ids, Members <- FewUsers,
    Creators <- FewUsers, PartnershipIds <- Ids, Authors <- Users,
    ReviewIds <- Ids, ReviewedPlaces <- {}, ReviewedEvents <- Events,
    ConversationIds <- Places \cup Events, MessageIds <- FewIds,
    Slugs <- Places \cup Events, AnnouncementIds <- Ids, Comments <- {},
    Reviews <- {"review"}, Images <- {"image"}, Admins <- Staff

\* Several requests at once.
Several == INSTANCE CollectionProofs WITH
    Users <- FewUsers, FollowIds <- Ids, Members <- FewUsers,
    Creators <- FewUsers, PartnershipIds <- Ids, ReviewIds <- Ids,
    ReviewedPlaces <- Places, ReviewedEvents <- {},
    ConversationIds <- Places \cup Events, MessageIds <- OneId,
    NotificationIds <- FewIds, Slugs <- Places \cup Events,
    AnnouncementIds <- FewIds, Comments <- {"comment"}, Reviews <- {},
    Images <- {}, Admins <- Staff

\* The two seeds.
SeedsOne == INSTANCE OwnershipProofs WITH
    creators <- seedOne.creators, guests <- seedOne.guests,
    Sited <- seedOne.Sited, EVENT_COUNT <- seedOne.EVENT_COUNT,
    Capacities <- seedOne.Capacities, SeatLimits <- seedOne.SeatLimits,
    PLACE_PERCENT <- seedOne.PLACE_PERCENT,
    INVITATION_PERCENT <- seedOne.INVITATION_PERCENT,
    PARTNERSHIP_PERCENT <- seedOne.PARTNERSHIP_PERCENT,
    ATTENDEES <- seedOne.ATTENDEES, GUEST_FOLLOWS <- seedOne.GUEST_FOLLOWS,
    CREATOR_FOLLOWS <- seedOne.CREATOR_FOLLOWS, FAVORITES <- seedOne.FAVORITES,
    loop <- req

SeedsTwo == INSTANCE OwnershipProofs WITH
    creators <- seedTwo.creators, guests <- seedTwo.guests,
    Sited <- seedTwo.Sited, EVENT_COUNT <- seedTwo.EVENT_COUNT,
    Capacities <- seedTwo.Capacities, SeatLimits <- seedTwo.SeatLimits,
    PLACE_PERCENT <- seedTwo.PLACE_PERCENT,
    INVITATION_PERCENT <- seedTwo.INVITATION_PERCENT,
    PARTNERSHIP_PERCENT <- seedTwo.PARTNERSHIP_PERCENT,
    ATTENDEES <- seedTwo.ATTENDEES, GUEST_FOLLOWS <- seedTwo.GUEST_FOLLOWS,
    CREATOR_FOLLOWS <- seedTwo.CREATOR_FOLLOWS, FAVORITES <- seedTwo.FAVORITES,
    loop <- req

\* Accounts, one request at a time, and several at once.
AccountsAlone == INSTANCE AccountsProofs WITH
    Requests <- {alone}, Moderators <- {alone}

AccountsSeveral == INSTANCE AccountsProofs WITH
    MaxSecrets <- FewSecrets

-----------------------------------------------------------------------------
(* WHAT USERS DO WITH EACH OTHER                                           *)

\* No step changes the part that runs.
LEMMA SocialKeepsPart == [SocialNext]_socialVars => part' = part
BY Zenon DEF SocialNext, socialVars

\* In the part named "follow one", the formulas are those of Follow.
LEMMA FollowOneSame ==
    /\ FollowOne!Init <=> Alone!Flw!Init
    /\ [FollowOne!Next]_FollowOne!vars <=> [Alone!Flw!Next]_Alone!Flw!vars
    /\ FollowOne!FollowAssumption <=> Alone!Flw!FollowAssumption
    /\ FollowOne!TypeOK <=> Alone!Flw!TypeOK
    /\ FollowOne!CounterNotBelow <=> Alone!Flw!CounterNotBelow
    /\ FollowOne!NoOrphanFollow <=> Alone!Flw!NoOrphanFollow
BY DEF
    FollowOne!IsFiniteSet, FollowOne!Cardinality, FollowOne!FollowAssumption,
    FollowOne!vars, FollowOne!Absent, FollowOne!Removed, FollowOne!Follows, FollowOne!Idle,
    FollowOne!Local, FollowOne!TypeOK, FollowOne!Init, FollowOne!create, FollowOne!stored,
    FollowOne!findByPair, FollowOne!findFollowersOf, FollowOne!findFollowingOf,
    FollowOne!save, FollowOne!deleteAll, FollowOne!incrementFollowers, FollowOne!goto,
    FollowOne!finish, FollowOne!RequestFail, FollowOne!CreateFind, FollowOne!CreateSave,
    FollowOne!CreateCount, FollowOne!CreateNotify, FollowOne!DeleteFind,
    FollowOne!DeleteDelete, FollowOne!DeleteCount, FollowOne!AccountFind,
    FollowOne!deleteAllInvolvingUser, FollowOne!AccountDelete, FollowOne!Step,
    FollowOne!Next, FollowOne!uncounted, FollowOne!CounterNotBelow,
    FollowOne!NoOrphanFollow, Alone!Flw!IsFiniteSet, Alone!Flw!Cardinality,
    Alone!Flw!FollowAssumption, Alone!Flw!vars, Alone!Flw!Absent, Alone!Flw!Removed,
    Alone!Flw!Follows, Alone!Flw!Idle, Alone!Flw!Local, Alone!Flw!TypeOK, Alone!Flw!Init,
    Alone!Flw!create, Alone!Flw!stored, Alone!Flw!findByPair, Alone!Flw!findFollowersOf,
    Alone!Flw!findFollowingOf, Alone!Flw!save, Alone!Flw!deleteAll,
    Alone!Flw!incrementFollowers, Alone!Flw!goto, Alone!Flw!finish, Alone!Flw!RequestFail,
    Alone!Flw!CreateFind, Alone!Flw!CreateSave, Alone!Flw!CreateCount,
    Alone!Flw!CreateNotify, Alone!Flw!DeleteFind, Alone!Flw!DeleteDelete,
    Alone!Flw!DeleteCount, Alone!Flw!AccountFind, Alone!Flw!deleteAllInvolvingUser,
    Alone!Flw!AccountDelete, Alone!Flw!Step, Alone!Flw!Next, Alone!Flw!uncounted,
    Alone!Flw!CounterNotBelow, Alone!Flw!NoOrphanFollow

LEMMA FollowOneRuns ==
    SocialSpec =>
        /\ [](part = "follow one" => FollowOne!TypeOK)
        /\ [](part = "follow one" => FollowOne!CounterNotBelow)
        /\ [](part = "follow one" => FollowOne!NoOrphanFollow)
<1>1. part = "follow one" /\ SocialInit => Alone!Flw!Init
  BY Zenon, FollowOneSame DEF SocialInit
<1>2. part = "follow one" /\ [SocialNext]_socialVars => [Alone!Flw!Next]_Alone!Flw!vars
  BY Zenon, FollowOneSame
  DEF SocialNext, FollowNext, PartnershipNext, ReviewNext, MessagingNext, NotificationNext,
      AnnouncementNext, ModerationNext, ContextNext, socialVars, followVars,
      partnershipVars, reviewVars, messagingVars, notificationVars, announcementVars,
      moderationVars, contextVars, FollowOne!vars
<1>3. /\ part = "follow one" /\ [SocialNext]_socialVars => (part = "follow one")'
      /\ ~(part = "follow one") /\ [SocialNext]_socialVars => ~(part = "follow one")'
  BY Zenon, SocialKeepsPart
<1>4. Alone!Flw!Spec =>
        /\ []Alone!Flw!TypeOK
        /\ []Alone!Flw!CounterNotBelow
        /\ []Alone!Flw!NoOrphanFollow
  BY FollowOneSame, SocialAssumption, Alone!FollowTypes, Alone!FollowersAreCounted,
     Alone!NoFollowOutlivesAccount
  DEF SocialAssumption
<1> QED BY FollowOneSame, <1>1, <1>2, <1>3, <1>4, PTL
       DEF SocialSpec, Alone!Flw!Spec

\* In the part named "follow two", the formulas are those of Follow.
LEMMA FollowTwoSame ==
    /\ FollowTwo!Init <=> Several!Flw!Init
    /\ [FollowTwo!Next]_FollowTwo!vars <=> [Several!Flw!Next]_Several!Flw!vars
    /\ FollowTwo!FollowAssumption <=> Several!Flw!FollowAssumption
    /\ FollowTwo!TypeOK <=> Several!Flw!TypeOK
    /\ FollowTwo!UniqueFollow <=> Several!Flw!UniqueFollow
BY DEF
    FollowTwo!IsFiniteSet, FollowTwo!Cardinality, FollowTwo!FollowAssumption,
    FollowTwo!vars, FollowTwo!Absent, FollowTwo!Removed, FollowTwo!Follows, FollowTwo!Idle,
    FollowTwo!Local, FollowTwo!TypeOK, FollowTwo!Init, FollowTwo!create, FollowTwo!stored,
    FollowTwo!findByPair, FollowTwo!findFollowersOf, FollowTwo!findFollowingOf,
    FollowTwo!save, FollowTwo!deleteAll, FollowTwo!incrementFollowers, FollowTwo!goto,
    FollowTwo!finish, FollowTwo!RequestFail, FollowTwo!CreateFind, FollowTwo!CreateSave,
    FollowTwo!CreateCount, FollowTwo!CreateNotify, FollowTwo!DeleteFind,
    FollowTwo!DeleteDelete, FollowTwo!DeleteCount, FollowTwo!AccountFind,
    FollowTwo!deleteAllInvolvingUser, FollowTwo!AccountDelete, FollowTwo!Step,
    FollowTwo!Next, FollowTwo!UniqueFollow, Several!Flw!IsFiniteSet,
    Several!Flw!Cardinality, Several!Flw!FollowAssumption, Several!Flw!vars,
    Several!Flw!Absent, Several!Flw!Removed, Several!Flw!Follows, Several!Flw!Idle,
    Several!Flw!Local, Several!Flw!TypeOK, Several!Flw!Init, Several!Flw!create,
    Several!Flw!stored, Several!Flw!findByPair, Several!Flw!findFollowersOf,
    Several!Flw!findFollowingOf, Several!Flw!save, Several!Flw!deleteAll,
    Several!Flw!incrementFollowers, Several!Flw!goto, Several!Flw!finish,
    Several!Flw!RequestFail, Several!Flw!CreateFind, Several!Flw!CreateSave,
    Several!Flw!CreateCount, Several!Flw!CreateNotify, Several!Flw!DeleteFind,
    Several!Flw!DeleteDelete, Several!Flw!DeleteCount, Several!Flw!AccountFind,
    Several!Flw!deleteAllInvolvingUser, Several!Flw!AccountDelete, Several!Flw!Step,
    Several!Flw!Next, Several!Flw!UniqueFollow

LEMMA FollowTwoRuns ==
    SocialSpec =>
        /\ [](part = "follow two" => FollowTwo!TypeOK)
        /\ [](part = "follow two" => FollowTwo!UniqueFollow)
<1>1. part = "follow two" /\ SocialInit => Several!Flw!Init
  BY Zenon, FollowTwoSame DEF SocialInit
<1>2. part = "follow two" /\ [SocialNext]_socialVars => [Several!Flw!Next]_Several!Flw!vars
  BY Zenon, FollowTwoSame
  DEF SocialNext, FollowNext, PartnershipNext, ReviewNext, MessagingNext, NotificationNext,
      AnnouncementNext, ModerationNext, ContextNext, socialVars, followVars,
      partnershipVars, reviewVars, messagingVars, notificationVars, announcementVars,
      moderationVars, contextVars, FollowTwo!vars
<1>3. /\ part = "follow two" /\ [SocialNext]_socialVars => (part = "follow two")'
      /\ ~(part = "follow two") /\ [SocialNext]_socialVars => ~(part = "follow two")'
  BY Zenon, SocialKeepsPart
<1>4. Several!Flw!Spec =>
        /\ []Several!Flw!TypeOK
        /\ []Several!Flw!UniqueFollow
  BY FollowTwoSame, SocialAssumption, Several!FollowTypes, Several!OneFollowEach
  DEF SocialAssumption
<1> QED BY FollowTwoSame, <1>1, <1>2, <1>3, <1>4, PTL
       DEF SocialSpec, Several!Flw!Spec

\* In the part named "partnership one", the formulas are those of Partnership.
LEMMA PartnershipOneSame ==
    /\ PartnershipOne!Init <=> Alone!Prt!Init
    /\ [PartnershipOne!Next]_PartnershipOne!vars <=> [Alone!Prt!Next]_Alone!Prt!vars
    /\ PartnershipOne!PartnershipAssumption <=> Alone!Prt!PartnershipAssumption
    /\ PartnershipOne!TypeOK <=> Alone!Prt!TypeOK
    /\ PartnershipOne!PartnershipsBounded <=> Alone!Prt!PartnershipsBounded
    /\ PartnershipOne!NoOrphanPartnership <=> Alone!Prt!NoOrphanPartnership
    /\ PartnershipOne!CancelKept <=> Alone!Prt!CancelKept
BY DEF
    PartnershipOne!IsFiniteSet, PartnershipOne!Cardinality,
    PartnershipOne!PartnershipAssumption, PartnershipOne!vars, PartnershipOne!Absent,
    PartnershipOne!Removed, PartnershipOne!Partnerships, PartnershipOne!Idle,
    PartnershipOne!Local, PartnershipOne!TypeOK, PartnershipOne!Init, PartnershipOne!create,
    PartnershipOne!accept, PartnershipOne!cancel, PartnershipOne!stored,
    PartnershipOne!live, PartnershipOne!between, PartnershipOne!findExistingBetweenUsers,
    PartnershipOne!update, PartnershipOne!goto, PartnershipOne!finish,
    PartnershipOne!RequestFail, PartnershipOne!CreateFindCollaborator,
    PartnershipOne!CreateFindExisting, PartnershipOne!CreateSave, PartnershipOne!CreateFind,
    PartnershipOne!CreateNotify, PartnershipOne!FindToWrite, PartnershipOne!FindToAccept,
    PartnershipOne!FindToDelete, PartnershipOne!UpdateWrite, PartnershipOne!AccountFind,
    PartnershipOne!deleteManyByUserId, PartnershipOne!AccountDelete, PartnershipOne!Step,
    PartnershipOne!Next, PartnershipOne!findListForUser, PartnershipOne!PartnershipsBounded,
    PartnershipOne!CancelKept, PartnershipOne!NoOrphanPartnership, Alone!Prt!IsFiniteSet,
    Alone!Prt!Cardinality, Alone!Prt!PartnershipAssumption, Alone!Prt!vars,
    Alone!Prt!Absent, Alone!Prt!Removed, Alone!Prt!Partnerships, Alone!Prt!Idle,
    Alone!Prt!Local, Alone!Prt!TypeOK, Alone!Prt!Init, Alone!Prt!create, Alone!Prt!accept,
    Alone!Prt!cancel, Alone!Prt!stored, Alone!Prt!live, Alone!Prt!between,
    Alone!Prt!findExistingBetweenUsers, Alone!Prt!update, Alone!Prt!goto, Alone!Prt!finish,
    Alone!Prt!RequestFail, Alone!Prt!CreateFindCollaborator, Alone!Prt!CreateFindExisting,
    Alone!Prt!CreateSave, Alone!Prt!CreateFind, Alone!Prt!CreateNotify,
    Alone!Prt!FindToWrite, Alone!Prt!FindToAccept, Alone!Prt!FindToDelete,
    Alone!Prt!UpdateWrite, Alone!Prt!AccountFind, Alone!Prt!deleteManyByUserId,
    Alone!Prt!AccountDelete, Alone!Prt!Step, Alone!Prt!Next, Alone!Prt!findListForUser,
    Alone!Prt!PartnershipsBounded, Alone!Prt!CancelKept, Alone!Prt!NoOrphanPartnership

LEMMA PartnershipOneRuns ==
    SocialSpec =>
        /\ [](part = "partnership one" => PartnershipOne!TypeOK)
        /\ [](part = "partnership one" => PartnershipOne!PartnershipsBounded)
        /\ [](part = "partnership one" => PartnershipOne!NoOrphanPartnership)
        /\ [][part = "partnership one" => PartnershipOne!CancelKept]_socialVars
<1>1. part = "partnership one" /\ SocialInit => Alone!Prt!Init
  BY Zenon, PartnershipOneSame DEF SocialInit
<1>2. part = "partnership one" /\ [SocialNext]_socialVars => [Alone!Prt!Next]_Alone!Prt!vars
  BY Zenon, PartnershipOneSame
  DEF SocialNext, FollowNext, PartnershipNext, ReviewNext, MessagingNext, NotificationNext,
      AnnouncementNext, ModerationNext, ContextNext, socialVars, followVars,
      partnershipVars, reviewVars, messagingVars, notificationVars, announcementVars,
      moderationVars, contextVars, PartnershipOne!vars
<1>3. /\ part = "partnership one" /\ [SocialNext]_socialVars => (part = "partnership one")'
      /\ ~(part = "partnership one") /\ [SocialNext]_socialVars => ~(part = "partnership one")'
  BY Zenon, SocialKeepsPart
<1>4. Alone!Prt!Spec =>
        /\ []Alone!Prt!TypeOK
        /\ []Alone!Prt!PartnershipsBounded
        /\ []Alone!Prt!NoOrphanPartnership
        /\ [][Alone!Prt!CancelKept]_Alone!Prt!vars
  BY PartnershipOneSame, SocialAssumption, Alone!PartnershipTypes, Alone!PairBound,
     Alone!NoPartnershipOutlivesAccount, Alone!CancelledForGood
  DEF SocialAssumption, Alone!Prt!CancelledIsFinal
<1>5. part = "partnership one" /\ [SocialNext]_socialVars /\ UNCHANGED Alone!Prt!vars => UNCHANGED socialVars
  BY Zenon
  DEF SocialNext, FollowNext, PartnershipNext, ReviewNext, MessagingNext, NotificationNext,
      AnnouncementNext, ModerationNext, ContextNext, socialVars, followVars,
      partnershipVars, reviewVars, messagingVars, notificationVars, announcementVars,
      moderationVars, contextVars, Alone!Prt!vars
<1> QED BY PartnershipOneSame, <1>1, <1>2, <1>3, <1>4, <1>5, PTL
       DEF SocialSpec, Alone!Prt!Spec

\* In the part named "partnership two", the formulas are those of Partnership.
LEMMA PartnershipTwoSame ==
    /\ PartnershipTwo!Init <=> Several!Prt!Init
    /\ [PartnershipTwo!Next]_PartnershipTwo!vars <=> [Several!Prt!Next]_Several!Prt!vars
    /\ PartnershipTwo!PartnershipAssumption <=> Several!Prt!PartnershipAssumption
    /\ PartnershipTwo!TypeOK <=> Several!Prt!TypeOK
    /\ PartnershipTwo!PartnershipsBounded <=> Several!Prt!PartnershipsBounded
BY DEF
    PartnershipTwo!IsFiniteSet, PartnershipTwo!Cardinality,
    PartnershipTwo!PartnershipAssumption, PartnershipTwo!vars, PartnershipTwo!Absent,
    PartnershipTwo!Removed, PartnershipTwo!Partnerships, PartnershipTwo!Idle,
    PartnershipTwo!Local, PartnershipTwo!TypeOK, PartnershipTwo!Init, PartnershipTwo!create,
    PartnershipTwo!accept, PartnershipTwo!cancel, PartnershipTwo!stored,
    PartnershipTwo!live, PartnershipTwo!between, PartnershipTwo!findExistingBetweenUsers,
    PartnershipTwo!update, PartnershipTwo!goto, PartnershipTwo!finish,
    PartnershipTwo!RequestFail, PartnershipTwo!CreateFindCollaborator,
    PartnershipTwo!CreateFindExisting, PartnershipTwo!CreateSave, PartnershipTwo!CreateFind,
    PartnershipTwo!CreateNotify, PartnershipTwo!FindToWrite, PartnershipTwo!FindToAccept,
    PartnershipTwo!FindToDelete, PartnershipTwo!UpdateWrite, PartnershipTwo!AccountFind,
    PartnershipTwo!deleteManyByUserId, PartnershipTwo!AccountDelete, PartnershipTwo!Step,
    PartnershipTwo!Next, PartnershipTwo!PartnershipsBounded, Several!Prt!IsFiniteSet,
    Several!Prt!Cardinality, Several!Prt!PartnershipAssumption, Several!Prt!vars,
    Several!Prt!Absent, Several!Prt!Removed, Several!Prt!Partnerships, Several!Prt!Idle,
    Several!Prt!Local, Several!Prt!TypeOK, Several!Prt!Init, Several!Prt!create,
    Several!Prt!accept, Several!Prt!cancel, Several!Prt!stored, Several!Prt!live,
    Several!Prt!between, Several!Prt!findExistingBetweenUsers, Several!Prt!update,
    Several!Prt!goto, Several!Prt!finish, Several!Prt!RequestFail,
    Several!Prt!CreateFindCollaborator, Several!Prt!CreateFindExisting,
    Several!Prt!CreateSave, Several!Prt!CreateFind, Several!Prt!CreateNotify,
    Several!Prt!FindToWrite, Several!Prt!FindToAccept, Several!Prt!FindToDelete,
    Several!Prt!UpdateWrite, Several!Prt!AccountFind, Several!Prt!deleteManyByUserId,
    Several!Prt!AccountDelete, Several!Prt!Step, Several!Prt!Next,
    Several!Prt!PartnershipsBounded

LEMMA PartnershipTwoRuns ==
    SocialSpec =>
        /\ [](part = "partnership two" => PartnershipTwo!TypeOK)
        /\ [](part = "partnership two" => PartnershipTwo!PartnershipsBounded)
<1>1. part = "partnership two" /\ SocialInit => Several!Prt!Init
  BY Zenon, PartnershipTwoSame DEF SocialInit
<1>2. part = "partnership two" /\ [SocialNext]_socialVars => [Several!Prt!Next]_Several!Prt!vars
  BY Zenon, PartnershipTwoSame
  DEF SocialNext, FollowNext, PartnershipNext, ReviewNext, MessagingNext, NotificationNext,
      AnnouncementNext, ModerationNext, ContextNext, socialVars, followVars,
      partnershipVars, reviewVars, messagingVars, notificationVars, announcementVars,
      moderationVars, contextVars, PartnershipTwo!vars
<1>3. /\ part = "partnership two" /\ [SocialNext]_socialVars => (part = "partnership two")'
      /\ ~(part = "partnership two") /\ [SocialNext]_socialVars => ~(part = "partnership two")'
  BY Zenon, SocialKeepsPart
<1>4. Several!Prt!Spec =>
        /\ []Several!Prt!TypeOK
        /\ []Several!Prt!PartnershipsBounded
  BY PartnershipTwoSame, SocialAssumption, Several!PartnershipTypes, Several!PairBound
  DEF SocialAssumption
<1> QED BY PartnershipTwoSame, <1>1, <1>2, <1>3, <1>4, PTL
       DEF SocialSpec, Several!Prt!Spec

\* In the part named "review one", the formulas are those of Review.
LEMMA ReviewOneSame ==
    /\ ReviewOne!Init <=> Alone!Rev!Init
    /\ [ReviewOne!Next]_ReviewOne!vars <=> [Alone!Rev!Next]_Alone!Rev!vars
    /\ ReviewOne!ReviewAssumption <=> Alone!Rev!ReviewAssumption
    /\ ReviewOne!TypeOK <=> Alone!Rev!TypeOK
    /\ ReviewOne!RatingExact <=> Alone!Rev!RatingExact
    /\ ReviewOne!NoOrphanReview <=> Alone!Rev!NoOrphanReview
BY DEF
    ReviewOne!IsFiniteSet, ReviewOne!Cardinality, ReviewOne!ReviewAssumption,
    ReviewOne!Targets, ReviewOne!vars, ReviewOne!Absent, ReviewOne!Removed,
    ReviewOne!Reviews, ReviewOne!Averages, ReviewOne!Idle, ReviewOne!Local,
    ReviewOne!TypeOK, ReviewOne!Init, ReviewOne!create, ReviewOne!stored, ReviewOne!exists,
    ReviewOne!findByAuthorAndReference, ReviewOne!findRatingsByReference, ReviewOne!rated,
    ReviewOne!average, ReviewOne!save, ReviewOne!deleteAll, ReviewOne!updateRating,
    ReviewOne!goto, ReviewOne!finish, ReviewOne!RequestFail, ReviewOne!CreateCheckTarget,
    ReviewOne!CreateFindExisting, ReviewOne!CreateSave, ReviewOne!FindOwn,
    ReviewOne!UpdateFind, ReviewOne!UpdateWrite, ReviewOne!DeleteFind,
    ReviewOne!DeleteDelete, ReviewOne!RecalculateRead, ReviewOne!RecalculateWrite,
    ReviewOne!AdminSoftDelete, ReviewOne!EditFind, ReviewOne!EditWrite,
    ReviewOne!CascadeFind, ReviewOne!deleteManyByReferences, ReviewOne!deleteTarget,
    ReviewOne!Step, ReviewOne!Next, ReviewOne!RatingExact, ReviewOne!NoOrphanReview,
    Alone!Rev!IsFiniteSet, Alone!Rev!Cardinality, Alone!Rev!ReviewAssumption,
    Alone!Rev!Targets, Alone!Rev!vars, Alone!Rev!Absent, Alone!Rev!Removed,
    Alone!Rev!Reviews, Alone!Rev!Averages, Alone!Rev!Idle, Alone!Rev!Local,
    Alone!Rev!TypeOK, Alone!Rev!Init, Alone!Rev!create, Alone!Rev!stored, Alone!Rev!exists,
    Alone!Rev!findByAuthorAndReference, Alone!Rev!findRatingsByReference, Alone!Rev!rated,
    Alone!Rev!average, Alone!Rev!save, Alone!Rev!deleteAll, Alone!Rev!updateRating,
    Alone!Rev!goto, Alone!Rev!finish, Alone!Rev!RequestFail, Alone!Rev!CreateCheckTarget,
    Alone!Rev!CreateFindExisting, Alone!Rev!CreateSave, Alone!Rev!FindOwn,
    Alone!Rev!UpdateFind, Alone!Rev!UpdateWrite, Alone!Rev!DeleteFind,
    Alone!Rev!DeleteDelete, Alone!Rev!RecalculateRead, Alone!Rev!RecalculateWrite,
    Alone!Rev!AdminSoftDelete, Alone!Rev!EditFind, Alone!Rev!EditWrite,
    Alone!Rev!CascadeFind, Alone!Rev!deleteManyByReferences, Alone!Rev!deleteTarget,
    Alone!Rev!Step, Alone!Rev!Next, Alone!Rev!RatingExact, Alone!Rev!NoOrphanReview

LEMMA ReviewOneRuns ==
    SocialSpec =>
        /\ [](part = "review one" => ReviewOne!TypeOK)
        /\ [](part = "review one" => ReviewOne!RatingExact)
        /\ [](part = "review one" => ReviewOne!NoOrphanReview)
<1>1. part = "review one" /\ SocialInit => Alone!Rev!Init
  BY Zenon, ReviewOneSame DEF SocialInit
<1>2. part = "review one" /\ [SocialNext]_socialVars => [Alone!Rev!Next]_Alone!Rev!vars
  BY Zenon, ReviewOneSame
  DEF SocialNext, FollowNext, PartnershipNext, ReviewNext, MessagingNext, NotificationNext,
      AnnouncementNext, ModerationNext, ContextNext, socialVars, followVars,
      partnershipVars, reviewVars, messagingVars, notificationVars, announcementVars,
      moderationVars, contextVars, ReviewOne!vars
<1>3. /\ part = "review one" /\ [SocialNext]_socialVars => (part = "review one")'
      /\ ~(part = "review one") /\ [SocialNext]_socialVars => ~(part = "review one")'
  BY Zenon, SocialKeepsPart
<1>4. Alone!Rev!Spec =>
        /\ []Alone!Rev!TypeOK
        /\ []Alone!Rev!RatingExact
        /\ []Alone!Rev!NoOrphanReview
  BY ReviewOneSame, SocialAssumption, Alone!ReviewTypes, Alone!AveragesAreExact,
     Alone!NoReviewOutlivesItsTarget
  DEF SocialAssumption
<1> QED BY ReviewOneSame, <1>1, <1>2, <1>3, <1>4, PTL
       DEF SocialSpec, Alone!Rev!Spec

\* In the part named "review two", the formulas are those of Review.
LEMMA ReviewTwoSame ==
    /\ ReviewTwo!Init <=> Several!Rev!Init
    /\ [ReviewTwo!Next]_ReviewTwo!vars <=> [Several!Rev!Next]_Several!Rev!vars
    /\ ReviewTwo!ReviewAssumption <=> Several!Rev!ReviewAssumption
    /\ ReviewTwo!TypeOK <=> Several!Rev!TypeOK
    /\ ReviewTwo!UniqueReview <=> Several!Rev!UniqueReview
BY DEF
    ReviewTwo!IsFiniteSet, ReviewTwo!Cardinality, ReviewTwo!ReviewAssumption,
    ReviewTwo!Targets, ReviewTwo!vars, ReviewTwo!Absent, ReviewTwo!Removed,
    ReviewTwo!Reviews, ReviewTwo!Averages, ReviewTwo!Idle, ReviewTwo!Local,
    ReviewTwo!TypeOK, ReviewTwo!Init, ReviewTwo!create, ReviewTwo!stored, ReviewTwo!exists,
    ReviewTwo!findByAuthorAndReference, ReviewTwo!findRatingsByReference, ReviewTwo!rated,
    ReviewTwo!average, ReviewTwo!save, ReviewTwo!deleteAll, ReviewTwo!updateRating,
    ReviewTwo!goto, ReviewTwo!finish, ReviewTwo!RequestFail, ReviewTwo!CreateCheckTarget,
    ReviewTwo!CreateFindExisting, ReviewTwo!CreateSave, ReviewTwo!FindOwn,
    ReviewTwo!UpdateFind, ReviewTwo!UpdateWrite, ReviewTwo!DeleteFind,
    ReviewTwo!DeleteDelete, ReviewTwo!RecalculateRead, ReviewTwo!RecalculateWrite,
    ReviewTwo!AdminSoftDelete, ReviewTwo!EditFind, ReviewTwo!EditWrite,
    ReviewTwo!CascadeFind, ReviewTwo!deleteManyByReferences, ReviewTwo!deleteTarget,
    ReviewTwo!Step, ReviewTwo!Next, ReviewTwo!UniqueReview, Several!Rev!IsFiniteSet,
    Several!Rev!Cardinality, Several!Rev!ReviewAssumption, Several!Rev!Targets,
    Several!Rev!vars, Several!Rev!Absent, Several!Rev!Removed, Several!Rev!Reviews,
    Several!Rev!Averages, Several!Rev!Idle, Several!Rev!Local, Several!Rev!TypeOK,
    Several!Rev!Init, Several!Rev!create, Several!Rev!stored, Several!Rev!exists,
    Several!Rev!findByAuthorAndReference, Several!Rev!findRatingsByReference,
    Several!Rev!rated, Several!Rev!average, Several!Rev!save, Several!Rev!deleteAll,
    Several!Rev!updateRating, Several!Rev!goto, Several!Rev!finish, Several!Rev!RequestFail,
    Several!Rev!CreateCheckTarget, Several!Rev!CreateFindExisting, Several!Rev!CreateSave,
    Several!Rev!FindOwn, Several!Rev!UpdateFind, Several!Rev!UpdateWrite,
    Several!Rev!DeleteFind, Several!Rev!DeleteDelete, Several!Rev!RecalculateRead,
    Several!Rev!RecalculateWrite, Several!Rev!AdminSoftDelete, Several!Rev!EditFind,
    Several!Rev!EditWrite, Several!Rev!CascadeFind, Several!Rev!deleteManyByReferences,
    Several!Rev!deleteTarget, Several!Rev!Step, Several!Rev!Next, Several!Rev!UniqueReview

LEMMA ReviewTwoRuns ==
    SocialSpec =>
        /\ [](part = "review two" => ReviewTwo!TypeOK)
        /\ [](part = "review two" => ReviewTwo!UniqueReview)
<1>1. part = "review two" /\ SocialInit => Several!Rev!Init
  BY Zenon, ReviewTwoSame DEF SocialInit
<1>2. part = "review two" /\ [SocialNext]_socialVars => [Several!Rev!Next]_Several!Rev!vars
  BY Zenon, ReviewTwoSame
  DEF SocialNext, FollowNext, PartnershipNext, ReviewNext, MessagingNext, NotificationNext,
      AnnouncementNext, ModerationNext, ContextNext, socialVars, followVars,
      partnershipVars, reviewVars, messagingVars, notificationVars, announcementVars,
      moderationVars, contextVars, ReviewTwo!vars
<1>3. /\ part = "review two" /\ [SocialNext]_socialVars => (part = "review two")'
      /\ ~(part = "review two") /\ [SocialNext]_socialVars => ~(part = "review two")'
  BY Zenon, SocialKeepsPart
<1>4. Several!Rev!Spec =>
        /\ []Several!Rev!TypeOK
        /\ []Several!Rev!UniqueReview
  BY ReviewTwoSame, SocialAssumption, Several!ReviewTypes, Several!OneReviewEach
  DEF SocialAssumption
<1> QED BY ReviewTwoSame, <1>1, <1>2, <1>3, <1>4, PTL
       DEF SocialSpec, Several!Rev!Spec

\* In the part named "messaging one", the formulas are those of Messaging.
LEMMA MessagingOneSame ==
    /\ MessagingOne!Init <=> Alone!Msg!Init
    /\ [MessagingOne!Next]_MessagingOne!vars <=> [Alone!Msg!Next]_Alone!Msg!vars
    /\ MessagingOne!MessagingAssumption <=> Alone!Msg!MessagingAssumption
    /\ MessagingOne!TypeOK <=> Alone!Msg!TypeOK
    /\ MessagingOne!ConversationsBounded <=> Alone!Msg!ConversationsBounded
    /\ MessagingOne!InboxAgrees <=> Alone!Msg!InboxAgrees
    /\ MessagingOne!ReadingsKept <=> Alone!Msg!ReadingsKept
BY DEF
    MessagingOne!IsFiniteSet, MessagingOne!Cardinality, MessagingOne!MessagingAssumption,
    MessagingOne!vars, MessagingOne!NoConversation, MessagingOne!Absent,
    MessagingOne!Removed, MessagingOne!Offline, MessagingOne!Conversations,
    MessagingOne!Messages, MessagingOne!Sockets, MessagingOne!Idle, MessagingOne!Local,
    MessagingOne!TypeOK, MessagingOne!Init, MessagingOne!stored, MessagingOne!exists,
    MessagingOne!isParticipant, MessagingOne!create, MessagingOne!belongsTo,
    MessagingOne!withContent, MessagingOne!findBetweenUsers, MessagingOne!unread,
    MessagingOne!hasUnreadInConversation, MessagingOne!findIdsForUser,
    MessagingOne!countForUser, MessagingOne!update, MessagingOne!updateLastMessage,
    MessagingOne!goto, MessagingOne!finish, MessagingOne!stores, MessagingOne!realtime,
    MessagingOne!RequestFail, MessagingOne!CreateFindBetween,
    MessagingOne!CreateConversation, MessagingOne!CreateFind, MessagingOne!CreateSave,
    MessagingOne!CreateUpdateLast, MessagingOne!CreatePublish, MessagingOne!UpdateFind,
    MessagingOne!UpdateWrite, MessagingOne!DeleteFind, MessagingOne!DeleteWrite,
    MessagingOne!MarkBy, MessagingOne!Mark, MessagingOne!markConversationAsReadFind,
    MessagingOne!markConversationAsReadWrite, MessagingOne!Connect,
    MessagingOne!JoinConversation, MessagingOne!LeaveConversation, MessagingOne!Disconnect,
    MessagingOne!Step, MessagingOne!SocketStep, MessagingOne!Next, MessagingOne!InboxAgrees,
    MessagingOne!ConversationsBounded, MessagingOne!ReadingsKept, Alone!Msg!IsFiniteSet,
    Alone!Msg!Cardinality, Alone!Msg!MessagingAssumption, Alone!Msg!vars,
    Alone!Msg!NoConversation, Alone!Msg!Absent, Alone!Msg!Removed, Alone!Msg!Offline,
    Alone!Msg!Conversations, Alone!Msg!Messages, Alone!Msg!Sockets, Alone!Msg!Idle,
    Alone!Msg!Local, Alone!Msg!TypeOK, Alone!Msg!Init, Alone!Msg!stored, Alone!Msg!exists,
    Alone!Msg!isParticipant, Alone!Msg!create, Alone!Msg!belongsTo, Alone!Msg!withContent,
    Alone!Msg!findBetweenUsers, Alone!Msg!unread, Alone!Msg!hasUnreadInConversation,
    Alone!Msg!findIdsForUser, Alone!Msg!countForUser, Alone!Msg!update,
    Alone!Msg!updateLastMessage, Alone!Msg!goto, Alone!Msg!finish, Alone!Msg!stores,
    Alone!Msg!realtime, Alone!Msg!RequestFail, Alone!Msg!CreateFindBetween,
    Alone!Msg!CreateConversation, Alone!Msg!CreateFind, Alone!Msg!CreateSave,
    Alone!Msg!CreateUpdateLast, Alone!Msg!CreatePublish, Alone!Msg!UpdateFind,
    Alone!Msg!UpdateWrite, Alone!Msg!DeleteFind, Alone!Msg!DeleteWrite, Alone!Msg!MarkBy,
    Alone!Msg!Mark, Alone!Msg!markConversationAsReadFind,
    Alone!Msg!markConversationAsReadWrite, Alone!Msg!Connect, Alone!Msg!JoinConversation,
    Alone!Msg!LeaveConversation, Alone!Msg!Disconnect, Alone!Msg!Step, Alone!Msg!SocketStep,
    Alone!Msg!Next, Alone!Msg!InboxAgrees, Alone!Msg!ConversationsBounded,
    Alone!Msg!ReadingsKept

LEMMA MessagingOneRuns ==
    SocialSpec =>
        /\ [](part = "messaging one" => MessagingOne!TypeOK)
        /\ [](part = "messaging one" => MessagingOne!ConversationsBounded)
        /\ [](part = "messaging one" => MessagingOne!InboxAgrees)
        /\ [][part = "messaging one" => MessagingOne!ReadingsKept]_socialVars
<1>1. part = "messaging one" /\ SocialInit => Alone!Msg!Init
  BY Zenon, MessagingOneSame DEF SocialInit
<1>2. part = "messaging one" /\ [SocialNext]_socialVars => [Alone!Msg!Next]_Alone!Msg!vars
  BY Zenon, MessagingOneSame
  DEF SocialNext, FollowNext, PartnershipNext, ReviewNext, MessagingNext, NotificationNext,
      AnnouncementNext, ModerationNext, ContextNext, socialVars, followVars,
      partnershipVars, reviewVars, messagingVars, notificationVars, announcementVars,
      moderationVars, contextVars, MessagingOne!vars
<1>3. /\ part = "messaging one" /\ [SocialNext]_socialVars => (part = "messaging one")'
      /\ ~(part = "messaging one") /\ [SocialNext]_socialVars => ~(part = "messaging one")'
  BY Zenon, SocialKeepsPart
<1>4. Alone!Msg!Spec =>
        /\ []Alone!Msg!TypeOK
        /\ []Alone!Msg!ConversationsBounded
        /\ []Alone!Msg!InboxAgrees
        /\ [][Alone!Msg!ReadingsKept]_Alone!Msg!vars
  BY MessagingOneSame, SocialAssumption, Alone!MessagingTypes, Alone!ConversationsPerPair,
     Alone!RoomsAreServed, Alone!ReadingsAreKept
  DEF SocialAssumption
<1>5. part = "messaging one" /\ [SocialNext]_socialVars /\ UNCHANGED Alone!Msg!vars => UNCHANGED socialVars
  BY Zenon
  DEF SocialNext, FollowNext, PartnershipNext, ReviewNext, MessagingNext, NotificationNext,
      AnnouncementNext, ModerationNext, ContextNext, socialVars, followVars,
      partnershipVars, reviewVars, messagingVars, notificationVars, announcementVars,
      moderationVars, contextVars, Alone!Msg!vars
<1> QED BY MessagingOneSame, <1>1, <1>2, <1>3, <1>4, <1>5, PTL
       DEF SocialSpec, Alone!Msg!Spec

\* In the part named "messaging two", the formulas are those of Messaging.
LEMMA MessagingTwoSame ==
    /\ MessagingTwo!Init <=> Several!Msg!Init
    /\ [MessagingTwo!Next]_MessagingTwo!vars <=> [Several!Msg!Next]_Several!Msg!vars
    /\ MessagingTwo!MessagingAssumption <=> Several!Msg!MessagingAssumption
    /\ MessagingTwo!TypeOK <=> Several!Msg!TypeOK
    /\ MessagingTwo!ConversationsBounded <=> Several!Msg!ConversationsBounded
    /\ MessagingTwo!InboxAgrees <=> Several!Msg!InboxAgrees
BY DEF
    MessagingTwo!IsFiniteSet, MessagingTwo!Cardinality, MessagingTwo!MessagingAssumption,
    MessagingTwo!vars, MessagingTwo!NoConversation, MessagingTwo!Absent,
    MessagingTwo!Removed, MessagingTwo!Offline, MessagingTwo!Conversations,
    MessagingTwo!Messages, MessagingTwo!Sockets, MessagingTwo!Idle, MessagingTwo!Local,
    MessagingTwo!TypeOK, MessagingTwo!Init, MessagingTwo!stored, MessagingTwo!exists,
    MessagingTwo!isParticipant, MessagingTwo!create, MessagingTwo!belongsTo,
    MessagingTwo!withContent, MessagingTwo!findBetweenUsers, MessagingTwo!unread,
    MessagingTwo!update, MessagingTwo!updateLastMessage, MessagingTwo!goto,
    MessagingTwo!finish, MessagingTwo!stores, MessagingTwo!realtime,
    MessagingTwo!RequestFail, MessagingTwo!CreateFindBetween,
    MessagingTwo!CreateConversation, MessagingTwo!CreateFind, MessagingTwo!CreateSave,
    MessagingTwo!CreateUpdateLast, MessagingTwo!CreatePublish, MessagingTwo!UpdateFind,
    MessagingTwo!UpdateWrite, MessagingTwo!DeleteFind, MessagingTwo!DeleteWrite,
    MessagingTwo!MarkBy, MessagingTwo!Mark, MessagingTwo!markConversationAsReadFind,
    MessagingTwo!markConversationAsReadWrite, MessagingTwo!Connect,
    MessagingTwo!JoinConversation, MessagingTwo!LeaveConversation, MessagingTwo!Disconnect,
    MessagingTwo!Step, MessagingTwo!SocketStep, MessagingTwo!Next, MessagingTwo!InboxAgrees,
    MessagingTwo!ConversationsBounded, Several!Msg!IsFiniteSet, Several!Msg!Cardinality,
    Several!Msg!MessagingAssumption, Several!Msg!vars, Several!Msg!NoConversation,
    Several!Msg!Absent, Several!Msg!Removed, Several!Msg!Offline, Several!Msg!Conversations,
    Several!Msg!Messages, Several!Msg!Sockets, Several!Msg!Idle, Several!Msg!Local,
    Several!Msg!TypeOK, Several!Msg!Init, Several!Msg!stored, Several!Msg!exists,
    Several!Msg!isParticipant, Several!Msg!create, Several!Msg!belongsTo,
    Several!Msg!withContent, Several!Msg!findBetweenUsers, Several!Msg!unread,
    Several!Msg!update, Several!Msg!updateLastMessage, Several!Msg!goto, Several!Msg!finish,
    Several!Msg!stores, Several!Msg!realtime, Several!Msg!RequestFail,
    Several!Msg!CreateFindBetween, Several!Msg!CreateConversation, Several!Msg!CreateFind,
    Several!Msg!CreateSave, Several!Msg!CreateUpdateLast, Several!Msg!CreatePublish,
    Several!Msg!UpdateFind, Several!Msg!UpdateWrite, Several!Msg!DeleteFind,
    Several!Msg!DeleteWrite, Several!Msg!MarkBy, Several!Msg!Mark,
    Several!Msg!markConversationAsReadFind, Several!Msg!markConversationAsReadWrite,
    Several!Msg!Connect, Several!Msg!JoinConversation, Several!Msg!LeaveConversation,
    Several!Msg!Disconnect, Several!Msg!Step, Several!Msg!SocketStep, Several!Msg!Next,
    Several!Msg!InboxAgrees, Several!Msg!ConversationsBounded

LEMMA MessagingTwoRuns ==
    SocialSpec =>
        /\ [](part = "messaging two" => MessagingTwo!TypeOK)
        /\ [](part = "messaging two" => MessagingTwo!ConversationsBounded)
        /\ [](part = "messaging two" => MessagingTwo!InboxAgrees)
<1>1. part = "messaging two" /\ SocialInit => Several!Msg!Init
  BY Zenon, MessagingTwoSame DEF SocialInit
<1>2. part = "messaging two" /\ [SocialNext]_socialVars => [Several!Msg!Next]_Several!Msg!vars
  BY Zenon, MessagingTwoSame
  DEF SocialNext, FollowNext, PartnershipNext, ReviewNext, MessagingNext, NotificationNext,
      AnnouncementNext, ModerationNext, ContextNext, socialVars, followVars,
      partnershipVars, reviewVars, messagingVars, notificationVars, announcementVars,
      moderationVars, contextVars, MessagingTwo!vars
<1>3. /\ part = "messaging two" /\ [SocialNext]_socialVars => (part = "messaging two")'
      /\ ~(part = "messaging two") /\ [SocialNext]_socialVars => ~(part = "messaging two")'
  BY Zenon, SocialKeepsPart
<1>4. Several!Msg!Spec =>
        /\ []Several!Msg!TypeOK
        /\ []Several!Msg!ConversationsBounded
        /\ []Several!Msg!InboxAgrees
  BY MessagingTwoSame, SocialAssumption, Several!MessagingTypes,
     Several!ConversationsPerPair, Several!RoomsAreServed
  DEF SocialAssumption
<1> QED BY MessagingTwoSame, <1>1, <1>2, <1>3, <1>4, PTL
       DEF SocialSpec, Several!Msg!Spec

\* In the part named "notification two", the formulas are those of Notification.
LEMMA NotificationTwoSame ==
    /\ NotificationTwo!Init <=> Several!Ntf!Init
    /\ [NotificationTwo!Next]_NotificationTwo!vars <=> [Several!Ntf!Next]_Several!Ntf!vars
    /\ NotificationTwo!TypeOK <=> Several!Ntf!TypeOK
    /\ NotificationTwo!ReadingsKept <=> Several!Ntf!ReadingsKept
BY DEF
    NotificationTwo!vars, NotificationTwo!eventInvitationNotifier,
    NotificationTwo!eventNotifier, NotificationTwo!partnershipNotifier,
    NotificationTwo!followNotifier, NotificationTwo!Actions, NotificationTwo!Absent,
    NotificationTwo!Removed, NotificationTwo!Notifications, NotificationTwo!Idle,
    NotificationTwo!Local, NotificationTwo!TypeOK, NotificationTwo!Init,
    NotificationTwo!stored, NotificationTwo!create, NotificationTwo!receivedBy,
    NotificationTwo!unreadOf, NotificationTwo!markRead, NotificationTwo!remove,
    NotificationTwo!finish, NotificationTwo!RequestFail, NotificationTwo!CreateSave,
    NotificationTwo!CreateMail, NotificationTwo!markAllAsRead,
    NotificationTwo!markAsReadByActionFind, NotificationTwo!markAsReadByActionWrite,
    NotificationTwo!deleteByReferences, NotificationTwo!deleteByUser, NotificationTwo!Step,
    NotificationTwo!Next, NotificationTwo!ReadingsKept, Several!Ntf!vars,
    Several!Ntf!eventInvitationNotifier, Several!Ntf!eventNotifier,
    Several!Ntf!partnershipNotifier, Several!Ntf!followNotifier, Several!Ntf!Actions,
    Several!Ntf!Absent, Several!Ntf!Removed, Several!Ntf!Notifications, Several!Ntf!Idle,
    Several!Ntf!Local, Several!Ntf!TypeOK, Several!Ntf!Init, Several!Ntf!stored,
    Several!Ntf!create, Several!Ntf!receivedBy, Several!Ntf!unreadOf, Several!Ntf!markRead,
    Several!Ntf!remove, Several!Ntf!finish, Several!Ntf!RequestFail, Several!Ntf!CreateSave,
    Several!Ntf!CreateMail, Several!Ntf!markAllAsRead, Several!Ntf!markAsReadByActionFind,
    Several!Ntf!markAsReadByActionWrite, Several!Ntf!deleteByReferences,
    Several!Ntf!deleteByUser, Several!Ntf!Step, Several!Ntf!Next, Several!Ntf!ReadingsKept

LEMMA NotificationTwoRuns ==
    SocialSpec =>
        /\ [](part = "notification two" => NotificationTwo!TypeOK)
        /\ [][part = "notification two" => NotificationTwo!ReadingsKept]_socialVars
<1>1. part = "notification two" /\ SocialInit => Several!Ntf!Init
  BY Zenon, NotificationTwoSame DEF SocialInit
<1>2. part = "notification two" /\ [SocialNext]_socialVars => [Several!Ntf!Next]_Several!Ntf!vars
  BY Zenon, NotificationTwoSame
  DEF SocialNext, FollowNext, PartnershipNext, ReviewNext, MessagingNext, NotificationNext,
      AnnouncementNext, ModerationNext, ContextNext, socialVars, followVars,
      partnershipVars, reviewVars, messagingVars, notificationVars, announcementVars,
      moderationVars, contextVars, NotificationTwo!vars
<1>3. /\ part = "notification two" /\ [SocialNext]_socialVars => (part = "notification two")'
      /\ ~(part = "notification two") /\ [SocialNext]_socialVars => ~(part = "notification two")'
  BY Zenon, SocialKeepsPart
<1>4. Several!Ntf!Spec =>
        /\ []Several!Ntf!TypeOK
        /\ [][Several!Ntf!ReadingsKept]_Several!Ntf!vars
  BY Several!NotificationTypes, Several!ReadNotificationsStayRead
<1>5. part = "notification two" /\ [SocialNext]_socialVars /\ UNCHANGED Several!Ntf!vars => UNCHANGED socialVars
  BY Zenon
  DEF SocialNext, FollowNext, PartnershipNext, ReviewNext, MessagingNext, NotificationNext,
      AnnouncementNext, ModerationNext, ContextNext, socialVars, followVars,
      partnershipVars, reviewVars, messagingVars, notificationVars, announcementVars,
      moderationVars, contextVars, Several!Ntf!vars
<1> QED BY NotificationTwoSame, <1>1, <1>2, <1>3, <1>4, <1>5, PTL
       DEF SocialSpec, Several!Ntf!Spec

\* In the part named "announcement one", the formulas are those of Announcement.
LEMMA AnnouncementOneSame ==
    /\ AnnouncementOne!Init <=> Alone!Ann!Init
    /\ [AnnouncementOne!Next]_AnnouncementOne!vars <=> [Alone!Ann!Next]_Alone!Ann!vars
    /\ AnnouncementOne!AnnouncementAssumption <=> Alone!Ann!AnnouncementAssumption
    /\ AnnouncementOne!TypeOK <=> Alone!Ann!TypeOK
    /\ AnnouncementOne!DeletionKept <=> Alone!Ann!DeletionKept
BY DEF
    AnnouncementOne!IsFiniteSet, AnnouncementOne!AnnouncementAssumption,
    AnnouncementOne!vars, AnnouncementOne!Absent, AnnouncementOne!Announcements,
    AnnouncementOne!Idle, AnnouncementOne!Local, AnnouncementOne!TypeOK,
    AnnouncementOne!Init, AnnouncementOne!stored, AnnouncementOne!isSoftDeleted,
    AnnouncementOne!createDraft, AnnouncementOne!publish, AnnouncementOne!archive,
    AnnouncementOne!softDelete, AnnouncementOne!withUpdates, AnnouncementOne!findById,
    AnnouncementOne!findBySlug, AnnouncementOne!slugFree, AnnouncementOne!goto,
    AnnouncementOne!finish, AnnouncementOne!RequestFail, AnnouncementOne!CreateFindBySlug,
    AnnouncementOne!create, AnnouncementOne!FindToChange, AnnouncementOne!PublishFind,
    AnnouncementOne!ArchiveFind, AnnouncementOne!SoftDeleteFind, AnnouncementOne!UpdateFind,
    AnnouncementOne!UpdateFindBySlug, AnnouncementOne!update, AnnouncementOne!Step,
    AnnouncementOne!Next, AnnouncementOne!listActive, AnnouncementOne!listAdmin,
    AnnouncementOne!DeletionKept, Alone!Ann!IsFiniteSet, Alone!Ann!AnnouncementAssumption,
    Alone!Ann!vars, Alone!Ann!Absent, Alone!Ann!Announcements, Alone!Ann!Idle,
    Alone!Ann!Local, Alone!Ann!TypeOK, Alone!Ann!Init, Alone!Ann!stored,
    Alone!Ann!isSoftDeleted, Alone!Ann!createDraft, Alone!Ann!publish, Alone!Ann!archive,
    Alone!Ann!softDelete, Alone!Ann!withUpdates, Alone!Ann!findById, Alone!Ann!findBySlug,
    Alone!Ann!slugFree, Alone!Ann!goto, Alone!Ann!finish, Alone!Ann!RequestFail,
    Alone!Ann!CreateFindBySlug, Alone!Ann!create, Alone!Ann!FindToChange,
    Alone!Ann!PublishFind, Alone!Ann!ArchiveFind, Alone!Ann!SoftDeleteFind,
    Alone!Ann!UpdateFind, Alone!Ann!UpdateFindBySlug, Alone!Ann!update, Alone!Ann!Step,
    Alone!Ann!Next, Alone!Ann!listActive, Alone!Ann!listAdmin, Alone!Ann!DeletionKept

LEMMA AnnouncementOneRuns ==
    SocialSpec =>
        /\ [](part = "announcement one" => AnnouncementOne!TypeOK)
        /\ [][part = "announcement one" => AnnouncementOne!DeletionKept]_socialVars
<1>1. part = "announcement one" /\ SocialInit => Alone!Ann!Init
  BY Zenon, AnnouncementOneSame DEF SocialInit
<1>2. part = "announcement one" /\ [SocialNext]_socialVars => [Alone!Ann!Next]_Alone!Ann!vars
  BY Zenon, AnnouncementOneSame
  DEF SocialNext, FollowNext, PartnershipNext, ReviewNext, MessagingNext, NotificationNext,
      AnnouncementNext, ModerationNext, ContextNext, socialVars, followVars,
      partnershipVars, reviewVars, messagingVars, notificationVars, announcementVars,
      moderationVars, contextVars, AnnouncementOne!vars
<1>3. /\ part = "announcement one" /\ [SocialNext]_socialVars => (part = "announcement one")'
      /\ ~(part = "announcement one") /\ [SocialNext]_socialVars => ~(part = "announcement one")'
  BY Zenon, SocialKeepsPart
<1>4. Alone!Ann!Spec =>
        /\ []Alone!Ann!TypeOK
        /\ [][Alone!Ann!DeletionKept]_Alone!Ann!vars
  BY AnnouncementOneSame, SocialAssumption, Alone!AnnouncementTypes, Alone!DeletionsAreKept
  DEF SocialAssumption
<1>5. part = "announcement one" /\ [SocialNext]_socialVars /\ UNCHANGED Alone!Ann!vars => UNCHANGED socialVars
  BY Zenon
  DEF SocialNext, FollowNext, PartnershipNext, ReviewNext, MessagingNext, NotificationNext,
      AnnouncementNext, ModerationNext, ContextNext, socialVars, followVars,
      partnershipVars, reviewVars, messagingVars, notificationVars, announcementVars,
      moderationVars, contextVars, Alone!Ann!vars
<1> QED BY AnnouncementOneSame, <1>1, <1>2, <1>3, <1>4, <1>5, PTL
       DEF SocialSpec, Alone!Ann!Spec

\* In the part named "announcement two", the formulas are those of Announcement.
LEMMA AnnouncementTwoSame ==
    /\ AnnouncementTwo!Init <=> Several!Ann!Init
    /\ [AnnouncementTwo!Next]_AnnouncementTwo!vars <=> [Several!Ann!Next]_Several!Ann!vars
    /\ AnnouncementTwo!AnnouncementAssumption <=> Several!Ann!AnnouncementAssumption
    /\ AnnouncementTwo!TypeOK <=> Several!Ann!TypeOK
    /\ AnnouncementTwo!UniqueSlug <=> Several!Ann!UniqueSlug
BY DEF
    AnnouncementTwo!IsFiniteSet, AnnouncementTwo!AnnouncementAssumption,
    AnnouncementTwo!vars, AnnouncementTwo!Absent, AnnouncementTwo!Announcements,
    AnnouncementTwo!Idle, AnnouncementTwo!Local, AnnouncementTwo!TypeOK,
    AnnouncementTwo!Init, AnnouncementTwo!stored, AnnouncementTwo!isSoftDeleted,
    AnnouncementTwo!createDraft, AnnouncementTwo!publish, AnnouncementTwo!archive,
    AnnouncementTwo!softDelete, AnnouncementTwo!withUpdates, AnnouncementTwo!findById,
    AnnouncementTwo!findBySlug, AnnouncementTwo!slugFree, AnnouncementTwo!goto,
    AnnouncementTwo!finish, AnnouncementTwo!RequestFail, AnnouncementTwo!CreateFindBySlug,
    AnnouncementTwo!create, AnnouncementTwo!FindToChange, AnnouncementTwo!PublishFind,
    AnnouncementTwo!ArchiveFind, AnnouncementTwo!SoftDeleteFind, AnnouncementTwo!UpdateFind,
    AnnouncementTwo!UpdateFindBySlug, AnnouncementTwo!update, AnnouncementTwo!Step,
    AnnouncementTwo!Next, AnnouncementTwo!listAdmin, AnnouncementTwo!UniqueSlug,
    Several!Ann!IsFiniteSet, Several!Ann!AnnouncementAssumption, Several!Ann!vars,
    Several!Ann!Absent, Several!Ann!Announcements, Several!Ann!Idle, Several!Ann!Local,
    Several!Ann!TypeOK, Several!Ann!Init, Several!Ann!stored, Several!Ann!isSoftDeleted,
    Several!Ann!createDraft, Several!Ann!publish, Several!Ann!archive,
    Several!Ann!softDelete, Several!Ann!withUpdates, Several!Ann!findById,
    Several!Ann!findBySlug, Several!Ann!slugFree, Several!Ann!goto, Several!Ann!finish,
    Several!Ann!RequestFail, Several!Ann!CreateFindBySlug, Several!Ann!create,
    Several!Ann!FindToChange, Several!Ann!PublishFind, Several!Ann!ArchiveFind,
    Several!Ann!SoftDeleteFind, Several!Ann!UpdateFind, Several!Ann!UpdateFindBySlug,
    Several!Ann!update, Several!Ann!Step, Several!Ann!Next, Several!Ann!listAdmin,
    Several!Ann!UniqueSlug

LEMMA AnnouncementTwoRuns ==
    SocialSpec =>
        /\ [](part = "announcement two" => AnnouncementTwo!TypeOK)
        /\ [](part = "announcement two" => AnnouncementTwo!UniqueSlug)
<1>1. part = "announcement two" /\ SocialInit => Several!Ann!Init
  BY Zenon, AnnouncementTwoSame DEF SocialInit
<1>2. part = "announcement two" /\ [SocialNext]_socialVars => [Several!Ann!Next]_Several!Ann!vars
  BY Zenon, AnnouncementTwoSame
  DEF SocialNext, FollowNext, PartnershipNext, ReviewNext, MessagingNext, NotificationNext,
      AnnouncementNext, ModerationNext, ContextNext, socialVars, followVars,
      partnershipVars, reviewVars, messagingVars, notificationVars, announcementVars,
      moderationVars, contextVars, AnnouncementTwo!vars
<1>3. /\ part = "announcement two" /\ [SocialNext]_socialVars => (part = "announcement two")'
      /\ ~(part = "announcement two") /\ [SocialNext]_socialVars => ~(part = "announcement two")'
  BY Zenon, SocialKeepsPart
<1>4. Several!Ann!Spec =>
        /\ []Several!Ann!TypeOK
        /\ []Several!Ann!UniqueSlug
  BY AnnouncementTwoSame, SocialAssumption, Several!AnnouncementTypes, Several!OneSlugEach
  DEF SocialAssumption
<1> QED BY AnnouncementTwoSame, <1>1, <1>2, <1>3, <1>4, PTL
       DEF SocialSpec, Several!Ann!Spec

\* In the part named "moderation one", the formulas are those of Moderation.
LEMMA ModerationOneSame ==
    /\ ModerationOne!Init <=> Alone!Mod!Init
    /\ [ModerationOne!Next]_ModerationOne!vars <=> [Alone!Mod!Next]_Alone!Mod!vars
    /\ ModerationOne!TypeOK <=> Alone!Mod!TypeOK
    /\ ModerationOne!ModerationKept({}) <=> Alone!Mod!ModerationKept({})
BY DEF
    ModerationOne!Docs, ModerationOne!vars, ModerationOne!Absent, ModerationOne!Removed,
    ModerationOne!Documents, ModerationOne!Idle, ModerationOne!Local, ModerationOne!TypeOK,
    ModerationOne!Init, ModerationOne!stored, ModerationOne!create, ModerationOne!set,
    ModerationOne!toPersistence, ModerationOne!update, ModerationOne!buildSoftDeleteUpdate,
    ModerationOne!start, ModerationOne!finish, ModerationOne!RequestFail,
    ModerationOne!Create, ModerationOne!editable, ModerationOne!UpdateFind,
    ModerationOne!UpdateWrite, ModerationOne!DeleteFind, ModerationOne!DeleteWrite,
    ModerationOne!applyAdminResourceSoftDelete, ModerationOne!softDelete,
    ModerationOne!Step, ModerationOne!Next, ModerationOne!serves, ModerationOne!moderated,
    ModerationOne!ModerationKept, Alone!Mod!Docs, Alone!Mod!vars, Alone!Mod!Absent,
    Alone!Mod!Removed, Alone!Mod!Documents, Alone!Mod!Idle, Alone!Mod!Local,
    Alone!Mod!TypeOK, Alone!Mod!Init, Alone!Mod!stored, Alone!Mod!create, Alone!Mod!set,
    Alone!Mod!toPersistence, Alone!Mod!update, Alone!Mod!buildSoftDeleteUpdate,
    Alone!Mod!start, Alone!Mod!finish, Alone!Mod!RequestFail, Alone!Mod!Create,
    Alone!Mod!editable, Alone!Mod!UpdateFind, Alone!Mod!UpdateWrite, Alone!Mod!DeleteFind,
    Alone!Mod!DeleteWrite, Alone!Mod!applyAdminResourceSoftDelete, Alone!Mod!softDelete,
    Alone!Mod!Step, Alone!Mod!Next, Alone!Mod!serves, Alone!Mod!moderated,
    Alone!Mod!ModerationKept

LEMMA ModerationOneRuns ==
    SocialSpec =>
        /\ [](part = "moderation one" => ModerationOne!TypeOK)
        /\ [][part = "moderation one" => ModerationOne!ModerationKept({})]_socialVars
<1>1. part = "moderation one" /\ SocialInit => Alone!Mod!Init
  BY Zenon, ModerationOneSame DEF SocialInit
<1>2. part = "moderation one" /\ [SocialNext]_socialVars => [Alone!Mod!Next]_Alone!Mod!vars
  BY Zenon, ModerationOneSame
  DEF SocialNext, FollowNext, PartnershipNext, ReviewNext, MessagingNext, NotificationNext,
      AnnouncementNext, ModerationNext, ContextNext, socialVars, followVars,
      partnershipVars, reviewVars, messagingVars, notificationVars, announcementVars,
      moderationVars, contextVars, ModerationOne!vars
<1>3. /\ part = "moderation one" /\ [SocialNext]_socialVars => (part = "moderation one")'
      /\ ~(part = "moderation one") /\ [SocialNext]_socialVars => ~(part = "moderation one")'
  BY Zenon, SocialKeepsPart
<1>4. Alone!Mod!Spec =>
        /\ []Alone!Mod!TypeOK
        /\ [][Alone!Mod!ModerationKept({})]_Alone!Mod!vars
  BY Alone!ModerationTypes, Alone!ModerationIsKeptAlone
<1>5. part = "moderation one" /\ [SocialNext]_socialVars /\ UNCHANGED Alone!Mod!vars => UNCHANGED socialVars
  BY Zenon
  DEF SocialNext, FollowNext, PartnershipNext, ReviewNext, MessagingNext, NotificationNext,
      AnnouncementNext, ModerationNext, ContextNext, socialVars, followVars,
      partnershipVars, reviewVars, messagingVars, notificationVars, announcementVars,
      moderationVars, contextVars, Alone!Mod!vars
<1> QED BY ModerationOneSame, <1>1, <1>2, <1>3, <1>4, <1>5, PTL
       DEF SocialSpec, Alone!Mod!Spec

\* In the part named "moderation two", the formulas are those of Moderation.
LEMMA ModerationTwoSame ==
    /\ ModerationTwo!Init <=> Several!Mod!Init
    /\ [ModerationTwo!Next]_ModerationTwo!vars <=> [Several!Mod!Next]_Several!Mod!vars
    /\ ModerationTwo!TypeOK <=> Several!Mod!TypeOK
    /\ ModerationTwo!ModerationKept(Events) <=> Several!Mod!ModerationKept(Events)
BY DEF
    ModerationTwo!Docs, ModerationTwo!vars, ModerationTwo!Absent, ModerationTwo!Removed,
    ModerationTwo!Documents, ModerationTwo!Idle, ModerationTwo!Local, ModerationTwo!TypeOK,
    ModerationTwo!Init, ModerationTwo!stored, ModerationTwo!create, ModerationTwo!set,
    ModerationTwo!toPersistence, ModerationTwo!update, ModerationTwo!buildSoftDeleteUpdate,
    ModerationTwo!start, ModerationTwo!finish, ModerationTwo!RequestFail,
    ModerationTwo!Create, ModerationTwo!editable, ModerationTwo!UpdateFind,
    ModerationTwo!UpdateWrite, ModerationTwo!DeleteFind, ModerationTwo!DeleteWrite,
    ModerationTwo!applyAdminResourceSoftDelete, ModerationTwo!softDelete,
    ModerationTwo!Step, ModerationTwo!Next, ModerationTwo!serves, ModerationTwo!moderated,
    ModerationTwo!ModerationKept, Several!Mod!Docs, Several!Mod!vars, Several!Mod!Absent,
    Several!Mod!Removed, Several!Mod!Documents, Several!Mod!Idle, Several!Mod!Local,
    Several!Mod!TypeOK, Several!Mod!Init, Several!Mod!stored, Several!Mod!create,
    Several!Mod!set, Several!Mod!toPersistence, Several!Mod!update,
    Several!Mod!buildSoftDeleteUpdate, Several!Mod!start, Several!Mod!finish,
    Several!Mod!RequestFail, Several!Mod!Create, Several!Mod!editable,
    Several!Mod!UpdateFind, Several!Mod!UpdateWrite, Several!Mod!DeleteFind,
    Several!Mod!DeleteWrite, Several!Mod!applyAdminResourceSoftDelete,
    Several!Mod!softDelete, Several!Mod!Step, Several!Mod!Next, Several!Mod!serves,
    Several!Mod!moderated, Several!Mod!ModerationKept

LEMMA ModerationTwoRuns ==
    SocialSpec =>
        /\ [](part = "moderation two" => ModerationTwo!TypeOK)
        /\ [][part = "moderation two" => ModerationTwo!ModerationKept(Events)]_socialVars
<1>1. part = "moderation two" /\ SocialInit => Several!Mod!Init
  BY Zenon, ModerationTwoSame DEF SocialInit
<1>2. part = "moderation two" /\ [SocialNext]_socialVars => [Several!Mod!Next]_Several!Mod!vars
  BY Zenon, ModerationTwoSame
  DEF SocialNext, FollowNext, PartnershipNext, ReviewNext, MessagingNext, NotificationNext,
      AnnouncementNext, ModerationNext, ContextNext, socialVars, followVars,
      partnershipVars, reviewVars, messagingVars, notificationVars, announcementVars,
      moderationVars, contextVars, ModerationTwo!vars
<1>3. /\ part = "moderation two" /\ [SocialNext]_socialVars => (part = "moderation two")'
      /\ ~(part = "moderation two") /\ [SocialNext]_socialVars => ~(part = "moderation two")'
  BY Zenon, SocialKeepsPart
<1>4. Several!Mod!Spec =>
        /\ []Several!Mod!TypeOK
        /\ [][Several!Mod!ModerationKept(Events)]_Several!Mod!vars
  BY Several!ModerationTypes, Several!ModerationIsKept
<1>5. part = "moderation two" /\ [SocialNext]_socialVars /\ UNCHANGED Several!Mod!vars => UNCHANGED socialVars
  BY Zenon
  DEF SocialNext, FollowNext, PartnershipNext, ReviewNext, MessagingNext, NotificationNext,
      AnnouncementNext, ModerationNext, ContextNext, socialVars, followVars,
      partnershipVars, reviewVars, messagingVars, notificationVars, announcementVars,
      moderationVars, contextVars, Several!Mod!vars
<1> QED BY ModerationTwoSame, <1>1, <1>2, <1>3, <1>4, <1>5, PTL
       DEF SocialSpec, Several!Mod!Spec

\* In the part named "seed one", the formulas are those of SeedContext.
LEMMA SeedOneSame ==
    /\ SeedOne!Init <=> SeedsOne!Ctx!Init
    /\ [SeedOne!Next]_SeedOne!vars <=> [SeedsOne!Ctx!Next]_SeedsOne!Ctx!vars
    /\ SeedOne!SeedAssumption <=> SeedsOne!Ctx!SeedAssumption
    /\ SeedOne!TypeOK <=> SeedsOne!Ctx!TypeOK
    /\ SeedOne!GeneratedFigures <=> SeedsOne!Ctx!GeneratedFigures
    /\ SeedOne!GeneratedOnce <=> SeedsOne!Ctx!GeneratedOnce
BY DEF
    SeedOne!Cardinality, SeedOne!ToSet, SeedOne!Creators, SeedOne!Guests, SeedOne!People,
    SeedOne!EventNumbers, SeedOne!SeedAssumption, SeedOne!vars, SeedOne!Event,
    SeedOne!Invitation, SeedOne!Booking, SeedOne!Follow, SeedOne!Favorite,
    SeedOne!Partnership, SeedOne!Loop, SeedOne!TypeOK, SeedOne!Init, SeedOne!least,
    SeedOne!share, SeedOne!drawn, SeedOne!atLeastOne, SeedOne!picks, SeedOne!at,
    SeedOne!creatorsWithPlace, SeedOne!Sites, SeedOne!goto, SeedOne!throw, SeedOne!venues,
    SeedOne!assertEventInvariants, SeedOne!generateEvent, SeedOne!generatedEvents,
    SeedOne!generateInvitations, SeedOne!isBooked, SeedOne!generateBookings,
    SeedOne!bookAttendee, SeedOne!bookedEvent, SeedOne!followsOf, SeedOne!generateFollows,
    SeedOne!generateFavorites, SeedOne!asking, SeedOne!partnershipsOf,
    SeedOne!generatePartnerships, SeedOne!Next, SeedOne!confirmedSeats, SeedOne!passed,
    SeedOne!GeneratedFigures, SeedOne!GeneratedOnce, SeedsOne!Ctx!Cardinality,
    SeedsOne!Ctx!ToSet, SeedsOne!Ctx!Creators, SeedsOne!Ctx!Guests, SeedsOne!Ctx!People,
    SeedsOne!Ctx!EventNumbers, SeedsOne!Ctx!SeedAssumption, SeedsOne!Ctx!vars,
    SeedsOne!Ctx!Event, SeedsOne!Ctx!Invitation, SeedsOne!Ctx!Booking, SeedsOne!Ctx!Follow,
    SeedsOne!Ctx!Favorite, SeedsOne!Ctx!Partnership, SeedsOne!Ctx!Loop, SeedsOne!Ctx!TypeOK,
    SeedsOne!Ctx!Init, SeedsOne!Ctx!least, SeedsOne!Ctx!share, SeedsOne!Ctx!drawn,
    SeedsOne!Ctx!atLeastOne, SeedsOne!Ctx!picks, SeedsOne!Ctx!at,
    SeedsOne!Ctx!creatorsWithPlace, SeedsOne!Ctx!Sites, SeedsOne!Ctx!goto,
    SeedsOne!Ctx!throw, SeedsOne!Ctx!venues, SeedsOne!Ctx!assertEventInvariants,
    SeedsOne!Ctx!generateEvent, SeedsOne!Ctx!generatedEvents,
    SeedsOne!Ctx!generateInvitations, SeedsOne!Ctx!isBooked, SeedsOne!Ctx!generateBookings,
    SeedsOne!Ctx!bookAttendee, SeedsOne!Ctx!bookedEvent, SeedsOne!Ctx!followsOf,
    SeedsOne!Ctx!generateFollows, SeedsOne!Ctx!generateFavorites, SeedsOne!Ctx!asking,
    SeedsOne!Ctx!partnershipsOf, SeedsOne!Ctx!generatePartnerships, SeedsOne!Ctx!Next,
    SeedsOne!Ctx!confirmedSeats, SeedsOne!Ctx!passed, SeedsOne!Ctx!GeneratedFigures,
    SeedsOne!Ctx!GeneratedOnce

LEMMA SeedOneRuns ==
    SocialSpec =>
        /\ [](part = "seed one" => SeedOne!TypeOK)
        /\ [](part = "seed one" => SeedOne!GeneratedFigures)
        /\ [](part = "seed one" => SeedOne!GeneratedOnce)
<1>1. part = "seed one" /\ SocialInit => SeedsOne!Ctx!Init
  BY Zenon, SeedOneSame DEF SocialInit
<1>2. part = "seed one" /\ [SocialNext]_socialVars => [SeedsOne!Ctx!Next]_SeedsOne!Ctx!vars
  BY Zenon, SeedOneSame
  DEF SocialNext, FollowNext, PartnershipNext, ReviewNext, MessagingNext, NotificationNext,
      AnnouncementNext, ModerationNext, ContextNext, socialVars, followVars,
      partnershipVars, reviewVars, messagingVars, notificationVars, announcementVars,
      moderationVars, contextVars, SeedOne!vars
<1>3. /\ part = "seed one" /\ [SocialNext]_socialVars => (part = "seed one")'
      /\ ~(part = "seed one") /\ [SocialNext]_socialVars => ~(part = "seed one")'
  BY Zenon, SocialKeepsPart
<1>4. SeedsOne!Ctx!Spec =>
        /\ []SeedsOne!Ctx!TypeOK
        /\ []SeedsOne!Ctx!GeneratedFigures
        /\ []SeedsOne!Ctx!GeneratedOnce
  BY SeedOneSame, SocialAssumption, SeedsOne!GeneratedTypes, SeedsOne!FiguresAreGenerated,
     SeedsOne!PairsAreGeneratedOnce
  DEF SocialAssumption
<1> QED BY SeedOneSame, <1>1, <1>2, <1>3, <1>4, PTL
       DEF SocialSpec, SeedsOne!Ctx!Spec

\* In the part named "seed two", the formulas are those of SeedContext.
LEMMA SeedTwoSame ==
    /\ SeedTwo!Init <=> SeedsTwo!Ctx!Init
    /\ [SeedTwo!Next]_SeedTwo!vars <=> [SeedsTwo!Ctx!Next]_SeedsTwo!Ctx!vars
    /\ SeedTwo!SeedAssumption <=> SeedsTwo!Ctx!SeedAssumption
    /\ SeedTwo!TypeOK <=> SeedsTwo!Ctx!TypeOK
    /\ SeedTwo!GeneratedFigures <=> SeedsTwo!Ctx!GeneratedFigures
    /\ SeedTwo!GeneratedOnce <=> SeedsTwo!Ctx!GeneratedOnce
BY DEF
    SeedTwo!Cardinality, SeedTwo!ToSet, SeedTwo!Creators, SeedTwo!Guests, SeedTwo!People,
    SeedTwo!EventNumbers, SeedTwo!SeedAssumption, SeedTwo!vars, SeedTwo!Event,
    SeedTwo!Invitation, SeedTwo!Booking, SeedTwo!Follow, SeedTwo!Favorite,
    SeedTwo!Partnership, SeedTwo!Loop, SeedTwo!TypeOK, SeedTwo!Init, SeedTwo!least,
    SeedTwo!share, SeedTwo!drawn, SeedTwo!atLeastOne, SeedTwo!picks, SeedTwo!at,
    SeedTwo!creatorsWithPlace, SeedTwo!Sites, SeedTwo!goto, SeedTwo!throw, SeedTwo!venues,
    SeedTwo!assertEventInvariants, SeedTwo!generateEvent, SeedTwo!generatedEvents,
    SeedTwo!generateInvitations, SeedTwo!isBooked, SeedTwo!generateBookings,
    SeedTwo!bookAttendee, SeedTwo!bookedEvent, SeedTwo!followsOf, SeedTwo!generateFollows,
    SeedTwo!generateFavorites, SeedTwo!asking, SeedTwo!partnershipsOf,
    SeedTwo!generatePartnerships, SeedTwo!Next, SeedTwo!confirmedSeats, SeedTwo!passed,
    SeedTwo!GeneratedFigures, SeedTwo!GeneratedOnce, SeedsTwo!Ctx!Cardinality,
    SeedsTwo!Ctx!ToSet, SeedsTwo!Ctx!Creators, SeedsTwo!Ctx!Guests, SeedsTwo!Ctx!People,
    SeedsTwo!Ctx!EventNumbers, SeedsTwo!Ctx!SeedAssumption, SeedsTwo!Ctx!vars,
    SeedsTwo!Ctx!Event, SeedsTwo!Ctx!Invitation, SeedsTwo!Ctx!Booking, SeedsTwo!Ctx!Follow,
    SeedsTwo!Ctx!Favorite, SeedsTwo!Ctx!Partnership, SeedsTwo!Ctx!Loop, SeedsTwo!Ctx!TypeOK,
    SeedsTwo!Ctx!Init, SeedsTwo!Ctx!least, SeedsTwo!Ctx!share, SeedsTwo!Ctx!drawn,
    SeedsTwo!Ctx!atLeastOne, SeedsTwo!Ctx!picks, SeedsTwo!Ctx!at,
    SeedsTwo!Ctx!creatorsWithPlace, SeedsTwo!Ctx!Sites, SeedsTwo!Ctx!goto,
    SeedsTwo!Ctx!throw, SeedsTwo!Ctx!venues, SeedsTwo!Ctx!assertEventInvariants,
    SeedsTwo!Ctx!generateEvent, SeedsTwo!Ctx!generatedEvents,
    SeedsTwo!Ctx!generateInvitations, SeedsTwo!Ctx!isBooked, SeedsTwo!Ctx!generateBookings,
    SeedsTwo!Ctx!bookAttendee, SeedsTwo!Ctx!bookedEvent, SeedsTwo!Ctx!followsOf,
    SeedsTwo!Ctx!generateFollows, SeedsTwo!Ctx!generateFavorites, SeedsTwo!Ctx!asking,
    SeedsTwo!Ctx!partnershipsOf, SeedsTwo!Ctx!generatePartnerships, SeedsTwo!Ctx!Next,
    SeedsTwo!Ctx!confirmedSeats, SeedsTwo!Ctx!passed, SeedsTwo!Ctx!GeneratedFigures,
    SeedsTwo!Ctx!GeneratedOnce

LEMMA SeedTwoRuns ==
    SocialSpec =>
        /\ [](part = "seed two" => SeedTwo!TypeOK)
        /\ [](part = "seed two" => SeedTwo!GeneratedFigures)
        /\ [](part = "seed two" => SeedTwo!GeneratedOnce)
<1>1. part = "seed two" /\ SocialInit => SeedsTwo!Ctx!Init
  BY Zenon, SeedTwoSame DEF SocialInit
<1>2. part = "seed two" /\ [SocialNext]_socialVars => [SeedsTwo!Ctx!Next]_SeedsTwo!Ctx!vars
  BY Zenon, SeedTwoSame
  DEF SocialNext, FollowNext, PartnershipNext, ReviewNext, MessagingNext, NotificationNext,
      AnnouncementNext, ModerationNext, ContextNext, socialVars, followVars,
      partnershipVars, reviewVars, messagingVars, notificationVars, announcementVars,
      moderationVars, contextVars, SeedTwo!vars
<1>3. /\ part = "seed two" /\ [SocialNext]_socialVars => (part = "seed two")'
      /\ ~(part = "seed two") /\ [SocialNext]_socialVars => ~(part = "seed two")'
  BY Zenon, SocialKeepsPart
<1>4. SeedsTwo!Ctx!Spec =>
        /\ []SeedsTwo!Ctx!TypeOK
        /\ []SeedsTwo!Ctx!GeneratedFigures
        /\ []SeedsTwo!Ctx!GeneratedOnce
  BY SeedTwoSame, SocialAssumption, SeedsTwo!GeneratedTypes, SeedsTwo!FiguresAreGenerated,
     SeedsTwo!PairsAreGeneratedOnce
  DEF SocialAssumption
<1> QED BY SeedTwoSame, <1>1, <1>2, <1>3, <1>4, PTL
       DEF SocialSpec, SeedsTwo!Ctx!Spec

\* Every part keeps to its types.
THEOREM SocialTypes == SocialSpec => []SocialTypeOK
<1> DEFINE first == /\ part = "follow one" => FollowOne!TypeOK
                    /\ part = "follow two" => FollowTwo!TypeOK
                    /\ part = "partnership one" => PartnershipOne!TypeOK
                    /\ part = "partnership two" => PartnershipTwo!TypeOK
                    /\ part = "review one" => ReviewOne!TypeOK
           second == /\ part = "review two" => ReviewTwo!TypeOK
                     /\ part = "messaging one" => MessagingOne!TypeOK
                     /\ part = "messaging two" => MessagingTwo!TypeOK
                     /\ part = "notification two" => NotificationTwo!TypeOK
                     /\ part = "announcement one" => AnnouncementOne!TypeOK
           third == /\ part = "announcement two" => AnnouncementTwo!TypeOK
                    /\ part = "moderation one" => ModerationOne!TypeOK
                    /\ part = "moderation two" => ModerationTwo!TypeOK
                    /\ part = "seed one" => SeedOne!TypeOK
                    /\ part = "seed two" => SeedTwo!TypeOK
<1>1. SocialSpec => []first
  BY FollowOneRuns, FollowTwoRuns, PartnershipOneRuns, PartnershipTwoRuns, ReviewOneRuns,
     PTL
<1>2. SocialSpec => []second
  BY ReviewTwoRuns, MessagingOneRuns, MessagingTwoRuns, NotificationTwoRuns,
     AnnouncementOneRuns, PTL
<1>3. SocialSpec => []third
  BY AnnouncementTwoRuns, ModerationOneRuns, ModerationTwoRuns, SeedOneRuns, SeedTwoRuns,
     PTL
<1>4. first /\ second /\ third => SocialTypeOK
  BY Zenon DEF SocialTypeOK
<1> HIDE DEF first, second, third
<1> QED BY <1>1, <1>2, <1>3, <1>4, PTL

\* One request at a time, the followers and the averages shown agree with what they
\* count, and the figures of the documents made up as seed data do (Follow, Review,
\* SeedContext).
THEOREM FiguresAlwaysAgree == SocialSpec => []FiguresAgree
BY FollowOneRuns, ReviewOneRuns, SeedOneRuns, SeedTwoRuns, PTL DEF FiguresAgree

\* Two users have at most as many partnerships in view and conversations as there are
\* requests at once (CreatePartnership.usecase.ts, CreateConversation.usecase.ts).
THEOREM PairsAreBounded == SocialSpec => []PairsBounded
BY PartnershipOneRuns, PartnershipTwoRuns, MessagingOneRuns, MessagingTwoRuns,
   PTL DEF PairsBounded

\* A follow, a review and a slug are unique however requests overlap, and so are the
\* bookings and partnerships that are made up.
THEOREM OneOfEach == SocialSpec => []OneEach
BY FollowTwoRuns, ReviewTwoRuns, AnnouncementTwoRuns, SeedOneRuns, SeedTwoRuns,
   PTL DEF OneEach

\* One request at a time, no follow, partnership or review outlives the accounts or the
\* target it refers to.
THEOREM NothingIsOrphaned == SocialSpec => []NoOrphans
BY FollowOneRuns, PartnershipOneRuns, ReviewOneRuns, PTL DEF NoOrphans

\* However requests overlap, whoever is in a room was pushed what is unread there.
THEOREM InboxesAgree == SocialSpec => []InboxAgrees
BY MessagingOneRuns, MessagingTwoRuns, PTL DEF InboxAgrees

\* What was decided stays: cancellations, deletions, readings and what administrators
\* took out of view.
THEOREM DecisionsHold == SocialSpec => DecisionsStay
BY PartnershipOneRuns, MessagingOneRuns, NotificationTwoRuns, AnnouncementOneRuns,
   ModerationOneRuns, ModerationTwoRuns, PTL DEF DecisionsStay

-----------------------------------------------------------------------------
(* ACCOUNTS                                                                *)

\* No step changes the part that runs.
LEMMA AccountKeepsPart == [AccountNext]_accountVars => part' = part
BY Zenon DEF AccountNext, accountVars

\* In the part named "one", the formulas are those of Accounts.
LEMMA OneSame ==
    /\ One!Init <=> AccountsAlone!Init
    /\ [One!Next]_One!vars <=> [AccountsAlone!Next]_AccountsAlone!vars
    /\ One!AccountsAssumption <=> AccountsAlone!AccountsAssumption
    /\ One!TypeOK <=> AccountsAlone!TypeOK
    /\ One!OneAccountPerEmail <=> AccountsAlone!OneAccountPerEmail
    /\ One!SessionsProven <=> AccountsAlone!SessionsProven
    /\ One!OneTimeSecrets <=> AccountsAlone!OneTimeSecrets
    /\ One!IssuedInGoodStanding <=> AccountsAlone!IssuedInGoodStanding
    /\ One!DecisionKept <=> AccountsAlone!DecisionKept
BY ZenonT(60) DEF
    One!IsFiniteSet, One!Cardinality, One!AccountsAssumption, One!vars, One!Secrets,
    One!NoSecret, One!MaxUses, One!Users, One!register, One!registerFromGoogle, One!Absent,
    One!Removed, One!Idle, One!Local, One!TypeOK, One!Init, One!isBanActive,
    One!canAuthenticate, One!setEmailVerificationToken, One!verifyEmail,
    One!setPasswordResetToken, One!clearPasswordResetToken, One!setPasswordHash,
    One!linkGoogleAccount, One!mergeUnverifiedWithGoogle, One!startTotpSetup,
    One!confirmTotp, One!disableTotp, One!setTwoFactorChallenge,
    One!clearTwoFactorChallenge, One!consumeRecoveryCode, One!ban, One!unban,
    One!softDelete, One!restore, One!stored, One!findByEmail, One!findByGoogleId,
    One!findBySecret, One!create, One!toAuthPersistence, One!update, One!finish,
    One!goWrite, One!goWriteBy, One!draw, One!fresh, One!others, One!RequestFail, One!Write,
    One!Mail, One!Reload, One!Session, One!RegisterFind, One!RegisterCreate,
    One!ResendVerificationEmail, One!VerifyEmail, One!RequestPasswordReset,
    One!ResetPassword, One!signInAs, One!SignIn, One!GoogleAuthFind,
    One!GoogleAuthFindByEmail, One!GoogleAuthCreate, One!buildAuthResponse,
    One!VerifyTwoFactor, One!Verify, One!verified, One!me, One!AcceptCgu,
    One!SetupTwoFactor, One!ConfirmTwoFactor, One!DisableTwoFactor, One!UpdateUser,
    One!DeleteAccountFind, One!DeleteAccountUser, One!BanAdminUser, One!UnbanAdminUser,
    One!SoftDeleteAdminUser, One!RestoreAdminUser, One!BansLapse, One!Moderate, One!Step,
    One!Next, One!OneAccountPerEmail, One!SessionsProven, One!OneTimeSecrets,
    One!IssuedInGoodStanding, One!DecisionKept, AccountsAlone!IsFiniteSet,
    AccountsAlone!Cardinality, AccountsAlone!AccountsAssumption, AccountsAlone!vars,
    AccountsAlone!Secrets, AccountsAlone!NoSecret, AccountsAlone!MaxUses,
    AccountsAlone!Users, AccountsAlone!register, AccountsAlone!registerFromGoogle,
    AccountsAlone!Absent, AccountsAlone!Removed, AccountsAlone!Idle, AccountsAlone!Local,
    AccountsAlone!TypeOK, AccountsAlone!Init, AccountsAlone!isBanActive,
    AccountsAlone!canAuthenticate, AccountsAlone!setEmailVerificationToken,
    AccountsAlone!verifyEmail, AccountsAlone!setPasswordResetToken,
    AccountsAlone!clearPasswordResetToken, AccountsAlone!setPasswordHash,
    AccountsAlone!linkGoogleAccount, AccountsAlone!mergeUnverifiedWithGoogle,
    AccountsAlone!startTotpSetup, AccountsAlone!confirmTotp, AccountsAlone!disableTotp,
    AccountsAlone!setTwoFactorChallenge, AccountsAlone!clearTwoFactorChallenge,
    AccountsAlone!consumeRecoveryCode, AccountsAlone!ban, AccountsAlone!unban,
    AccountsAlone!softDelete, AccountsAlone!restore, AccountsAlone!stored,
    AccountsAlone!findByEmail, AccountsAlone!findByGoogleId, AccountsAlone!findBySecret,
    AccountsAlone!create, AccountsAlone!toAuthPersistence, AccountsAlone!update,
    AccountsAlone!finish, AccountsAlone!goWrite, AccountsAlone!goWriteBy,
    AccountsAlone!draw, AccountsAlone!fresh, AccountsAlone!others,
    AccountsAlone!RequestFail, AccountsAlone!Write, AccountsAlone!Mail,
    AccountsAlone!Reload, AccountsAlone!Session, AccountsAlone!RegisterFind,
    AccountsAlone!RegisterCreate, AccountsAlone!ResendVerificationEmail,
    AccountsAlone!VerifyEmail, AccountsAlone!RequestPasswordReset,
    AccountsAlone!ResetPassword, AccountsAlone!signInAs, AccountsAlone!SignIn,
    AccountsAlone!GoogleAuthFind, AccountsAlone!GoogleAuthFindByEmail,
    AccountsAlone!GoogleAuthCreate, AccountsAlone!buildAuthResponse,
    AccountsAlone!VerifyTwoFactor, AccountsAlone!Verify, AccountsAlone!verified,
    AccountsAlone!me, AccountsAlone!AcceptCgu, AccountsAlone!SetupTwoFactor,
    AccountsAlone!ConfirmTwoFactor, AccountsAlone!DisableTwoFactor,
    AccountsAlone!UpdateUser, AccountsAlone!DeleteAccountFind,
    AccountsAlone!DeleteAccountUser, AccountsAlone!BanAdminUser,
    AccountsAlone!UnbanAdminUser, AccountsAlone!SoftDeleteAdminUser,
    AccountsAlone!RestoreAdminUser, AccountsAlone!BansLapse, AccountsAlone!Moderate,
    AccountsAlone!Step, AccountsAlone!Next, AccountsAlone!OneAccountPerEmail,
    AccountsAlone!SessionsProven, AccountsAlone!OneTimeSecrets,
    AccountsAlone!IssuedInGoodStanding, AccountsAlone!DecisionKept

LEMMA OneRuns ==
    AccountSpec =>
        /\ [](part = "one" => One!TypeOK)
        /\ [](part = "one" => One!OneAccountPerEmail)
        /\ [](part = "one" => One!SessionsProven)
        /\ [](part = "one" => One!OneTimeSecrets)
        /\ [][part = "one" => One!IssuedInGoodStanding]_accountVars
        /\ [][part = "one" => One!DecisionKept]_accountVars
<1>1. part = "one" /\ AccountInit => AccountsAlone!Init
  BY Zenon, OneSame DEF AccountInit
<1>2. part = "one" /\ [AccountNext]_accountVars => [AccountsAlone!Next]_AccountsAlone!vars
  BY Zenon, OneSame
  DEF AccountNext, accountVars, One!vars
<1>3. /\ part = "one" /\ [AccountNext]_accountVars => (part = "one")'
      /\ ~(part = "one") /\ [AccountNext]_accountVars => ~(part = "one")'
  BY Zenon, AccountKeepsPart
<1>4. AccountsAlone!Spec =>
        /\ []AccountsAlone!TypeOK
        /\ []AccountsAlone!OneAccountPerEmail
        /\ []AccountsAlone!SessionsProven
        /\ []AccountsAlone!OneTimeSecrets
        /\ [][AccountsAlone!IssuedInGoodStanding]_AccountsAlone!vars
        /\ [][AccountsAlone!DecisionKept]_AccountsAlone!vars
  BY OneSame, AccountPartsAssumption, AccountsAlone!AccountTypes, AccountsAlone!OneAccount,
     AccountsAlone!SessionsAreProven, AccountsAlone!SecretsAreUsedOnce,
     AccountsAlone!SessionsInGoodStanding, AccountsAlone!DecisionsAreKept
  DEF AccountPartsAssumption
<1>5. part = "one" /\ [AccountNext]_accountVars /\ UNCHANGED AccountsAlone!vars => UNCHANGED accountVars
  BY Zenon
  DEF AccountNext, accountVars, AccountsAlone!vars
<1> QED BY OneSame, <1>1, <1>2, <1>3, <1>4, <1>5, PTL
       DEF AccountSpec, AccountsAlone!Spec

\* In the part named "two", the formulas are those of Accounts.
LEMMA TwoSame ==
    /\ Two!Init <=> AccountsSeveral!Init
    /\ [Two!Next]_Two!vars <=> [AccountsSeveral!Next]_AccountsSeveral!vars
    /\ Two!AccountsAssumption <=> AccountsSeveral!AccountsAssumption
    /\ Two!TypeOK <=> AccountsSeveral!TypeOK
    /\ Two!OneAccountPerEmail <=> AccountsSeveral!OneAccountPerEmail
    /\ Two!SessionsProven <=> AccountsSeveral!SessionsProven
BY ZenonT(60) DEF
    Two!IsFiniteSet, Two!Cardinality, Two!AccountsAssumption, Two!vars, Two!Secrets,
    Two!NoSecret, Two!MaxUses, Two!Users, Two!register, Two!registerFromGoogle, Two!Absent,
    Two!Removed, Two!Idle, Two!Local, Two!TypeOK, Two!Init, Two!isBanActive,
    Two!canAuthenticate, Two!setEmailVerificationToken, Two!verifyEmail,
    Two!setPasswordResetToken, Two!clearPasswordResetToken, Two!setPasswordHash,
    Two!linkGoogleAccount, Two!mergeUnverifiedWithGoogle, Two!startTotpSetup,
    Two!confirmTotp, Two!disableTotp, Two!setTwoFactorChallenge,
    Two!clearTwoFactorChallenge, Two!consumeRecoveryCode, Two!ban, Two!unban,
    Two!softDelete, Two!restore, Two!stored, Two!findByEmail, Two!findByGoogleId,
    Two!findBySecret, Two!create, Two!toAuthPersistence, Two!update, Two!finish,
    Two!goWrite, Two!goWriteBy, Two!draw, Two!fresh, Two!others, Two!RequestFail, Two!Write,
    Two!Mail, Two!Reload, Two!Session, Two!RegisterFind, Two!RegisterCreate,
    Two!ResendVerificationEmail, Two!VerifyEmail, Two!RequestPasswordReset,
    Two!ResetPassword, Two!signInAs, Two!SignIn, Two!GoogleAuthFind,
    Two!GoogleAuthFindByEmail, Two!GoogleAuthCreate, Two!buildAuthResponse,
    Two!VerifyTwoFactor, Two!Verify, Two!verified, Two!me, Two!AcceptCgu,
    Two!SetupTwoFactor, Two!ConfirmTwoFactor, Two!DisableTwoFactor, Two!UpdateUser,
    Two!DeleteAccountFind, Two!DeleteAccountUser, Two!BanAdminUser, Two!UnbanAdminUser,
    Two!SoftDeleteAdminUser, Two!RestoreAdminUser, Two!BansLapse, Two!Moderate, Two!Step,
    Two!Next, Two!OneAccountPerEmail, Two!SessionsProven, AccountsSeveral!IsFiniteSet,
    AccountsSeveral!Cardinality, AccountsSeveral!AccountsAssumption, AccountsSeveral!vars,
    AccountsSeveral!Secrets, AccountsSeveral!NoSecret, AccountsSeveral!MaxUses,
    AccountsSeveral!Users, AccountsSeveral!register, AccountsSeveral!registerFromGoogle,
    AccountsSeveral!Absent, AccountsSeveral!Removed, AccountsSeveral!Idle,
    AccountsSeveral!Local, AccountsSeveral!TypeOK, AccountsSeveral!Init,
    AccountsSeveral!isBanActive, AccountsSeveral!canAuthenticate,
    AccountsSeveral!setEmailVerificationToken, AccountsSeveral!verifyEmail,
    AccountsSeveral!setPasswordResetToken, AccountsSeveral!clearPasswordResetToken,
    AccountsSeveral!setPasswordHash, AccountsSeveral!linkGoogleAccount,
    AccountsSeveral!mergeUnverifiedWithGoogle, AccountsSeveral!startTotpSetup,
    AccountsSeveral!confirmTotp, AccountsSeveral!disableTotp,
    AccountsSeveral!setTwoFactorChallenge, AccountsSeveral!clearTwoFactorChallenge,
    AccountsSeveral!consumeRecoveryCode, AccountsSeveral!ban, AccountsSeveral!unban,
    AccountsSeveral!softDelete, AccountsSeveral!restore, AccountsSeveral!stored,
    AccountsSeveral!findByEmail, AccountsSeveral!findByGoogleId,
    AccountsSeveral!findBySecret, AccountsSeveral!create, AccountsSeveral!toAuthPersistence,
    AccountsSeveral!update, AccountsSeveral!finish, AccountsSeveral!goWrite,
    AccountsSeveral!goWriteBy, AccountsSeveral!draw, AccountsSeveral!fresh,
    AccountsSeveral!others, AccountsSeveral!RequestFail, AccountsSeveral!Write,
    AccountsSeveral!Mail, AccountsSeveral!Reload, AccountsSeveral!Session,
    AccountsSeveral!RegisterFind, AccountsSeveral!RegisterCreate,
    AccountsSeveral!ResendVerificationEmail, AccountsSeveral!VerifyEmail,
    AccountsSeveral!RequestPasswordReset, AccountsSeveral!ResetPassword,
    AccountsSeveral!signInAs, AccountsSeveral!SignIn, AccountsSeveral!GoogleAuthFind,
    AccountsSeveral!GoogleAuthFindByEmail, AccountsSeveral!GoogleAuthCreate,
    AccountsSeveral!buildAuthResponse, AccountsSeveral!VerifyTwoFactor,
    AccountsSeveral!Verify, AccountsSeveral!verified, AccountsSeveral!me,
    AccountsSeveral!AcceptCgu, AccountsSeveral!SetupTwoFactor,
    AccountsSeveral!ConfirmTwoFactor, AccountsSeveral!DisableTwoFactor,
    AccountsSeveral!UpdateUser, AccountsSeveral!DeleteAccountFind,
    AccountsSeveral!DeleteAccountUser, AccountsSeveral!BanAdminUser,
    AccountsSeveral!UnbanAdminUser, AccountsSeveral!SoftDeleteAdminUser,
    AccountsSeveral!RestoreAdminUser, AccountsSeveral!BansLapse, AccountsSeveral!Moderate,
    AccountsSeveral!Step, AccountsSeveral!Next, AccountsSeveral!OneAccountPerEmail,
    AccountsSeveral!SessionsProven

LEMMA TwoRuns ==
    AccountSpec =>
        /\ [](part = "two" => Two!TypeOK)
        /\ [](part = "two" => Two!OneAccountPerEmail)
        /\ [](part = "two" => Two!SessionsProven)
<1>1. part = "two" /\ AccountInit => AccountsSeveral!Init
  BY Zenon, TwoSame DEF AccountInit
<1>2. part = "two" /\ [AccountNext]_accountVars => [AccountsSeveral!Next]_AccountsSeveral!vars
  BY Zenon, TwoSame
  DEF AccountNext, accountVars, Two!vars
<1>3. /\ part = "two" /\ [AccountNext]_accountVars => (part = "two")'
      /\ ~(part = "two") /\ [AccountNext]_accountVars => ~(part = "two")'
  BY Zenon, AccountKeepsPart
<1>4. AccountsSeveral!Spec =>
        /\ []AccountsSeveral!TypeOK
        /\ []AccountsSeveral!OneAccountPerEmail
        /\ []AccountsSeveral!SessionsProven
  BY TwoSame, AccountPartsAssumption, AccountsSeveral!AccountTypes,
     AccountsSeveral!OneAccount, AccountsSeveral!SessionsAreProven
  DEF AccountPartsAssumption
<1> QED BY TwoSame, <1>1, <1>2, <1>3, <1>4, PTL
       DEF AccountSpec, AccountsSeveral!Spec

\* Both parts keep to their types.
THEOREM AccountPartsTypes == AccountSpec => []AccountTypeOK
BY OneRuns, TwoRuns, PTL DEF AccountTypeOK

\* An address has one account, however registrations and Google sign-ins overlap.
THEOREM AddressesHaveOneAccount == AccountSpec => []OneAccountPerEmail
BY OneRuns, TwoRuns, PTL DEF OneAccountPerEmail

\* Nobody holds a session of an account whose address was never proved.
THEOREM SessionsOfProvenAccounts == AccountSpec => []SessionsProven
BY OneRuns, TwoRuns, PTL DEF SessionsProven

\* One request at a time, a link, a challenge or a recovery code is accepted once.
THEOREM LinksAreUsedOnce == AccountSpec => []SecretsUsedOnce
BY OneRuns, PTL DEF SecretsUsedOnce

\* One request at a time, sessions are issued in good standing, past the second factor.
THEOREM StandingIsGood == AccountSpec => GoodStanding
BY OneRuns, PTL DEF GoodStanding

\* One request at a time, only an administrator undoes what an administrator decided.
THEOREM AdministratorsDecide == AccountSpec => DecisionsKept
BY OneRuns, PTL DEF DecisionsKept
=============================================================================
