----------------------------- MODULE SocialParts -----------------------------
(***************************************************************************)
(* What users do with each other: follows, partnerships, reviews, messages,*)
(* notifications, announcements, and what administrators take out of view; *)
(* and the documents that the seed script makes up.  The parts run with    *)
(* their requests one at a time, with several of them at once, or both.    *)
(***************************************************************************)
EXTENDS Subjects

CONSTANTS
    FewUsers,                  \* those of the parts with several requests
    Authors, Listeners,        \* who reviews, and who has a socket
    Staff,                     \* the administrators who moderate
    Texts, Ratings, Notifiers,
    Ids, FewIds, OneId,        \* the identifiers of documents
    seedOne, seedTwo           \* what is configured of a seed (config.ts)

VARIABLES follows, followers, missed, partnerships, reviews, rating, stale,
          accounts, conversations, messages, sockets, pushed, excused,
          notifications, optedIn, mails, announcements, doc,
          events, invitations, bookings, favorites

FollowOne == INSTANCE Follow WITH
    FollowIds <- Ids, Requests <- {alone}
FollowTwo == INSTANCE Follow WITH
    Users <- FewUsers, FollowIds <- Ids

PartnershipOne == INSTANCE Partnership WITH
    Users <- FewUsers, Creators <- FewUsers, PartnershipIds <- Ids, Requests <- {alone}
PartnershipTwo == INSTANCE Partnership WITH
    Users <- FewUsers, Creators <- FewUsers, PartnershipIds <- Ids

ReviewOne == INSTANCE Review WITH
    Authors <- Users, ReviewIds <- Ids, Requests <- {alone}, Places <- {}
ReviewTwo == INSTANCE Review WITH
    ReviewIds <- Ids, Events <- {}

MessagingOne == INSTANCE Messaging WITH
    Users <- FewUsers, ConversationIds <- Places \cup Events, MessageIds <- FewIds,
    Requests <- {alone}
MessagingTwo == INSTANCE Messaging WITH
    Users <- FewUsers, ConversationIds <- Places \cup Events, MessageIds <- OneId

NotificationTwo == INSTANCE Notification WITH
    Users <- FewUsers, NotificationIds <- FewIds

AnnouncementOne == INSTANCE Announcement WITH
    Slugs <- Places \cup Events, AnnouncementIds <- Ids, Requests <- {alone}
AnnouncementTwo == INSTANCE Announcement WITH
    Slugs <- Places \cup Events, AnnouncementIds <- FewIds

\* One review, image and comment is enough, no two are touched by one request.
ModerationOne == INSTANCE Moderation WITH
    Comments <- {}, Reviews <- {"review"}, Images <- {"image"}, Admins <- Staff,
    Requests <- {alone}
ModerationTwo == INSTANCE Moderation WITH
    Comments <- {"comment"}, Reviews <- {}, Images <- {}, Admins <- Staff

SeedOne == INSTANCE SeedContext WITH
    creators <- seedOne.creators, guests <- seedOne.guests, Sited <- seedOne.Sited,
    EVENT_COUNT <- seedOne.EVENT_COUNT, Capacities <- seedOne.Capacities,
    SeatLimits <- seedOne.SeatLimits, PLACE_PERCENT <- seedOne.PLACE_PERCENT,
    INVITATION_PERCENT <- seedOne.INVITATION_PERCENT,
    PARTNERSHIP_PERCENT <- seedOne.PARTNERSHIP_PERCENT,
    ATTENDEES <- seedOne.ATTENDEES, GUEST_FOLLOWS <- seedOne.GUEST_FOLLOWS,
    CREATOR_FOLLOWS <- seedOne.CREATOR_FOLLOWS, FAVORITES <- seedOne.FAVORITES,
    loop <- req
SeedTwo == INSTANCE SeedContext WITH
    creators <- seedTwo.creators, guests <- seedTwo.guests, Sited <- seedTwo.Sited,
    EVENT_COUNT <- seedTwo.EVENT_COUNT, Capacities <- seedTwo.Capacities,
    SeatLimits <- seedTwo.SeatLimits, PLACE_PERCENT <- seedTwo.PLACE_PERCENT,
    INVITATION_PERCENT <- seedTwo.INVITATION_PERCENT,
    PARTNERSHIP_PERCENT <- seedTwo.PARTNERSHIP_PERCENT,
    ATTENDEES <- seedTwo.ATTENDEES, GUEST_FOLLOWS <- seedTwo.GUEST_FOLLOWS,
    CREATOR_FOLLOWS <- seedTwo.CREATOR_FOLLOWS, FAVORITES <- seedTwo.FAVORITES,
    loop <- req

ASSUME SocialAssumption ==
    /\ FollowOne!FollowAssumption
    /\ FollowTwo!FollowAssumption
    /\ PartnershipOne!PartnershipAssumption
    /\ PartnershipTwo!PartnershipAssumption
    /\ ReviewOne!ReviewAssumption
    /\ ReviewTwo!ReviewAssumption
    /\ MessagingOne!MessagingAssumption
    /\ MessagingTwo!MessagingAssumption
    /\ NotificationTwo!NotificationAssumption
    /\ AnnouncementOne!AnnouncementAssumption
    /\ AnnouncementTwo!AnnouncementAssumption
    /\ ModerationOne!ModerationAssumption
    /\ ModerationTwo!ModerationAssumption
    /\ SeedOne!SeedAssumption
    /\ SeedTwo!SeedAssumption

followVars       == <<follows, followers, missed>>
partnershipVars  == <<partnerships>>
reviewVars       == <<reviews, rating, stale>>
messagingVars    == <<conversations, messages, sockets, pushed, excused>>
notificationVars == <<notifications, optedIn, mails>>
announcementVars == <<announcements>>
moderationVars   == <<doc>>
contextVars      == <<events, invitations, bookings, favorites>>

socialVars == <<part, followVars, partnershipVars, reviewVars, accounts, messagingVars,
            notificationVars, announcementVars, moderationVars, contextVars, req>>

followUnused       == follows = Unused /\ followers = Unused /\ missed = Unused
partnershipUnused  == partnerships = Unused
reviewUnused       == reviews = Unused /\ rating = Unused /\ stale = Unused
accountsUnused     == accounts = Unused
messagingUnused    == /\ conversations = Unused /\ messages = Unused /\ sockets = Unused
                      /\ pushed = Unused /\ excused = Unused
notificationUnused == notifications = Unused /\ optedIn = Unused /\ mails = Unused
announcementUnused == announcements = Unused
moderationUnused   == doc = Unused
contextUnused      == /\ events = Unused /\ invitations = Unused
                      /\ bookings = Unused /\ favorites = Unused

SocialInit ==
    \/ /\ \/ part = "follow one" /\ FollowOne!Init
          \/ part = "follow two" /\ FollowTwo!Init
       /\ partnershipUnused /\ reviewUnused
       /\ messagingUnused /\ notificationUnused /\ announcementUnused /\ moderationUnused
       /\ contextUnused
    \/ /\ \/ part = "partnership one" /\ PartnershipOne!Init
          \/ part = "partnership two" /\ PartnershipTwo!Init
       /\ followUnused /\ reviewUnused
       /\ messagingUnused /\ notificationUnused /\ announcementUnused /\ moderationUnused
       /\ contextUnused
    \/ /\ \/ part = "review one" /\ ReviewOne!Init
          \/ part = "review two" /\ ReviewTwo!Init
       /\ followUnused /\ partnershipUnused /\ accountsUnused
       /\ messagingUnused /\ notificationUnused /\ announcementUnused /\ moderationUnused
       /\ contextUnused
    \/ /\ \/ part = "messaging one" /\ MessagingOne!Init
          \/ part = "messaging two" /\ MessagingTwo!Init
       /\ followUnused /\ partnershipUnused /\ reviewUnused /\ accountsUnused
       /\ notificationUnused /\ announcementUnused /\ moderationUnused /\ contextUnused
    \/ /\ part = "notification two" /\ NotificationTwo!Init
       /\ followUnused /\ partnershipUnused /\ reviewUnused /\ accountsUnused
       /\ messagingUnused /\ announcementUnused /\ moderationUnused /\ contextUnused
    \/ /\ \/ part = "announcement one" /\ AnnouncementOne!Init
          \/ part = "announcement two" /\ AnnouncementTwo!Init
       /\ followUnused /\ partnershipUnused /\ reviewUnused /\ accountsUnused
       /\ messagingUnused /\ notificationUnused /\ moderationUnused /\ contextUnused
    \/ /\ \/ part = "moderation one" /\ ModerationOne!Init
          \/ part = "moderation two" /\ ModerationTwo!Init
       /\ followUnused /\ partnershipUnused /\ reviewUnused /\ accountsUnused
       /\ messagingUnused /\ notificationUnused /\ announcementUnused /\ contextUnused
    \/ /\ \/ part = "seed one" /\ SeedOne!Init
          \/ part = "seed two" /\ SeedTwo!Init
       /\ missed = Unused
       /\ reviewUnused /\ accountsUnused /\ messagingUnused /\ notificationUnused
       /\ announcementUnused /\ moderationUnused

FollowNext ==
    /\ \/ part = "follow one" /\ FollowOne!Next
       \/ part = "follow two" /\ FollowTwo!Next
    /\ UNCHANGED <<partnershipVars, reviewVars, messagingVars, notificationVars,
                   announcementVars, moderationVars, contextVars>>

PartnershipNext ==
    /\ \/ part = "partnership one" /\ PartnershipOne!Next
       \/ part = "partnership two" /\ PartnershipTwo!Next
    /\ UNCHANGED <<followVars, reviewVars, messagingVars, notificationVars,
                   announcementVars, moderationVars, contextVars>>

ReviewNext ==
    /\ \/ part = "review one" /\ ReviewOne!Next
       \/ part = "review two" /\ ReviewTwo!Next
    /\ UNCHANGED <<followVars, partnershipVars, accounts, messagingVars,
                   notificationVars, announcementVars, moderationVars, contextVars>>

MessagingNext ==
    /\ \/ part = "messaging one" /\ MessagingOne!Next
       \/ part = "messaging two" /\ MessagingTwo!Next
    /\ UNCHANGED <<followVars, partnershipVars, reviewVars, accounts,
                   notificationVars, announcementVars, moderationVars, contextVars>>

NotificationNext ==
    /\ part = "notification two" /\ NotificationTwo!Next
    /\ UNCHANGED <<followVars, partnershipVars, reviewVars, accounts, messagingVars,
                   announcementVars, moderationVars, contextVars>>

AnnouncementNext ==
    /\ \/ part = "announcement one" /\ AnnouncementOne!Next
       \/ part = "announcement two" /\ AnnouncementTwo!Next
    /\ UNCHANGED <<followVars, partnershipVars, reviewVars, accounts, messagingVars,
                   notificationVars, moderationVars, contextVars>>

ModerationNext ==
    /\ \/ part = "moderation one" /\ ModerationOne!Next
       \/ part = "moderation two" /\ ModerationTwo!Next
    /\ UNCHANGED <<followVars, partnershipVars, reviewVars, accounts, messagingVars,
                   notificationVars, announcementVars, contextVars>>

ContextNext ==
    /\ \/ part = "seed one" /\ SeedOne!Next
       \/ part = "seed two" /\ SeedTwo!Next
    /\ UNCHANGED <<missed, reviewVars, accounts, messagingVars, notificationVars,
                   announcementVars, moderationVars>>

SocialNext ==
    /\ UNCHANGED part
    /\ \/ FollowNext \/ PartnershipNext \/ ReviewNext
       \/ MessagingNext \/ NotificationNext \/ AnnouncementNext
       \/ ModerationNext \/ ContextNext

SocialSpec == SocialInit /\ [][SocialNext]_socialVars

-----------------------------------------------------------------------------
(* The properties of the parts                                             *)

\* Every part keeps to its types.
SocialTypeOK ==
    /\ part = "follow one" => FollowOne!TypeOK
    /\ part = "follow two" => FollowTwo!TypeOK
    /\ part = "partnership one" => PartnershipOne!TypeOK
    /\ part = "partnership two" => PartnershipTwo!TypeOK
    /\ part = "review one" => ReviewOne!TypeOK
    /\ part = "review two" => ReviewTwo!TypeOK
    /\ part = "messaging one" => MessagingOne!TypeOK
    /\ part = "messaging two" => MessagingTwo!TypeOK
    /\ part = "notification two" => NotificationTwo!TypeOK
    /\ part = "announcement one" => AnnouncementOne!TypeOK
    /\ part = "announcement two" => AnnouncementTwo!TypeOK
    /\ part = "moderation one" => ModerationOne!TypeOK
    /\ part = "moderation two" => ModerationTwo!TypeOK
    /\ part = "seed one" => SeedOne!TypeOK
    /\ part = "seed two" => SeedTwo!TypeOK

\* One request at a time, the figures shown agree with what they count: a profile
\* never shows fewer followers than its list, and the stored average of a target is
\* that of the reviews of it in view; the seats, states and collaborators of the
\* events that are made up as seed data are those the application would show.
FiguresAgree ==
    /\ part = "follow one" => FollowOne!CounterNotBelow
    /\ part = "review one" => ReviewOne!RatingExact
    /\ part = "seed one" => SeedOne!GeneratedFigures
    /\ part = "seed two" => SeedTwo!GeneratedFigures

\* A pair of users has one partnership in view and one conversation when requests
\* are served one by one, and at most two when two overlap.
PairsBounded ==
    /\ part = "partnership one" => PartnershipOne!PartnershipsBounded
    /\ part = "partnership two" => PartnershipTwo!PartnershipsBounded
    /\ part = "messaging one" => MessagingOne!ConversationsBounded
    /\ part = "messaging two" => MessagingTwo!ConversationsBounded

\* What was decided stays: a cancelled partnership and a soft-deleted announcement
\* are out of every list for good and a read message stays read, one request at a
\* time; a read notification stays read, and what administrators took out of view
\* stays out of it until they put it back, however requests overlap, events apart.
DecisionsStay ==
    [][ /\ part = "partnership one" => PartnershipOne!CancelKept
        /\ part = "announcement one" => AnnouncementOne!DeletionKept
        /\ part = "messaging one" => MessagingOne!ReadingsKept
        /\ part = "notification two" => NotificationTwo!ReadingsKept
        /\ part = "moderation one" => ModerationOne!ModerationKept({})
        /\ part = "moderation two" => ModerationTwo!ModerationKept(Events) ]_socialVars

\* A user follows another at most once, reviews a target at most once, and a slug
\* is that of one announcement, however requests overlap: only the unique indexes
\* hold the second save back.  The generated bookings and partnerships, which no
\* index checks, are one for each pair as well.
OneEach ==
    /\ part = "follow two" => FollowTwo!UniqueFollow
    /\ part = "review two" => ReviewTwo!UniqueReview
    /\ part = "announcement two" => AnnouncementTwo!UniqueSlug
    /\ part = "seed one" => SeedOne!GeneratedOnce
    /\ part = "seed two" => SeedTwo!GeneratedOnce

\* One request at a time, no follow, partnership or review outlives the accounts
\* or the target it refers to.
NoOrphans ==
    /\ part = "follow one" => FollowOne!NoOrphanFollow
    /\ part = "partnership one" => PartnershipOne!NoOrphanPartnership
    /\ part = "review one" => ReviewOne!NoOrphanReview

\* However requests overlap, whoever is in a room was pushed what is unread there.
InboxAgrees ==
    /\ part = "messaging one" => MessagingOne!InboxAgrees
    /\ part = "messaging two" => MessagingTwo!InboxAgrees
=============================================================================
