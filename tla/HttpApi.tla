------------------------------- MODULE HttpApi -------------------------------
(***************************************************************************)
(* The way of a request through the server: the rate limit of all routes,  *)
(* the middlewares of its route, the handler of its controller, and the    *)
(* one answer it gets.  The routes are tables translated from the router   *)
(* files, the callers a handler needs tables translated from the           *)
(* controllers: nothing in the code ties the two together.  The counters   *)
(* of the rate limiters are left out (a limiter passes or refuses), and so *)
(* is what a handler does (the other modules have it).                     *)
(***************************************************************************)
EXTENDS Naturals, Sequences

CONSTANTS
    Users, Admins, None,
    Requests,
    Served(_, _)    \* the routes asked for: router and handler

\* What is asked of the constants; the module of each run asserts it of its values.
HttpAssumption == Admins \subseteq Users /\ None \notin Users

VARIABLES
    up,        \* the process runs
    standing,  \* each account: "good", "barred" (banned or soft-deleted) or "gone"
    req

vars == <<up, standing, req>>

-----------------------------------------------------------------------------
(* Routers: handler |-> middlewares, in order                              *)

open     == <<>>
verify   == <<"verify">>
optional == <<"verifyOptional">>
admin    == <<"verify", "requireAdmin">>
strictly == <<"verify", "limit">>
limited  == <<"limit">>

adminUserRoutes == [search |-> admin, getById |-> admin, getContent |-> admin,
    ban |-> admin, unban |-> admin, delete |-> admin, restore |-> admin]
adminAnnouncementRoutes == [listAdmin |-> admin, create |-> admin, getById |-> admin,
    update |-> admin, publish |-> admin, archive |-> admin, softDelete |-> admin]
adminResourceRoutes == [delete |-> admin, restore |-> admin]
announcementRoutes == [listActive |-> open]
authRoutes == [register |-> limited, signIn |-> limited, googleAuth |-> limited,
    signOut |-> open, getCurrentUser |-> optional, acceptCgu |-> verify,
    verifyEmail |-> limited, resendVerificationEmail |-> limited,
    requestPasswordReset |-> limited, resetPassword |-> limited,
    setupTwoFactor |-> limited \o verify, confirmTwoFactor |-> limited \o verify,
    disableTwoFactor |-> limited \o verify, verifyTwoFactor |-> limited]
categoryRoutes == [list |-> open]
commentRoutes == [create |-> verify, list |-> open, update |-> verify,
    delete |-> strictly]
eventRoutes == [list |-> open, getInView |-> open, create |-> verify, getById |-> open,
    update |-> verify, delete |-> strictly]
eventBookingRoutes == [listMine |-> verify, getMyForEvent |-> verify,
    listByEvent |-> verify, create |-> verify, update |-> verify, cancel |-> verify]
eventInvitationRoutes == [listByUser |-> optional, list |-> optional,
    update |-> verify, create |-> verify]
favoriteRoutes == [listByType |-> verify, create |-> verify, delete |-> verify]
followRoutes == [create |-> verify, listFollowers |-> open, listFollowing |-> open,
    getOne |-> verify, delete |-> verify]
geocodeRoutes == [suggest |-> limited, reverse |-> limited]
imageRoutes == [upload |-> <<"verify", "upload">>, delete |-> strictly, list |-> open]
messageRoutes == [create |-> verify, listConversations |-> verify,
    getConversationWithUser |-> verify, list |-> verify, markAsRead |-> verify,
    update |-> verify, delete |-> strictly]
notificationRoutes == [list |-> verify, markAsRead |-> verify, markAllAsRead |-> verify]
partnershipRoutes == [listByUser |-> optional, update |-> verify, create |-> verify,
    delete |-> verify]
placeRoutes == [create |-> verify, update |-> verify, delete |-> strictly, list |-> open,
    getInView |-> open, getById |-> open]
productRoutes == [create |-> verify, list |-> open, getById |-> open, update |-> verify,
    delete |-> verify]
reviewRoutes == [create |-> verify, listMine |-> verify, listReceived |-> verify,
    list |-> open, update |-> verify, delete |-> strictly]
userRoutes == [list |-> open, getProfile |-> open, getById |-> open, update |-> verify,
    deleteAccount |-> strictly]

\* main/app.ts: the routers, behind the rate limit of all of them.
Routers ==
    [adminUsers |-> adminUserRoutes, adminAnnouncements |-> adminAnnouncementRoutes,
     adminResources |-> adminResourceRoutes, announcements |-> announcementRoutes,
     auth |-> authRoutes, categories |-> categoryRoutes, comments |-> commentRoutes,
     events |-> eventRoutes, eventBookings |-> eventBookingRoutes,
     eventInvitations |-> eventInvitationRoutes, favorites |-> favoriteRoutes,
     follows |-> followRoutes, geocode |-> geocodeRoutes, images |-> imageRoutes,
     messages |-> messageRoutes, notifications |-> notificationRoutes,
     partnerships |-> partnershipRoutes, places |-> placeRoutes,
     products |-> productRoutes, reviews |-> reviewRoutes, users |-> userRoutes]

apiLimit == <<"limit">>

middlewares(router, handler) == apiLimit \o Routers[router][handler]

-----------------------------------------------------------------------------
(* Controllers: the handlers that call requireAuth                         *)

AdminUsersController       == {"ban", "unban", "delete", "restore"}
AdminResourcesController   == {"delete", "restore"}
AnnouncementsController    == {}
AuthController             == {"acceptCgu", "setupTwoFactor", "confirmTwoFactor",
                               "disableTwoFactor"}
CategoriesController       == {}
CommentsController         == {"create", "update", "delete"}
EventsController           == {"create", "update", "delete"}
EventBookingsController    == {"create", "cancel", "update", "listByEvent",
                               "getMyForEvent", "listMine"}
EventInvitationsController == {"create", "update"}
FavoritesController        == {"create", "delete", "listByType"}
FollowsController          == {"create", "delete"}
GeocodingController        == {}
ImagesController           == {"upload", "delete"}
MessagesController         == {"create", "update", "delete", "list", "listConversations",
                               "getConversationWithUser", "markAsRead"}
NotificationsController    == {"list", "markAsRead", "markAllAsRead"}
PartnershipsController     == {"create", "update", "delete"}
PlacesController           == {"create", "update", "delete"}
ProductsController         == {"create", "update", "delete"}
ReviewsController          == {"create", "update", "delete", "listMine", "listReceived"}
UsersController            == {"update", "deleteAccount"}

Controllers ==
    [adminUsers |-> AdminUsersController, adminResources |-> AdminResourcesController,
     adminAnnouncements |-> AnnouncementsController,
     announcements |-> AnnouncementsController, auth |-> AuthController,
     categories |-> CategoriesController, comments |-> CommentsController,
     events |-> EventsController, eventBookings |-> EventBookingsController,
     eventInvitations |-> EventInvitationsController, favorites |-> FavoritesController,
     follows |-> FollowsController, geocode |-> GeocodingController,
     images |-> ImagesController, messages |-> MessagesController,
     notifications |-> NotificationsController, partnerships |-> PartnershipsController,
     places |-> PlacesController, products |-> ProductsController,
     reviews |-> ReviewsController, users |-> UsersController]

\* requireAuth refuses when no middleware has decoded a session.
requireAuth(r) == req[r].handler \in Controllers[req[r].router]

adminOnly(r) == req[r].router \in {"adminUsers", "adminAnnouncements", "adminResources"}

-----------------------------------------------------------------------------

\* session is the user the token names, actor the user a middleware decoded from
\* it.  barred is history: the session's account has not been in good standing at
\* any time since the request arrived.
Idle == [router |-> "none", handler |-> "none", chain |-> <<>>, session |-> None,
         actor |-> None, barred |-> FALSE, status |-> 0]

Statuses == {200, 400, 401, 403, 404, 409, 429, 500}

TypeOK ==
    /\ up \in BOOLEAN
    /\ standing \in [Users -> {"good", "barred", "gone"}]
    /\ \A r \in Requests :
        /\ req[r].session \in Users \cup {None}
        /\ req[r].actor \in {None, req[r].session}
        /\ req[r].status \in Statuses \cup {0}
        /\ (req[r].status # 0) => (req[r].router = "none")
        /\ req[r].router # "none" =>
            /\ req[r].handler \in DOMAIN Routers[req[r].router]
            /\ Len(req[r].chain) <= Len(middlewares(req[r].router, req[r].handler))

Init ==
    /\ up = TRUE
    /\ standing = [u \in Users |-> "good"]
    /\ req = [r \in Requests |-> Idle]

running(r) == req[r].router # "none"

-----------------------------------------------------------------------------
(* Requests                                                                *)

Arrive(r) ==
    /\ up /\ ~running(r)
    /\ \E router \in DOMAIN Routers : \E handler \in DOMAIN Routers[router],
          session \in Users \cup {None} :
        /\ Served(router, handler)
        /\ req' = [req EXCEPT ![r] = [Idle EXCEPT
                !.router = router, !.handler = handler, !.session = session,
                !.chain = middlewares(router, handler),
                !.barred = (session # None => standing[session] # "good")]]
    /\ UNCHANGED <<up, standing>>

at(r, middleware) ==
    running(r) /\ req[r].chain # <<>> /\ Head(req[r].chain) = middleware

next(r) == req' = [req EXCEPT ![r].chain = Tail(@)]

decode(r) == req' = [req EXCEPT ![r].chain = Tail(@), ![r].actor = req[r].session]

\* Faulty variant: the answer is sent and the handler goes on.
answerGoesOn(r, status) == req' = [req EXCEPT ![r].status = status]

answer(r, status) == req' = [req EXCEPT ![r] = [Idle EXCEPT !.status = status]]

\* next(error): the error handler of the upload route stands before the one of
\* the application and answers 400 to whatever is refused before it.
nextError(r, status) ==
    answer(r, IF \E i \in 2..Len(req[r].chain) : req[r].chain[i] = "upload"
              THEN 400 ELSE status)

\* The limiter answers by itself.
Limit(r) ==
    /\ at(r, "limit")
    /\ next(r) \/ answer(r, 429)
    /\ UNCHANGED <<up, standing>>

canAuthenticate(u) == u # None /\ standing[u] = "good"

\* Faulty variant: the standing of the account is not looked at.
VerifyExists(r) ==
    /\ at(r, "verify")
    /\ \/ nextError(r, 401)
       \/ /\ req[r].session # None
          /\ standing[req[r].session] # "gone"
          /\ decode(r)
    /\ UNCHANGED <<up, standing>>

\* No token, a token that does not verify, no such user, a look-up that fails:
\* 401; a ban or a deletion: 403.
Verify(r) ==
    /\ at(r, "verify")
    /\ \/ nextError(r, 401)
       \/ req[r].session # None /\ standing[req[r].session] = "barred" /\ nextError(r, 403)
       \/ canAuthenticate(req[r].session) /\ decode(r)
    /\ UNCHANGED <<up, standing>>

\* Never refuses.
VerifyOptional(r) ==
    /\ at(r, "verifyOptional")
    /\ next(r) \/ (canAuthenticate(req[r].session) /\ decode(r))
    /\ UNCHANGED <<up, standing>>

isAdmin(r) == req[r].actor \in Admins /\ canAuthenticate(req[r].actor)

\* Faulty variant: a look-up that fails is swallowed and nobody answers.
RequireAdminHangs(r) ==
    /\ at(r, "requireAdmin")
    /\ \/ ~isAdmin(r) /\ nextError(r, IF req[r].actor = None THEN 401 ELSE 403)
       \/ isAdmin(r) /\ next(r)
       \/ req' = [req EXCEPT ![r].chain = <<"nothing">>]
    /\ UNCHANGED <<up, standing>>

RequireAdmin(r) ==
    /\ at(r, "requireAdmin")
    /\ \/ ~isAdmin(r) /\ nextError(r, IF req[r].actor = None THEN 401 ELSE 403)
       \/ isAdmin(r) /\ next(r)
    /\ UNCHANGED <<up, standing>>

\* The look-up of requireAdmin is in no try: when it fails, the rejection is
\* nobody's, the process ends and every request in flight is dropped with it.
RequireAdminRejects(r) ==
    /\ at(r, "requireAdmin") /\ req[r].actor # None
    /\ up' = FALSE
    /\ req' = [s \in Requests |-> Idle]
    /\ UNCHANGED standing

\* multer, and the handler of its errors.
Upload(r) ==
    /\ at(r, "upload")
    /\ next(r) \/ answer(r, 400)
    /\ UNCHANGED <<up, standing>>

\* The controller: what it executes succeeds, or throws one of the errors that
\* httpStatusFor knows or any other.
Handle(r) ==
    /\ running(r) /\ req[r].chain = <<>>
    /\ \E status \in IF requireAuth(r) /\ req[r].actor = None THEN {400, 401}
                     ELSE Statuses \ {429} : answer(r, status)
    /\ UNCHANGED <<up, standing>>

Restart ==
    /\ ~up
    /\ up' = TRUE
    /\ UNCHANGED <<standing, req>>

\* Bans, deletions and their lifting (Accounts), while requests are under way.
ChangeStanding(u) ==
    /\ standing[u] # "gone"
    /\ \E to \in {"good", "barred", "gone"} \ {standing[u]} :
        /\ standing' = [standing EXCEPT ![u] = to]
        /\ req' = [r \in Requests |->
                [req[r] EXCEPT !.barred = @ /\ ~(req[r].session = u /\ to = "good")]]
    /\ UNCHANGED up

-----------------------------------------------------------------------------

Step(r) ==
    \/ Limit(r) \/ Verify(r) \/ VerifyOptional(r) \/ Upload(r)
    \/ RequireAdmin(r) \/ RequireAdminRejects(r) \/ Handle(r)

Next ==
    \/ \E r \in Requests : Arrive(r) \/ Step(r)
    \/ \E u \in Users : ChangeStanding(u)
    \/ Restart

\* A middleware or a handler that has started ends: the database calls they wait
\* for return or fail.  Nobody owes the server a request, nor a restart.
Fairness == \A r \in Requests : WF_vars(Step(r))

Spec == Init /\ [][Next]_vars /\ Fairness

-----------------------------------------------------------------------------
(* Properties                                                              *)

\* A handler that needs the caller has one, an administrator for the routes of
\* administrators, and nobody acts whose account has been banned or gone ever
\* since the request came in (auth.middleware.ts:35-50, admin.middleware.ts:16-36).
ActorKnown ==
    \A r \in Requests :
        running(r) /\ req[r].chain = <<>> =>
            /\ requireAuth(r) => req[r].actor # None
            /\ adminOnly(r) => req[r].actor \in Admins
            /\ req[r].actor # None => ~req[r].barred

\* Every request is answered, or dropped with the process (controllerFactory.ts:46-66,
\* errorHandler.ts; admin.middleware.ts:22 is the one await outside a try).
Answered == \A r \in Requests : running(r) ~> ~running(r)
=============================================================================
