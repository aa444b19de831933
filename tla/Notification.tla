----------------------------- MODULE Notification -----------------------------
(***************************************************************************)
(* Notifications: CreateNotification as the four notifiers call it, with   *)
(* the mail it may send, and the two ways a receiver marks them as read.   *)
(* The removals are those the cascades of Ownership make.  The throttling  *)
(* of mails has a rule for the action "message" only, which no notifier    *)
(* uses: it never applies.  References are left to Ownership.              *)
(***************************************************************************)
EXTENDS FiniteSets

CONSTANTS
    Users, NotificationIds, Requests, None,
    Notifiers       \* the methods of the notifiers that run

\* What is asked of the constants; the module of each run asserts it of its values.
NotificationAssumption ==
    /\ None \notin Users \cup NotificationIds /\ IsFiniteSet(Requests)

VARIABLES
    notifications,  \* the documents of the collection
    optedIn,        \* the users whose preferences ask for mails
    mails,          \* the notifications a mail was sent for
    req

vars == <<notifications, optedIn, mails, req>>

\* The action each method of a notifier stores.
eventInvitationNotifier ==
    [notifyInvitation |-> "event_invitation", notifyAccepted |-> "event_accepted",
     notifyRefused |-> "event_refused"]
eventNotifier       == [notifyBookingCancelled |-> "event_booking_cancelled"]
partnershipNotifier == [notifyInvitationCreated |-> "partnership_invitation"]
followNotifier      == [notifyNewFollower |-> "new_follower"]

Actions ==
    {"message", "partnership_invitation", "partnership_accepted", "event_invitation",
     "event_accepted", "event_refused", "event_booking_cancelled", "review",
     "new_follower", "other"}

Absent  == [sender |-> None, receiver |-> None, action |-> None, read |-> FALSE]
Removed == [Absent EXCEPT !.read = TRUE]

Notifications ==
    [sender : Users, receiver : Users, action : Actions, read : BOOLEAN]
        \cup {Absent, Removed}

Idle == [pc |-> "idle", user |-> None, action |-> None, id |-> None, ids |-> {}]

Local ==
    [pc : {"idle", "create:mail", "mark:write"}, user : Users \cup {None},
     action : Actions \cup {None}, id : NotificationIds \cup {None},
     ids : SUBSET NotificationIds]

TypeOK ==
    /\ notifications \in [NotificationIds -> Notifications]
    /\ optedIn \subseteq Users
    /\ mails \subseteq NotificationIds
    /\ req \in [Requests -> Local]

Init ==
    /\ notifications = [n \in NotificationIds |-> Absent]
    /\ optedIn \in SUBSET Users
    /\ mails = {}
    /\ req = [r \in Requests |-> Idle]

-----------------------------------------------------------------------------
(* Entity and repository operations                                        *)

stored(n) == notifications[n] \notin {Absent, Removed}

create(sender, receiver, action) ==
    [sender |-> sender, receiver |-> receiver, action |-> action, read |-> FALSE]

receivedBy(u) == {n \in NotificationIds : stored(n) /\ notifications[n].receiver = u}

unreadOf(u) == {n \in receivedBy(u) : ~notifications[n].read}

markRead(ids) ==
    notifications' = [n \in NotificationIds |->
        IF n \in ids THEN [notifications[n] EXCEPT !.read = TRUE] ELSE notifications[n]]

remove(ids) ==
    notifications' = [n \in NotificationIds |->
        IF n \in ids THEN Removed ELSE notifications[n]]

-----------------------------------------------------------------------------
(* Requests                                                                *)

finish(r) == req' = [req EXCEPT ![r] = Idle]

RequestFail(r) ==
    /\ req[r] # Idle
    /\ finish(r)
    /\ UNCHANGED <<notifications, optedIn, mails>>

CreateSave(r, notifier) ==
    /\ req[r] = Idle
    /\ \E method \in DOMAIN notifier \cap Notifiers, sender, receiver \in Users,
          n \in NotificationIds :
        /\ sender # receiver
        /\ notifications[n] = Absent
        /\ notifications' = [notifications EXCEPT
                ![n] = create(sender, receiver, notifier[method])]
        /\ req' = [req EXCEPT ![r] = [Idle EXCEPT !.pc = "create:mail", !.user = receiver,
                                                  !.id = n]]
    /\ UNCHANGED <<optedIn, mails>>

\* shouldSendNotificationEmail finds no rule; a mail that cannot be sent is logged
\* and the notification stays.
CreateMail(r) ==
    /\ req[r].pc = "create:mail"
    /\ \/ mails' = mails
       \/ req[r].user \in optedIn /\ mails' = mails \cup {req[r].id}
    /\ finish(r)
    /\ UNCHANGED <<notifications, optedIn>>

\* Faulty variant: the receiver is left out of the filter.
markAllAsReadOfAll(r) ==
    /\ req[r] = Idle
    /\ \E u \in Users : markRead(UNION {unreadOf(v) : v \in Users})
    /\ UNCHANGED <<optedIn, mails, req>>

markAllAsRead(r) ==
    /\ req[r] = Idle
    /\ \E u \in Users : markRead(unreadOf(u))
    /\ UNCHANGED <<optedIn, mails, req>>

markAsReadByActionFind(r) ==
    /\ req[r] = Idle
    /\ \E u \in Users, a \in {notifications[n].action : n \in {m \in NotificationIds : stored(m)}} :
        LET ids == {n \in unreadOf(u) : notifications[n].action = a} IN
        /\ ids # {}
        /\ req' = [req EXCEPT ![r] = [Idle EXCEPT !.pc = "mark:write", !.user = u,
                                                  !.action = a, !.ids = ids]]
    /\ UNCHANGED <<notifications, optedIn, mails>>

markAsReadByActionWrite(r) ==
    /\ req[r].pc = "mark:write"
    /\ markRead(req[r].ids \cap receivedBy(req[r].user))
    /\ finish(r)
    /\ UNCHANGED <<optedIn, mails>>

\* One notification or more of a reference that is being removed.
deleteByReferences ==
    /\ \E n \in NotificationIds : stored(n) /\ remove({n})
    /\ UNCHANGED <<optedIn, mails, req>>

deleteByUser(u) ==
    /\ \E n \in NotificationIds :
        stored(n) /\ u \in {notifications[n].sender, notifications[n].receiver}
    /\ remove({n \in NotificationIds :
            stored(n) /\ u \in {notifications[n].sender, notifications[n].receiver}})
    /\ UNCHANGED <<optedIn, mails, req>>

-----------------------------------------------------------------------------

Step(r) ==
    \/ CreateSave(r, eventInvitationNotifier) \/ CreateSave(r, eventNotifier)
    \/ CreateSave(r, partnershipNotifier) \/ CreateSave(r, followNotifier)
    \/ CreateMail(r) \/ markAllAsRead(r)
    \/ markAsReadByActionFind(r) \/ markAsReadByActionWrite(r)
    \/ RequestFail(r)

Next == (\E r \in Requests : Step(r)) \/ deleteByReferences \/ (\E u \in Users : deleteByUser(u))

Spec == Init /\ [][Next]_vars

-----------------------------------------------------------------------------
(* Safety                                                                  *)

\* However requests overlap, a read notification stays read until it is removed,
\* and becomes read only by its receiver: several at once are all of one user
\* (markAsReadByAction:75-101 marks by the ids it found, markAllAsRead:103-112).
ReadingsKept ==
    /\ \A n \in NotificationIds :
        stored(n) /\ notifications[n].read /\ stored(n)' => notifications'[n].read
    /\ \A n, m \in NotificationIds :
        (stored(n) /\ stored(n)' /\ ~notifications[n].read /\ notifications'[n].read)
        /\ (stored(m) /\ stored(m)' /\ ~notifications[m].read /\ notifications'[m].read)
        => notifications[n].receiver = notifications[m].receiver
=============================================================================
