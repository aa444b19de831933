--------------------------- MODULE EventInvitation ---------------------------
(***************************************************************************)
(* The invitations to collaborate on one event: CreateEventInvitations,    *)
(* UpdateEventInvitation, the cancellation of pending invitations by the   *)
(* lifecycle cron, their removal by the event cascade and by DeleteAccount,*)
(* and what all of them do to the collaborators of the schedule.           *)
(*                                                                         *)
(* A request handles its items with Promise.all, so the unit of execution  *)
(* is an item: item[i].pc names the database operation item i issues next. *)
(* UpdateEvent, the cron, the administrators and the clock are the actions *)
(* of EventDocument, and run beside the items.                             *)
(***************************************************************************)
EXTENDS EventDocument

CONSTANTS
    Items,          \* the items the server may handle at once
    Creators,       \* the users of type "creator", the only ones to invite
    InvitationIds   \* the ids the store can hand out

ASSUME InvitationAssumption ==
    /\ IsFiniteSet(Items) /\ IsFiniteSet(InvitationIds)
    /\ None \notin Creators /\ None \notin InvitationIds
    /\ \A C \in CollaboratorSets : C \subseteq Creators
    /\ \A C \in CollaboratorSets, c \in Creators : C \ {c} \in CollaboratorSets

VARIABLES
    invitations,  \* the documents of the collection
    item,         \* the items in flight
    accounts,     \* the creators whose account exists
    acceptances   \* creators whose acceptance the organiser was told of

invitationVars == <<invitations, item, accounts, acceptances>>
vars == <<event, edits, cron, now, invitations, item, accounts, acceptances>>

Absent  == [status |-> "none", collaborator |-> None, deleted |-> FALSE]
Removed == [status |-> "removed", collaborator |-> None, deleted |-> FALSE]

\* "refused" is never stored: a refusal deletes the document.
Invitation ==
    [status : {"pending", "accepted", "cancelled"}, collaborator : Creators,
     deleted : BOOLEAN] \cup {Absent, Removed}

\* The part of the event findScheduleById returns.
StoredSchedules == [dateRange : DateRanges, collaborators : CollaboratorSets]

Idle == [pc |-> "idle", collaborator |-> None, id |-> None,
         next |-> Absent, schedule |-> None]

Local ==
    [pc           : {"idle", "invite:existing", "invite:save", "invite:notify",
                     "update:write", "accept:write", "accept:notify",
                     "remove:notify", "remove:delete", "remove:schedule",
                     "remove:write", "event:invitations", "event:delete",
                     "account:invitations", "account:delete"},
     collaborator : Creators \cup {None},
     id           : InvitationIds \cup {None},
     next         : Invitation,           \* the entity about to be written
     schedule     : StoredSchedules \cup {None}]

TypeOK ==
    /\ EventTypeOK
    /\ invitations \in [InvitationIds -> Invitation]
    /\ item \in [Items -> Local]
    /\ accounts \subseteq Creators
    /\ acceptances \subseteq Creators

Init ==
    /\ EventInit
    /\ invitations = [d \in InvitationIds |-> Absent]
    /\ item = [i \in Items |-> Idle]
    /\ accounts = Creators
    /\ acceptances = {}

-----------------------------------------------------------------------------
(* Repository operations                                                   *)

stored(d) == invitations[d] \notin {Absent, Removed}

findByEventAndCollaborator(c) ==
    {d \in InvitationIds : invitations[d].collaborator = c}

\* updateOne: nothing happens when the document has been deleted.
update(d, next) ==
    invitations' = IF stored(d)
                   THEN [invitations EXCEPT ![d].status = next.status,
                                            ![d].deleted = next.deleted]
                   ELSE invitations

deleteMany(D) ==
    invitations' = [d \in InvitationIds |->
                        IF d \in D /\ stored(d) THEN Removed ELSE invitations[d]]

\* Faulty variant: only the status is set, and on every invitation.
cancelPendingByEventIdsAll ==
    invitations' = [d \in InvitationIds |->
        IF stored(d)
        THEN [invitations[d] EXCEPT !.status = "cancelled", !.deleted = TRUE]
        ELSE invitations[d]]

cancelPendingByEventIds ==
    invitations' = [d \in InvitationIds |->
        IF invitations[d].status = "pending"
        THEN [invitations[d] EXCEPT !.status = "cancelled", !.deleted = TRUE]
        ELSE invitations[d]]

\* findByIdAndUpdate with a schedule: the schema's pre-hook writes the date
\* range and the lifecycle of that schedule with it.
updateSchedule(schedule) ==
    event' = IF event.state = "gone" THEN event
             ELSE persisted([event EXCEPT !.dateRange = schedule.dateRange,
                                          !.collaborators = schedule.collaborators])

-----------------------------------------------------------------------------
(* Items                                                                   *)

goto(i, pc) == item' = [item EXCEPT ![i].pc = pc]
finish(i)   == item' = [item EXCEPT ![i] = Idle]

\* Every early return, every throw, and a crash.
ItemFail(i) ==
    /\ item[i] # Idle
    /\ finish(i)
    /\ UNCHANGED <<eventVars, invitations, accounts, acceptances>>

(* CreateEventInvitations; the actor owns the event *)

InviteFindEvent(i) ==
    /\ item[i] = Idle
    /\ event.state = "live"
    /\ \E c \in Creators :
        item' = [item EXCEPT ![i] = [Idle EXCEPT !.pc = "invite:existing",
                                                 !.collaborator = c]]
    /\ UNCHANGED <<eventVars, invitations, accounts, acceptances>>

\* Faulty variant: a cancelled invitation does not count as existing.
InviteFindExistingActive(i) ==
    /\ item[i].pc = "invite:existing"
    /\ \A d \in findByEventAndCollaborator(item[i].collaborator) :
        invitations[d].deleted
    /\ item[i].collaborator \in accounts
    /\ goto(i, "invite:save")
    /\ UNCHANGED <<eventVars, invitations, accounts, acceptances>>

\* An invitation in any status counts.  The account is looked up right after;
\* a creator never changes type, so one step does both lookups.
InviteFindExisting(i) ==
    /\ item[i].pc = "invite:existing"
    /\ findByEventAndCollaborator(item[i].collaborator) = {}
    /\ item[i].collaborator \in accounts
    /\ goto(i, "invite:save")
    /\ UNCHANGED <<eventVars, invitations, accounts, acceptances>>

InviteSave(i) ==
    /\ item[i].pc = "invite:save"
    /\ \E d \in InvitationIds :
        /\ invitations[d] = Absent
        /\ invitations' = [invitations EXCEPT ![d] =
                [status |-> "pending", collaborator |-> item[i].collaborator,
                 deleted |-> FALSE]]
    /\ goto(i, "invite:notify")
    /\ UNCHANGED <<eventVars, accounts, acceptances>>

InviteNotify(i) ==
    /\ item[i].pc = "invite:notify"
    /\ finish(i)
    /\ UNCHANGED <<eventVars, invitations, accounts, acceptances>>

(* UpdateEventInvitation.updateOne: findById and what follows it up to the   *)
(* next operation, one action per outcome                                    *)

Answer(i, d, pc, next) ==
    item' = [item EXCEPT ![i] = [Idle EXCEPT !.pc = pc, !.id = d, !.next = next,
                                  !.collaborator = invitations[d].collaborator]]

FindToAccept(i) ==
    /\ item[i] = Idle
    /\ \E d \in InvitationIds :
        /\ invitations[d].status = "pending"
        /\ Answer(i, d, "accept:write",
                  [invitations[d] EXCEPT !.status = "accepted"])
    /\ UNCHANGED <<eventVars, invitations, accounts, acceptances>>

\* Faulty variant: a refusal is stored instead of deleting the invitation.
FindToLeaveStoresRefusal(i) ==
    /\ item[i] = Idle
    /\ \E d \in InvitationIds :
        /\ invitations[d].status = "pending"
        /\ Answer(i, d, "update:write",
                  [invitations[d] EXCEPT !.status = "refused"])
    /\ UNCHANGED <<eventVars, invitations, accounts, acceptances>>

\* The collaborator refuses a pending invitation or withdraws an accepted one,
\* and the organiser is told; or withdraws a pending one.
FindToLeave(i) ==
    /\ item[i] = Idle
    /\ \E d \in InvitationIds :
        \/ /\ invitations[d].status \in {"pending", "accepted"}
           /\ Answer(i, d, "remove:notify", invitations[d])
        \/ /\ invitations[d].status = "pending"
           /\ Answer(i, d, "remove:delete", invitations[d])
    /\ UNCHANGED <<eventVars, invitations, accounts, acceptances>>

\* The organiser deletes the invitation, whatever its status.
FindToRemove(i) ==
    /\ item[i] = Idle
    /\ \E d \in InvitationIds :
        /\ stored(d)
        /\ Answer(i, d, "remove:delete", invitations[d])
    /\ UNCHANGED <<eventVars, invitations, accounts, acceptances>>

\* The organiser restores the invitation, or the item asks for no change:
\* the entity is written back as it was read.
FindToRewrite(i) ==
    /\ item[i] = Idle
    /\ \E d \in InvitationIds :
        /\ stored(d)
        /\ \/ Answer(i, d, "update:write", [invitations[d] EXCEPT !.deleted = FALSE])
           \/ Answer(i, d, "update:write", invitations[d])
    /\ UNCHANGED <<eventVars, invitations, accounts, acceptances>>

UpdateWrite(i) ==
    /\ item[i].pc = "update:write"
    /\ update(item[i].id, item[i].next)
    /\ finish(i)
    /\ UNCHANGED <<eventVars, accounts, acceptances>>

\* Faulty variant: the notification goes out although nothing was written.
AcceptWriteNothing(i) ==
    /\ item[i].pc = "accept:write"
    /\ goto(i, "accept:notify")
    /\ UNCHANGED <<eventVars, invitations, accounts, acceptances>>

AcceptWrite(i) ==
    /\ item[i].pc = "accept:write"
    /\ update(item[i].id, item[i].next)
    /\ goto(i, "accept:notify")
    /\ UNCHANGED <<eventVars, accounts, acceptances>>

AcceptNotify(i) ==
    /\ item[i].pc = "accept:notify"
    /\ acceptances' = acceptances \cup {item[i].collaborator}
    /\ finish(i)
    /\ UNCHANGED <<eventVars, invitations, accounts>>

(* removeInvitationAndCollaborator *)

RemoveNotify(i) ==
    /\ item[i].pc = "remove:notify"
    /\ goto(i, "remove:delete")
    /\ UNCHANGED <<eventVars, invitations, accounts, acceptances>>

RemoveDelete(i) ==
    /\ item[i].pc = "remove:delete"
    /\ deleteMany({item[i].id})
    /\ goto(i, "remove:schedule")
    /\ UNCHANGED <<eventVars, accounts, acceptances>>

RemoveFindSchedule(i) ==
    /\ item[i].pc = "remove:schedule"
    /\ event.state # "gone"
    /\ item' = [item EXCEPT ![i].pc = "remove:write",
                    ![i].schedule =
                        [dateRange     |-> event.dateRange,
                         collaborators |-> event.collaborators
                                             \ {item[i].collaborator}]]
    /\ UNCHANGED <<eventVars, invitations, accounts, acceptances>>

RemoveWrite(i) ==
    /\ item[i].pc = "remove:write"
    /\ updateSchedule(item[i].schedule)
    /\ finish(i)
    /\ UNCHANGED <<edits, cron, now, invitations, accounts, acceptances>>

(* DeleteEvent *)

DeleteFindEvent(i) ==
    /\ item[i] = Idle
    /\ event.state # "gone"
    /\ item' = [item EXCEPT ![i] = [Idle EXCEPT !.pc = "event:invitations"]]
    /\ UNCHANGED <<eventVars, invitations, accounts, acceptances>>

deleteManyByEventIds(i) ==
    /\ item[i].pc = "event:invitations"
    /\ deleteMany(InvitationIds)
    /\ goto(i, "event:delete")
    /\ UNCHANGED <<eventVars, accounts, acceptances>>

DeleteEventDocument(i) ==
    /\ item[i].pc = "event:delete"
    /\ RemoveEvent
    /\ finish(i)
    /\ UNCHANGED <<invitations, accounts, acceptances>>

(* DeleteAccount of a creator who may be a collaborator *)

\* An updateMany, which no pre-hook watches: the lifecycle stays as it is.
removeCollaborator(i) ==
    /\ item[i] = Idle
    /\ \E c \in accounts :
        /\ event' = IF event.state = "gone" THEN event
                     ELSE [event EXCEPT !.collaborators = @ \ {c}]
        /\ item' = [item EXCEPT ![i] = [Idle EXCEPT !.pc = "account:invitations",
                                                    !.collaborator = c]]
    /\ UNCHANGED <<edits, cron, now, invitations, accounts, acceptances>>

\* Faulty variant: the invitations are matched by their initiator only.
deleteManyByInitiator(i) ==
    /\ item[i].pc = "account:invitations"
    /\ goto(i, "account:delete")
    /\ UNCHANGED <<eventVars, invitations, accounts, acceptances>>

deleteManyByUserId(i) ==
    /\ item[i].pc = "account:invitations"
    /\ deleteMany(findByEventAndCollaborator(item[i].collaborator))
    /\ goto(i, "account:delete")
    /\ UNCHANGED <<eventVars, accounts, acceptances>>

DeleteAccountUser(i) ==
    /\ item[i].pc = "account:delete"
    /\ accounts' = accounts \ {item[i].collaborator}
    /\ finish(i)
    /\ UNCHANGED <<eventVars, invitations, acceptances>>

-----------------------------------------------------------------------------

ItemStep(i) ==
    \/ InviteFindEvent(i) \/ InviteFindExisting(i) \/ InviteSave(i) \/ InviteNotify(i)
    \/ FindToAccept(i) \/ FindToLeave(i) \/ FindToRemove(i) \/ FindToRewrite(i)
    \/ UpdateWrite(i) \/ AcceptWrite(i) \/ AcceptNotify(i)
    \/ RemoveNotify(i) \/ RemoveDelete(i) \/ RemoveFindSchedule(i) \/ RemoveWrite(i)
    \/ DeleteFindEvent(i) \/ deleteManyByEventIds(i) \/ DeleteEventDocument(i)
    \/ removeCollaborator(i) \/ deleteManyByUserId(i) \/ DeleteAccountUser(i)
    \/ ItemFail(i)

EditStep(r) ==
    /\ UpdateEventFind(r) \/ UpdateEventWrite(r) \/ UpdateEventFail(r)
    /\ UNCHANGED invitationVars

\* The run ends by cancelling the pending invitations of the ids it collected.
CronCancel ==
    /\ CronDone
    /\ cancelPendingByEventIds
    /\ UNCHANGED <<item, accounts, acceptances>>

CronStep ==
    \/ (CronFind \/ CronWrite \/ CronFail) /\ UNCHANGED invitationVars
    \/ CronCancel

BackgroundStep ==
    /\ Tick \/ \E deleted \in BOOLEAN : AdminSoftDelete(deleted)
    /\ UNCHANGED invitationVars

Next ==
    \/ \E i \in Items : ItemStep(i)
    \/ \E r \in Requests : EditStep(r)
    \/ CronStep
    \/ BackgroundStep

Spec == Init /\ [][Next]_vars

\* node-cron starts a run every ten minutes, and no operation fails for ever:
\* a run that is started again and again is carried through again and again.
FairSpec ==
    /\ Spec
    /\ WF_vars(CronFind /\ UNCHANGED invitationVars)
    /\ SF_vars(CronWrite /\ UNCHANGED invitationVars)
    /\ SF_vars(CronCancel)

-----------------------------------------------------------------------------
(* Safety                                                                  *)

\* A creator never has more invitations to the event than the server has items
\* in flight: the look-up counts invitations in any status, but no unique index
\* backs it (CreateEventInvitations:42-49).
InvitationsBounded ==
    \A c \in Creators :
        Cardinality(findByEventAndCollaborator(c)) <= Cardinality(Items)

\* With one item at a time, no invitation outlives the account of its
\* collaborator: the account is looked up before the invitation is saved, and
\* its invitations are deleted before it is (DeleteAccount:62-85).
NoOrphanInvitation ==
    \A d \in InvitationIds : stored(d) => invitations[d].collaborator \in accounts

\* With one item at a time, an accepted invitation stays accepted until it is
\* deleted, whatever the cron and the organiser's edits do meanwhile.
AcceptedIsKept ==
    [][\A d \in InvitationIds :
        invitations[d].status = "accepted"
            => invitations'[d].status \in {"accepted", "removed"}]_vars

\* With one item at a time, the organiser hears of an acceptance only while an
\* accepted invitation of that creator is stored (UpdateEventInvitation:123-135).
AcceptanceTruthful ==
    [][\A c \in acceptances' \ acceptances :
        \E d \in findByEventAndCollaborator(c) : invitations[d].status = "accepted"]_vars

\* Only a pending invitation becomes accepted (EventInvitation.entity.ts:73-80).
OnlyPendingAccepted ==
    [][\A d \in InvitationIds :
        invitations[d].status = "cancelled" => invitations'[d].status # "accepted"]_vars

-----------------------------------------------------------------------------
(* Liveness                                                                *)

\* The pending invitations of an event that has ended are cancelled
\* (EventsCronService:20-29).
EndedInvitationsCancelled ==
    \A d \in InvitationIds :
        (invitations[d].status = "pending" /\ event.lifecycle \in Ended)
            ~> (invitations[d].status # "pending" \/ event.lifecycle \notin Ended)

-----------------------------------------------------------------------------
(* What makes them inductive when the items are handled one at a time      *)

\* What an item read stays true until it writes: only the cron writes beside
\* it, and the cron changes pending invitations only.
AloneOK(l) ==
    /\ l.pc = "invite:save" => l.collaborator \in accounts
    /\ l.pc = "accept:write" =>
            /\ stored(l.id)
            /\ invitations[l.id].collaborator = l.collaborator
            /\ l.next.status = "accepted"
    /\ l.pc = "update:write" =>
            (invitations[l.id].status = "accepted" => l.next.status = "accepted")
    /\ l.pc = "accept:notify" =>
            \E d \in findByEventAndCollaborator(l.collaborator) :
                invitations[d].status = "accepted"
    /\ l.pc = "account:delete" =>
            \A d \in findByEventAndCollaborator(l.collaborator) : ~stored(d)

AloneInv == NoOrphanInvitation /\ \A i \in Items : AloneOK(item[i])

=============================================================================
