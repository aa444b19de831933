------------------------ MODULE EventInvitationProofs ------------------------
(***************************************************************************)
(* Proofs about EventInvitation, for every set of items, creators, ids and *)
(* schedules: the types, and the bound on the invitations of a creator.    *)
(***************************************************************************)
EXTENDS EventInvitation, EventDocumentProofs, FiniteSetTheorems

\* Two counts go down together.
LEMMA FewerOfBoth ==
    ASSUME NEW A, IsFiniteSet(A), NEW B, IsFiniteSet(B),
           NEW C \in SUBSET A, NEW D \in SUBSET B
    PROVE  Cardinality(C) + Cardinality(D) <= Cardinality(A) + Cardinality(B)
<1>1. /\ Cardinality(C) <= Cardinality(A) /\ Cardinality(D) <= Cardinality(B)
      /\ IsFiniteSet(C) /\ IsFiniteSet(D)
  BY FS_Subset
<1>2. /\ Cardinality(A) \in Nat /\ Cardinality(B) \in Nat
      /\ Cardinality(C) \in Nat /\ Cardinality(D) \in Nat
  BY <1>1, FS_CardinalityType
<1> QED BY <1>1, <1>2

\* One more of the one, for one less of the other.
LEMMA OneForOne ==
    ASSUME NEW A, IsFiniteSet(A), NEW B, IsFiniteSet(B), NEW x, NEW r \in B,
           NEW C \in SUBSET (A \cup {x}), NEW D \in SUBSET (B \ {r})
    PROVE  Cardinality(C) + Cardinality(D) <= Cardinality(A) + Cardinality(B)
<1>1. /\ IsFiniteSet(A \cup {x}) /\ Cardinality(A \cup {x}) <= Cardinality(A) + 1
      /\ IsFiniteSet(B \ {r}) /\ Cardinality(B \ {r}) = Cardinality(B) - 1
  <2>1. Cardinality(A) \in Nat
    BY FS_CardinalityType
  <2> QED BY <2>1, FS_AddElement, FS_RemoveElement
<1>2. /\ Cardinality(A) \in Nat /\ Cardinality(B) \in Nat
      /\ Cardinality(A \cup {x}) \in Nat /\ Cardinality(B \ {r}) \in Nat
  BY <1>1, FS_CardinalityType
<1>3. Cardinality(C) + Cardinality(D)
          <= Cardinality(A \cup {x}) + Cardinality(B \ {r})
  BY <1>1, FewerOfBoth
<1>4. Cardinality(C) \in Nat /\ Cardinality(D) \in Nat
  BY <1>1, FS_Subset, FS_CardinalityType
<1> QED BY <1>1, <1>2, <1>3, <1>4

Statuses == {"pending", "accepted", "cancelled"}

RemovePcs == {"remove:notify", "remove:delete", "remove:schedule", "remove:write"}

\* What an item relies on when it resumes.
LocalOK(l) ==
    /\ l.pc \in {"invite:existing", "invite:save"} \cup RemovePcs => l.collaborator \in Creators
    /\ l.pc \in {"update:write", "accept:write"} =>
            l.id \in InvitationIds /\ l.next.status \in Statuses
    /\ l.pc \in {"accept:write", "accept:notify"} => l.collaborator \in Creators
    /\ l.pc = "remove:write" => l.schedule \in StoredSchedules

Inv == TypeOK /\ \A i \in Items : LocalOK(item[i])

-----------------------------------------------------------------------------
(* Type correctness                                                        *)

LEMMA IdleOK == Idle \in Local /\ LocalOK(Idle)
BY DEF Idle, Local, LocalOK, RemovePcs, Invitation, Absent

LEMMA InitInv == Init => Inv
<1> SUFFICES ASSUME Init PROVE Inv
  OBVIOUS
<1>1. EventTypeOK
  BY EventInitType DEF Init
<1>2. invitations \in [InvitationIds -> Invitation]
  BY DEF Init, Invitation
<1>3. item \in [Items -> Local] /\ \A i \in Items : LocalOK(item[i])
  BY IdleOK DEF Init
<1> QED BY <1>1, <1>2, <1>3 DEF Init, Inv, TypeOK

\* The locals a step sets are the only ones it changes.
LEMMA StepInv ==
    ASSUME Inv, EventTypeOK', invitations' \in [InvitationIds -> Invitation],
           accounts' \subseteq Creators, acceptances' \subseteq Creators,
           NEW i \in Items, NEW l \in Local, LocalOK(l), item' = [item EXCEPT ![i] = l]
    PROVE  Inv'
BY DEF Inv, TypeOK, LocalOK

\* The steps that only move an item on.
LEMMA MoveInv ==
    ASSUME Inv, UNCHANGED <<eventVars, invitations, accounts, acceptances>>,
           NEW i \in Items, NEW l \in Local, LocalOK(l), item' = [item EXCEPT ![i] = l]
    PROVE  Inv'
<1>1. EventTypeOK'
  BY EventStepsType DEF Inv, TypeOK
<1> QED BY <1>1, StepInv DEF Inv, TypeOK

\* What is stored has a status, a collaborator and a flag.
LEMMA StoredType ==
    ASSUME Inv, NEW d \in InvitationIds,
           stored(d) \/ invitations[d].status \in Statuses
    PROVE  invitations[d] \in [status : Statuses, collaborator : Creators,
                               deleted : BOOLEAN]
<1>1. Absent.status = "none" /\ Removed.status = "removed"
  BY DEF Absent, Removed
<1>2. invitations[d] \notin {Absent, Removed}
  BY <1>1 DEF stored, Statuses
<1> QED BY <1>2 DEF Inv, TypeOK, Invitation, Statuses

LEMMA InvitationRecord ==
    ASSUME NEW x \in [status : Statuses, collaborator : Creators, deleted : BOOLEAN]
    PROVE  x \in Invitation
BY DEF Invitation, Statuses

LEMMA InvitationFlag ==
    ASSUME NEW x \in Invitation
    PROVE  x.deleted \in BOOLEAN
<1>1. Absent.deleted = FALSE /\ Removed.deleted = FALSE
  BY DEF Absent, Removed
<1> QED BY <1>1 DEF Invitation

\* No write gives an invitation to another creator.
KeepsCollaborators ==
    \A d \in InvitationIds :
        invitations'[d].collaborator \in {invitations[d].collaborator, None}

LEMMA UpdateEffect ==
    ASSUME Inv, NEW d \in InvitationIds, NEW next \in Invitation,
           next.status \in Statuses, update(d, next)
    PROVE  invitations' \in [InvitationIds -> Invitation] /\ KeepsCollaborators
<1>1. CASE stored(d)
  <2> DEFINE new == [invitations[d] EXCEPT !.status = next.status,
                                           !.deleted = next.deleted]
  <2>1. invitations[d] \in [status : Statuses, collaborator : Creators,
                            deleted : BOOLEAN]
    BY <1>1, StoredType
  <2>2. /\ new \in [status : Statuses, collaborator : Creators, deleted : BOOLEAN]
        /\ new.collaborator = invitations[d].collaborator
    BY <2>1, InvitationFlag
  <2>3. invitations' = [invitations EXCEPT ![d] = new]
    BY <1>1 DEF update
  <2> HIDE DEF new
  <2> QED BY <2>2, <2>3, InvitationRecord DEF Inv, TypeOK, KeepsCollaborators
<1>2. CASE ~stored(d)
  BY <1>2 DEF update, Inv, TypeOK, KeepsCollaborators
<1> QED BY <1>1, <1>2

LEMMA DeleteEffect ==
    ASSUME Inv, NEW D, deleteMany(D)
    PROVE  invitations' \in [InvitationIds -> Invitation] /\ KeepsCollaborators
<1>1. Removed \in Invitation /\ Removed.collaborator = None
  BY DEF Invitation, Removed
<1> QED BY <1>1 DEF deleteMany, Inv, TypeOK, KeepsCollaborators

LEMMA CancelEffect ==
    ASSUME Inv, cancelPendingByEventIds
    PROVE  invitations' \in [InvitationIds -> Invitation] /\ KeepsCollaborators
<1>1. ASSUME NEW d \in InvitationIds, invitations[d].status = "pending"
      PROVE  /\ [invitations[d] EXCEPT !.status = "cancelled", !.deleted = TRUE]
                    \in Invitation
             /\ [invitations[d] EXCEPT !.status = "cancelled", !.deleted = TRUE]
                    .collaborator = invitations[d].collaborator
  <2>1. invitations[d] \in [status : Statuses, collaborator : Creators,
                            deleted : BOOLEAN]
    BY <1>1, StoredType DEF Statuses
  <2> QED BY <2>1, InvitationRecord DEF Statuses
<1> QED BY <1>1 DEF cancelPendingByEventIds, Inv, TypeOK, KeepsCollaborators

-----------------------------------------------------------------------------
(* The items                                                               *)

LEMMA InviteInv ==
    ASSUME Inv, NEW i \in Items,
           \/ InviteFindEvent(i) \/ InviteFindExisting(i)
           \/ InviteSave(i) \/ InviteNotify(i)
    PROVE  Inv'
<1>1. CASE InviteFindEvent(i)
  <2>1. PICK c \in Creators : item' = [item EXCEPT ![i] =
                [Idle EXCEPT !.pc = "invite:existing", !.collaborator = c]]
    BY <1>1 DEF InviteFindEvent
  <2> DEFINE l == [Idle EXCEPT !.pc = "invite:existing", !.collaborator = c]
  <2>2. l.pc = "invite:existing" /\ l.collaborator = c
    BY DEF Idle
  <2>3. l \in Local
    BY IdleOK DEF Local
  <2>4. LocalOK(l)
    BY <2>2 DEF LocalOK, RemovePcs
  <2> HIDE DEF l
  <2> QED BY <1>1, <2>1, <2>3, <2>4, MoveInv DEF InviteFindEvent, l
<1>2. CASE InviteFindExisting(i)
  <2> DEFINE l == [item[i] EXCEPT !.pc = "invite:save"]
  <2>1. l \in Local /\ l.pc = "invite:save" /\ l.collaborator = item[i].collaborator
    BY DEF Inv, TypeOK, Local
  <2>2. LocalOK(l)
    BY <1>2, <2>1 DEF InviteFindExisting, Inv, LocalOK, RemovePcs
  <2>3. item' = [item EXCEPT ![i] = l]
    BY <1>2 DEF InviteFindExisting, goto
  <2> HIDE DEF l
  <2> QED BY <1>2, <2>1, <2>2, <2>3, MoveInv DEF InviteFindExisting
<1>3. CASE InviteSave(i)
  <2> DEFINE l == [item[i] EXCEPT !.pc = "invite:notify"]
  <2>1. l \in Local /\ l.pc = "invite:notify"
    BY DEF Inv, TypeOK, Local
  <2>2. LocalOK(l)
    BY <2>1 DEF LocalOK, RemovePcs
  <2>3. item' = [item EXCEPT ![i] = l]
    BY <1>3 DEF InviteSave, goto
  <2>4. item[i].collaborator \in Creators
    BY <1>3 DEF InviteSave, Inv, LocalOK
  <2>5. invitations' \in [InvitationIds -> Invitation]
    BY <1>3, <2>4 DEF InviteSave, Inv, TypeOK, Invitation
  <2>6. EventTypeOK'
    BY <1>3, EventStepsType DEF InviteSave, Inv, TypeOK
  <2> HIDE DEF l
  <2> QED BY <1>3, <2>1, <2>2, <2>3, <2>5, <2>6, StepInv DEF InviteSave, Inv, TypeOK
<1>4. CASE InviteNotify(i)
  BY <1>4, IdleOK, MoveInv DEF InviteNotify, finish
<1> QED BY <1>1, <1>2, <1>3, <1>4

\* An item that reads an invitation holds a copy with a status, and its creator.
LEMMA AnswerInv ==
    ASSUME Inv, NEW i \in Items, NEW d \in InvitationIds, stored(d),
           NEW pc \in {"accept:write", "update:write", "remove:notify", "remove:delete"},
           NEW next \in [status : Statuses, collaborator : Creators, deleted : BOOLEAN],
           Answer(i, d, pc, next),
           UNCHANGED <<eventVars, invitations, accounts, acceptances>>
    PROVE  Inv'
<1> DEFINE l == [Idle EXCEPT !.pc = pc, !.id = d, !.next = next,
                             !.collaborator = invitations[d].collaborator]
<1>1. invitations[d].collaborator \in Creators /\ next \in Invitation
  BY StoredType, InvitationRecord
<1>2. /\ l.pc = pc /\ l.id = d /\ l.next = next
      /\ l.collaborator = invitations[d].collaborator
  BY DEF Idle
<1>3. l \in Local
  BY <1>1, IdleOK DEF Local
<1>4. LocalOK(l)
  BY <1>1, <1>2 DEF LocalOK, RemovePcs
<1>5. item' = [item EXCEPT ![i] = l]
  BY DEF Answer
<1> HIDE DEF l
<1> QED BY <1>3, <1>4, <1>5, MoveInv

LEMMA FindInv ==
    ASSUME Inv, NEW i \in Items,
           FindToAccept(i) \/ FindToLeave(i) \/ FindToRemove(i) \/ FindToRewrite(i)
    PROVE  Inv'
<1>1. ASSUME NEW d \in InvitationIds, invitations[d].status \in Statuses
      PROVE  stored(d)
  BY <1>1 DEF stored, Absent, Removed, Statuses
<1>2. ASSUME NEW d \in InvitationIds, stored(d)
      PROVE  /\ invitations[d] \in [status : Statuses, collaborator : Creators,
                                    deleted : BOOLEAN]
             /\ [invitations[d] EXCEPT !.status = "accepted"]
                    \in [status : Statuses, collaborator : Creators, deleted : BOOLEAN]
             /\ [invitations[d] EXCEPT !.deleted = FALSE]
                    \in [status : Statuses, collaborator : Creators, deleted : BOOLEAN]
  BY <1>2, StoredType DEF Statuses
<1>3. CASE FindToAccept(i)
  BY <1>1, <1>2, <1>3, AnswerInv DEF FindToAccept, Statuses
<1>4. CASE FindToLeave(i)
  BY <1>1, <1>2, <1>4, AnswerInv DEF FindToLeave, Statuses
<1>5. CASE FindToRemove(i)
  BY <1>2, <1>5, AnswerInv DEF FindToRemove
<1>6. CASE FindToRewrite(i)
  BY <1>2, <1>6, AnswerInv DEF FindToRewrite
<1> QED BY <1>3, <1>4, <1>5, <1>6

LEMMA WriteInv ==
    ASSUME Inv, NEW i \in Items, UpdateWrite(i) \/ AcceptWrite(i) \/ AcceptNotify(i)
    PROVE  Inv'
<1>1. EventTypeOK'
  BY EventStepsType DEF UpdateWrite, AcceptWrite, AcceptNotify, Inv, TypeOK
<1>2. CASE UpdateWrite(i) \/ AcceptWrite(i)
  <2>1. /\ item[i].id \in InvitationIds /\ item[i].next.status \in Statuses
        /\ item[i].next \in Invitation
    BY <1>2 DEF UpdateWrite, AcceptWrite, Inv, LocalOK, TypeOK, Local
  <2>2. invitations' \in [InvitationIds -> Invitation]
    BY <1>2, <2>1, UpdateEffect DEF UpdateWrite, AcceptWrite
  <2>3. CASE UpdateWrite(i)
    BY <1>1, <2>2, <2>3, IdleOK, StepInv DEF UpdateWrite, finish, Inv, TypeOK
  <2>4. CASE AcceptWrite(i)
    <3> DEFINE l == [item[i] EXCEPT !.pc = "accept:notify"]
    <3>1. l \in Local /\ l.pc = "accept:notify" /\ l.collaborator = item[i].collaborator
      BY DEF Inv, TypeOK, Local
    <3>2. LocalOK(l)
      BY <2>4, <3>1 DEF AcceptWrite, Inv, LocalOK, RemovePcs
    <3>3. item' = [item EXCEPT ![i] = l]
      BY <2>4 DEF AcceptWrite, goto
    <3> HIDE DEF l
    <3> QED BY <1>1, <2>2, <2>4, <3>1, <3>2, <3>3, StepInv DEF AcceptWrite, Inv, TypeOK
  <2> QED BY <1>2, <2>3, <2>4
<1>3. CASE AcceptNotify(i)
  <2>1. item[i].collaborator \in Creators
    BY <1>3 DEF AcceptNotify, Inv, LocalOK
  <2> QED BY <1>1, <1>3, <2>1, IdleOK, StepInv DEF AcceptNotify, finish, Inv, TypeOK
<1> QED BY <1>2, <1>3

LEMMA RemoveInv ==
    ASSUME Inv, NEW i \in Items,
           RemoveNotify(i) \/ RemoveDelete(i) \/ RemoveFindSchedule(i) \/ RemoveWrite(i)
    PROVE  Inv'
<1>1. item[i].collaborator \in Creators
  BY DEF RemoveNotify, RemoveDelete, RemoveFindSchedule, RemoveWrite, RemovePcs,
         Inv, LocalOK
<1>2. ASSUME NEW pc \in {"remove:delete", "remove:schedule"}
      PROVE  [item[i] EXCEPT !.pc = pc] \in Local /\ LocalOK([item[i] EXCEPT !.pc = pc])
  <2> DEFINE l == [item[i] EXCEPT !.pc = pc]
  <2>1. l \in Local /\ l.pc = pc /\ l.collaborator = item[i].collaborator
    BY DEF Inv, TypeOK, Local
  <2>2. LocalOK(l)
    BY <1>1, <2>1 DEF LocalOK, RemovePcs
  <2> QED BY <2>1, <2>2
<1>3. CASE RemoveNotify(i)
  BY <1>2, <1>3, MoveInv DEF RemoveNotify, goto
<1>4. CASE RemoveDelete(i)
  <2>1. EventTypeOK' /\ invitations' \in [InvitationIds -> Invitation]
    BY <1>4, EventStepsType, DeleteEffect DEF RemoveDelete, Inv, TypeOK
  <2> QED BY <1>2, <1>4, <2>1, StepInv DEF RemoveDelete, goto, Inv, TypeOK
<1>5. CASE RemoveFindSchedule(i)
  <2> DEFINE schedule == [dateRange |-> event.dateRange,
                          collaborators |-> event.collaborators \ {item[i].collaborator}]
             l == [item[i] EXCEPT !.pc = "remove:write", !.schedule = schedule]
  <2>1. schedule \in StoredSchedules
    BY <1>1, InvitationAssumption DEF StoredSchedules, Inv, TypeOK, EventTypeOK, Event
  <2>2. item' = [item EXCEPT ![i] = l]
    BY <1>5 DEF RemoveFindSchedule
  <2> HIDE DEF schedule
  <2>3. /\ l \in Local /\ l.pc = "remove:write" /\ l.schedule = schedule
        /\ l.collaborator = item[i].collaborator
    BY <2>1 DEF Inv, TypeOK, Local
  <2>4. LocalOK(l)
    BY <1>1, <2>1, <2>3 DEF LocalOK, RemovePcs
  <2> HIDE DEF l
  <2> QED BY <1>5, <2>2, <2>3, <2>4, MoveInv DEF RemoveFindSchedule
<1>6. CASE RemoveWrite(i)
  <2>1. item[i].schedule \in StoredSchedules
    BY <1>6 DEF RemoveWrite, Inv, LocalOK
  <2>2. [event EXCEPT !.dateRange = item[i].schedule.dateRange,
                      !.collaborators = item[i].schedule.collaborators] \in Event
    BY <2>1 DEF StoredSchedules, Inv, TypeOK, EventTypeOK, Event
  <2>3. event' \in Event
    BY <1>6, <2>2, PersistedType DEF RemoveWrite, updateSchedule, Inv, TypeOK, EventTypeOK
  <2>4. EventTypeOK'
    BY <1>6, <2>3 DEF RemoveWrite, EventTypeOK, Inv, TypeOK
  <2> QED BY <1>6, <2>4, IdleOK, StepInv DEF RemoveWrite, finish, Inv, TypeOK
<1> QED BY <1>3, <1>4, <1>5, <1>6

LEMMA DeleteInv ==
    ASSUME Inv, NEW i \in Items,
           \/ DeleteFindEvent(i) \/ deleteManyByEventIds(i) \/ DeleteEventDocument(i)
           \/ removeCollaborator(i) \/ deleteManyByUserId(i) \/ DeleteAccountUser(i)
    PROVE  Inv'
<1>1. ASSUME NEW l \in Local,
             l.pc \in {"event:invitations", "event:delete", "account:invitations",
                       "account:delete"}
      PROVE  LocalOK(l)
  BY <1>1 DEF LocalOK, RemovePcs
<1>2. \A pc \in {"event:delete", "account:delete"} :
        [item[i] EXCEPT !.pc = pc] \in Local /\ [item[i] EXCEPT !.pc = pc].pc = pc
  BY DEF Inv, TypeOK, Local
<1>3. CASE DeleteFindEvent(i)
  <2> DEFINE l == [Idle EXCEPT !.pc = "event:invitations"]
  <2>1. l \in Local /\ l.pc = "event:invitations"
    BY IdleOK DEF Local
  <2>2. item' = [item EXCEPT ![i] = l]
    BY <1>3 DEF DeleteFindEvent
  <2> HIDE DEF l
  <2> QED BY <1>1, <1>3, <2>1, <2>2, MoveInv DEF DeleteFindEvent
<1>4. CASE deleteManyByEventIds(i) \/ deleteManyByUserId(i)
  <2>1. EventTypeOK' /\ invitations' \in [InvitationIds -> Invitation]
    BY <1>4, EventStepsType, DeleteEffect
       DEF deleteManyByEventIds, deleteManyByUserId, Inv, TypeOK
  <2> QED BY <1>1, <1>2, <1>4, <2>1, StepInv
          DEF deleteManyByEventIds, deleteManyByUserId, goto, Inv, TypeOK
<1>5. CASE DeleteEventDocument(i)
  <2>1. EventTypeOK'
    BY <1>5, EventStepsType DEF DeleteEventDocument, Inv, TypeOK
  <2> QED BY <1>5, <2>1, IdleOK, StepInv DEF DeleteEventDocument, finish, Inv, TypeOK
<1>6. CASE removeCollaborator(i)
  <2>1. PICK c \in accounts :
            /\ event' = IF event.state = "gone" THEN event
                        ELSE [event EXCEPT !.collaborators = @ \ {c}]
            /\ item' = [item EXCEPT ![i] = [Idle EXCEPT !.pc = "account:invitations",
                                                        !.collaborator = c]]
    BY <1>6 DEF removeCollaborator
  <2>2. c \in Creators
    BY DEF Inv, TypeOK
  <2>3. event' \in Event
    BY <2>1, <2>2, InvitationAssumption DEF Inv, TypeOK, EventTypeOK, Event
  <2>4. EventTypeOK'
    BY <1>6, <2>3 DEF removeCollaborator, EventTypeOK, Inv, TypeOK
  <2> DEFINE l == [Idle EXCEPT !.pc = "account:invitations", !.collaborator = c]
  <2>5. l \in Local /\ l.pc = "account:invitations"
    BY <2>2, IdleOK DEF Local
  <2>6. item' = [item EXCEPT ![i] = l]
    BY <2>1
  <2> HIDE DEF l
  <2> QED BY <1>1, <1>6, <2>4, <2>5, <2>6, StepInv DEF removeCollaborator, Inv, TypeOK
<1>7. CASE DeleteAccountUser(i)
  <2>1. EventTypeOK'
    BY <1>7, EventStepsType DEF DeleteAccountUser, Inv, TypeOK
  <2> QED BY <1>7, <2>1, IdleOK, StepInv DEF DeleteAccountUser, finish, Inv, TypeOK
<1> QED BY <1>3, <1>4, <1>5, <1>6, <1>7

LEMMA NextInv == Inv /\ [Next]_vars => Inv'
<1> SUFFICES ASSUME Inv, [Next]_vars PROVE Inv'
  OBVIOUS
<1>1. ASSUME NEW i \in Items, ItemStep(i) PROVE Inv'
  <2>1. CASE ItemFail(i)
    BY <2>1, IdleOK, MoveInv DEF ItemFail, finish
  <2> QED BY <1>1, <2>1, InviteInv, FindInv, WriteInv, RemoveInv, DeleteInv DEF ItemStep
<1>2. ASSUME EventTypeOK', UNCHANGED invitationVars PROVE Inv'
  BY <1>2 DEF invitationVars, Inv, TypeOK
<1>3. ASSUME NEW r \in Requests, EditStep(r) PROVE Inv'
  BY <1>2, <1>3, EventStepsType DEF EditStep, Inv, TypeOK
<1>4. CASE BackgroundStep
  BY <1>2, <1>4, EventStepsType DEF BackgroundStep, Inv, TypeOK
<1>5. CASE CronStep
  <2>1. EventTypeOK'
    BY <1>5, EventStepsType DEF CronStep, CronCancel, Inv, TypeOK
  <2>2. CASE CronCancel
    <3>1. invitations' \in [InvitationIds -> Invitation]
      BY <2>2, CancelEffect DEF CronCancel
    <3> QED BY <2>1, <2>2, <3>1 DEF CronCancel, Inv, TypeOK
  <2> QED BY <1>2, <1>5, <2>1, <2>2 DEF CronStep
<1>6. CASE UNCHANGED vars
  <2>1. EventTypeOK'
    BY <1>6, EventStepsType DEF vars, eventVars, Inv, TypeOK
  <2> QED BY <1>2, <1>6, <2>1 DEF vars, invitationVars
<1> QED BY <1>1, <1>3, <1>4, <1>5, <1>6 DEF Next

-----------------------------------------------------------------------------
(* The bound on the invitations of a creator: an item that found none and  *)
(* has yet to save counts as an invitation.                                *)

saving(c) == {i \in Items : item[i].pc = "invite:save" /\ item[i].collaborator = c}

InvitationsInv ==
    \A c \in Creators :
        Cardinality(findByEventAndCollaborator(c)) + Cardinality(saving(c))
            <= Cardinality(Items)

LEMMA CountsFinite ==
    ASSUME NEW c
    PROVE  /\ IsFiniteSet(findByEventAndCollaborator(c))
           /\ Cardinality(findByEventAndCollaborator(c)) \in Nat
           /\ IsFiniteSet(saving(c)) /\ Cardinality(saving(c)) \in Nat
           /\ IsFiniteSet(Items) /\ Cardinality(Items) \in Nat
<1>1. findByEventAndCollaborator(c) \subseteq InvitationIds /\ saving(c) \subseteq Items
  BY DEF findByEventAndCollaborator, saving
<1> QED BY <1>1, InvitationAssumption, FS_Subset, FS_CardinalityType

LEMMA CountsFiniteNext ==
    ASSUME NEW c
    PROVE  /\ IsFiniteSet(findByEventAndCollaborator(c)')
           /\ Cardinality(findByEventAndCollaborator(c)') \in Nat
           /\ IsFiniteSet(saving(c)') /\ Cardinality(saving(c)') \in Nat
           /\ Cardinality(saving(c)') <= Cardinality(Items)
<1>1. findByEventAndCollaborator(c)' \subseteq InvitationIds /\ saving(c)' \subseteq Items
  BY DEF findByEventAndCollaborator, saving
<1>2. Cardinality(saving(c)') <= Cardinality(Items)
  BY <1>1, InvitationAssumption, FS_Subset
<1> QED BY <1>1, <1>2, InvitationAssumption, FS_Subset, FS_CardinalityType

\* A step that adds no invitation of the creator and lets no item through.
LEMMA QuietCount ==
    ASSUME InvitationsInv, NEW c \in Creators,
           findByEventAndCollaborator(c)' \subseteq findByEventAndCollaborator(c),
           saving(c)' \subseteq saving(c)
    PROVE  Cardinality(findByEventAndCollaborator(c)') + Cardinality(saving(c)')
               <= Cardinality(Items)
<1>1. Cardinality(findByEventAndCollaborator(c)') + Cardinality(saving(c)')
          <= Cardinality(findByEventAndCollaborator(c)) + Cardinality(saving(c))
  BY CountsFinite, FewerOfBoth
<1> QED BY <1>1, CountsFinite, CountsFiniteNext DEF InvitationsInv

LEMMA QuietStep ==
    ASSUME InvitationsInv, KeepsCollaborators,
           \A i \in Items : item'[i].pc = "invite:save" => item'[i] = item[i]
    PROVE  InvitationsInv'
<1> SUFFICES ASSUME NEW c \in Creators
             PROVE  Cardinality(findByEventAndCollaborator(c)') + Cardinality(saving(c)')
                        <= Cardinality(Items)
  BY DEF InvitationsInv
<1>1. findByEventAndCollaborator(c)' \subseteq findByEventAndCollaborator(c)
  BY InvitationAssumption DEF findByEventAndCollaborator, KeepsCollaborators
<1>2. saving(c)' \subseteq saving(c)
  BY DEF saving
<1> QED BY <1>1, <1>2, QuietCount

\* The look-up saw no invitation in any status, so all the items there are may
\* be about to save one.
LEMMA InviteFindExistingCount ==
    ASSUME Inv, InvitationsInv, NEW i \in Items, InviteFindExisting(i)
    PROVE  InvitationsInv'
<1> SUFFICES ASSUME NEW c \in Creators
             PROVE  Cardinality(findByEventAndCollaborator(c)') + Cardinality(saving(c)')
                        <= Cardinality(Items)
  BY DEF InvitationsInv
<1>1. findByEventAndCollaborator(c)' = findByEventAndCollaborator(c)
  BY DEF InviteFindExisting, findByEventAndCollaborator
<1>2. CASE c = item[i].collaborator
  <2>1. Cardinality(findByEventAndCollaborator(c)') = 0
    BY <1>1, <1>2, FS_EmptySet DEF InviteFindExisting
  <2> QED BY <2>1, CountsFiniteNext, CountsFinite
<1>3. CASE c # item[i].collaborator
  <2>1. \A k \in Items : k # i => item'[k] = item[k]
    BY DEF InviteFindExisting, goto, Inv, TypeOK
  <2>2. item'[i].collaborator = item[i].collaborator
    BY DEF InviteFindExisting, goto, Inv, TypeOK, Local
  <2>3. saving(c)' \subseteq saving(c)
    BY <1>3, <2>1, <2>2 DEF saving
  <2> QED BY <1>1, <2>3, QuietCount
<1> QED BY <1>2, <1>3

\* The item trades its place for the invitation it saves.
LEMMA InviteSaveCount ==
    ASSUME Inv, InvitationsInv, NEW i \in Items, InviteSave(i)
    PROVE  InvitationsInv'
<1>1. PICK d \in InvitationIds :
        invitations' = [invitations EXCEPT ![d] =
            [status |-> "pending", collaborator |-> item[i].collaborator,
             deleted |-> FALSE]]
  BY DEF InviteSave
<1>2. \A k \in Items : k # i => item'[k] = item[k]
  BY DEF InviteSave, goto, Inv, TypeOK
<1>3. item'[i].pc = "invite:notify" /\ item[i].pc = "invite:save"
  BY DEF InviteSave, goto, Inv, TypeOK, Local
<1> SUFFICES ASSUME NEW c \in Creators
             PROVE  Cardinality(findByEventAndCollaborator(c)') + Cardinality(saving(c)')
                        <= Cardinality(Items)
  BY DEF InvitationsInv
<1>4. CASE c = item[i].collaborator
  <2>1. findByEventAndCollaborator(c)' \subseteq findByEventAndCollaborator(c) \cup {d}
    BY <1>1 DEF findByEventAndCollaborator, Inv, TypeOK
  <2>2. i \in saving(c) /\ saving(c)' \subseteq saving(c) \ {i}
    BY <1>2, <1>3, <1>4 DEF saving
  <2>3. Cardinality(findByEventAndCollaborator(c)') + Cardinality(saving(c)')
            <= Cardinality(findByEventAndCollaborator(c)) + Cardinality(saving(c))
    BY <2>1, <2>2, CountsFinite, OneForOne
  <2> QED BY <2>3, CountsFinite, CountsFiniteNext DEF InvitationsInv
<1>5. CASE c # item[i].collaborator
  <2>1. findByEventAndCollaborator(c)' \subseteq findByEventAndCollaborator(c)
    BY <1>1, <1>5 DEF findByEventAndCollaborator, Inv, TypeOK
  <2>2. saving(c)' \subseteq saving(c)
    BY <1>2, <1>3 DEF saving
  <2> QED BY <2>1, <2>2, QuietCount
<1> QED BY <1>4, <1>5

\* No other step of an item saves an invitation or lets one through.
LEMMA OtherItemCount ==
    ASSUME Inv, InvitationsInv, NEW i \in Items, ItemStep(i),
           ~InviteFindExisting(i), ~InviteSave(i)
    PROVE  InvitationsInv'
<1>1. \A k \in Items : k # i => item'[k] = item[k]
  BY DEF ItemStep, InviteFindEvent, InviteNotify, FindToAccept, FindToLeave,
         FindToRemove, FindToRewrite, Answer, UpdateWrite, AcceptWrite, AcceptNotify,
         RemoveNotify, RemoveDelete, RemoveFindSchedule, RemoveWrite, DeleteFindEvent,
         deleteManyByEventIds, DeleteEventDocument, removeCollaborator,
         deleteManyByUserId, DeleteAccountUser, ItemFail, goto, finish, Inv, TypeOK
<1>2. ASSUME NEW d, NEW pc, NEW x, Answer(i, d, pc, x) PROVE item'[i].pc = pc
  BY <1>2 DEF Answer, Idle, Inv, TypeOK
<1>3. ASSUME NEW pc, goto(i, pc) PROVE item'[i].pc = pc
  BY <1>3 DEF goto, Inv, TypeOK, Local
<1>4. item'[i].pc # "invite:save"
  <2>1. CASE InviteFindEvent(i)
    BY <2>1 DEF InviteFindEvent, Idle, Inv, TypeOK
  <2>2. CASE DeleteFindEvent(i)
    BY <2>2 DEF DeleteFindEvent, Idle, Inv, TypeOK
  <2>3. CASE removeCollaborator(i)
    BY <2>3 DEF removeCollaborator, Idle, Inv, TypeOK
  <2>4. CASE FindToAccept(i) \/ FindToLeave(i) \/ FindToRemove(i) \/ FindToRewrite(i)
    <3>1. ASSUME NEW d \in InvitationIds, NEW x,
                 \/ Answer(i, d, "accept:write", x) \/ Answer(i, d, "update:write", x)
                 \/ Answer(i, d, "remove:notify", x) \/ Answer(i, d, "remove:delete", x)
          PROVE  item'[i].pc # "invite:save"
      BY <1>2, <3>1
    <3>2. CASE FindToAccept(i)
      BY <3>1, <3>2 DEF FindToAccept
    <3>3. CASE FindToLeave(i)
      BY <3>1, <3>3 DEF FindToLeave
    <3>4. CASE FindToRemove(i)
      BY <3>1, <3>4 DEF FindToRemove
    <3>5. CASE FindToRewrite(i)
      BY <3>1, <3>5 DEF FindToRewrite
    <3> QED BY <2>4, <3>2, <3>3, <3>4, <3>5
  <2>5. CASE AcceptWrite(i) \/ RemoveNotify(i) \/ RemoveDelete(i)
             \/ deleteManyByEventIds(i) \/ deleteManyByUserId(i)
    BY <1>3, <2>5 DEF AcceptWrite, RemoveNotify, RemoveDelete, deleteManyByEventIds,
                      deleteManyByUserId
  <2>6. CASE RemoveFindSchedule(i)
    BY <2>6 DEF RemoveFindSchedule, Inv, TypeOK, Local
  <2>7. CASE finish(i)
    BY <2>7 DEF finish, Idle, Inv, TypeOK
  <2> QED BY <2>1, <2>2, <2>3, <2>4, <2>5, <2>6, <2>7
          DEF ItemStep, InviteNotify, UpdateWrite, AcceptNotify, RemoveWrite,
              DeleteEventDocument, DeleteAccountUser, ItemFail
<1>5. KeepsCollaborators
  <2>1. CASE UNCHANGED invitations
    BY <2>1 DEF KeepsCollaborators
  <2>2. CASE UpdateWrite(i) \/ AcceptWrite(i)
    <3>1. /\ item[i].id \in InvitationIds /\ item[i].next.status \in Statuses
          /\ item[i].next \in Invitation
      BY <2>2 DEF UpdateWrite, AcceptWrite, Inv, LocalOK, TypeOK, Local
    <3> QED BY <2>2, <3>1, UpdateEffect DEF UpdateWrite, AcceptWrite
  <2>3. CASE RemoveDelete(i) \/ deleteManyByEventIds(i) \/ deleteManyByUserId(i)
    BY <2>3, DeleteEffect DEF RemoveDelete, deleteManyByEventIds, deleteManyByUserId
  <2> QED BY <2>1, <2>2, <2>3
          DEF ItemStep, InviteFindEvent, InviteNotify, FindToAccept, FindToLeave,
              FindToRemove, FindToRewrite, AcceptNotify, RemoveNotify,
              RemoveFindSchedule, RemoveWrite, DeleteFindEvent, DeleteEventDocument,
              removeCollaborator, DeleteAccountUser, ItemFail
<1> QED BY <1>1, <1>4, <1>5, QuietStep

LEMMA NextCount == Inv /\ InvitationsInv /\ [Next]_vars => InvitationsInv'
<1> SUFFICES ASSUME Inv, InvitationsInv, [Next]_vars PROVE InvitationsInv'
  OBVIOUS
<1>1. ASSUME UNCHANGED item, KeepsCollaborators PROVE InvitationsInv'
  BY <1>1, QuietStep
<1>2. ASSUME NEW r \in Requests, EditStep(r) PROVE InvitationsInv'
  BY <1>1, <1>2 DEF EditStep, invitationVars, KeepsCollaborators
<1>3. CASE BackgroundStep
  BY <1>1, <1>3 DEF BackgroundStep, invitationVars, KeepsCollaborators
<1>4. CASE CronStep
  <2>1. CASE CronCancel
    BY <1>1, <2>1, CancelEffect DEF CronCancel
  <2> QED BY <1>1, <1>4, <2>1 DEF CronStep, invitationVars, KeepsCollaborators
<1>5. CASE UNCHANGED vars
  BY <1>1, <1>5 DEF vars, KeepsCollaborators
<1> QED BY <1>2, <1>3, <1>4, <1>5, InviteFindExistingCount, InviteSaveCount,
           OtherItemCount DEF Next

LEMMA InitCount == Init => InvitationsInv
<1> SUFFICES ASSUME Init, NEW c \in Creators
             PROVE  Cardinality(findByEventAndCollaborator(c)) + Cardinality(saving(c))
                        <= Cardinality(Items)
  BY DEF InvitationsInv
<1>1. findByEventAndCollaborator(c) = {} /\ saving(c) = {}
  BY InvitationAssumption DEF Init, findByEventAndCollaborator, saving, Absent, Idle
<1>2. Cardinality(findByEventAndCollaborator(c)) = 0 /\ Cardinality(saving(c)) = 0
  BY <1>1, FS_EmptySet
<1> QED BY <1>2, CountsFinite

-----------------------------------------------------------------------------

\* The event, its invitations and the items keep their types: no item stores an
\* invitation without a creator or a status, and a withdrawal stores a schedule
\* (UpdateEventInvitation, CreateEventInvitations).
THEOREM InvitationTypes == Spec => []TypeOK
<1>1. Inv => TypeOK
  BY DEF Inv
<1> QED BY <1>1, InitInv, NextInv, PTL DEF Spec

\* Whatever the cron, the edits and the removals do, a creator has at most as
\* many invitations to the event as items overlap (CreateEventInvitations:42-49).
THEOREM InvitationsBound == Spec => []InvitationsBounded
<1>1. InvitationsInv => InvitationsBounded
  <2> SUFFICES ASSUME InvitationsInv, NEW c \in Creators
               PROVE  Cardinality(findByEventAndCollaborator(c)) <= Cardinality(Items)
    BY DEF InvitationsBounded
  <2>1. Cardinality(findByEventAndCollaborator(c)) + Cardinality(saving(c))
            <= Cardinality(Items)
    BY DEF InvitationsInv
  <2> QED BY <2>1, CountsFinite
<1> QED BY <1>1, InitInv, NextInv, InitCount, NextCount, PTL DEF Spec

-----------------------------------------------------------------------------
(* The items handled one at a time                                         *)

LEMMA InitItemAlone == Init => AloneInv
BY DEF Init, AloneInv, AloneOK, NoOrphanInvitation, Idle, stored

\* A free slot relies on nothing.
LEMMA FinishItemAlone ==
    ASSUME NEW i, Items = {i}, item'[i] = Idle, NoOrphanInvitation'
    PROVE  AloneInv'
BY DEF AloneInv, AloneOK, Idle

\* What an item handled alone may rely on when it resumes.
LEMMA ItemResumes ==
    ASSUME Inv, AloneInv, NEW i, Items = {i}
    PROVE  /\ item[i] \in Local /\ LocalOK(item[i]) /\ AloneOK(item[i])
           /\ item \in [Items -> Local] /\ NoOrphanInvitation
           /\ invitations \in [InvitationIds -> Invitation]
           /\ accounts \subseteq Creators
BY DEF Inv, TypeOK, AloneInv

\* An item that reads, and goes on with l.
LEMMA MoveItemAlone ==
    ASSUME AloneInv, NEW i, Items = {i}, item \in [Items -> Local],
           UNCHANGED <<invitations, accounts>>,
           NEW l, item' = [item EXCEPT ![i] = l], AloneOK(l)
    PROVE  AloneInv'
<1>1. item'[i] = l
  OBVIOUS
<1>2. NoOrphanInvitation'
  BY DEF AloneInv, NoOrphanInvitation, stored
<1>3. AloneOK(item[i])'
  BY <1>1 DEF AloneOK, findByEventAndCollaborator, stored
<1> QED BY <1>2, <1>3 DEF AloneInv

\* The cron cancels pending invitations only, and deletes none.
LEMMA CancelBesideItem ==
    ASSUME Inv, AloneInv, NEW i, Items = {i}, CronCancel
    PROVE  AloneInv'
<1>1. ASSUME NEW d \in InvitationIds
      PROVE  /\ invitations'[d].collaborator = invitations[d].collaborator
             /\ stored(d)' <=> stored(d)
             /\ invitations'[d].status = "accepted" <=> invitations[d].status = "accepted"
  <2>1. CASE invitations[d].status = "pending"
    <3>1. invitations[d] \in [status : Statuses, collaborator : Creators,
                              deleted : BOOLEAN]
      BY <2>1, StoredType DEF Statuses
    <3>2. invitations'[d] =
            [invitations[d] EXCEPT !.status = "cancelled", !.deleted = TRUE]
      BY <2>1 DEF CronCancel, cancelPendingByEventIds
    <3>3. /\ invitations'[d].status = "cancelled"
          /\ invitations'[d].collaborator = invitations[d].collaborator
      BY <3>1, <3>2
    <3> QED BY <2>1, <3>3 DEF stored, Absent, Removed
  <2>2. CASE invitations[d].status # "pending"
    BY <2>2 DEF CronCancel, cancelPendingByEventIds, stored
  <2> QED BY <2>1, <2>2
<1>2. UNCHANGED <<item, accounts>>
  BY DEF CronCancel
<1>3. NoOrphanInvitation'
  BY <1>1, <1>2, ItemResumes DEF NoOrphanInvitation
<1>4. findByEventAndCollaborator(item[i].collaborator)'
        = findByEventAndCollaborator(item[i].collaborator)
  BY <1>1, <1>2 DEF findByEventAndCollaborator
<1>5. findByEventAndCollaborator(item[i].collaborator) \subseteq InvitationIds
  BY DEF findByEventAndCollaborator
<1>6. item[i].pc \in {"update:write", "accept:write"} => item[i].id \in InvitationIds
  BY ItemResumes DEF LocalOK
<1>7. AloneOK(item[i])'
  BY <1>1, <1>2, <1>4, <1>5, <1>6, ItemResumes DEF AloneOK
<1> QED BY <1>3, <1>7 DEF AloneInv

LEMMA InviteAlone ==
    ASSUME Inv, AloneInv, NEW i, Items = {i},
           \/ InviteFindEvent(i) \/ InviteFindExisting(i)
           \/ InviteSave(i) \/ InviteNotify(i)
    PROVE  AloneInv'
<1>1. CASE InviteFindEvent(i)
  <2>1. PICK c \in Creators : item' = [item EXCEPT ![i] =
                [Idle EXCEPT !.pc = "invite:existing", !.collaborator = c]]
    BY <1>1 DEF InviteFindEvent
  <2> DEFINE l == [Idle EXCEPT !.pc = "invite:existing", !.collaborator = c]
  <2>2. AloneOK(l)
    BY DEF AloneOK, Idle
  <2>3. item' = [item EXCEPT ![i] = l]
    BY <2>1
  <2> HIDE DEF l
  <2> QED BY <1>1, <2>2, <2>3, ItemResumes, MoveItemAlone DEF InviteFindEvent
<1>2. CASE InviteFindExisting(i)
  <2> DEFINE l == [item[i] EXCEPT !.pc = "invite:save"]
  <2>1. l.pc = "invite:save" /\ l.collaborator = item[i].collaborator
    BY ItemResumes DEF Local
  <2>2. item' = [item EXCEPT ![i] = l]
    BY <1>2 DEF InviteFindExisting, goto
  <2> HIDE DEF l
  <2>3. AloneOK(l)
    BY <1>2, <2>1 DEF InviteFindExisting, AloneOK
  <2> QED BY <1>2, <2>2, <2>3, ItemResumes, MoveItemAlone DEF InviteFindExisting
<1>3. CASE InviteSave(i)
  <2>1. PICK d \in InvitationIds :
          invitations' = [invitations EXCEPT ![d] =
              [status |-> "pending", collaborator |-> item[i].collaborator,
               deleted |-> FALSE]]
    BY <1>3 DEF InviteSave
  <2>2. item[i].collaborator \in accounts /\ accounts' = accounts
    BY <1>3, ItemResumes DEF InviteSave, AloneOK
  <2>3. NoOrphanInvitation'
    BY <2>1, <2>2, ItemResumes DEF NoOrphanInvitation, stored
  <2>4. item'[i].pc = "invite:notify"
    BY <1>3, ItemResumes DEF InviteSave, goto, Local
  <2> QED BY <2>3, <2>4 DEF AloneInv, AloneOK
<1>4. CASE InviteNotify(i)
  <2>1. NoOrphanInvitation' /\ item'[i] = Idle
    BY <1>4, ItemResumes DEF InviteNotify, finish, NoOrphanInvitation, stored
  <2> QED BY <2>1, FinishItemAlone
<1> QED BY <1>1, <1>2, <1>3, <1>4

\* An item that has read an invitation holds a copy of what is stored.
LEMMA AnswerAlone ==
    ASSUME Inv, AloneInv, NEW i, Items = {i}, NEW d \in InvitationIds, stored(d),
           NEW pc \in {"accept:write", "update:write", "remove:notify", "remove:delete"},
           NEW next, Answer(i, d, pc, next), UNCHANGED <<invitations, accounts>>,
           pc = "accept:write" => next.status = "accepted",
           pc = "update:write" => next.status = invitations[d].status
    PROVE  AloneInv'
<1> DEFINE l == [Idle EXCEPT !.pc = pc, !.id = d, !.next = next,
                             !.collaborator = invitations[d].collaborator]
<1>1. /\ l.pc = pc /\ l.id = d /\ l.next = next
      /\ l.collaborator = invitations[d].collaborator
  BY DEF Idle
<1>2. item' = [item EXCEPT ![i] = l]
  BY DEF Answer
<1> HIDE DEF l
<1>3. AloneOK(l)
  BY <1>1 DEF AloneOK
<1> QED BY <1>2, <1>3, ItemResumes, MoveItemAlone

LEMMA FindAlone ==
    ASSUME Inv, AloneInv, NEW i, Items = {i},
           FindToAccept(i) \/ FindToLeave(i) \/ FindToRemove(i) \/ FindToRewrite(i)
    PROVE  AloneInv'
<1>1. ASSUME NEW d \in InvitationIds, invitations[d].status \in Statuses
      PROVE  stored(d)
  BY <1>1 DEF stored, Absent, Removed, Statuses
<1>2. ASSUME NEW d \in InvitationIds, stored(d)
      PROVE  /\ [invitations[d] EXCEPT !.status = "accepted"].status = "accepted"
             /\ [invitations[d] EXCEPT !.deleted = FALSE].status = invitations[d].status
  BY <1>2, StoredType
<1>3. UNCHANGED <<invitations, accounts>>
  BY DEF FindToAccept, FindToLeave, FindToRemove, FindToRewrite
<1>4. CASE FindToAccept(i)
  BY <1>1, <1>2, <1>3, <1>4, AnswerAlone DEF FindToAccept, Statuses
<1>5. CASE FindToLeave(i)
  BY <1>1, <1>3, <1>5, AnswerAlone DEF FindToLeave, Statuses
<1>6. CASE FindToRemove(i)
  BY <1>3, <1>6, AnswerAlone DEF FindToRemove
<1>7. CASE FindToRewrite(i)
  BY <1>2, <1>3, <1>7, AnswerAlone DEF FindToRewrite
<1> QED BY <1>4, <1>5, <1>6, <1>7

\* What a write of one invitation leaves, and who it belongs to.
LEMMA UpdateStores ==
    ASSUME Inv, NEW i \in Items, item[i].pc \in {"update:write", "accept:write"},
           update(item[i].id, item[i].next)
    PROVE  /\ \A d \in InvitationIds :
                /\ stored(d)' => stored(d)
                /\ stored(d)' => invitations'[d].collaborator = invitations[d].collaborator
                /\ d # item[i].id => invitations'[d] = invitations[d]
           /\ stored(item[i].id) =>
                /\ invitations'[item[i].id].status = item[i].next.status
                /\ invitations'[item[i].id].collaborator
                        = invitations[item[i].id].collaborator
           /\ ~stored(item[i].id) => invitations' = invitations
           /\ item[i].id \in InvitationIds
<1>1. item[i].id \in InvitationIds /\ invitations \in [InvitationIds -> Invitation]
  BY DEF Inv, LocalOK, TypeOK
<1>2. CASE stored(item[i].id)
  <2> DEFINE d == item[i].id
             new == [invitations[d] EXCEPT !.status = item[i].next.status,
                                           !.deleted = item[i].next.deleted]
  <2>1. invitations[d] \in [status : Statuses, collaborator : Creators,
                            deleted : BOOLEAN]
    BY <1>1, <1>2, StoredType
  <2>2. /\ new.status = item[i].next.status
        /\ new.collaborator = invitations[d].collaborator
    BY <2>1
  <2>3. invitations' = [invitations EXCEPT ![d] = new]
    BY <1>2 DEF update
  <2> HIDE DEF new
  <2> QED BY <1>1, <1>2, <2>2, <2>3 DEF stored
<1>3. CASE ~stored(item[i].id)
  BY <1>1, <1>3 DEF update, stored
<1> QED BY <1>2, <1>3

LEMMA WriteAlone ==
    ASSUME Inv, AloneInv, NEW i, Items = {i},
           UpdateWrite(i) \/ AcceptWrite(i) \/ AcceptNotify(i)
    PROVE  AloneInv'
<1>1. CASE AcceptNotify(i)
  <2>1. NoOrphanInvitation' /\ item'[i] = Idle
    BY <1>1, ItemResumes DEF AcceptNotify, finish, NoOrphanInvitation, stored
  <2> QED BY <2>1, FinishItemAlone
<1>2. CASE UpdateWrite(i) \/ AcceptWrite(i)
  <2>1. /\ item[i].pc \in {"update:write", "accept:write"} /\ accounts' = accounts
        /\ update(item[i].id, item[i].next)
    BY <1>2 DEF UpdateWrite, AcceptWrite
  <2>2. NoOrphanInvitation'
    BY <2>1, ItemResumes, UpdateStores DEF NoOrphanInvitation
  <2>3. CASE UpdateWrite(i)
    <3>1. item'[i] = Idle
      BY <2>3, ItemResumes DEF UpdateWrite, finish
    <3> QED BY <2>2, <3>1, FinishItemAlone
  <2>4. CASE AcceptWrite(i)
    <3>1. /\ stored(item[i].id) /\ item[i].next.status = "accepted"
          /\ invitations[item[i].id].collaborator = item[i].collaborator
      BY <2>4, ItemResumes DEF AcceptWrite, AloneOK
    <3>2. /\ item'[i].pc = "accept:notify"
          /\ item'[i].collaborator = item[i].collaborator
      BY <2>4, ItemResumes DEF AcceptWrite, goto, Local
    <3>3. \E d \in InvitationIds : /\ invitations'[d].collaborator = item'[i].collaborator
                                   /\ invitations'[d].status = "accepted"
      BY <2>1, <3>1, <3>2, UpdateStores
    <3>4. AloneOK(item[i])'
      BY <3>2, <3>3 DEF AloneOK, findByEventAndCollaborator
    <3> QED BY <2>2, <3>4 DEF AloneInv
  <2> QED BY <1>2, <2>3, <2>4
<1> QED BY <1>1, <1>2

\* What is left of a deletion was stored before it, as it is now.
LEMMA DeleteStores ==
    ASSUME Inv, NEW D, deleteMany(D)
    PROVE  \A d \in InvitationIds :
                /\ stored(d)' => stored(d) /\ invitations'[d] = invitations[d]
                /\ d \in D => ~stored(d)'
BY DEF deleteMany, stored, Inv, TypeOK

LEMMA RemoveAlone ==
    ASSUME Inv, AloneInv, NEW i, Items = {i},
           RemoveNotify(i) \/ RemoveDelete(i) \/ RemoveFindSchedule(i) \/ RemoveWrite(i)
    PROVE  AloneInv'
<1>1. accounts' = accounts
  BY DEF RemoveNotify, RemoveDelete, RemoveFindSchedule, RemoveWrite
<1>2. NoOrphanInvitation'
  <2>1. CASE RemoveDelete(i)
    BY <1>1, <2>1, ItemResumes, DeleteStores DEF RemoveDelete, NoOrphanInvitation
  <2>2. CASE UNCHANGED invitations
    BY <1>1, <2>2, ItemResumes DEF NoOrphanInvitation, stored
  <2> QED BY <2>1, <2>2 DEF RemoveNotify, RemoveFindSchedule, RemoveWrite
<1>3. item'[i].pc \in {"remove:delete", "remove:schedule", "remove:write", "idle"}
  <2>1. CASE RemoveNotify(i) \/ RemoveDelete(i)
    BY <2>1, ItemResumes DEF RemoveNotify, RemoveDelete, goto, Local
  <2>2. CASE RemoveFindSchedule(i)
    BY <2>2, ItemResumes DEF RemoveFindSchedule, Local
  <2>3. CASE RemoveWrite(i)
    BY <2>3, ItemResumes DEF RemoveWrite, finish, Idle
  <2> QED BY <2>1, <2>2, <2>3
<1> QED BY <1>2, <1>3 DEF AloneInv, AloneOK

LEMMA DeleteAlone ==
    ASSUME Inv, AloneInv, NEW i, Items = {i},
           \/ DeleteFindEvent(i) \/ deleteManyByEventIds(i) \/ DeleteEventDocument(i)
           \/ removeCollaborator(i) \/ deleteManyByUserId(i) \/ DeleteAccountUser(i)
    PROVE  AloneInv'
<1>1. CASE DeleteFindEvent(i) \/ DeleteEventDocument(i) \/ removeCollaborator(i)
  <2>1. NoOrphanInvitation'
    BY <1>1, ItemResumes DEF DeleteFindEvent, DeleteEventDocument, removeCollaborator,
                             NoOrphanInvitation, stored
  <2>2. item'[i].pc \in {"event:invitations", "idle", "account:invitations"}
    <3>1. CASE DeleteFindEvent(i)
      BY <3>1, ItemResumes DEF DeleteFindEvent, Idle
    <3>2. CASE DeleteEventDocument(i)
      BY <3>2, ItemResumes DEF DeleteEventDocument, finish, Idle
    <3>3. CASE removeCollaborator(i)
      BY <3>3, ItemResumes DEF removeCollaborator, Idle
    <3> QED BY <1>1, <3>1, <3>2, <3>3
  <2> QED BY <2>1, <2>2 DEF AloneInv, AloneOK
<1>2. CASE deleteManyByEventIds(i)
  <2>1. NoOrphanInvitation'
    BY <1>2, ItemResumes, DeleteStores DEF deleteManyByEventIds, NoOrphanInvitation
  <2>2. item'[i].pc = "event:delete"
    BY <1>2, ItemResumes DEF deleteManyByEventIds, goto, Local
  <2> QED BY <2>1, <2>2 DEF AloneInv, AloneOK
<1>3. CASE deleteManyByUserId(i)
  <2>1. deleteMany(findByEventAndCollaborator(item[i].collaborator))
    BY <1>3 DEF deleteManyByUserId
  <2>2. NoOrphanInvitation'
    BY <1>3, <2>1, ItemResumes, DeleteStores DEF deleteManyByUserId, NoOrphanInvitation
  <2>3. item'[i].pc = "account:delete" /\ item'[i].collaborator = item[i].collaborator
    BY <1>3, ItemResumes DEF deleteManyByUserId, goto, Local
  <2>4. ASSUME NEW d \in InvitationIds, stored(d)',
               invitations'[d].collaborator = item'[i].collaborator
        PROVE  FALSE
    <3>1. invitations'[d] = invitations[d]
      BY <2>1, <2>4, DeleteStores
    <3>2. d \in findByEventAndCollaborator(item[i].collaborator)
      BY <2>3, <2>4, <3>1 DEF findByEventAndCollaborator
    <3> QED BY <2>1, <2>4, <3>2, DeleteStores
  <2>5. AloneOK(item[i])'
    BY <2>3, <2>4 DEF AloneOK, findByEventAndCollaborator
  <2> QED BY <2>2, <2>5 DEF AloneInv
<1>4. CASE DeleteAccountUser(i)
  <2>1. \A d \in findByEventAndCollaborator(item[i].collaborator) : ~stored(d)
    BY <1>4, ItemResumes DEF DeleteAccountUser, AloneOK
  <2>2. NoOrphanInvitation'
    BY <1>4, <2>1, ItemResumes
       DEF DeleteAccountUser, NoOrphanInvitation, findByEventAndCollaborator, stored
  <2>3. item'[i] = Idle
    BY <1>4, ItemResumes DEF DeleteAccountUser, finish
  <2> QED BY <2>2, <2>3, FinishItemAlone
<1> QED BY <1>1, <1>2, <1>3, <1>4

LEMMA NextAlone ==
    ASSUME NEW i, Items = {i}
    PROVE  Inv /\ AloneInv /\ [Next]_vars => AloneInv'
<1> SUFFICES ASSUME Inv, AloneInv, [Next]_vars PROVE AloneInv'
  OBVIOUS
<1>1. CASE ItemStep(i)
  <2>1. CASE ItemFail(i)
    <3>1. NoOrphanInvitation' /\ item'[i] = Idle
      BY <2>1, ItemResumes DEF ItemFail, finish, NoOrphanInvitation, stored
    <3> QED BY <3>1, FinishItemAlone
  <2> QED BY <1>1, <2>1, InviteAlone, FindAlone, WriteAlone, RemoveAlone, DeleteAlone
          DEF ItemStep
<1>2. CASE UNCHANGED <<invitations, item, accounts>>
  BY <1>2 DEF AloneInv, AloneOK, NoOrphanInvitation, findByEventAndCollaborator, stored
<1>3. CASE \E r \in Requests : EditStep(r)
  BY <1>2, <1>3 DEF EditStep, invitationVars
<1>4. CASE BackgroundStep
  BY <1>2, <1>4 DEF BackgroundStep, invitationVars
<1>5. CASE CronStep
  BY <1>2, <1>5, CancelBesideItem DEF CronStep, invitationVars
<1>6. CASE UNCHANGED vars
  BY <1>2, <1>6 DEF vars
<1> QED BY <1>1, <1>3, <1>4, <1>5, <1>6 DEF Next

-----------------------------------------------------------------------------

\* Items handled one at a time: whatever the cron, the edits and the
\* administrators do beside them, no invitation outlives the account of its
\* collaborator (CreateEventInvitations:42-60, DeleteAccount:62-85).
THEOREM NoInvitationOutlivesAccount ==
    ASSUME NEW i, Items = {i}
    PROVE  Spec => []NoOrphanInvitation
<1>1. AloneInv => NoOrphanInvitation
  BY DEF AloneInv
<1> QED BY <1>1, InitInv, NextInv, InitItemAlone, NextAlone, PTL DEF Spec

\* Items handled one at a time: neither the cron nor a write of what an item
\* read takes an acceptance back; only a deletion does (UpdateEventInvitation).
THEOREM AcceptancesAreKept ==
    ASSUME NEW i, Items = {i}
    PROVE  Spec => AcceptedIsKept
<1>1. ASSUME Inv, AloneInv, Next, NEW d \in InvitationIds,
             invitations[d].status = "accepted"
      PROVE  invitations'[d].status \in {"accepted", "removed"}
  <2>1. stored(d) /\ invitations \in [InvitationIds -> Invitation]
    BY <1>1 DEF stored, Absent, Removed, Inv, TypeOK
  <2>2. CASE UNCHANGED invitations
    BY <1>1, <2>2
  <2>3. CASE UpdateWrite(i) \/ AcceptWrite(i)
    <3>1. /\ item[i].pc \in {"update:write", "accept:write"}
          /\ update(item[i].id, item[i].next)
      BY <2>3 DEF UpdateWrite, AcceptWrite
    <3>2. CASE d = item[i].id
      <4>1. item[i].next.status = "accepted"
        BY <1>1, <3>1, <3>2, ItemResumes DEF AloneOK
      <4>2. invitations'[item[i].id].status = item[i].next.status
        BY <1>1, <2>1, <3>1, <3>2, UpdateStores
      <4> QED BY <3>2, <4>1, <4>2
    <3>3. CASE d # item[i].id
      BY <1>1, <3>1, <3>3, UpdateStores
    <3> QED BY <3>2, <3>3
  <2>4. ASSUME NEW D, deleteMany(D)
        PROVE  invitations'[d].status \in {"accepted", "removed"}
    BY <1>1, <2>4 DEF deleteMany, Removed
  <2>5. CASE InviteSave(i)
    BY <1>1, <2>1, <2>5 DEF InviteSave, stored
  <2>6. CASE CronCancel
    BY <1>1, <2>6 DEF CronCancel, cancelPendingByEventIds
  <2>7. CASE ItemStep(i)
    BY <2>2, <2>3, <2>4, <2>5, <2>7
       DEF ItemStep, InviteFindEvent, InviteFindExisting, InviteNotify, FindToAccept,
           FindToLeave, FindToRemove, FindToRewrite, AcceptNotify, RemoveNotify,
           RemoveDelete, RemoveFindSchedule, RemoveWrite, DeleteFindEvent,
           deleteManyByEventIds, DeleteEventDocument, removeCollaborator,
           deleteManyByUserId, DeleteAccountUser, ItemFail
  <2> QED BY <1>1, <2>2, <2>6, <2>7
          DEF Next, EditStep, CronStep, BackgroundStep, invitationVars
<1>2. Inv /\ AloneInv /\ [Next]_vars =>
        [\A d \in InvitationIds :
            invitations[d].status = "accepted"
                => invitations'[d].status \in {"accepted", "removed"}]_vars
  BY <1>1
<1> QED BY <1>2, InitInv, NextInv, InitItemAlone, NextAlone, PTL DEF Spec, AcceptedIsKept

\* Items handled one at a time: when the organiser is told that a creator has
\* accepted, an accepted invitation of that creator is stored, although the
\* notification follows the write (UpdateEventInvitation:123-135).
THEOREM AcceptancesAreTruthful ==
    ASSUME NEW i, Items = {i}
    PROVE  Spec => AcceptanceTruthful
<1>1. ASSUME Inv, AloneInv, Next, NEW c \in acceptances' \ acceptances
      PROVE  \E d \in findByEventAndCollaborator(c) : invitations[d].status = "accepted"
  <2>1. CASE AcceptNotify(i)
    BY <1>1, <2>1, ItemResumes DEF AcceptNotify, AloneOK
  <2>2. CASE UNCHANGED acceptances
    BY <1>1, <2>2
  <2> QED BY <1>1, <2>1, <2>2
          DEF Next, ItemStep, InviteFindEvent, InviteFindExisting, InviteSave, InviteNotify,
              FindToAccept, FindToLeave, FindToRemove, FindToRewrite, UpdateWrite,
              AcceptWrite, RemoveNotify, RemoveDelete, RemoveFindSchedule, RemoveWrite,
              DeleteFindEvent, deleteManyByEventIds, DeleteEventDocument,
              removeCollaborator, deleteManyByUserId, DeleteAccountUser, ItemFail,
              EditStep, CronStep, CronCancel, BackgroundStep, invitationVars
<1>2. Inv /\ AloneInv /\ [Next]_vars =>
        [\A c \in acceptances' \ acceptances :
            \E d \in findByEventAndCollaborator(c) :
                invitations[d].status = "accepted"]_vars
  BY <1>1
<1> QED BY <1>2, InitInv, NextInv, InitItemAlone, NextAlone, PTL
        DEF Spec, AcceptanceTruthful
=============================================================================
