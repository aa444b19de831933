----------------------------- MODULE Partnership -----------------------------
(***************************************************************************)
(* Partnerships between two creators: CreatePartnership, the items of      *)
(* UpdatePartnerships (handled with Promise.all, so each item is a request *)
(* of its own here), DeletePartnership, and their removal by DeleteAccount.*)
(* No index keeps a pair of users to one partnership: only the look-up     *)
(* before the save does.                                                   *)
(***************************************************************************)
EXTENDS Naturals, FiniteSets

CONSTANTS
    Users,
    Creators,        \* the users of type "creator", the only ones to invite
    PartnershipIds,
    Requests,
    None

\* What is asked of the constants; the module of each run asserts it of its values.
PartnershipAssumption ==
    /\ Creators \subseteq Users /\ None \notin Users
    /\ IsFiniteSet(Requests) /\ IsFiniteSet(PartnershipIds)
    /\ None \notin PartnershipIds

VARIABLES
    partnerships,  \* the documents of the collection
    accounts,      \* the users whose account exists
    req            \* the requests in flight

vars == <<partnerships, accounts, req>>

Absent  == [status |-> "none", initiator |-> None, collaborator |-> None, deleted |-> FALSE]
Removed == [Absent EXCEPT !.status = "removed"]

\* "refused" and "completed" are in the schema, but no request stores them.
Partnerships ==
    [status : {"pending", "accepted", "cancelled"}, initiator : Users,
     collaborator : Creators, deleted : BOOLEAN] \cup {Absent, Removed}

Idle == [pc |-> "idle", initiator |-> None, collaborator |-> None,
         id |-> None, next |-> Absent]

Local ==
    [pc           : {"idle", "create:existing", "create:save", "create:find",
                     "create:notify", "update:write", "account:partnerships",
                     "account:delete"},
     initiator    : Users \cup {None},
     collaborator : Creators \cup {None},
     id           : PartnershipIds \cup {None},
     next         : Partnerships]          \* the entity about to be written

TypeOK ==
    /\ partnerships \in [PartnershipIds -> Partnerships]
    /\ accounts \subseteq Users
    /\ req \in [Requests -> Local]

Init ==
    /\ partnerships = [p \in PartnershipIds |-> Absent]
    /\ accounts = Users
    /\ req = [r \in Requests |-> Idle]

-----------------------------------------------------------------------------
(* Entity                                                                  *)

create(a, b) ==
    [status |-> "pending", initiator |-> a, collaborator |-> b, deleted |-> FALSE]

accept(partnership) == [partnership EXCEPT !.status = "accepted"]

\* Faulty variant: cancelling leaves the partnership visible.
cancelKeepsVisible(partnership) == [partnership EXCEPT !.status = "cancelled"]

cancel(partnership) == [partnership EXCEPT !.status = "cancelled", !.deleted = TRUE]

-----------------------------------------------------------------------------
(* Repository operations                                                   *)

stored(p) == partnerships[p] \notin {Absent, Removed}

live(p) == stored(p) /\ ~partnerships[p].deleted

between(p, a, b) ==
    {partnerships[p].initiator, partnerships[p].collaborator} = {a, b}

\* Faulty variant: only the direction asked for is looked up.
findExistingOneWay(a, b) ==
    {p \in PartnershipIds : live(p) /\ partnerships[p].initiator = a
                                    /\ partnerships[p].collaborator = b}

findExistingBetweenUsers(a, b) == {p \in PartnershipIds : live(p) /\ between(p, a, b)}

\* updateOne: nothing happens when the document has been removed.
update(p, next) ==
    partnerships' = IF stored(p)
                    THEN [partnerships EXCEPT ![p].status = next.status,
                                              ![p].deleted = next.deleted]
                    ELSE partnerships

-----------------------------------------------------------------------------
(* Requests                                                                *)

goto(r, pc) == req' = [req EXCEPT ![r].pc = pc]
finish(r)   == req' = [req EXCEPT ![r] = Idle]

\* Every throw after the first operation, and a crash.
RequestFail(r) ==
    /\ req[r] # Idle
    /\ finish(r)
    /\ UNCHANGED <<partnerships, accounts>>

(* CreatePartnership *)

CreateFindCollaborator(r) ==
    /\ req[r] = Idle
    /\ \E a \in accounts, b \in accounts \cap Creators :
        /\ a # b
        /\ req' = [req EXCEPT ![r] = [Idle EXCEPT !.pc = "create:existing",
                                       !.initiator = a, !.collaborator = b]]
    /\ UNCHANGED <<partnerships, accounts>>

CreateFindExisting(r) ==
    /\ req[r].pc = "create:existing"
    /\ findExistingBetweenUsers(req[r].initiator, req[r].collaborator) = {}
    /\ goto(r, "create:save")
    /\ UNCHANGED <<partnerships, accounts>>

CreateSave(r) ==
    /\ req[r].pc = "create:save"
    /\ \E p \in PartnershipIds :
        /\ partnerships[p] = Absent
        /\ partnerships' = [partnerships EXCEPT
                ![p] = create(req[r].initiator, req[r].collaborator)]
        /\ req' = [req EXCEPT ![r].pc = "create:find", ![r].id = p]
    /\ UNCHANGED accounts

CreateFind(r) ==
    /\ req[r].pc = "create:find"
    /\ stored(req[r].id)
    /\ goto(r, "create:notify")
    /\ UNCHANGED <<partnerships, accounts>>

CreateNotify(r) ==
    /\ req[r].pc = "create:notify"
    /\ finish(r)
    /\ UNCHANGED <<partnerships, accounts>>

\* UpdatePartnerships.updateOne and DeletePartnership: findById and the checks.
FindToWrite(r, p, next) ==
    req' = [req EXCEPT ![r] = [Idle EXCEPT !.pc = "update:write", !.id = p, !.next = next]]

\* Only the collaborator accepts, and only a pending partnership; an item that
\* asks for the status the partnership has, or for another one, writes nothing.
FindToAccept(r) ==
    /\ req[r] = Idle
    /\ \E p \in PartnershipIds :
        /\ partnerships[p].status = "pending"
        /\ partnerships[p].collaborator \in accounts
        /\ FindToWrite(r, p, accept(partnerships[p]))
    /\ UNCHANGED <<partnerships, accounts>>

\* Either participant, whatever the status.
FindToDelete(r) ==
    /\ req[r] = Idle
    /\ \E p \in PartnershipIds :
        /\ stored(p)
        /\ {partnerships[p].initiator, partnerships[p].collaborator} \cap accounts # {}
        /\ FindToWrite(r, p, cancel(partnerships[p]))
    /\ UNCHANGED <<partnerships, accounts>>

UpdateWrite(r) ==
    /\ req[r].pc = "update:write"
    /\ update(req[r].id, req[r].next)
    /\ finish(r)
    /\ UNCHANGED accounts

(* DeleteAccount *)

AccountFind(r) ==
    /\ req[r] = Idle
    /\ \E u \in accounts :
        req' = [req EXCEPT ![r] = [Idle EXCEPT !.pc = "account:partnerships",
                                               !.initiator = u]]
    /\ UNCHANGED <<partnerships, accounts>>

\* Faulty variant: the partnerships the user was invited to are left behind.
deleteManyByInitiator(r) ==
    /\ req[r].pc = "account:partnerships"
    /\ partnerships' = [p \in PartnershipIds |->
            IF partnerships[p].initiator = req[r].initiator
            THEN Removed ELSE partnerships[p]]
    /\ goto(r, "account:delete")
    /\ UNCHANGED accounts

deleteManyByUserId(r) ==
    /\ req[r].pc = "account:partnerships"
    /\ partnerships' = [p \in PartnershipIds |->
            IF req[r].initiator \in {partnerships[p].initiator, partnerships[p].collaborator}
            THEN Removed ELSE partnerships[p]]
    /\ goto(r, "account:delete")
    /\ UNCHANGED accounts

AccountDelete(r) ==
    /\ req[r].pc = "account:delete"
    /\ accounts' = accounts \ {req[r].initiator}
    /\ finish(r)
    /\ UNCHANGED partnerships

-----------------------------------------------------------------------------

Step(r) ==
    \/ CreateFindCollaborator(r) \/ CreateFindExisting(r) \/ CreateSave(r)
    \/ CreateFind(r) \/ CreateNotify(r)
    \/ FindToAccept(r) \/ FindToDelete(r) \/ UpdateWrite(r)
    \/ AccountFind(r) \/ deleteManyByUserId(r) \/ AccountDelete(r)
    \/ RequestFail(r)

Next == \E r \in Requests : Step(r)

Spec == Init /\ [][Next]_vars

-----------------------------------------------------------------------------
(* Reads                                                                   *)

\* The list of a profile as a viewer gets it (None: nobody is signed in).
findListForUser(owner, viewer) ==
    {p \in PartnershipIds :
        /\ live(p)
        /\ owner \in {partnerships[p].initiator, partnerships[p].collaborator}
        /\ \/ partnerships[p].status = "accepted"
           \/ viewer # None /\ viewer \in {partnerships[p].initiator,
                                           partnerships[p].collaborator}}

-----------------------------------------------------------------------------
(* Safety                                                                  *)

\* A pair of users never has more partnerships in view, in either direction,
\* than requests may be in flight, and so exactly one when they are served one
\* by one: requests that look up before another saves, or that accept a copy
\* read before the partnership was cancelled (and so bring it back), are held
\* to that number (CreatePartnership:49-70, UpdatePartnerships:69).
PartnershipsBounded ==
    \A a, b \in Users :
        Cardinality({p \in PartnershipIds : live(p) /\ between(p, a, b)})
            <= Cardinality(Requests)

\* With one request at a time, a partnership that was cancelled is out of every
\* list for good (Partnership.entity.ts:83-96).
CancelKept ==
    \A p \in PartnershipIds :
        partnerships[p].status = "cancelled"
            => \A u \in Users, v \in Users \cup {None} : p \notin findListForUser(u, v)'

CancelledIsFinal == [][CancelKept]_vars

\* With one request at a time, no partnership outlives either account
\* (DeleteAccount:64, then :85).
NoOrphanPartnership ==
    \A p \in PartnershipIds :
        stored(p) => {partnerships[p].initiator, partnerships[p].collaborator} \subseteq accounts
=============================================================================
