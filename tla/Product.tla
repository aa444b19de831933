-------------------------------- MODULE Product --------------------------------
(***************************************************************************)
(* The products of users, at most MAX_PRODUCTS_PER_USER of them:           *)
(* CreateProduct counts before it saves, in two operations.                *)
(***************************************************************************)
EXTENDS Naturals, FiniteSets

CONSTANTS Users, Products, Categories, Requests, MAX_PRODUCTS_PER_USER, None

\* What is asked of the constants; the module of each run asserts it of its values.
ProductAssumption ==
    /\ MAX_PRODUCTS_PER_USER \in Nat \ {0}
    /\ IsFiniteSet(Products) /\ IsFiniteSet(Requests)
    /\ None \notin Users /\ None \notin Products /\ None \notin Categories

VARIABLES
    products,  \* the documents of the collection
    accounts,  \* the users whose account exists
    req        \* the requests in flight

vars == <<products, accounts, req>>

Absent  == [user |-> None, category |-> None, state |-> "absent"]
Removed == [Absent EXCEPT !.state = "removed"]

ProductDocs == [user : Users, category : Categories, state : {"stored"}]
                    \cup {Absent, Removed}

Idle == [pc |-> "idle", user |-> None, id |-> None, category |-> None]

Local ==
    [pc       : {"idle", "create:save", "update:write", "delete:delete",
                 "account:products", "account:delete"},
     user     : Users \cup {None},
     id       : Products \cup {None},
     category : Categories \cup {None}]

TypeOK ==
    /\ products \in [Products -> ProductDocs]
    /\ accounts \subseteq Users
    /\ req \in [Requests -> Local]

Init ==
    /\ products = [p \in Products |-> Absent]
    /\ accounts = Users
    /\ req = [r \in Requests |-> Idle]

-----------------------------------------------------------------------------
(* Repository operations                                                   *)

stored(p) == products[p].state = "stored"

findByUserId(u) == {p \in Products : products[p].user = u}

countByUserId(u) == Cardinality(findByUserId(u))

save(p, u, c) ==
    /\ products[p] = Absent
    /\ products' = [products EXCEPT
                        ![p] = [user |-> u, category |-> c, state |-> "stored"]]

\* Faulty variant: a product that is gone is written all the same.
updateUpserting(p, c) == products' = [products EXCEPT ![p].category = c]

\* updateOne: nothing happens when the product is gone.
update(p, c) ==
    products' = IF stored(p) THEN [products EXCEPT ![p].category = c] ELSE products

deleteAll(D) ==
    products' = [p \in Products |-> IF p \in D /\ stored(p) THEN Removed ELSE products[p]]

-----------------------------------------------------------------------------
(* Requests                                                                *)

goto(r, pc) == req' = [req EXCEPT ![r].pc = pc]
finish(r)   == req' = [req EXCEPT ![r] = Idle]

\* Every throw after the first operation, and a crash.
RequestFail(r) ==
    /\ req[r] # Idle
    /\ finish(r)
    /\ UNCHANGED <<products, accounts>>

\* Faulty variant: one product too many is let through.
CreateCountAtMost(r) ==
    /\ req[r] = Idle
    /\ \E u \in accounts, c \in Categories :
        /\ countByUserId(u) <= MAX_PRODUCTS_PER_USER
        /\ req' = [req EXCEPT ![r] = [Idle EXCEPT !.pc = "create:save",
                                                  !.user = u, !.category = c]]
    /\ UNCHANGED <<products, accounts>>

CreateCount(r) ==
    /\ req[r] = Idle
    /\ \E u \in accounts, c \in Categories :
        /\ countByUserId(u) < MAX_PRODUCTS_PER_USER
        /\ req' = [req EXCEPT ![r] = [Idle EXCEPT !.pc = "create:save",
                                                  !.user = u, !.category = c]]
    /\ UNCHANGED <<products, accounts>>

CreateSave(r) ==
    /\ req[r].pc = "create:save"
    /\ \E p \in Products : save(p, req[r].user, req[r].category)
    /\ finish(r)
    /\ UNCHANGED accounts

\* UpdateProduct and DeleteProduct: findById, by the owner only.
FindOwn(r, pc, p, c) ==
    /\ req[r] = Idle
    /\ stored(p) /\ products[p].user \in accounts
    /\ req' = [req EXCEPT ![r] = [pc |-> pc, user |-> products[p].user,
                                  id |-> p, category |-> c]]

UpdateFind(r) ==
    /\ \E p \in Products, c \in Categories : FindOwn(r, "update:write", p, c)
    /\ UNCHANGED <<products, accounts>>

UpdateWrite(r) ==
    /\ req[r].pc = "update:write"
    /\ update(req[r].id, req[r].category)
    /\ finish(r)
    /\ UNCHANGED accounts

DeleteFind(r) ==
    /\ \E p \in Products : FindOwn(r, "delete:delete", p, None)
    /\ UNCHANGED <<products, accounts>>

DeleteDelete(r) ==
    /\ req[r].pc = "delete:delete"
    /\ deleteAll({req[r].id})
    /\ finish(r)
    /\ UNCHANGED accounts

(* DeleteAccount *)

AccountFind(r) ==
    /\ req[r] = Idle
    /\ \E u \in accounts :
        req' = [req EXCEPT ![r] = [Idle EXCEPT !.pc = "account:products", !.user = u]]
    /\ UNCHANGED <<products, accounts>>

deleteManyByUserId(r) ==
    /\ req[r].pc = "account:products"
    /\ deleteAll(findByUserId(req[r].user))
    /\ goto(r, "account:delete")
    /\ UNCHANGED accounts

AccountDelete(r) ==
    /\ req[r].pc = "account:delete"
    /\ accounts' = accounts \ {req[r].user}
    /\ finish(r)
    /\ UNCHANGED products

-----------------------------------------------------------------------------

Step(r) ==
    \/ CreateCount(r) \/ CreateSave(r)
    \/ UpdateFind(r) \/ UpdateWrite(r) \/ DeleteFind(r) \/ DeleteDelete(r)
    \/ AccountFind(r) \/ deleteManyByUserId(r) \/ AccountDelete(r)
    \/ RequestFail(r)

Next == \E r \in Requests : Step(r)

Spec == Init /\ [][Next]_vars

-----------------------------------------------------------------------------
(* Safety                                                                  *)

\* The creations of a user that were let through and have yet to save.
saving(u) == {r \in Requests : req[r].pc = "create:save" /\ req[r].user = u}

\* Requests that overlap may all count before one saves, so the limit of ten
\* (CreateProduct:27-33) can be passed, but only by the requests served at once:
\* never by more than their number less one.
ProductQuota ==
    \A u \in Users :
        countByUserId(u) + Cardinality(saving(u))
            <= MAX_PRODUCTS_PER_USER - 1 + Cardinality(Requests)
=============================================================================
