-------------------------------- MODULE Follow --------------------------------
(***************************************************************************)
(* Follows between users, and the number of followers kept on each user:   *)
(* CreateFollow, DeleteFollow, and what DeleteAccount does to both.  A     *)
(* follow and the counter are written by two operations, and between any   *)
(* two operations of a request those of the others may take place.         *)
(***************************************************************************)
EXTENDS Integers, FiniteSets

CONSTANTS Users, FollowIds, Requests, None

\* What is asked of the constants; the module of each run asserts it of its values.
FollowAssumption ==
    IsFiniteSet(FollowIds) /\ None \notin Users /\ None \notin FollowIds

VARIABLES
    follows,    \* the documents of the collection
    followers,  \* the counter of each user
    accounts,   \* the users whose account exists
    req,        \* the requests in flight
    missed      \* users whose counter a request that failed did not increment

vars == <<follows, followers, accounts, req, missed>>

Absent  == [follower |-> None, following |-> None, state |-> "absent"]
Removed == [Absent EXCEPT !.state = "removed"]

Follows == {f \in [follower : Users, following : Users, state : {"stored"}] :
                f.follower # f.following} \cup {Absent, Removed}

Idle == [pc |-> "idle", user |-> None, target |-> None, id |-> None]

Local ==
    [pc     : {"idle", "create:save", "create:count", "create:notify",
               "delete:delete", "delete:count", "account:follows", "account:delete"},
     user   : Users \cup {None},
     target : Users \cup {None},
     id     : FollowIds \cup {None}]

TypeOK ==
    /\ follows \in [FollowIds -> Follows]
    /\ followers \in [Users -> 0 .. Cardinality(FollowIds)]
    /\ accounts \subseteq Users
    /\ req \in [Requests -> Local]
    /\ missed \subseteq Users

Init ==
    /\ follows = [d \in FollowIds |-> Absent]
    /\ followers = [u \in Users |-> 0]
    /\ accounts = Users
    /\ req = [r \in Requests |-> Idle]
    /\ missed = {}

-----------------------------------------------------------------------------
(* Repository operations                                                   *)

create(a, b) == [follower |-> a, following |-> b, state |-> "stored"]

stored(d) == follows[d].state = "stored"

findByPair(a, b) ==
    {d \in FollowIds : follows[d].follower = a /\ follows[d].following = b}

findFollowersOf(u) == {d \in FollowIds : follows[d].following = u}
findFollowingOf(u) == {d \in FollowIds : follows[d].follower = u}

\* Faulty variant: the collection has no unique index.
saveUnindexed(d, a, b) ==
    /\ follows[d] = Absent
    /\ follows' = [follows EXCEPT ![d] = create(a, b)]

\* The unique index on the pair makes a second save throw.
save(d, a, b) ==
    /\ follows[d] = Absent
    /\ findByPair(a, b) = {}
    /\ follows' = [follows EXCEPT ![d] = create(a, b)]

deleteAll(D) ==
    follows' = [d \in FollowIds |-> IF d \in D /\ stored(d) THEN Removed ELSE follows[d]]

\* Faulty variant: the counter is decremented below zero.
incrementUnguarded(u, delta) ==
    followers' = IF u \notin accounts THEN followers
                 ELSE [followers EXCEPT ![u] = @ + delta]

\* Nothing is written to an account that is gone, nor below zero.
incrementFollowers(u, delta) ==
    followers' = IF u \notin accounts \/ (delta < 0 /\ followers[u] = 0)
                 THEN followers
                 ELSE [followers EXCEPT ![u] = @ + delta]

-----------------------------------------------------------------------------
(* Requests                                                                *)

goto(r, pc) == req' = [req EXCEPT ![r].pc = pc]
finish(r)   == req' = [req EXCEPT ![r] = Idle]

\* Every throw after the first operation, and a crash.
RequestFail(r) ==
    /\ req[r] # Idle
    /\ finish(r)
    /\ missed' = missed \cup
            (IF req[r].pc = "create:count" THEN {req[r].target} ELSE {})
    /\ UNCHANGED <<follows, followers, accounts>>

(* CreateFollow; whether the followed account exists is not asked *)

CreateFind(r) ==
    /\ req[r] = Idle
    /\ \E a \in accounts, b \in Users :
        /\ a # b
        /\ findByPair(a, b) = {}
        /\ req' = [req EXCEPT ![r] = [Idle EXCEPT !.pc = "create:save",
                                                  !.user = a, !.target = b]]
    /\ UNCHANGED <<follows, followers, accounts, missed>>

CreateSave(r) ==
    /\ req[r].pc = "create:save"
    /\ \E d \in FollowIds : save(d, req[r].user, req[r].target)
    /\ goto(r, "create:count")
    /\ UNCHANGED <<followers, accounts, missed>>

\* Faulty variant: the follower is counted instead of the followed.
CreateCountFollower(r) ==
    /\ req[r].pc = "create:count"
    /\ incrementFollowers(req[r].user, 1)
    /\ goto(r, "create:notify")
    /\ UNCHANGED <<follows, accounts, missed>>

CreateCount(r) ==
    /\ req[r].pc = "create:count"
    /\ incrementFollowers(req[r].target, 1)
    /\ goto(r, "create:notify")
    /\ UNCHANGED <<follows, accounts, missed>>

CreateNotify(r) ==
    /\ req[r].pc = "create:notify"
    /\ finish(r)
    /\ UNCHANGED <<follows, followers, accounts, missed>>

(* DeleteFollow *)

DeleteFind(r) ==
    /\ req[r] = Idle
    /\ \E d \in FollowIds :
        /\ follows[d].follower \in accounts
        /\ req' = [req EXCEPT ![r] = [pc |-> "delete:delete", id |-> d,
                                      user   |-> follows[d].follower,
                                      target |-> follows[d].following]]
    /\ UNCHANGED <<follows, followers, accounts, missed>>

DeleteDelete(r) ==
    /\ req[r].pc = "delete:delete"
    /\ deleteAll({req[r].id})
    /\ goto(r, "delete:count")
    /\ UNCHANGED <<followers, accounts, missed>>

DeleteCount(r) ==
    /\ req[r].pc = "delete:count"
    /\ incrementFollowers(req[r].target, -1)
    /\ finish(r)
    /\ UNCHANGED <<follows, accounts, missed>>

(* DeleteAccount *)

AccountFind(r) ==
    /\ req[r] = Idle
    /\ \E u \in accounts :
        req' = [req EXCEPT ![r] = [Idle EXCEPT !.pc = "account:follows", !.user = u]]
    /\ UNCHANGED <<follows, followers, accounts, missed>>

\* No counter is decremented here.
deleteAllInvolvingUser(r) ==
    /\ req[r].pc = "account:follows"
    /\ deleteAll(findFollowersOf(req[r].user) \cup findFollowingOf(req[r].user))
    /\ goto(r, "account:delete")
    /\ UNCHANGED <<followers, accounts, missed>>

AccountDelete(r) ==
    /\ req[r].pc = "account:delete"
    /\ accounts' = accounts \ {req[r].user}
    /\ finish(r)
    /\ UNCHANGED <<follows, followers, missed>>

-----------------------------------------------------------------------------

Step(r) ==
    \/ CreateFind(r) \/ CreateSave(r) \/ CreateCount(r) \/ CreateNotify(r)
    \/ DeleteFind(r) \/ DeleteDelete(r) \/ DeleteCount(r)
    \/ AccountFind(r) \/ deleteAllInvolvingUser(r) \/ AccountDelete(r)
    \/ RequestFail(r)

Next == \E r \in Requests : Step(r)

Spec == Init /\ [][Next]_vars

-----------------------------------------------------------------------------
(* Safety                                                                  *)

\* However many requests overlap, a user follows another at most once: two that
\* both found no follow are told apart by the index (Follow.schema.ts:27).
UniqueFollow ==
    \A a, b \in Users : Cardinality(findByPair(a, b)) <= 1

\* The followers an interrupted or unfinished request has yet to count.
uncounted(u) == {r \in Requests : req[r].pc = "create:count" /\ req[r].target = u}

\* With one request at a time, and unless a creation was interrupted between its
\* two writes, the profile never shows fewer followers than the list of
\* followers has (CreateFollow:48-50, DeleteFollow:37-38).  It may show more:
\* DeleteAccount removes follows without touching a counter.
CounterNotBelow ==
    \A u \in accounts \ missed :
        followers[u] + Cardinality(uncounted(u)) >= Cardinality(findFollowersOf(u))

\* With one request at a time, no follow outlives the account of the follower
\* (DeleteAccount:68, then :85).
NoOrphanFollow ==
    \A d \in FollowIds : stored(d) => follows[d].follower \in accounts
=============================================================================
