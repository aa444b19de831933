--------------------------- MODULE CollectionProofs ---------------------------
(***************************************************************************)
(* Proofs about the collections that requests share and that nothing but   *)
(* their own handlers write: follows, reviews, announcements, moderated    *)
(* documents, notifications, conversations and messages, products and      *)
(* partnerships; and about parts that only read, the way of a request      *)
(* through the server, the page of a place and the map.                    *)
(* One section each, its names those of the component under its prefix;    *)
(* Product is extended, the others are instances.  Requests and req are    *)
(* those of the component a theorem is about.                              *)
(***************************************************************************)
EXTENDS Product, Sequences, FiniteSetTheorems, TLAPS

CONSTANTS
    FollowIds, Members,
    Authors, ReviewIds, Ratings, ReviewedPlaces, ReviewedEvents,
    Slugs, AnnouncementIds,
    Comments, Reviews, Events, Places, Images, Admins, Texts,
    NotificationIds, Notifiers,
    ConversationIds, MessageIds, Listeners,
    Served(_, _),
    Schedules, Days,
    Creators, PartnershipIds,
    Positions, Boxes, Rounded(_), Kinds

VARIABLES
    follows, followers, missed,
    reviews, rating, stale,
    announcements,
    doc,
    notifications, optedIn, mails,
    conversations, messages, sockets, pushed, excused,
    up, standing,
    event, today,
    partnerships,
    place, geocoder, cache

Flw == INSTANCE Follow
Rev == INSTANCE Review WITH Places <- ReviewedPlaces, Events <- ReviewedEvents
Ann == INSTANCE Announcement
Mod == INSTANCE Moderation
Ntf == INSTANCE Notification WITH Users <- Members
Msg == INSTANCE Messaging WITH Users <- Members
Http == INSTANCE HttpApi WITH Users <- Members
Week == INSTANCE WeekSchedule
Prt == INSTANCE Partnership WITH Users <- Members
Map == INSTANCE MapView

-----------------------------------------------------------------------------
(* COUNTING                                                                *)

\* A set covered by a function of a finite set is no larger than it.
LEMMA Covered ==
    ASSUME NEW P, IsFiniteSet(P), NEW f, NEW H, \A h \in H : \E p \in P : f[p] = h
    PROVE  IsFiniteSet(H) /\ Cardinality(H) <= Cardinality(P)
<1> DEFINE P0 == {p \in P : f[p] \in H}
           g  == [p \in P0 |-> f[p]]
<1>1. IsFiniteSet(P0) /\ Cardinality(P0) <= Cardinality(P)
  BY FS_Subset
<1>2. g \in Surjection(P0, H)
  BY DEF Surjection
<1>3. IsFiniteSet(H) /\ Cardinality(H) <= Cardinality(P0)
  <2> HIDE DEF P0, g
  <2> QED BY <1>1, <1>2, FS_Surjection
<1>4. /\ Cardinality(H) \in Nat /\ Cardinality(P0) \in Nat
      /\ Cardinality(P) \in Nat
  BY <1>1, <1>3, FS_CardinalityType
<1> QED BY <1>1, <1>3, <1>4

\* Two counts go down together.
LEMMA FewerOfBoth ==
    ASSUME NEW A, IsFiniteSet(A), NEW B, IsFiniteSet(B),
           NEW C \in SUBSET A, NEW D \in SUBSET B
    PROVE  Cardinality(C) + Cardinality(D) <= Cardinality(A) + Cardinality(B)
<1>1. /\ Cardinality(C) <= Cardinality(A) /\ Cardinality(D) <= Cardinality(B)
      /\ IsFiniteSet(C) /\ IsFiniteSet(D)
  BY FS_Subset
<1>2. /\ Cardinality(A) \in Nat /\ Cardinality(B) \in Nat
      /\ Cardinality(C) \in Nat /\ Cardinality(D) \in Nat
  BY <1>1, FS_CardinalityType
<1> QED BY <1>1, <1>2

\* One more of the one, for one less of the other.
LEMMA OneForOne ==
    ASSUME NEW A, IsFiniteSet(A), NEW B, IsFiniteSet(B), NEW x, NEW r \in B,
           NEW C \in SUBSET (A \cup {x}), NEW D \in SUBSET (B \ {r})
    PROVE  Cardinality(C) + Cardinality(D) <= Cardinality(A) + Cardinality(B)
<1>1. /\ IsFiniteSet(A \cup {x}) /\ Cardinality(A \cup {x}) <= Cardinality(A) + 1
      /\ IsFiniteSet(B \ {r}) /\ Cardinality(B \ {r}) = Cardinality(B) - 1
  <2>1. Cardinality(A) \in Nat
    BY FS_CardinalityType
  <2> QED BY <2>1, FS_AddElement, FS_RemoveElement
<1>2. /\ Cardinality(A) \in Nat /\ Cardinality(B) \in Nat
      /\ Cardinality(A \cup {x}) \in Nat /\ Cardinality(B \ {r}) \in Nat
  BY <1>1, FS_CardinalityType
<1>3. Cardinality(C) + Cardinality(D)
          <= Cardinality(A \cup {x}) + Cardinality(B \ {r})
  BY <1>1, FewerOfBoth
<1>4. Cardinality(C) \in Nat /\ Cardinality(D) \in Nat
  BY <1>1, FS_Subset, FS_CardinalityType
<1> QED BY <1>1, <1>2, <1>3, <1>4

\* What some members of a finite set hold, each one thing, and the members that
\* hold nothing yet, are together no more than the set.
LEMMA OneEach ==
    ASSUME NEW R, IsFiniteSet(R), NEW waiting \in SUBSET R, NEW f, NEW held,
           \A h \in held : \E r \in R \ waiting : f[r] = h
    PROVE  Cardinality(held) + Cardinality(waiting) <= Cardinality(R)
<1>1. IsFiniteSet(R \ waiting) /\ IsFiniteSet(waiting)
  BY FS_Subset
<1>2. IsFiniteSet(held) /\ Cardinality(held) <= Cardinality(R \ waiting)
  BY <1>1, Covered
<1>3. Cardinality(R \ waiting) = Cardinality(R) - Cardinality(waiting)
  <2>1. R \cap waiting = waiting
    OBVIOUS
  <2> QED BY <2>1, FS_Difference
<1>4. /\ Cardinality(held) \in Nat /\ Cardinality(waiting) \in Nat
      /\ Cardinality(R) \in Nat /\ Cardinality(R \ waiting) \in Nat
  BY <1>1, <1>2, FS_CardinalityType
<1> QED BY <1>2, <1>3, <1>4

-----------------------------------------------------------------------------
(* FOLLOWS                                                                 *)

\* Counting is the same in the instance.
LEMMA FollowSets ==
    \A S : (Flw!IsFiniteSet(S) <=> IsFiniteSet(S)) /\ Flw!Cardinality(S) = Cardinality(S)
BY DEF Flw!IsFiniteSet, IsFiniteSet, Flw!Cardinality, Cardinality

\* What a handler of follows relies on when it resumes.
FollowLocalOK(l) ==
    /\ l.pc \in {"create:save", "create:count", "delete:delete", "delete:count"} =>
        l.user \in Users /\ l.target \in Users /\ l.user # l.target
    /\ l.pc = "delete:delete" => l.id \in FollowIds
    /\ l.pc \in {"account:follows", "account:delete"} => l.user \in Users

\* The index keeps the pairs of the stored follows apart.
PairsApart ==
    \A d, e \in FollowIds :
        /\ follows[d].follower = follows[e].follower /\ follows[d].follower # None
        /\ follows[d].following = follows[e].following
        => d = e

\* Every increment of a counter, done or to come, is that of a follow saved once.
saved == {d \in FollowIds : follows[d] # Flw!Absent}

CountsOK ==
    \A u \in Users :
        /\ IsFiniteSet(Flw!uncounted(u))
        /\ followers[u] + Cardinality(Flw!uncounted(u)) <= Cardinality(saved)

FollowInv ==
    Flw!TypeOK /\ (\A r \in Requests : FollowLocalOK(req[r])) /\ PairsApart /\ CountsOK

\* What else holds when requests are served one at a time.
FollowAloneOK(l) ==
    /\ l.pc = "create:save" => l.user \in accounts
    /\ l.pc = "delete:delete" =>
        Flw!stored(l.id) /\ follows[l.id].follower = l.user /\ follows[l.id].following = l.target
    /\ l.pc = "delete:count" /\ l.target \in accounts \ missed =>
        followers[l.target] > Cardinality(Flw!findFollowersOf(l.target))
    /\ l.pc = "account:delete" =>
        \A d \in FollowIds : l.user \notin {follows[d].follower, follows[d].following}

FollowAloneInv ==
    /\ FollowInv /\ Flw!CounterNotBelow /\ Flw!NoOrphanFollow
    /\ \A r \in Requests : FollowAloneOK(req[r])

LEMMA FollowInit == Flw!FollowAssumption /\ Flw!Init => FollowAloneInv
<1> SUFFICES ASSUME Flw!FollowAssumption, Flw!Init PROVE FollowAloneInv
  OBVIOUS
<1>1. Cardinality(FollowIds) \in Nat /\ Cardinality({}) = 0 /\ IsFiniteSet({})
  BY FollowSets, FS_CardinalityType, FS_EmptySet DEF Flw!FollowAssumption
<1>2. \A u \in Users : Flw!uncounted(u) = {} /\ Flw!findFollowersOf(u) = {}
  BY DEF Flw!Init, Flw!uncounted, Flw!Idle, Flw!findFollowersOf, Flw!Absent,
     Flw!FollowAssumption
<1>3. saved = {}
  BY DEF Flw!Init, saved
<1>4. Flw!TypeOK
  BY FollowSets, <1>1 DEF Flw!Init, Flw!TypeOK, Flw!Follows, Flw!Local, Flw!Idle
<1>5. CountsOK /\ Flw!CounterNotBelow
  <2>1. ASSUME NEW u \in Users
        PROVE  /\ IsFiniteSet(Flw!uncounted(u)) /\ Cardinality(Flw!uncounted(u)) = 0
               /\ Cardinality(Flw!findFollowersOf(u)) = 0 /\ followers[u] = 0
    BY <1>1, <1>2 DEF Flw!Init
  <2>2. Cardinality(saved) = 0 /\ accounts = Users
    BY <1>1, <1>3 DEF Flw!Init
  <2> QED BY FollowSets, <2>1, <2>2 DEF CountsOK, Flw!CounterNotBelow
<1>6. PairsApart /\ Flw!NoOrphanFollow
  BY DEF Flw!Init, PairsApart, Flw!NoOrphanFollow, Flw!Absent, Flw!stored
<1>7. \A r \in Requests : FollowLocalOK(req[r]) /\ FollowAloneOK(req[r])
  BY DEF Flw!Init, Flw!Idle, FollowLocalOK, FollowAloneOK
<1> QED BY <1>4, <1>5, <1>6, <1>7 DEF FollowInv, FollowAloneInv

LEMMA FollowIdle == Flw!Idle \in Flw!Local /\ FollowLocalOK(Flw!Idle) /\ Flw!Idle.pc = "idle"
BY DEF Flw!Idle, Flw!Local, FollowLocalOK

\* What a stored follow says, and that no other names a user.
LEMMA StoredFollow ==
    ASSUME Flw!FollowAssumption, FollowInv, NEW d \in FollowIds
    PROVE  /\ Flw!stored(d) => /\ follows[d] # Flw!Absent
                               /\ follows[d].follower \in Users /\ follows[d].following \in Users
                               /\ follows[d].follower # follows[d].following
           /\ ~Flw!stored(d) => follows[d].follower = None /\ follows[d].following = None
BY DEF FollowInv, Flw!TypeOK, Flw!Follows, Flw!Absent, Flw!Removed, Flw!stored,
   Flw!FollowAssumption

\* A step of one request.
LEMMA FollowStep ==
    ASSUME Flw!FollowAssumption, FollowInv, NEW r \in Requests, NEW l \in Flw!Local,
           FollowLocalOK(l),
           req' = [req EXCEPT ![r] = l], follows' \in [FollowIds -> Flw!Follows],
           followers' \in [Users -> Nat], accounts' \subseteq Users, missed' \subseteq Users,
           PairsApart', CountsOK'
    PROVE  FollowInv'
<1>1. Cardinality(FollowIds) \in Nat /\ Cardinality(saved') <= Cardinality(FollowIds)
      /\ Cardinality(saved') \in Nat
  BY FollowSets, FS_Subset, FS_CardinalityType DEF saved, Flw!FollowAssumption
<1>2. ASSUME NEW u \in Users PROVE followers'[u] \in 0 .. Cardinality(FollowIds)
  <2>1. Cardinality(Flw!uncounted(u)') \in Nat
    BY FS_CardinalityType DEF CountsOK
  <2>2. followers'[u] \in Nat /\ followers'[u] + Cardinality(Flw!uncounted(u)') <= Cardinality(saved')
    BY DEF CountsOK
  <2> QED BY <1>1, <2>1, <2>2
<1>3. req' \in [Requests -> Flw!Local] /\ \A q \in Requests : FollowLocalOK(req'[q])
  BY DEF FollowInv, Flw!TypeOK
<1>4. Flw!TypeOK'
  BY FollowSets, <1>2, <1>3 DEF Flw!TypeOK
<1> QED BY <1>3, <1>4 DEF FollowInv, FollowLocalOK

\* A step that saves nothing, counts nothing and has nothing more to count.
LEMMA QuietCounts ==
    ASSUME Flw!FollowAssumption, FollowInv, NEW r \in Requests, NEW l,
           l.pc # "create:count", req' = [req EXCEPT ![r] = l], saved' = saved,
           followers' \in [Users -> Nat], \A u \in Users : followers'[u] <= followers[u]
    PROVE  CountsOK'
<1> SUFFICES ASSUME NEW u \in Users
             PROVE  /\ IsFiniteSet(Flw!uncounted(u)')
                    /\ followers'[u] + Cardinality(Flw!uncounted(u)') <= Cardinality(saved')
  BY DEF CountsOK
<1>1. Flw!uncounted(u)' \subseteq Flw!uncounted(u)
  BY DEF Flw!uncounted, FollowInv, Flw!TypeOK
<1>2. IsFiniteSet(Flw!uncounted(u)') /\ Cardinality(Flw!uncounted(u)') <= Cardinality(Flw!uncounted(u))
      /\ Cardinality(Flw!uncounted(u)) \in Nat /\ Cardinality(Flw!uncounted(u)') \in Nat
  BY <1>1, FS_Subset, FS_CardinalityType DEF FollowInv, CountsOK
<1>3. /\ followers[u] + Cardinality(Flw!uncounted(u)) <= Cardinality(saved)
      /\ followers[u] \in Nat /\ followers'[u] \in Nat /\ followers'[u] <= followers[u]
  BY DEF FollowInv, CountsOK, Flw!TypeOK
<1>4. Cardinality(saved) \in Nat
  BY FollowSets, FS_Subset, FS_CardinalityType DEF saved, Flw!FollowAssumption
<1> QED BY <1>2, <1>3, <1>4

\* A step that only sets the locals of a request, or the accounts.
LEMMA FollowSame ==
    ASSUME Flw!FollowAssumption, FollowInv, NEW r \in Requests, NEW l \in Flw!Local,
           FollowLocalOK(l),
           l.pc # "create:count", req' = [req EXCEPT ![r] = l], UNCHANGED <<follows, followers>>,
           accounts' \subseteq Users, missed' \subseteq Users
    PROVE  FollowInv'
<1>1. saved' = saved /\ PairsApart'
  BY DEF saved, FollowInv, PairsApart
<1>2. followers' \in [Users -> Nat] /\ \A u \in Users : followers'[u] <= followers[u]
  BY DEF FollowInv, Flw!TypeOK
<1>3. CountsOK'
  BY <1>1, <1>2, QuietCounts
<1> QED BY <1>1, <1>2, <1>3, FollowStep DEF FollowInv, Flw!TypeOK

\* A deletion forgets pairs and keeps the others.
LEMMA FollowsDeleted ==
    ASSUME Flw!FollowAssumption, FollowInv, NEW D, Flw!deleteAll(D)
    PROVE  /\ follows' \in [FollowIds -> Flw!Follows] /\ saved' = saved /\ PairsApart'
           /\ \A d \in FollowIds :
                /\ Flw!stored(d)' <=> Flw!stored(d) /\ d \notin D
                /\ Flw!stored(d)' => follows'[d] = follows[d]
<1>1. follows' \in [FollowIds -> Flw!Follows]
  BY DEF Flw!deleteAll, FollowInv, Flw!TypeOK, Flw!Follows
<1>2. \A d \in FollowIds : follows'[d] = IF d \in D /\ Flw!stored(d) THEN Flw!Removed ELSE follows[d]
  BY DEF Flw!deleteAll
<1>3. Flw!Removed.state = "removed" /\ Flw!Removed.follower = None /\ Flw!Removed # Flw!Absent
  BY DEF Flw!Removed, Flw!Absent
<1>4. saved' = saved
  BY <1>2, <1>3, StoredFollow DEF saved
<1>5. PairsApart'
  BY <1>2, <1>3 DEF PairsApart, FollowInv
<1>6. \A d \in FollowIds : /\ Flw!stored(d)' <=> Flw!stored(d) /\ d \notin D
                           /\ Flw!stored(d)' => follows'[d] = follows[d]
  BY <1>2, <1>3 DEF Flw!stored
<1> QED BY <1>1, <1>4, <1>5, <1>6

LEMMA FollowDeletes ==
    ASSUME Flw!FollowAssumption, FollowInv, NEW r \in Requests, NEW l \in Flw!Local,
           FollowLocalOK(l),
           l.pc # "create:count", req' = [req EXCEPT ![r] = l], NEW D, Flw!deleteAll(D),
           UNCHANGED <<followers, accounts, missed>>
    PROVE  FollowInv'
<1>1. follows' \in [FollowIds -> Flw!Follows] /\ saved' = saved /\ PairsApart'
  BY FollowsDeleted
<1>2. followers' \in [Users -> Nat] /\ \A u \in Users : followers'[u] <= followers[u]
  BY DEF FollowInv, Flw!TypeOK
<1>3. CountsOK'
  BY <1>1, <1>2, QuietCounts
<1> QED BY <1>1, <1>2, <1>3, FollowStep DEF FollowInv, Flw!TypeOK

\* The save is refused by the index unless it is the first of its pair.
LEMMA FollowSaves ==
    ASSUME Flw!FollowAssumption, FollowInv, NEW r \in Requests, Flw!CreateSave(r)
    PROVE  FollowInv'
<1>1. PICK d \in FollowIds : Flw!save(d, req[r].user, req[r].target)
  BY DEF Flw!CreateSave
<1>2. PICK l : l = [req[r] EXCEPT !.pc = "create:count"]
  OBVIOUS
<1>3. PICK a, b : a = req[r].user /\ b = req[r].target
  OBVIOUS
<1>4. a \in Users /\ b \in Users /\ a # b /\ req[r].pc = "create:save"
  BY <1>3 DEF Flw!CreateSave, FollowInv, FollowLocalOK
<1>5. req' = [req EXCEPT ![r] = l] /\ l \in Flw!Local /\ FollowLocalOK(l)
      /\ l.pc = "create:count" /\ l.target = b
  BY <1>2, <1>3, <1>4
  DEF Flw!CreateSave, Flw!goto, FollowInv, Flw!TypeOK, Flw!Local, FollowLocalOK
<1>6. PICK f : f = Flw!create(a, b)
  OBVIOUS
<1>7. f \in Flw!Follows /\ f.follower = a /\ f.following = b /\ f # Flw!Absent
  BY <1>4, <1>6 DEF Flw!create, Flw!Follows, Flw!Absent
<1>8. follows[d] = Flw!Absent /\ Flw!findByPair(a, b) = {} /\ follows' = [follows EXCEPT ![d] = f]
  BY <1>1, <1>3, <1>6 DEF Flw!save
<1>9. follows' \in [FollowIds -> Flw!Follows]
  BY <1>7, <1>8 DEF FollowInv, Flw!TypeOK
<1>10. PairsApart'
  BY <1>7, <1>8 DEF PairsApart, Flw!findByPair, FollowInv, Flw!TypeOK
<1>11. saved' = saved \cup {d} /\ d \notin saved
  BY <1>7, <1>8 DEF saved, FollowInv, Flw!TypeOK
<1>12. Cardinality(saved') = Cardinality(saved) + 1 /\ Cardinality(saved) \in Nat
  BY FollowSets, <1>11, FS_Subset, FS_AddElement, FS_CardinalityType DEF saved, Flw!FollowAssumption
<1>13. ASSUME NEW u \in Users
       PROVE  /\ IsFiniteSet(Flw!uncounted(u)')
              /\ followers'[u] + Cardinality(Flw!uncounted(u)') <= Cardinality(saved')
  <2>1. Flw!uncounted(u)' \subseteq Flw!uncounted(u) \cup {r}
    BY <1>5 DEF Flw!uncounted, FollowInv, Flw!TypeOK
  <2>2. IsFiniteSet(Flw!uncounted(u)) /\ Cardinality(Flw!uncounted(u)) \in Nat
    BY FS_CardinalityType DEF FollowInv, CountsOK
  <2>3. /\ IsFiniteSet(Flw!uncounted(u) \cup {r})
        /\ Cardinality(Flw!uncounted(u) \cup {r}) <= Cardinality(Flw!uncounted(u)) + 1
        /\ Cardinality(Flw!uncounted(u) \cup {r}) \in Nat
    <3>1. IsFiniteSet(Flw!uncounted(u) \cup {r})
      BY <2>2, FS_AddElement
    <3>2. Cardinality(Flw!uncounted(u) \cup {r}) =
            IF r \in Flw!uncounted(u) THEN Cardinality(Flw!uncounted(u))
                                      ELSE Cardinality(Flw!uncounted(u)) + 1
      BY <2>2, FS_AddElement
    <3> QED BY <2>2, <3>1, <3>2
  <2>4. /\ IsFiniteSet(Flw!uncounted(u)') /\ Cardinality(Flw!uncounted(u)') \in Nat
        /\ Cardinality(Flw!uncounted(u)') <= Cardinality(Flw!uncounted(u) \cup {r})
    BY <2>1, <2>3, FS_Subset, FS_CardinalityType
  <2>5. /\ followers[u] + Cardinality(Flw!uncounted(u)) <= Cardinality(saved)
        /\ followers'[u] = followers[u] /\ followers[u] \in Nat
    BY DEF Flw!CreateSave, FollowInv, CountsOK, Flw!TypeOK
  <2> QED BY <1>12, <2>2, <2>3, <2>4, <2>5
<1>14. CountsOK'
  BY <1>13 DEF CountsOK
<1>15. followers' \in [Users -> Nat] /\ accounts' \subseteq Users /\ missed' \subseteq Users
  BY DEF Flw!CreateSave, FollowInv, Flw!TypeOK
<1> QED BY <1>5, <1>9, <1>10, <1>14, <1>15, FollowStep

LEMMA FollowCounts ==
    ASSUME Flw!FollowAssumption, FollowInv, NEW r \in Requests, Flw!CreateCount(r)
    PROVE  FollowInv'
<1>1. PICK l : l = [req[r] EXCEPT !.pc = "create:notify"]
  OBVIOUS
<1>2. PICK t : t = req[r].target
  OBVIOUS
<1>3. t \in Users /\ req[r].pc = "create:count"
  BY <1>2 DEF Flw!CreateCount, FollowInv, FollowLocalOK
<1>4. req' = [req EXCEPT ![r] = l] /\ l \in Flw!Local /\ FollowLocalOK(l) /\ l.pc = "create:notify"
  BY <1>1, <1>3 DEF Flw!CreateCount, Flw!goto, FollowInv, Flw!TypeOK, Flw!Local, FollowLocalOK
<1>5. /\ \A u \in Users : u # t => followers'[u] = followers[u]
      /\ followers'[t] \in {followers[t], followers[t] + 1}
      /\ followers' \in [Users -> Nat]
  BY <1>2, <1>3 DEF Flw!CreateCount, Flw!incrementFollowers, FollowInv, Flw!TypeOK
<1>6. saved' = saved /\ PairsApart'
  BY DEF Flw!CreateCount, saved, PairsApart, FollowInv
<1>7. ASSUME NEW u \in Users
      PROVE  /\ IsFiniteSet(Flw!uncounted(u)')
             /\ followers'[u] + Cardinality(Flw!uncounted(u)') <= Cardinality(saved')
  <2>1. IsFiniteSet(Flw!uncounted(u)) /\ Cardinality(Flw!uncounted(u)) \in Nat
        /\ Cardinality(saved) \in Nat
    BY FollowSets, FS_CardinalityType, FS_Subset DEF FollowInv, CountsOK, saved, Flw!FollowAssumption
  <2>2. /\ followers[u] + Cardinality(Flw!uncounted(u)) <= Cardinality(saved)
        /\ followers[u] \in Nat /\ followers'[u] \in Nat
    BY <1>5 DEF FollowInv, CountsOK, Flw!TypeOK
  <2>3. Flw!uncounted(u)' \subseteq Flw!uncounted(u) \ {r}
    BY <1>4 DEF Flw!uncounted, FollowInv, Flw!TypeOK
  <2>4. /\ IsFiniteSet(Flw!uncounted(u)') /\ Cardinality(Flw!uncounted(u)') \in Nat
        /\ Cardinality(Flw!uncounted(u)') <= Cardinality(Flw!uncounted(u) \ {r})
    BY <2>1, <2>3, FS_Subset, FS_CardinalityType, FS_RemoveElement
  <2>5. CASE u = t
    <3>1. r \in Flw!uncounted(u)
      BY <1>2, <1>3, <2>5 DEF Flw!uncounted
    <3>2. Cardinality(Flw!uncounted(u) \ {r}) = Cardinality(Flw!uncounted(u)) - 1
      BY <2>1, <3>1, FS_RemoveElement
    <3> QED BY <1>5, <1>6, <2>1, <2>2, <2>4, <2>5, <3>2
  <2>6. CASE u # t
    <3>1. Cardinality(Flw!uncounted(u)') <= Cardinality(Flw!uncounted(u))
      BY <2>1, <2>3, FS_Subset
    <3> QED BY <1>5, <1>6, <2>1, <2>2, <2>4, <2>6, <3>1
  <2> QED BY <2>5, <2>6
<1>8. CountsOK'
  BY <1>7 DEF CountsOK
<1> QED BY <1>4, <1>5, <1>6, <1>8, FollowStep DEF Flw!CreateCount, FollowInv, Flw!TypeOK

\* The steps that find something out.
LEMMA FollowFinds ==
    ASSUME Flw!FollowAssumption, FollowInv, NEW r \in Requests,
           Flw!CreateFind(r) \/ Flw!DeleteFind(r) \/ Flw!AccountFind(r)
    PROVE  FollowInv'
<1>1. CASE Flw!CreateFind(r)
  <2>1. PICK a \in accounts, b \in Users :
            /\ a # b
            /\ req' = [req EXCEPT ![r] = [Flw!Idle EXCEPT !.pc = "create:save", !.user = a, !.target = b]]
    BY <1>1 DEF Flw!CreateFind
  <2>2. PICK l : l = [Flw!Idle EXCEPT !.pc = "create:save", !.user = a, !.target = b]
    OBVIOUS
  <2>3. l \in Flw!Local /\ FollowLocalOK(l) /\ l.pc = "create:save"
    BY <2>1, <2>2 DEF Flw!Idle, Flw!Local, FollowLocalOK, FollowInv, Flw!TypeOK
  <2> QED BY <1>1, <2>1, <2>2, <2>3, FollowSame DEF Flw!CreateFind, FollowInv, Flw!TypeOK
<1>2. CASE Flw!DeleteFind(r)
  <2>1. PICK d \in FollowIds :
            /\ follows[d].follower \in accounts
            /\ req' = [req EXCEPT ![r] = [pc |-> "delete:delete", id |-> d,
                                          user   |-> follows[d].follower,
                                          target |-> follows[d].following]]
    BY <1>2 DEF Flw!DeleteFind
  <2>2. PICK a, b : a = follows[d].follower /\ b = follows[d].following
    OBVIOUS
  <2>3. a \in Users /\ b \in Users /\ a # b
    BY <2>1, <2>2, StoredFollow DEF FollowInv, Flw!TypeOK, Flw!FollowAssumption
  <2>4. PICK l : l = [pc |-> "delete:delete", id |-> d, user |-> a, target |-> b]
    OBVIOUS
  <2>5. l \in Flw!Local /\ FollowLocalOK(l) /\ l.pc = "delete:delete"
    BY <2>3, <2>4 DEF Flw!Local, FollowLocalOK
  <2> QED BY <1>2, <2>1, <2>2, <2>4, <2>5, FollowSame DEF Flw!DeleteFind, FollowInv, Flw!TypeOK
<1>3. CASE Flw!AccountFind(r)
  <2>1. PICK u \in accounts :
            req' = [req EXCEPT ![r] = [Flw!Idle EXCEPT !.pc = "account:follows", !.user = u]]
    BY <1>3 DEF Flw!AccountFind
  <2>2. PICK l : l = [Flw!Idle EXCEPT !.pc = "account:follows", !.user = u]
    OBVIOUS
  <2>3. l \in Flw!Local /\ FollowLocalOK(l) /\ l.pc = "account:follows"
    BY <2>1, <2>2 DEF Flw!Idle, Flw!Local, FollowLocalOK, FollowInv, Flw!TypeOK
  <2> QED BY <1>3, <2>1, <2>2, <2>3, FollowSame DEF Flw!AccountFind, FollowInv, Flw!TypeOK
<1> QED BY <1>1, <1>2, <1>3

LEMMA FollowNext == Flw!FollowAssumption /\ FollowInv /\ [Flw!Next]_Flw!vars => FollowInv'
<1> SUFFICES ASSUME Flw!FollowAssumption, FollowInv, [Flw!Next]_Flw!vars PROVE FollowInv'
  OBVIOUS
<1>1. ASSUME NEW r \in Requests, Flw!RequestFail(r) PROVE FollowInv'
  <2>1. missed' \subseteq Users
    BY <1>1 DEF Flw!RequestFail, FollowInv, Flw!TypeOK, FollowLocalOK
  <2> QED BY <1>1, <2>1, FollowIdle, FollowSame
          DEF Flw!RequestFail, Flw!finish, FollowInv, Flw!TypeOK
<1>2. ASSUME NEW r \in Requests, Flw!CreateNotify(r) \/ Flw!AccountDelete(r) PROVE FollowInv'
  <2>1. accounts' \subseteq Users /\ missed' \subseteq Users /\ UNCHANGED <<follows, followers>>
    BY <1>2 DEF Flw!CreateNotify, Flw!AccountDelete, FollowInv, Flw!TypeOK
  <2>2. req' = [req EXCEPT ![r] = Flw!Idle]
    BY <1>2 DEF Flw!CreateNotify, Flw!AccountDelete, Flw!finish
  <2> QED BY <2>1, <2>2, FollowIdle, FollowSame
<1>3. ASSUME NEW r \in Requests, Flw!DeleteDelete(r) PROVE FollowInv'
  <2>1. PICK l : l = [req[r] EXCEPT !.pc = "delete:count"]
    OBVIOUS
  <2>2. req' = [req EXCEPT ![r] = l] /\ l \in Flw!Local /\ FollowLocalOK(l) /\ l.pc = "delete:count"
    BY <1>3, <2>1
    DEF Flw!DeleteDelete, Flw!goto, FollowInv, Flw!TypeOK, Flw!Local, FollowLocalOK
  <2> QED BY <1>3, <2>2, FollowDeletes DEF Flw!DeleteDelete
<1>4. ASSUME NEW r \in Requests, Flw!deleteAllInvolvingUser(r) PROVE FollowInv'
  <2>1. PICK l : l = [req[r] EXCEPT !.pc = "account:delete"]
    OBVIOUS
  <2>2. req' = [req EXCEPT ![r] = l] /\ l \in Flw!Local /\ FollowLocalOK(l) /\ l.pc = "account:delete"
    BY <1>4, <2>1
    DEF Flw!deleteAllInvolvingUser, Flw!goto, FollowInv, Flw!TypeOK, Flw!Local, FollowLocalOK
  <2> QED BY <1>4, <2>2, FollowDeletes DEF Flw!deleteAllInvolvingUser
<1>5. ASSUME NEW r \in Requests, Flw!DeleteCount(r) PROVE FollowInv'
  <2>1. req[r].target \in Users
    BY <1>5 DEF Flw!DeleteCount, FollowInv, FollowLocalOK
  <2>2. followers' \in [Users -> Nat] /\ \A u \in Users : followers'[u] <= followers[u]
    BY <1>5, <2>1 DEF Flw!DeleteCount, Flw!incrementFollowers, FollowInv, Flw!TypeOK
  <2>3. saved' = saved /\ PairsApart'
    BY <1>5 DEF Flw!DeleteCount, saved, PairsApart, FollowInv
  <2>4. CountsOK'
    BY <1>5, <2>2, <2>3, FollowIdle, QuietCounts DEF Flw!DeleteCount, Flw!finish
  <2> QED BY <1>5, <2>2, <2>3, <2>4, FollowIdle, FollowStep
          DEF Flw!DeleteCount, Flw!finish, FollowInv, Flw!TypeOK
<1>6. CASE UNCHANGED Flw!vars
  BY <1>6
  DEF Flw!vars, FollowInv, Flw!TypeOK, FollowLocalOK, PairsApart, CountsOK, Flw!uncounted, saved
<1> QED BY <1>1, <1>2, <1>3, <1>4, <1>5, <1>6, FollowFinds, FollowSaves, FollowCounts
        DEF Flw!Next, Flw!Step

\* Follows, counters and requests keep their types: no follow is stored without both
\* its users (CreateFollow:33-50).
THEOREM FollowTypes == ASSUME Flw!FollowAssumption PROVE Flw!Spec => []Flw!TypeOK
<1>1. Flw!Init => FollowInv
  BY FollowInit DEF FollowAloneInv
<1>2. FollowInv => Flw!TypeOK
  BY DEF FollowInv
<1> QED BY <1>1, <1>2, FollowNext, PTL DEF Flw!Spec

\* However many requests overlap, a user follows another at most once: the index
\* tells apart two that both found no follow (Follow.schema.ts:27).
THEOREM OneFollowEach == ASSUME Flw!FollowAssumption PROVE Flw!Spec => []Flw!UniqueFollow
<1>1. Flw!Init => FollowInv
  BY FollowInit DEF FollowAloneInv
<1>2. FollowInv => Flw!UniqueFollow
  <2> SUFFICES ASSUME FollowInv, NEW a \in Users, NEW b \in Users
               PROVE  Cardinality(Flw!findByPair(a, b)) <= 1
    BY FollowSets DEF Flw!UniqueFollow
  <2>1. CASE Flw!findByPair(a, b) = {}
    BY <2>1, FS_EmptySet
  <2>2. CASE Flw!findByPair(a, b) # {}
    <3>1. PICK d : d \in Flw!findByPair(a, b)
      BY <2>2
    <3>2. Flw!findByPair(a, b) = {d}
      BY <3>1 DEF Flw!findByPair, FollowInv, PairsApart, Flw!FollowAssumption
    <3> QED BY FollowSets, <3>2, FS_Singleton
  <2> QED BY <2>1, <2>2
<1> QED BY <1>1, <1>2, FollowNext, PTL DEF Flw!Spec

\* What the one request in flight has yet to count for a user.
owed(l, u) == IF l.pc = "create:count" /\ l.target = u THEN 1 ELSE 0

LEMMA UncountedAlone ==
    ASSUME NEW r, Requests = {r}, NEW u
    PROVE  /\ Cardinality(Flw!uncounted(u)) = owed(req[r], u)
           /\ Cardinality(Flw!uncounted(u)') = owed(req'[r], u)
<1>1. Flw!uncounted(u) = IF owed(req[r], u) = 1 THEN {r} ELSE {}
  BY DEF Flw!uncounted, owed
<1>2. Flw!uncounted(u)' = IF owed(req'[r], u) = 1 THEN {r} ELSE {}
  BY DEF Flw!uncounted, owed
<1>3. Cardinality({r}) = 1 /\ Cardinality({}) = 0
  BY FS_Singleton, FS_EmptySet
<1> QED BY <1>1, <1>2, <1>3 DEF owed

LEMMA FollowersFinite ==
    ASSUME Flw!FollowAssumption, NEW u
    PROVE  /\ IsFiniteSet(Flw!findFollowersOf(u)) /\ IsFiniteSet(Flw!findFollowersOf(u)')
           /\ Cardinality(Flw!findFollowersOf(u)) \in Nat
           /\ Cardinality(Flw!findFollowersOf(u)') \in Nat
<1>1. Flw!findFollowersOf(u) \subseteq FollowIds /\ Flw!findFollowersOf(u)' \subseteq FollowIds
  BY DEF Flw!findFollowersOf
<1> QED BY FollowSets, <1>1, FS_Subset, FS_CardinalityType DEF Flw!FollowAssumption

LEMMA FollowAloneStep ==
    ASSUME Flw!FollowAssumption, FollowAloneInv, FollowInv', NEW r, Requests = {r},
           NEW l, req' = [req EXCEPT ![r] = l], FollowAloneOK(l)', Flw!NoOrphanFollow',
           \A u \in accounts' \ missed' :
                followers'[u] + owed(l, u) >= Cardinality(Flw!findFollowersOf(u)')
    PROVE  FollowAloneInv'
<1>1. r \in Requests /\ req'[r] = l
  BY DEF FollowAloneInv, FollowInv, Flw!TypeOK
<1>2. Flw!CounterNotBelow'
  <2> SUFFICES ASSUME NEW u \in accounts' \ missed'
               PROVE  followers'[u] + Cardinality(Flw!uncounted(u)') >= Cardinality(Flw!findFollowersOf(u)')
    BY FollowSets DEF Flw!CounterNotBelow
  <2> QED BY <1>1, UncountedAlone
<1>3. \A q \in Requests : FollowAloneOK(req[q])'
  BY <1>1 DEF FollowAloneOK
<1> QED BY <1>2, <1>3 DEF FollowAloneInv

\* The counter as it is: a step that finds fewer followers.
LEMMA FewerFollowers ==
    ASSUME Flw!FollowAssumption, FollowAloneInv, NEW r, Requests = {r},
           NEW u \in accounts \ missed, u \in Users,
           Flw!findFollowersOf(u)' \subseteq Flw!findFollowersOf(u)
    PROVE  followers[u] + owed(req[r], u) >= Cardinality(Flw!findFollowersOf(u)')
<1>1. followers[u] + owed(req[r], u) >= Cardinality(Flw!findFollowersOf(u))
  BY FollowSets, UncountedAlone DEF FollowAloneInv, Flw!CounterNotBelow
<1>2. Cardinality(Flw!findFollowersOf(u)') <= Cardinality(Flw!findFollowersOf(u))
  BY FollowersFinite, FS_Subset
<1>3. followers[u] \in Nat /\ owed(req[r], u) \in Nat
  BY DEF FollowAloneInv, FollowInv, Flw!TypeOK, owed
<1> QED BY <1>1, <1>2, <1>3, FollowersFinite

\* A step that leaves follows, counters and accounts alone.
LEMMA FollowAloneSame ==
    ASSUME Flw!FollowAssumption, FollowAloneInv, FollowInv', NEW r, Requests = {r},
           NEW l, req' = [req EXCEPT ![r] = l], FollowAloneOK(l)',
           UNCHANGED <<follows, followers, accounts>>, missed \subseteq missed',
           req[r].pc = "create:count" => req[r].target \in missed'
    PROVE  FollowAloneInv'
<1>1. Flw!NoOrphanFollow'
  BY DEF FollowAloneInv, Flw!NoOrphanFollow, Flw!stored
<1>2. ASSUME NEW u \in accounts' \ missed'
      PROVE  followers'[u] + owed(l, u) >= Cardinality(Flw!findFollowersOf(u)')
  <2>1. u \in accounts \ missed /\ u \in Users /\ followers'[u] = followers[u]
        /\ Flw!findFollowersOf(u)' = Flw!findFollowersOf(u)
    BY DEF FollowAloneInv, FollowInv, Flw!TypeOK, Flw!findFollowersOf
  <2>2. followers[u] + owed(req[r], u) >= Cardinality(Flw!findFollowersOf(u)')
    BY <2>1, FewerFollowers
  <2>3. owed(req[r], u) = 0
    BY DEF owed
  <2>4. owed(l, u) \in Nat /\ followers[u] \in Nat
    BY <2>1 DEF owed, FollowAloneInv, FollowInv, Flw!TypeOK
  <2> QED BY <2>1, <2>2, <2>3, <2>4, FollowersFinite
<1> QED BY <1>1, <1>2, FollowAloneStep

LEMMA FollowAloneFinds ==
    ASSUME Flw!FollowAssumption, FollowAloneInv, FollowInv', NEW r, Requests = {r},
           Flw!CreateFind(r) \/ Flw!DeleteFind(r) \/ Flw!AccountFind(r)
               \/ Flw!CreateNotify(r) \/ Flw!RequestFail(r)
    PROVE  FollowAloneInv'
<1>1. UNCHANGED <<follows, followers, accounts>> /\ missed \subseteq missed'
      /\ (req[r].pc = "create:count" => req[r].target \in missed')
  <2>1. UNCHANGED <<follows, followers, accounts>>
    BY DEF Flw!CreateFind, Flw!DeleteFind, Flw!AccountFind, Flw!CreateNotify, Flw!RequestFail
  <2>2. CASE Flw!RequestFail(r)
    <3>1. missed' = missed \cup (IF req[r].pc = "create:count" THEN {req[r].target} ELSE {})
      BY <2>2 DEF Flw!RequestFail
    <3> QED BY <2>1, <3>1
  <2>3. CASE Flw!CreateNotify(r)
    BY <2>1, <2>3 DEF Flw!CreateNotify
  <2>4. CASE Flw!CreateFind(r) \/ Flw!DeleteFind(r) \/ Flw!AccountFind(r)
    <3>1. req[r] = Flw!Idle /\ missed' = missed
      BY <2>4 DEF Flw!CreateFind, Flw!DeleteFind, Flw!AccountFind
    <3>2. req[r].pc = "idle"
      BY <3>1 DEF Flw!Idle
    <3> QED BY <2>1, <3>1, <3>2
  <2> QED BY <2>2, <2>3, <2>4
<1>2. CASE Flw!CreateFind(r)
  <2>1. PICK a \in accounts, b \in Users :
            req' = [req EXCEPT ![r] = [Flw!Idle EXCEPT !.pc = "create:save", !.user = a, !.target = b]]
    BY <1>2 DEF Flw!CreateFind
  <2>2. PICK l : l = [Flw!Idle EXCEPT !.pc = "create:save", !.user = a, !.target = b]
    OBVIOUS
  <2>3. FollowAloneOK(l)'
    BY <1>1, <2>2 DEF Flw!Idle, FollowAloneOK
  <2> QED BY <1>1, <2>1, <2>2, <2>3, FollowAloneSame
<1>3. CASE Flw!DeleteFind(r)
  <2>1. PICK d \in FollowIds :
            /\ follows[d].follower \in accounts
            /\ req' = [req EXCEPT ![r] = [pc |-> "delete:delete", id |-> d,
                                          user   |-> follows[d].follower,
                                          target |-> follows[d].following]]
    BY <1>3 DEF Flw!DeleteFind
  <2>2. PICK l : l = [pc |-> "delete:delete", id |-> d, user |-> follows[d].follower,
                      target |-> follows[d].following]
    OBVIOUS
  <2>3. Flw!stored(d)
    BY <2>1, StoredFollow DEF FollowAloneInv, FollowInv, Flw!TypeOK, Flw!FollowAssumption
  <2>4. Flw!stored(d)' /\ follows'[d] = follows[d]
    BY <1>1, <2>3 DEF Flw!stored
  <2>5. FollowAloneOK(l)'
    BY <2>2, <2>4 DEF FollowAloneOK
  <2> QED BY <1>1, <2>1, <2>2, <2>5, FollowAloneSame
<1>4. CASE Flw!AccountFind(r)
  <2>1. PICK u \in accounts :
            req' = [req EXCEPT ![r] = [Flw!Idle EXCEPT !.pc = "account:follows", !.user = u]]
    BY <1>4 DEF Flw!AccountFind
  <2>2. PICK l : l = [Flw!Idle EXCEPT !.pc = "account:follows", !.user = u]
    OBVIOUS
  <2>3. FollowAloneOK(l)'
    BY <2>2 DEF Flw!Idle, FollowAloneOK
  <2> QED BY <1>1, <2>1, <2>2, <2>3, FollowAloneSame
<1>5. CASE Flw!CreateNotify(r) \/ Flw!RequestFail(r)
  <2>1. FollowAloneOK(Flw!Idle)' /\ req' = [req EXCEPT ![r] = Flw!Idle]
    BY <1>5 DEF Flw!CreateNotify, Flw!RequestFail, Flw!finish, Flw!Idle, FollowAloneOK
  <2> QED BY <1>1, <2>1, FollowAloneSame
<1> QED BY <1>2, <1>3, <1>4, <1>5

LEMMA FollowAloneCreates ==
    ASSUME Flw!FollowAssumption, FollowAloneInv, FollowInv', NEW r, Requests = {r},
           Flw!CreateSave(r) \/ Flw!CreateCount(r)
    PROVE  FollowAloneInv'
<1>0. r \in Requests
  OBVIOUS
<1>1. CASE Flw!CreateSave(r)
  <2>1. PICK d \in FollowIds : Flw!save(d, req[r].user, req[r].target)
    BY <1>1 DEF Flw!CreateSave
  <2>2. PICK a, b : a = req[r].user /\ b = req[r].target
    OBVIOUS
  <2>3. a \in accounts /\ a \in Users /\ b \in Users /\ a # b /\ req[r].pc = "create:save"
    BY <1>0, <1>1, <2>2
    DEF Flw!CreateSave, FollowAloneInv, FollowAloneOK, FollowInv, FollowLocalOK
  <2>4. PICK l : l = [req[r] EXCEPT !.pc = "create:count"]
    OBVIOUS
  <2>5. req' = [req EXCEPT ![r] = l] /\ l.pc = "create:count" /\ l.target = b
    BY <1>0, <1>1, <2>2, <2>4
    DEF Flw!CreateSave, Flw!goto, FollowAloneInv, FollowInv, Flw!TypeOK, Flw!Local
  <2>6. UNCHANGED <<followers, accounts, missed>>
    BY <1>1 DEF Flw!CreateSave
  <2>7. PICK f : f = Flw!create(a, b)
    OBVIOUS
  <2>8. f.follower = a /\ f.following = b /\ follows' = [follows EXCEPT ![d] = f]
    BY <2>1, <2>2, <2>7 DEF Flw!save, Flw!create
  <2>9. \A e \in FollowIds : follows'[e] = IF e = d THEN f ELSE follows[e]
    BY <2>8 DEF FollowAloneInv, FollowInv, Flw!TypeOK
  <2>10. Flw!NoOrphanFollow'
    BY <2>3, <2>6, <2>8, <2>9 DEF FollowAloneInv, Flw!NoOrphanFollow, Flw!stored
  <2>11. FollowAloneOK(l)'
    BY <2>5 DEF FollowAloneOK
  <2>12. ASSUME NEW u \in accounts' \ missed'
         PROVE  followers'[u] + owed(l, u) >= Cardinality(Flw!findFollowersOf(u)')
    <3>1. u \in accounts \ missed /\ u \in Users /\ followers'[u] = followers[u]
          /\ followers[u] \in Nat
      BY <2>6 DEF FollowAloneInv, FollowInv, Flw!TypeOK
    <3>2. owed(req[r], u) = 0 /\ followers[u] >= Cardinality(Flw!findFollowersOf(u))
      BY FollowSets, <2>3, <3>1, UncountedAlone DEF owed, FollowAloneInv, Flw!CounterNotBelow
    <3>3. CASE u = b
      <4>1. Flw!findFollowersOf(u)' \subseteq Flw!findFollowersOf(u) \cup {d}
        BY <2>9 DEF Flw!findFollowersOf
      <4>2. IsFiniteSet(Flw!findFollowersOf(u) \cup {d})
        BY FollowersFinite, FS_AddElement
      <4>3. Cardinality(Flw!findFollowersOf(u) \cup {d}) =
                IF d \in Flw!findFollowersOf(u) THEN Cardinality(Flw!findFollowersOf(u))
                                                ELSE Cardinality(Flw!findFollowersOf(u)) + 1
        BY FollowersFinite, FS_AddElement
      <4>4. Cardinality(Flw!findFollowersOf(u)') <= Cardinality(Flw!findFollowersOf(u)) + 1
        <5>1. Cardinality(Flw!findFollowersOf(u)') <= Cardinality(Flw!findFollowersOf(u) \cup {d})
          BY <4>1, <4>2, FS_Subset
        <5> QED BY <4>3, <5>1, FollowersFinite
      <4>5. owed(l, u) = 1
        BY <2>5, <3>3 DEF owed
      <4> QED BY <3>1, <3>2, <4>4, <4>5, FollowersFinite
    <3>4. CASE u # b
      <4>1. Flw!findFollowersOf(u)' \subseteq Flw!findFollowersOf(u)
        BY <2>8, <2>9, <3>4 DEF Flw!findFollowersOf
      <4>2. Cardinality(Flw!findFollowersOf(u)') <= Cardinality(Flw!findFollowersOf(u))
        BY <4>1, FollowersFinite, FS_Subset
      <4>3. owed(l, u) = 0
        BY <2>5, <3>4 DEF owed
      <4> QED BY <3>1, <3>2, <4>2, <4>3, FollowersFinite
    <3> QED BY <3>3, <3>4
  <2> QED BY <2>5, <2>10, <2>11, <2>12, FollowAloneStep
<1>2. CASE Flw!CreateCount(r)
  <2>1. PICK t : t = req[r].target
    OBVIOUS
  <2>2. t \in Users /\ req[r].pc = "create:count"
    BY <1>0, <1>2, <2>1 DEF Flw!CreateCount, FollowAloneInv, FollowInv, FollowLocalOK
  <2>3. PICK l : l = [req[r] EXCEPT !.pc = "create:notify"]
    OBVIOUS
  <2>4. req' = [req EXCEPT ![r] = l] /\ l.pc = "create:notify"
    BY <1>0, <1>2, <2>3
    DEF Flw!CreateCount, Flw!goto, FollowAloneInv, FollowInv, Flw!TypeOK, Flw!Local
  <2>5. UNCHANGED <<follows, accounts, missed>>
    BY <1>2 DEF Flw!CreateCount
  <2>6. Flw!NoOrphanFollow' /\ FollowAloneOK(l)'
    BY <2>4, <2>5 DEF FollowAloneInv, Flw!NoOrphanFollow, Flw!stored, FollowAloneOK
  <2>7. ASSUME NEW u \in accounts' \ missed'
        PROVE  followers'[u] + owed(l, u) >= Cardinality(Flw!findFollowersOf(u)')
    <3>1. u \in accounts \ missed /\ u \in Users /\ followers[u] \in Nat
          /\ Flw!findFollowersOf(u)' = Flw!findFollowersOf(u)
      BY <2>5 DEF FollowAloneInv, FollowInv, Flw!TypeOK, Flw!findFollowersOf
    <3>2. followers[u] + owed(req[r], u) >= Cardinality(Flw!findFollowersOf(u)')
      BY <3>1, FewerFollowers
    <3>3. followers'[u] = followers[u] + owed(req[r], u)
      BY <1>2, <2>1, <2>2, <3>1
         DEF Flw!CreateCount, Flw!incrementFollowers, owed, FollowAloneInv, FollowInv,
             Flw!TypeOK
    <3>4. owed(l, u) = 0
      BY <2>4 DEF owed
    <3>5. owed(req[r], u) \in Nat
      BY DEF owed
    <3>6. followers'[u] \in Nat
      BY <3>1, <3>3, <3>5
    <3>7. followers'[u] + owed(l, u) = followers[u] + owed(req[r], u)
      BY <3>3, <3>4, <3>6
    <3> QED BY <3>2, <3>7
  <2> QED BY <2>4, <2>6, <2>7, FollowAloneStep
<1> QED BY <1>1, <1>2

LEMMA FollowAloneDeletes ==
    ASSUME Flw!FollowAssumption, FollowAloneInv, FollowInv', NEW r, Requests = {r},
           Flw!DeleteDelete(r) \/ Flw!DeleteCount(r)
    PROVE  FollowAloneInv'
<1>0. r \in Requests
  OBVIOUS
<1>1. CASE Flw!DeleteDelete(r)
  <2>1. PICK d, t : d = req[r].id /\ t = req[r].target
    OBVIOUS
  <2>2. /\ d \in FollowIds /\ t \in Users /\ req[r].pc = "delete:delete"
        /\ Flw!stored(d) /\ follows[d].following = t
    BY <1>0, <1>1, <2>1
    DEF Flw!DeleteDelete, FollowAloneInv, FollowAloneOK, FollowInv, FollowLocalOK
  <2>3. PICK l : l = [req[r] EXCEPT !.pc = "delete:count"]
    OBVIOUS
  <2>4. req' = [req EXCEPT ![r] = l] /\ l.pc = "delete:count" /\ l.target = t
    BY <1>0, <1>1, <2>1, <2>3
    DEF Flw!DeleteDelete, Flw!goto, FollowAloneInv, FollowInv, Flw!TypeOK, Flw!Local
  <2>5. UNCHANGED <<followers, accounts, missed>> /\ Flw!deleteAll({d})
    BY <1>1, <2>1 DEF Flw!DeleteDelete
  <2>6. /\ \A e \in FollowIds : follows'[e] = IF e = d THEN Flw!Removed ELSE follows[e]
        /\ Flw!Removed.state = "removed" /\ Flw!Removed.following = None
    BY <2>2, <2>5 DEF Flw!deleteAll, Flw!Removed, Flw!Absent
  <2>7. Flw!NoOrphanFollow'
    BY <2>5, <2>6 DEF FollowAloneInv, Flw!NoOrphanFollow, Flw!stored
  <2>8. ASSUME NEW u \in accounts \ missed
        PROVE  /\ followers[u] \in Nat /\ followers[u] >= Cardinality(Flw!findFollowersOf(u)')
               /\ u = t => followers[u] > Cardinality(Flw!findFollowersOf(u)')
    <3>1. followers[u] \in Nat /\ u \in Users
      BY DEF FollowAloneInv, FollowInv, Flw!TypeOK
    <3>2. followers[u] >= Cardinality(Flw!findFollowersOf(u))
      BY FollowSets, <2>2, <3>1, UncountedAlone DEF owed, FollowAloneInv, Flw!CounterNotBelow
    <3>3. Flw!findFollowersOf(u)' \subseteq Flw!findFollowersOf(u)
      BY <2>6, <3>1 DEF Flw!findFollowersOf, Flw!FollowAssumption
    <3>4. Cardinality(Flw!findFollowersOf(u)') <= Cardinality(Flw!findFollowersOf(u))
      BY <3>3, FollowersFinite, FS_Subset
    <3>5. ASSUME u = t
          PROVE  Cardinality(Flw!findFollowersOf(u)') < Cardinality(Flw!findFollowersOf(u))
      <4>1. d \in Flw!findFollowersOf(u) /\ Flw!findFollowersOf(u)' \subseteq Flw!findFollowersOf(u) \ {d}
        BY <2>2, <2>6, <3>1, <3>3, <3>5 DEF Flw!findFollowersOf, Flw!FollowAssumption
      <4>2. /\ IsFiniteSet(Flw!findFollowersOf(u) \ {d})
            /\ Cardinality(Flw!findFollowersOf(u) \ {d}) = Cardinality(Flw!findFollowersOf(u)) - 1
        BY <4>1, FollowersFinite, FS_RemoveElement
      <4>3. Cardinality(Flw!findFollowersOf(u)') <= Cardinality(Flw!findFollowersOf(u) \ {d})
        BY <4>1, <4>2, FS_Subset
      <4> QED BY <4>2, <4>3, FollowersFinite
    <3> QED BY <3>1, <3>2, <3>4, <3>5, FollowersFinite
  <2>9. FollowAloneOK(l)'
    <3>1. t \in accounts' \ missed' => followers'[t] > Cardinality(Flw!findFollowersOf(t)')
      BY <2>5, <2>8
    <3> QED BY <2>4, <3>1 DEF FollowAloneOK
  <2>10. ASSUME NEW u \in accounts' \ missed'
         PROVE  followers'[u] + owed(l, u) >= Cardinality(Flw!findFollowersOf(u)')
    <3>1. owed(l, u) = 0
      BY <2>4 DEF owed
    <3> QED BY <2>5, <2>8, <3>1, FollowersFinite
  <2> QED BY <2>4, <2>7, <2>9, <2>10, FollowAloneStep
<1>2. CASE Flw!DeleteCount(r)
  <2>1. PICK t : t = req[r].target
    OBVIOUS
  <2>2. t \in Users /\ req[r].pc = "delete:count"
    BY <1>0, <1>2, <2>1 DEF Flw!DeleteCount, FollowAloneInv, FollowInv, FollowLocalOK
  <2>3. req' = [req EXCEPT ![r] = Flw!Idle] /\ UNCHANGED <<follows, accounts, missed>>
    BY <1>2 DEF Flw!DeleteCount, Flw!finish
  <2>4. Flw!NoOrphanFollow' /\ FollowAloneOK(Flw!Idle)'
    BY <2>3 DEF FollowAloneInv, Flw!NoOrphanFollow, Flw!stored, FollowAloneOK, Flw!Idle
  <2>5. ASSUME NEW u \in accounts' \ missed'
        PROVE  followers'[u] + owed(Flw!Idle, u) >= Cardinality(Flw!findFollowersOf(u)')
    <3>1. u \in accounts \ missed /\ u \in Users /\ followers[u] \in Nat
          /\ Flw!findFollowersOf(u)' = Flw!findFollowersOf(u)
      BY <2>3 DEF FollowAloneInv, FollowInv, Flw!TypeOK, Flw!findFollowersOf
    <3>2. followers[u] >= Cardinality(Flw!findFollowersOf(u)')
      BY FollowSets, <2>2, <3>1, UncountedAlone DEF owed, FollowAloneInv, Flw!CounterNotBelow
    <3>3. u = t => followers[u] > Cardinality(Flw!findFollowersOf(u)')
      <4>1. t \in accounts \ missed => followers[t] > Cardinality(Flw!findFollowersOf(t))
        BY <1>0, <2>1, <2>2 DEF FollowAloneInv, FollowAloneOK
      <4> QED BY <3>1, <4>1
    <3>4. followers'[u] = IF u = t THEN followers[u] - 1 ELSE followers[u]
      <4>1. CASE t \in accounts /\ followers[t] # 0
        BY <1>2, <2>1, <2>2, <3>1, <4>1
           DEF Flw!DeleteCount, Flw!incrementFollowers, FollowAloneInv, FollowInv, Flw!TypeOK
      <4>2. CASE ~(t \in accounts /\ followers[t] # 0)
        <5>1. u # t
          BY <3>1, <3>3, <4>2, FollowersFinite
        <5> QED BY <1>2, <2>1, <2>2, <4>2, <5>1 DEF Flw!DeleteCount, Flw!incrementFollowers
      <4> QED BY <4>1, <4>2
    <3>5. owed(Flw!Idle, u) = 0
      BY DEF owed, Flw!Idle
    <3> QED BY <3>1, <3>2, <3>3, <3>4, <3>5, FollowersFinite
  <2> QED BY <2>3, <2>4, <2>5, FollowAloneStep
<1> QED BY <1>1, <1>2

LEMMA FollowAloneAccount ==
    ASSUME Flw!FollowAssumption, FollowAloneInv, FollowInv', NEW r, Requests = {r},
           Flw!deleteAllInvolvingUser(r) \/ Flw!AccountDelete(r)
    PROVE  FollowAloneInv'
<1>0. r \in Requests
  OBVIOUS
<1>1. PICK v : v = req[r].user
  OBVIOUS
<1>2. v \in Users /\ req[r].pc \in {"account:follows", "account:delete"}
  BY <1>0, <1>1
  DEF Flw!deleteAllInvolvingUser, Flw!AccountDelete, FollowAloneInv, FollowInv, FollowLocalOK
<1>3. ASSUME NEW l, l.pc # "create:count", NEW u \in accounts \ missed,
             Flw!findFollowersOf(u)' \subseteq Flw!findFollowersOf(u), followers' = followers
      PROVE  followers'[u] + owed(l, u) >= Cardinality(Flw!findFollowersOf(u)')
  <2>1. u \in Users /\ followers[u] \in Nat
    BY DEF FollowAloneInv, FollowInv, Flw!TypeOK
  <2>2. followers[u] + owed(req[r], u) >= Cardinality(Flw!findFollowersOf(u)')
    BY <1>3, <2>1, FewerFollowers
  <2>3. owed(req[r], u) = 0 /\ owed(l, u) = 0
    BY <1>2, <1>3 DEF owed
  <2> QED BY <1>3, <2>2, <2>3
<1>4. CASE Flw!deleteAllInvolvingUser(r)
  <2>1. PICK l : l = [req[r] EXCEPT !.pc = "account:delete"]
    OBVIOUS
  <2>2. req' = [req EXCEPT ![r] = l] /\ l.pc = "account:delete" /\ l.user = v
    BY <1>0, <1>1, <1>4, <2>1
       DEF Flw!deleteAllInvolvingUser, Flw!goto, FollowAloneInv, FollowInv, Flw!TypeOK,
           Flw!Local
  <2>3. /\ UNCHANGED <<followers, accounts, missed>>
        /\ Flw!deleteAll(Flw!findFollowersOf(v) \cup Flw!findFollowingOf(v))
    BY <1>1, <1>4 DEF Flw!deleteAllInvolvingUser
  <2>4. /\ Flw!Removed.follower = None /\ Flw!Removed.following = None /\ Flw!Removed.state = "removed"
        /\ \A d \in FollowIds : follows'[d] =
            IF d \in Flw!findFollowersOf(v) \cup Flw!findFollowingOf(v) /\ Flw!stored(d) THEN Flw!Removed
            ELSE follows[d]
    BY <2>3 DEF Flw!deleteAll, Flw!Removed, Flw!Absent
  <2>5. \A d \in FollowIds : v \notin {follows'[d].follower, follows'[d].following}
    <3> SUFFICES ASSUME NEW d \in FollowIds
                 PROVE  v \notin {follows'[d].follower, follows'[d].following}
      OBVIOUS
    <3>1. CASE d \in Flw!findFollowersOf(v) \cup Flw!findFollowingOf(v) /\ Flw!stored(d)
      BY <1>2, <2>4, <3>1 DEF Flw!FollowAssumption
    <3>2. CASE ~Flw!stored(d)
      BY <1>2, <2>4, <3>2, StoredFollow DEF Flw!FollowAssumption, FollowAloneInv
    <3>3. CASE d \notin Flw!findFollowersOf(v) \cup Flw!findFollowingOf(v)
      BY <2>4, <3>3 DEF Flw!findFollowersOf, Flw!findFollowingOf
    <3> QED BY <3>1, <3>2, <3>3
  <2>6. FollowAloneOK(l)'
    BY <2>2, <2>5 DEF FollowAloneOK
  <2>7. Flw!NoOrphanFollow'
    BY <2>3, <2>4 DEF FollowAloneInv, Flw!NoOrphanFollow, Flw!stored
  <2>8. \A u \in Users : Flw!findFollowersOf(u)' \subseteq Flw!findFollowersOf(u)
    BY <2>4 DEF Flw!findFollowersOf, Flw!FollowAssumption
  <2>9. \A u \in accounts' \ missed' :
            followers'[u] + owed(l, u) >= Cardinality(Flw!findFollowersOf(u)')
    BY <1>3, <2>2, <2>3, <2>8 DEF FollowAloneInv, FollowInv, Flw!TypeOK
  <2> QED BY <2>2, <2>6, <2>7, <2>9, FollowAloneStep
<1>5. CASE Flw!AccountDelete(r)
  <2>1. /\ req' = [req EXCEPT ![r] = Flw!Idle] /\ UNCHANGED <<follows, followers, missed>>
        /\ accounts' = accounts \ {v} /\ req[r].pc = "account:delete"
    BY <1>1, <1>5 DEF Flw!AccountDelete, Flw!finish
  <2>2. \A d \in FollowIds : v # follows[d].follower
    BY <1>0, <1>1, <2>1 DEF FollowAloneInv, FollowAloneOK
  <2>3. Flw!NoOrphanFollow' /\ FollowAloneOK(Flw!Idle)' /\ Flw!Idle.pc # "create:count"
    BY <2>1, <2>2 DEF FollowAloneInv, Flw!NoOrphanFollow, Flw!stored, FollowAloneOK, Flw!Idle
  <2>4. \A u : Flw!findFollowersOf(u)' \subseteq Flw!findFollowersOf(u)
    BY <2>1 DEF Flw!findFollowersOf
  <2>5. \A u \in accounts' \ missed' :
            followers'[u] + owed(Flw!Idle, u) >= Cardinality(Flw!findFollowersOf(u)')
    BY <1>3, <2>1, <2>3, <2>4
  <2> QED BY <2>1, <2>3, <2>5, FollowAloneStep
<1> QED BY <1>4, <1>5

LEMMA FollowAloneNext ==
    ASSUME Flw!FollowAssumption, NEW r, Requests = {r}, FollowAloneInv, [Flw!Next]_Flw!vars
    PROVE  FollowAloneInv'
<1>1. FollowInv'
  BY FollowNext DEF FollowAloneInv
<1>2. CASE UNCHANGED Flw!vars
  <2>1. UNCHANGED <<follows, followers, accounts, req, missed>>
    BY <1>2 DEF Flw!vars
  <2>2. Flw!CounterNotBelow' /\ Flw!NoOrphanFollow'
    BY <2>1
    DEF FollowAloneInv, Flw!CounterNotBelow, Flw!NoOrphanFollow, Flw!stored, Flw!uncounted,
        Flw!findFollowersOf
  <2>3. \A q \in Requests : FollowAloneOK(req[q])'
    BY <2>1 DEF FollowAloneInv, FollowAloneOK, Flw!stored, Flw!findFollowersOf
  <2> QED BY <1>1, <2>2, <2>3 DEF FollowAloneInv
<1> QED BY <1>1, <1>2, FollowAloneFinds, FollowAloneCreates, FollowAloneDeletes,
           FollowAloneAccount DEF Flw!Next, Flw!Step

\* One request at a time, no profile shows fewer followers than the list has, unless
\* a creation was interrupted between its two writes (CreateFollow:48-50).
THEOREM FollowersAreCounted ==
    ASSUME Flw!FollowAssumption, NEW r, Requests = {r} PROVE Flw!Spec => []Flw!CounterNotBelow
<1>1. Flw!Init => FollowAloneInv
  BY FollowInit
<1>2. FollowAloneInv => Flw!CounterNotBelow
  BY DEF FollowAloneInv
<1>3. FollowAloneInv /\ [Flw!Next]_Flw!vars => FollowAloneInv'
  BY FollowAloneNext
<1> QED BY <1>1, <1>2, <1>3, PTL DEF Flw!Spec

\* One request at a time, no follow outlives the account of the follower: DeleteAccount
\* removes the follows before the user (DeleteAccount:68, then :85).
THEOREM NoFollowOutlivesAccount ==
    ASSUME Flw!FollowAssumption, NEW r, Requests = {r} PROVE Flw!Spec => []Flw!NoOrphanFollow
<1>1. Flw!Init => FollowAloneInv
  BY FollowInit
<1>2. FollowAloneInv => Flw!NoOrphanFollow
  BY DEF FollowAloneInv
<1>3. FollowAloneInv /\ [Flw!Next]_Flw!vars => FollowAloneInv'
  BY FollowAloneNext
<1> QED BY <1>1, <1>2, <1>3, PTL DEF Flw!Spec
-----------------------------------------------------------------------------
(* REVIEWS AND AVERAGES                                                    *)

\* Counting is the same in the instance.
LEMMA ReviewSets ==
    \A S : (Rev!IsFiniteSet(S) <=> IsFiniteSet(S)) /\ Rev!Cardinality(S) = Cardinality(S)
BY DEF Rev!IsFiniteSet, IsFiniteSet, Rev!Cardinality, Cardinality

\* What a handler of reviews relies on when it resumes.
ReviewLocalOK(l) ==
    /\ l.pc # "idle" => l.target \in Rev!Targets
    /\ l.pc \in {"create:existing", "create:save"} =>
        l.author \in Authors /\ l.value \in Ratings
    /\ l.pc \in {"update:write", "delete:delete"} => l.id \in ReviewIds
    /\ l.pc = "update:write" => l.value \in Ratings

\* The index keeps the authors of the reviews of a target apart.
ReviewsApart ==
    \A v, w \in ReviewIds :
        /\ reviews[v].author = reviews[w].author /\ reviews[v].author # None
        /\ reviews[v].target = reviews[w].target
        => v = w

ReviewInv == Rev!TypeOK /\ (\A r \in Requests : ReviewLocalOK(req[r])) /\ ReviewsApart

\* The average a target should show.
due(t) == Rev!average(Rev!findRatingsByReference(t))

\* What else holds when requests are served one at a time.
ReviewAloneOK(l) ==
    /\ l.pc # "idle" => Rev!exists(l.target)
    /\ l.pc \in {"update:write", "delete:delete"} =>
        Rev!stored(l.id) /\ reviews[l.id].target = l.target
    /\ l.pc = "rating:write" /\ l.target \notin stale => l.value = due(l.target)
    /\ l.pc = "edit:write" => l.value = rating[l.target]
    /\ l.pc = "cascade:target" => \A v \in ReviewIds : reviews[v].target # l.target

\* The request has changed the reviews of the target and has yet to store its average.
recalculating(l, t) == l.pc \in {"rating:read", "rating:write"} /\ l.target = t

RatingsUpToDate ==
    \A t \in Rev!Targets \ stale :
        Rev!exists(t) /\ (\A r \in Requests : ~recalculating(req[r], t)) => rating[t] = due(t)

ReviewAloneInv ==
    /\ ReviewInv /\ Rev!NoOrphanReview /\ RatingsUpToDate
    /\ \A r \in Requests : ReviewAloneOK(req[r])

\* What a stored review says, and that no other has an author or a target.
LEMMA StoredReview ==
    ASSUME Rev!ReviewAssumption, ReviewInv, NEW v \in ReviewIds
    PROVE  /\ Rev!stored(v) => /\ reviews[v] # Rev!Absent
                               /\ reviews[v] \in [state : {"stored"}, author : Authors, target : Rev!Targets,
                                                  rating : Ratings, deleted : BOOLEAN]
                               /\ reviews[v].author \in Authors /\ reviews[v].target \in Rev!Targets
                               /\ reviews[v].rating \in Ratings
           /\ ~Rev!stored(v) => reviews[v].author = None /\ reviews[v].target = None
           /\ None \notin Rev!Targets /\ None \notin Authors
BY DEF ReviewInv, Rev!TypeOK, Rev!Reviews, Rev!Absent, Rev!Removed, Rev!stored,
   Rev!ReviewAssumption, Rev!Targets

LEMMA ReviewIdle ==
    /\ Rev!Idle \in Rev!Local /\ ReviewLocalOK(Rev!Idle) /\ Rev!Idle.pc = "idle" /\ Rev!Idle.target = None
    /\ ReviewAloneOK(Rev!Idle)'
BY DEF Rev!Idle, Rev!Local, ReviewLocalOK, ReviewAloneOK, Rev!Averages

LEMMA ReviewInit == Rev!ReviewAssumption /\ Rev!Init => ReviewAloneInv
<1> SUFFICES ASSUME Rev!ReviewAssumption, Rev!Init PROVE ReviewAloneInv
  OBVIOUS
<1>1. Rev!TypeOK
  BY DEF Rev!Init, Rev!TypeOK, Rev!Reviews, Rev!Local, Rev!Idle, Rev!Averages
<1>2. ReviewsApart /\ Rev!NoOrphanReview
  BY DEF Rev!Init, ReviewsApart, Rev!NoOrphanReview, Rev!Absent, Rev!stored
<1>3. \A r \in Requests : ReviewLocalOK(req[r]) /\ ReviewAloneOK(req[r])
  BY DEF Rev!Init, Rev!Idle, ReviewLocalOK, ReviewAloneOK
<1>4. ASSUME NEW t \in Rev!Targets PROVE rating[t] = due(t)
  <2>1. Rev!findRatingsByReference(t) = {}
    BY DEF Rev!Init, Rev!findRatingsByReference, Rev!Absent, Rev!ReviewAssumption, Rev!Targets
  <2> QED BY ReviewSets, <2>1, FS_EmptySet DEF Rev!Init, due, Rev!average
<1> QED BY <1>1, <1>2, <1>3, <1>4 DEF ReviewInv, ReviewAloneInv, RatingsUpToDate

-----------------------------------------------------------------------------
(* The average of reviews                                                  *)

LEMMA TwoDisjoint ==
    ASSUME NEW A, IsFiniteSet(A), NEW B, IsFiniteSet(B), A \cap B = {}
    PROVE  /\ IsFiniteSet(A \cup B) /\ Cardinality(A \cup B) = Cardinality(A) + Cardinality(B)
           /\ Cardinality(A) \in Nat /\ Cardinality(B) \in Nat
<1>1. Cardinality(A) \in Nat /\ Cardinality(B) \in Nat /\ Cardinality(A \cap B) = 0
  BY FS_CardinalityType, FS_EmptySet
<1>2. /\ IsFiniteSet(A \cup B)
      /\ Cardinality(A \cup B) = Cardinality(A) + Cardinality(B) - Cardinality(A \cap B)
  BY FS_Union
<1>3. PICK a, b : a = Cardinality(A) /\ b = Cardinality(B)
  OBVIOUS
<1>4. a \in Nat /\ b \in Nat /\ Cardinality(A \cup B) = a + b - 0
  BY <1>1, <1>2, <1>3
<1>5. Cardinality(A \cup B) = a + b
  BY <1>4
<1> QED BY <1>1, <1>2, <1>3, <1>5

LEMMA AverageBounds ==
    ASSUME NEW n \in Nat, n # 0, NEW s \in Nat, s <= 5 * n
    PROVE  (20 * s + n) \div (2 * n) \in 0 .. 50
<1>1. PICK q : q = (20 * s + n) \div (2 * n)
  OBVIOUS
<1>2. 2 * n \in Nat \ {0} /\ 20 * s + n \in Nat /\ 20 * s + n <= 101 * n
  OBVIOUS
<1>3. q \in Int
  BY <1>1, <1>2
<1>4. q * (2 * n) <= 20 * s + n
  BY <1>1, <1>2, <1>3
<1>5. 20 * s + n < (q + 1) * (2 * n)
  BY <1>1, <1>2, <1>3
<1>6. q >= 0
  <2> SUFFICES ASSUME q <= -1 PROVE FALSE
    BY <1>3
  <2>1. (q + 1) * (2 * n) <= 0
    BY <1>2, <1>3
  <2> QED BY <1>2, <1>3, <1>5, <2>1
<1>7. q <= 50
  <2> SUFFICES ASSUME q >= 51 PROVE FALSE
    BY <1>3
  <2>1. q * (2 * n) >= 51 * (2 * n)
    BY <1>2, <1>3
  <2> QED BY <1>2, <1>3, <1>4, <2>1
<1> QED BY <1>1, <1>3, <1>6, <1>7

LEMMA AverageType ==
    ASSUME Rev!ReviewAssumption, ReviewInv, NEW t \in Rev!Targets
    PROVE  due(t) \in Rev!Averages
<1> DEFINE V == Rev!findRatingsByReference(t)
           G(n) == {v \in V : reviews[v].rating = n}
<1>1. IsFiniteSet(V) /\ Cardinality(V) \in Nat
  BY ReviewSets, FS_Subset, FS_CardinalityType DEF Rev!findRatingsByReference, Rev!ReviewAssumption
<1>2. \A n : IsFiniteSet(G(n)) /\ Cardinality(G(n)) \in Nat
  BY <1>1, FS_Subset, FS_CardinalityType
<1>3. \A v \in V : reviews[v].rating \in 1 .. 5
  BY StoredReview DEF Rev!findRatingsByReference, Rev!ReviewAssumption
<1>4. Cardinality(V) = Cardinality(G(1)) + Cardinality(G(2)) + Cardinality(G(3))
                            + Cardinality(G(4)) + Cardinality(G(5))
  <2>1. G(1) \cap G(2) = {} /\ (G(1) \cup G(2)) \cap G(3) = {}
        /\ (G(1) \cup G(2) \cup G(3)) \cap G(4) = {}
        /\ (G(1) \cup G(2) \cup G(3) \cup G(4)) \cap G(5) = {}
    OBVIOUS
  <2>2. V = G(1) \cup G(2) \cup G(3) \cup G(4) \cup G(5)
    BY <1>3
  <2> HIDE DEF V, G
  <2>3. /\ IsFiniteSet(G(1) \cup G(2))
        /\ Cardinality(G(1) \cup G(2)) = Cardinality(G(1)) + Cardinality(G(2))
    BY <1>2, <2>1, TwoDisjoint
  <2>4. /\ IsFiniteSet(G(1) \cup G(2) \cup G(3))
        /\ Cardinality(G(1) \cup G(2) \cup G(3)) = Cardinality(G(1) \cup G(2)) + Cardinality(G(3))
    BY <1>2, <2>1, <2>3, TwoDisjoint
  <2>5. /\ IsFiniteSet(G(1) \cup G(2) \cup G(3) \cup G(4))
        /\ Cardinality(G(1) \cup G(2) \cup G(3) \cup G(4))
                = Cardinality(G(1) \cup G(2) \cup G(3)) + Cardinality(G(4))
    BY <1>2, <2>1, <2>4, TwoDisjoint
  <2>6. Cardinality(G(1) \cup G(2) \cup G(3) \cup G(4) \cup G(5))
                = Cardinality(G(1) \cup G(2) \cup G(3) \cup G(4)) + Cardinality(G(5))
    BY <1>2, <2>1, <2>5, TwoDisjoint
  <2> QED BY <1>2, <2>2, <2>3, <2>4, <2>5, <2>6
<1>5. PICK n, s : /\ n = Cardinality(V)
                  /\ s = Cardinality(G(1)) + 2 * Cardinality(G(2)) + 3 * Cardinality(G(3))
                            + 4 * Cardinality(G(4)) + 5 * Cardinality(G(5))
  OBVIOUS
<1>6. n \in Nat /\ s \in Nat /\ s <= 5 * n
  <2> HIDE DEF V, G
  <2> QED BY <1>1, <1>2, <1>4, <1>5
<1>7. due(t) = IF n = 0 THEN 0 ELSE (20 * s + n) \div (2 * n)
  BY ReviewSets, <1>5 DEF due, Rev!average, Rev!rated
<1> QED BY <1>6, <1>7, AverageBounds DEF Rev!Averages

\* The average is that of the reviews of the target in view, whatever the others.
LEMMA SameAverage ==
    ASSUME NEW t,
           \A v \in ReviewIds :
                (reviews'[v].target = t /\ ~reviews'[v].deleted)
                    <=> (reviews[v].target = t /\ ~reviews[v].deleted),
           \A v \in ReviewIds : reviews[v].target = t => reviews'[v].rating = reviews[v].rating
    PROVE  due(t)' = due(t)
<1> DEFINE V == {v \in ReviewIds : reviews[v].target = t /\ ~reviews[v].deleted}
<1>1. Rev!findRatingsByReference(t) = V /\ Rev!findRatingsByReference(t)' = V
  BY DEF Rev!findRatingsByReference
<1>2. \A n : {v \in V : reviews'[v].rating = n} = {v \in V : reviews[v].rating = n}
  OBVIOUS
<1> HIDE DEF V
<1> QED BY <1>1, <1>2 DEF due, Rev!average, Rev!rated

LEMMA SameReviews == ASSUME UNCHANGED reviews PROVE \A t : due(t)' = due(t)
BY DEF due, Rev!average, Rev!rated, Rev!findRatingsByReference

-----------------------------------------------------------------------------
(* Types, and the one review of each author, whatever the requests         *)

\* A step of one request.
LEMMA ReviewStep ==
    ASSUME Rev!ReviewAssumption, ReviewInv, NEW r \in Requests, NEW l \in Rev!Local,
           ReviewLocalOK(l),
           req' = [req EXCEPT ![r] = l], reviews' \in [ReviewIds -> Rev!Reviews], ReviewsApart',
           rating' \in [Rev!Targets -> Rev!Averages \cup {None}], stale' \subseteq Rev!Targets
    PROVE  ReviewInv'
<1>1. req' \in [Requests -> Rev!Local] /\ \A q \in Requests : ReviewLocalOK(req'[q])
  BY DEF ReviewInv, Rev!TypeOK
<1> QED BY <1>1 DEF ReviewInv, Rev!TypeOK, ReviewLocalOK

\* A step that leaves the reviews as they are.
LEMMA ReviewSame ==
    ASSUME Rev!ReviewAssumption, ReviewInv, NEW r \in Requests, NEW l \in Rev!Local,
           ReviewLocalOK(l),
           req' = [req EXCEPT ![r] = l], UNCHANGED reviews,
           rating' \in [Rev!Targets -> Rev!Averages \cup {None}], stale' \subseteq Rev!Targets
    PROVE  ReviewInv'
<1>1. reviews' \in [ReviewIds -> Rev!Reviews] /\ ReviewsApart'
  BY DEF ReviewInv, Rev!TypeOK, ReviewsApart
<1> QED BY <1>1, ReviewStep

\* A step that changes no author and no target of the reviews it leaves.
LEMMA ReviewChanges ==
    ASSUME ReviewInv, reviews' \in [ReviewIds -> Rev!Reviews],
           \A v \in ReviewIds : \/ reviews'[v].author = None
                                \/ /\ reviews'[v].author = reviews[v].author
                                   /\ reviews'[v].target = reviews[v].target
    PROVE  ReviewsApart'
BY DEF ReviewInv, ReviewsApart

LEMMA ReviewsDeleted ==
    ASSUME Rev!ReviewAssumption, ReviewInv, NEW D, Rev!deleteAll(D)
    PROVE  /\ reviews' \in [ReviewIds -> Rev!Reviews] /\ ReviewsApart'
           /\ \A v \in ReviewIds :
                /\ reviews'[v] = IF v \in D /\ Rev!stored(v) THEN Rev!Removed ELSE reviews[v]
                /\ Rev!stored(v)' <=> Rev!stored(v) /\ v \notin D
           /\ Rev!Removed.author = None /\ Rev!Removed.target = None
<1>1. reviews' \in [ReviewIds -> Rev!Reviews]
  BY DEF Rev!deleteAll, ReviewInv, Rev!TypeOK, Rev!Reviews
<1>2. \A v \in ReviewIds : reviews'[v] = IF v \in D /\ Rev!stored(v) THEN Rev!Removed ELSE reviews[v]
  BY DEF Rev!deleteAll
<1>3. Rev!Removed.state = "removed" /\ Rev!Removed.author = None /\ Rev!Removed.target = None
  BY DEF Rev!Removed, Rev!Absent
<1>4. \A v \in ReviewIds : Rev!stored(v)' <=> Rev!stored(v) /\ v \notin D
  BY <1>2, <1>3 DEF Rev!stored
<1>5. ReviewsApart'
  BY <1>1, <1>2, <1>3, ReviewChanges
<1> QED BY <1>1, <1>2, <1>3, <1>4, <1>5

\* The ratings and the moderation of a stored review may change.
LEMMA ReviewRewritten ==
    ASSUME Rev!ReviewAssumption, ReviewInv, NEW v \in ReviewIds, Rev!stored(v),
           NEW d \in Rev!Reviews,
           d.state = "stored", d.author = reviews[v].author, d.target = reviews[v].target,
           reviews' = [reviews EXCEPT ![v] = d]
    PROVE  reviews' \in [ReviewIds -> Rev!Reviews] /\ ReviewsApart'
<1>1. reviews' \in [ReviewIds -> Rev!Reviews]
  BY DEF ReviewInv, Rev!TypeOK
<1> QED BY <1>1, ReviewChanges DEF ReviewInv, Rev!TypeOK

LEMMA ReviewSaves ==
    ASSUME Rev!ReviewAssumption, ReviewInv, NEW r \in Requests, Rev!CreateSave(r)
    PROVE  ReviewInv'
<1>1. PICK v \in ReviewIds : Rev!save(v, req[r].author, req[r].target, req[r].value)
  BY DEF Rev!CreateSave
<1>2. PICK a, t, n : a = req[r].author /\ t = req[r].target /\ n = req[r].value
  OBVIOUS
<1>3. a \in Authors /\ t \in Rev!Targets /\ n \in Ratings /\ req[r].pc = "create:save"
  BY <1>2 DEF Rev!CreateSave, ReviewInv, ReviewLocalOK
<1>4. PICK l : l = [req[r] EXCEPT !.pc = "rating:read"]
  OBVIOUS
<1>5. req' = [req EXCEPT ![r] = l] /\ l \in Rev!Local /\ ReviewLocalOK(l)
  BY <1>2, <1>3, <1>4
  DEF Rev!CreateSave, Rev!goto, ReviewInv, Rev!TypeOK, Rev!Local, ReviewLocalOK
<1>6. PICK d : d = Rev!create(a, t, n)
  OBVIOUS
<1>7. d \in Rev!Reviews /\ d.author = a /\ d.target = t
  BY <1>3, <1>6 DEF Rev!create, Rev!Reviews
<1>8. Rev!findByAuthorAndReference(a, t) = {} /\ reviews' = [reviews EXCEPT ![v] = d]
  BY <1>1, <1>2, <1>6 DEF Rev!save
<1>9. reviews' \in [ReviewIds -> Rev!Reviews]
  BY <1>7, <1>8 DEF ReviewInv, Rev!TypeOK
<1>10. ReviewsApart'
  BY <1>7, <1>8 DEF ReviewsApart, Rev!findByAuthorAndReference, ReviewInv, Rev!TypeOK
<1> QED BY <1>5, <1>9, <1>10, ReviewStep DEF Rev!CreateSave, ReviewInv, Rev!TypeOK

LEMMA ReviewUpdates ==
    ASSUME Rev!ReviewAssumption, ReviewInv, NEW r \in Requests, Rev!UpdateWrite(r)
    PROVE  /\ ReviewInv'
           /\ LET v == req[r].id IN
              IF Rev!stored(v) THEN /\ reviews'[v].target = reviews[v].target
                                    /\ \A w \in ReviewIds \ {v} : reviews'[w] = reviews[w]
                                    /\ \A w \in ReviewIds : Rev!stored(w)' <=> Rev!stored(w)
              ELSE reviews' = reviews
<1>1. PICK v, n : v = req[r].id /\ n = req[r].value
  OBVIOUS
<1>2. v \in ReviewIds /\ n \in Ratings /\ req[r].pc = "update:write" /\ req[r].target \in Rev!Targets
  BY <1>1 DEF Rev!UpdateWrite, ReviewInv, ReviewLocalOK
<1>3. PICK l : l = [req[r] EXCEPT !.pc = "rating:read"]
  OBVIOUS
<1>4. req' = [req EXCEPT ![r] = l] /\ l \in Rev!Local /\ ReviewLocalOK(l)
  BY <1>2, <1>3 DEF Rev!UpdateWrite, Rev!goto, ReviewInv, Rev!TypeOK, Rev!Local, ReviewLocalOK
<1>5. CASE Rev!stored(v)
  <2>1. PICK d : d = [reviews[v] EXCEPT !.rating = n]
    OBVIOUS
  <2>2. d \in Rev!Reviews /\ d.state = "stored" /\ d.author = reviews[v].author
        /\ d.target = reviews[v].target
    BY <1>2, <1>5, <2>1, StoredReview DEF Rev!Reviews
  <2>3. reviews' = [reviews EXCEPT ![v] = d]
    BY <1>1, <1>5, <2>1 DEF Rev!UpdateWrite
  <2>4. reviews' \in [ReviewIds -> Rev!Reviews] /\ ReviewsApart'
    BY <1>2, <1>5, <2>2, <2>3, ReviewRewritten
  <2>5. ReviewInv'
    BY <1>4, <2>4, ReviewStep DEF Rev!UpdateWrite, ReviewInv, Rev!TypeOK
  <2>6. /\ reviews'[v] = d /\ \A w \in ReviewIds \ {v} : reviews'[w] = reviews[w]
    BY <1>2, <2>3 DEF ReviewInv, Rev!TypeOK
  <2>7. \A w \in ReviewIds : Rev!stored(w)' <=> Rev!stored(w)
    BY <1>5, <2>2, <2>6 DEF Rev!stored
  <2> QED BY <1>1, <1>5, <2>2, <2>5, <2>6, <2>7
<1>6. CASE ~Rev!stored(v)
  <2>1. reviews' = reviews
    BY <1>1, <1>6 DEF Rev!UpdateWrite
  <2>2. ReviewInv'
    BY <1>4, <2>1, ReviewSame DEF Rev!UpdateWrite, ReviewInv, Rev!TypeOK
  <2> QED BY <1>1, <1>6, <2>1, <2>2
<1> QED BY <1>5, <1>6

\* What moderation does to the reviews.
LEMMA ReviewModerated ==
    ASSUME Rev!ReviewAssumption, ReviewInv, Rev!AdminSoftDelete
    PROVE  /\ ReviewInv'
           /\ stale \subseteq stale' /\ UNCHANGED <<rating, req>>
           /\ \E v \in ReviewIds :
                /\ Rev!stored(v)
                /\ \A w \in ReviewIds :
                        /\ Rev!stored(w)' <=> Rev!stored(w)
                        /\ reviews'[w].target = reviews[w].target
                        /\ reviews'[w].rating = reviews[w].rating
                        /\ w # v => reviews'[w] = reviews[w]
                /\ reviews[v].target \notin stale' => reviews' = reviews
<1>1. PICK v \in ReviewIds, deleted \in BOOLEAN :
        /\ Rev!stored(v)
        /\ reviews' = [reviews EXCEPT ![v].deleted = deleted]
        /\ stale' = IF deleted # reviews[v].deleted
                    THEN stale \cup {reviews[v].target} ELSE stale
  BY DEF Rev!AdminSoftDelete
<1>2. PICK d : d = [reviews[v] EXCEPT !.deleted = deleted]
  OBVIOUS
<1>3. d \in Rev!Reviews /\ d.state = "stored" /\ d.author = reviews[v].author
      /\ d.target = reviews[v].target /\ d.rating = reviews[v].rating
  BY <1>1, <1>2, StoredReview DEF Rev!Reviews
<1>4. reviews' = [reviews EXCEPT ![v] = d]
  BY <1>1, <1>2
<1>5. reviews' \in [ReviewIds -> Rev!Reviews] /\ ReviewsApart'
  BY <1>1, <1>3, <1>4, ReviewRewritten
<1>6. stale' \subseteq Rev!Targets /\ stale \subseteq stale' /\ UNCHANGED <<rating, req>>
  BY <1>1, StoredReview DEF Rev!AdminSoftDelete, ReviewInv, Rev!TypeOK
<1>7. ReviewInv'
  BY <1>5, <1>6 DEF ReviewInv, Rev!TypeOK, ReviewLocalOK
<1>8. reviews'[v] = d /\ \A w \in ReviewIds : w # v => reviews'[w] = reviews[w]
  BY <1>4 DEF ReviewInv, Rev!TypeOK
<1>9. ASSUME reviews[v].target \notin stale' PROVE reviews' = reviews
  <2>1. deleted = reviews[v].deleted
    BY <1>1, <1>9
  <2>2. d = reviews[v]
    BY <1>1, <1>2, <2>1, StoredReview
  <2> QED BY <1>4, <2>2 DEF ReviewInv, Rev!TypeOK
<1>10. \A w \in ReviewIds : Rev!stored(w)' <=> Rev!stored(w)
  BY <1>1, <1>3, <1>8 DEF Rev!stored
<1> QED BY <1>1, <1>3, <1>6, <1>7, <1>8, <1>9, <1>10

\* The steps that find something out.
LEMMA ReviewFinds ==
    ASSUME Rev!ReviewAssumption, ReviewInv, NEW r \in Requests,
           Rev!CreateCheckTarget(r) \/ Rev!UpdateFind(r) \/ Rev!DeleteFind(r)
               \/ Rev!EditFind(r) \/ Rev!CascadeFind(r)
    PROVE  /\ UNCHANGED <<reviews, rating, stale>> /\ req[r] = Rev!Idle
           /\ \E l \in Rev!Local :
                /\ ReviewLocalOK(l) /\ req' = [req EXCEPT ![r] = l]
                /\ l.pc \in {"create:existing", "update:write", "delete:delete", "edit:write",
                             "cascade:reviews"}
                /\ l.pc \notin {"update:write", "delete:delete"} => Rev!exists(l.target)
                /\ l.pc \in {"update:write", "delete:delete"} =>
                        Rev!stored(l.id) /\ reviews[l.id].target = l.target
                /\ l.pc = "edit:write" => l.value = rating[l.target]
<1>0. UNCHANGED <<reviews, rating, stale>> /\ req[r] = Rev!Idle
  BY DEF Rev!CreateCheckTarget, Rev!UpdateFind, Rev!DeleteFind, Rev!EditFind, Rev!CascadeFind
<1>1. CASE Rev!CreateCheckTarget(r)
  <2>1. PICK a \in Authors, t \in Rev!Targets, n \in Ratings :
        /\ Rev!exists(t)
        /\ req' = [req EXCEPT ![r] = [Rev!Idle EXCEPT !.pc = "create:existing",
                        !.author = a, !.target = t, !.value = n]]
    BY <1>1 DEF Rev!CreateCheckTarget
  <2>2. PICK l : l = [Rev!Idle EXCEPT !.pc = "create:existing", !.author = a, !.target = t, !.value = n]
    OBVIOUS
  <2>3. n \in 1 .. 5
    BY DEF Rev!ReviewAssumption
  <2>4. l.pc = "create:existing" /\ l.target = t /\ l.author = a /\ l.value = n
    BY <2>2 DEF Rev!Idle
  <2>5. l \in Rev!Local
    <3>1. l = [pc |-> "create:existing", author |-> a, target |-> t, id |-> None, value |-> n]
      BY <2>2 DEF Rev!Idle
    <3>2. n \in Rev!Averages
      BY <2>3 DEF Rev!Averages
    <3> QED BY <3>1, <3>2 DEF Rev!Local
  <2>6. ReviewLocalOK(l)
    BY <2>4 DEF ReviewLocalOK
  <2> QED BY <1>0, <2>1, <2>2, <2>4, <2>5, <2>6
<1>2. ASSUME NEW v \in ReviewIds, NEW n \in Ratings \cup {0}, Rev!stored(v),
             NEW pc \in {"update:write", "delete:delete"}, pc = "update:write" => n \in Ratings,
             Rev!FindOwn(r, pc, v, n)
      PROVE  \E l \in Rev!Local :
                /\ ReviewLocalOK(l) /\ req' = [req EXCEPT ![r] = l]
                /\ l.pc \in {"update:write", "delete:delete"}
                /\ Rev!stored(l.id) /\ reviews[l.id].target = l.target
  <2>1. PICK a, t : a = reviews[v].author /\ t = reviews[v].target
    OBVIOUS
  <2>2. a \in Authors /\ t \in Rev!Targets
    BY <1>2, <2>1, StoredReview
  <2>3. PICK l : l = [pc |-> pc, author |-> a, target |-> t, id |-> v, value |-> n]
    OBVIOUS
  <2>4. req' = [req EXCEPT ![r] = l]
    BY <1>2, <2>1, <2>3 DEF Rev!FindOwn
  <2>5. n \in 0 .. 50
    BY DEF Rev!ReviewAssumption
  <2>6. l \in Rev!Local /\ l.pc = pc /\ l.id = v /\ l.target = t /\ l.value = n
    BY <2>2, <2>3, <2>5 DEF Rev!Local, Rev!Averages
  <2>7. ReviewLocalOK(l)
    BY <1>2, <2>2, <2>6 DEF ReviewLocalOK
  <2> QED BY <1>2, <2>1, <2>4, <2>6, <2>7
<1>3. CASE Rev!UpdateFind(r)
  <2>1. PICK v \in ReviewIds, n \in Ratings : Rev!stored(v) /\ Rev!FindOwn(r, "update:write", v, n)
    BY <1>3 DEF Rev!UpdateFind
  <2> QED BY <1>0, <1>2, <2>1
<1>4. CASE Rev!DeleteFind(r)
  <2>1. PICK v \in ReviewIds : Rev!stored(v) /\ Rev!FindOwn(r, "delete:delete", v, 0)
    BY <1>4 DEF Rev!DeleteFind
  <2> QED BY <1>0, <1>2, <2>1
<1>5. CASE Rev!EditFind(r)
  <2>1. PICK t \in ReviewedEvents :
        /\ Rev!exists(t)
        /\ req' = [req EXCEPT ![r] = [Rev!Idle EXCEPT !.pc = "edit:write", !.target = t,
                                                      !.value = rating[t]]]
    BY <1>5 DEF Rev!EditFind
  <2>2. PICK n : n = rating[t]
    OBVIOUS
  <2>3. t \in Rev!Targets /\ n \in Rev!Averages
    BY <2>1, <2>2 DEF Rev!Targets, Rev!exists, ReviewInv, Rev!TypeOK
  <2>4. PICK l : l = [Rev!Idle EXCEPT !.pc = "edit:write", !.target = t, !.value = n]
    OBVIOUS
  <2>5. l \in Rev!Local /\ ReviewLocalOK(l) /\ l.pc = "edit:write" /\ l.target = t /\ l.value = n
    BY <2>3, <2>4 DEF Rev!Idle, Rev!Local, ReviewLocalOK
  <2>6. req' = [req EXCEPT ![r] = l]
    BY <2>1, <2>2, <2>4
  <2> QED BY <1>0, <2>1, <2>2, <2>5, <2>6
<1>6. CASE Rev!CascadeFind(r)
  <2>1. PICK t \in Rev!Targets :
        /\ Rev!exists(t)
        /\ req' = [req EXCEPT ![r] = [Rev!Idle EXCEPT !.pc = "cascade:reviews", !.target = t]]
    BY <1>6 DEF Rev!CascadeFind
  <2>2. PICK l : l = [Rev!Idle EXCEPT !.pc = "cascade:reviews", !.target = t]
    OBVIOUS
  <2>3. l \in Rev!Local /\ ReviewLocalOK(l) /\ l.pc = "cascade:reviews" /\ l.target = t
    <3>1. l = [pc |-> "cascade:reviews", author |-> None, target |-> t, id |-> None, value |-> 0]
      BY <2>2 DEF Rev!Idle
    <3>2. 0 \in Rev!Averages
      BY DEF Rev!Averages
    <3> QED BY <3>1, <3>2 DEF Rev!Local, ReviewLocalOK
  <2> QED BY <1>0, <2>1, <2>2, <2>3
<1> QED BY <1>1, <1>3, <1>4, <1>5, <1>6

\* The steps that end a request: the average, the edit, the document itself.
LEMMA ReviewEnds ==
    ASSUME Rev!ReviewAssumption, ReviewInv, NEW r \in Requests,
           Rev!RecalculateWrite(r) \/ Rev!EditWrite(r) \/ Rev!deleteTarget(r)
               \/ Rev!RequestFail(r)
    PROVE  /\ ReviewInv' /\ UNCHANGED reviews /\ req' = [req EXCEPT ![r] = Rev!Idle]
           /\ ~Rev!deleteTarget(r) => \A t \in Rev!Targets : Rev!exists(t)' <=> Rev!exists(t)
<1>1. UNCHANGED reviews /\ req' = [req EXCEPT ![r] = Rev!Idle]
  BY DEF Rev!RecalculateWrite, Rev!EditWrite, Rev!deleteTarget, Rev!RequestFail, Rev!finish
<1>2. PICK t, n : t = req[r].target /\ n = req[r].value
  OBVIOUS
<1>3. n \in Rev!Averages
  BY <1>2 DEF ReviewInv, Rev!TypeOK, Rev!Local
<1>4. CASE Rev!RecalculateWrite(r) \/ Rev!EditWrite(r)
  <2>1. t \in Rev!Targets
    BY <1>2, <1>4 DEF Rev!RecalculateWrite, Rev!EditWrite, ReviewInv, ReviewLocalOK
  <2>2. rating' = (IF Rev!exists(t) THEN [rating EXCEPT ![t] = n] ELSE rating) /\ stale' = stale
    BY <1>2, <1>4 DEF Rev!RecalculateWrite, Rev!EditWrite, Rev!updateRating
  <2>3. rating' \in [Rev!Targets -> Rev!Averages \cup {None}] /\ stale' \subseteq Rev!Targets
    BY <1>3, <2>1, <2>2 DEF ReviewInv, Rev!TypeOK
  <2>4. n # None
    BY <1>3 DEF Rev!Averages, Rev!ReviewAssumption
  <2>5. \A u \in Rev!Targets : Rev!exists(u)' <=> Rev!exists(u)
    BY <2>1, <2>2, <2>4 DEF Rev!exists, ReviewInv, Rev!TypeOK
  <2> QED BY <1>1, <2>3, <2>5, ReviewIdle, ReviewSame
<1>5. CASE Rev!deleteTarget(r)
  <2>1. t \in Rev!Targets
    BY <1>2, <1>5 DEF Rev!deleteTarget, ReviewInv, ReviewLocalOK
  <2>2. rating' = [rating EXCEPT ![t] = None] /\ stale' = stale
    BY <1>2, <1>5 DEF Rev!deleteTarget
  <2>3. rating' \in [Rev!Targets -> Rev!Averages \cup {None}] /\ stale' \subseteq Rev!Targets
    BY <2>1, <2>2 DEF ReviewInv, Rev!TypeOK
  <2> QED BY <1>1, <1>5, <2>3, ReviewIdle, ReviewSame
<1>6. CASE Rev!RequestFail(r)
  <2>1. rating' = rating /\ stale' = stale \cup
            (IF req[r].pc \in {"rating:read", "rating:write"} THEN {req[r].target} ELSE {})
    BY <1>6 DEF Rev!RequestFail
  <2>2. req[r].pc \in {"rating:read", "rating:write"} => req[r].target \in Rev!Targets
    BY DEF ReviewInv, ReviewLocalOK
  <2>3. rating' \in [Rev!Targets -> Rev!Averages \cup {None}] /\ stale' \subseteq Rev!Targets
    BY <2>1, <2>2 DEF ReviewInv, Rev!TypeOK
  <2>4. \A u \in Rev!Targets : Rev!exists(u)' <=> Rev!exists(u)
    BY <2>1 DEF Rev!exists
  <2> QED BY <1>1, <2>3, <2>4, ReviewIdle, ReviewSame
<1> QED BY <1>4, <1>5, <1>6

\* The read of the average.
LEMMA ReviewReads ==
    ASSUME Rev!ReviewAssumption, ReviewInv, NEW r \in Requests, Rev!RecalculateRead(r)
    PROVE  /\ ReviewInv' /\ UNCHANGED <<reviews, rating>>
           /\ \E l : /\ req' = [req EXCEPT ![r] = l] /\ l.pc = "rating:write"
                     /\ l.target = req[r].target /\ l.value = due(l.target)
                     /\ stale' = stale \ {l.target}
<1>1. PICK t : t = req[r].target
  OBVIOUS
<1>2. t \in Rev!Targets /\ req[r].pc = "rating:read"
  BY <1>1 DEF Rev!RecalculateRead, ReviewInv, ReviewLocalOK
<1>3. PICK n : n = due(t)
  OBVIOUS
<1>4. n \in Rev!Averages
  BY <1>2, <1>3, AverageType
<1>5. PICK l : l = [req[r] EXCEPT !.pc = "rating:write", !.value = n]
  OBVIOUS
<1>6. l \in Rev!Local /\ ReviewLocalOK(l) /\ l.pc = "rating:write" /\ l.target = t /\ l.value = n
  BY <1>1, <1>2, <1>4, <1>5 DEF ReviewInv, Rev!TypeOK, Rev!Local, ReviewLocalOK
<1>7. req' = [req EXCEPT ![r] = l] /\ UNCHANGED <<reviews, rating>> /\ stale' = stale \ {t}
  BY <1>1, <1>3, <1>5 DEF Rev!RecalculateRead, due
<1>8. ReviewInv'
  BY <1>6, <1>7, ReviewSame DEF ReviewInv, Rev!TypeOK
<1> QED BY <1>1, <1>3, <1>6, <1>7, <1>8

LEMMA ReviewNext == Rev!ReviewAssumption /\ ReviewInv /\ [Rev!Next]_Rev!vars => ReviewInv'
<1> SUFFICES ASSUME Rev!ReviewAssumption, ReviewInv, [Rev!Next]_Rev!vars PROVE ReviewInv'
  OBVIOUS
<1>1. ASSUME NEW r \in Requests, Rev!CreateFindExisting(r) PROVE ReviewInv'
  <2>1. PICK l : l = [req[r] EXCEPT !.pc = "create:save"]
    OBVIOUS
  <2>2. req' = [req EXCEPT ![r] = l] /\ l \in Rev!Local /\ ReviewLocalOK(l)
    BY <1>1, <2>1
    DEF Rev!CreateFindExisting, Rev!goto, ReviewInv, Rev!TypeOK, Rev!Local, ReviewLocalOK
  <2> QED BY <1>1, <2>2, ReviewSame DEF Rev!CreateFindExisting, ReviewInv, Rev!TypeOK
<1>2. ASSUME NEW r \in Requests, Rev!DeleteDelete(r) PROVE ReviewInv'
  <2>1. PICK l : l = [req[r] EXCEPT !.pc = "rating:read"]
    OBVIOUS
  <2>2. req' = [req EXCEPT ![r] = l] /\ l \in Rev!Local /\ ReviewLocalOK(l)
    BY <1>2, <2>1
    DEF Rev!DeleteDelete, Rev!goto, ReviewInv, Rev!TypeOK, Rev!Local, ReviewLocalOK
  <2> QED BY <1>2, <2>2, ReviewsDeleted, ReviewStep DEF Rev!DeleteDelete, ReviewInv, Rev!TypeOK
<1>3. ASSUME NEW r \in Requests, Rev!deleteManyByReferences(r) PROVE ReviewInv'
  <2>1. PICK l : l = [req[r] EXCEPT !.pc = "cascade:target"]
    OBVIOUS
  <2>2. req' = [req EXCEPT ![r] = l] /\ l \in Rev!Local /\ ReviewLocalOK(l)
    BY <1>3, <2>1
    DEF Rev!deleteManyByReferences, Rev!goto, ReviewInv, Rev!TypeOK, Rev!Local, ReviewLocalOK
  <2>3. req[r].target \in Rev!Targets
    BY <1>3 DEF Rev!deleteManyByReferences, ReviewInv, ReviewLocalOK
  <2>4. stale' \subseteq Rev!Targets /\ rating' \in [Rev!Targets -> Rev!Averages \cup {None}]
    BY <1>3, <2>3 DEF Rev!deleteManyByReferences, ReviewInv, Rev!TypeOK
  <2>5. reviews' \in [ReviewIds -> Rev!Reviews] /\ ReviewsApart'
    BY <1>3, ReviewsDeleted DEF Rev!deleteManyByReferences
  <2> QED BY <2>2, <2>4, <2>5, ReviewStep
<1>4. ASSUME NEW r \in Requests,
             Rev!CreateCheckTarget(r) \/ Rev!UpdateFind(r) \/ Rev!DeleteFind(r)
                 \/ Rev!EditFind(r) \/ Rev!CascadeFind(r)
      PROVE  ReviewInv'
  BY <1>4, ReviewFinds, ReviewSame DEF ReviewInv, Rev!TypeOK
<1>5. CASE UNCHANGED Rev!vars
  BY <1>5 DEF Rev!vars, ReviewInv, Rev!TypeOK, ReviewLocalOK, ReviewsApart
<1> QED BY <1>1, <1>2, <1>3, <1>4, <1>5, ReviewSaves, ReviewUpdates, ReviewModerated,
           ReviewEnds, ReviewReads DEF Rev!Next, Rev!Step

\* Reviews, averages and requests keep their types: an average is never out of 0 to 50
\* tenths (ReviewRatingUpdater:23-47).
THEOREM ReviewTypes == ASSUME Rev!ReviewAssumption PROVE Rev!Spec => []Rev!TypeOK
<1>1. Rev!Init => ReviewInv
  BY ReviewInit DEF ReviewAloneInv
<1>2. ReviewInv => Rev!TypeOK
  BY DEF ReviewInv
<1> QED BY <1>1, <1>2, ReviewNext, PTL DEF Rev!Spec

\* However many requests overlap, an author has one review of a target, those taken
\* out of view included (Review.schema.ts:63-66).
THEOREM OneReviewEach == ASSUME Rev!ReviewAssumption PROVE Rev!Spec => []Rev!UniqueReview
<1>1. Rev!Init => ReviewInv
  BY ReviewInit DEF ReviewAloneInv
<1>2. ReviewInv => Rev!UniqueReview
  <2> SUFFICES ASSUME ReviewInv, NEW a \in Authors, NEW t \in Rev!Targets
               PROVE  Cardinality(Rev!findByAuthorAndReference(a, t)) <= 1
    BY ReviewSets DEF Rev!UniqueReview
  <2>1. CASE Rev!findByAuthorAndReference(a, t) = {}
    BY <2>1, FS_EmptySet
  <2>2. CASE Rev!findByAuthorAndReference(a, t) # {}
    <3>1. PICK v : v \in Rev!findByAuthorAndReference(a, t)
      BY <2>2
    <3>2. Rev!findByAuthorAndReference(a, t) = {v}
      BY <3>1 DEF Rev!findByAuthorAndReference, ReviewInv, ReviewsApart, Rev!ReviewAssumption
    <3>3. Cardinality({v}) = 1
      BY FS_Singleton
    <3> QED BY <3>2, <3>3
  <2> QED BY <2>1, <2>2
<1> QED BY <1>1, <1>2, ReviewNext, PTL DEF Rev!Spec

-----------------------------------------------------------------------------
(* The average, and no review of what is gone, one request at a time       *)

\* A step that leaves the reviews and what is stored of the targets as they are.
LEMMA ReviewAloneSame ==
    ASSUME Rev!ReviewAssumption, ReviewAloneInv, ReviewInv', NEW r, Requests = {r},
           NEW l, req' = [req EXCEPT ![r] = l], UNCHANGED <<reviews, rating>>,
           ReviewAloneOK(l)',
           \A t \in Rev!Targets \ stale' : t \notin stale \/ recalculating(l, t),
           \A t \in Rev!Targets \ stale' : recalculating(req[r], t) => recalculating(l, t)
    PROVE  ReviewAloneInv'
<1>1. r \in Requests /\ req'[r] = l
  BY DEF ReviewAloneInv, ReviewInv, Rev!TypeOK
<1>2. Rev!NoOrphanReview'
  BY DEF ReviewAloneInv, Rev!NoOrphanReview, Rev!stored, Rev!exists
<1>3. \A q \in Requests : ReviewAloneOK(req[q])'
  BY <1>1 DEF ReviewAloneOK
<1>4. RatingsUpToDate'
  <2> SUFFICES ASSUME NEW t \in Rev!Targets \ stale', Rev!exists(t)', ~recalculating(l, t)
               PROVE  rating'[t] = due(t)'
    BY <1>1 DEF RatingsUpToDate
  <2>1. t \notin stale /\ ~recalculating(req[r], t) /\ Rev!exists(t)
    BY DEF Rev!exists
  <2>2. rating[t] = due(t)
    BY <2>1 DEF ReviewAloneInv, RatingsUpToDate
  <2> QED BY <2>2, SameReviews
<1> QED BY <1>2, <1>3, <1>4 DEF ReviewAloneInv

\* A step that changes reviews of the target of the request only.
LEMMA ReviewAloneChanges ==
    ASSUME Rev!ReviewAssumption, ReviewAloneInv, ReviewInv', NEW r, Requests = {r},
           NEW l, req' = [req EXCEPT ![r] = l], UNCHANGED rating, stale \subseteq stale',
           ReviewAloneOK(l)', Rev!NoOrphanReview',
           \A v \in ReviewIds : \/ reviews'[v] = reviews[v]
                                \/ /\ reviews[v].target \in {None, l.target}
                                   /\ reviews'[v].target \in {None, l.target},
           \A t \in Rev!Targets \ stale' : t = l.target
               \/ recalculating(req[r], t) => recalculating(l, t)
    PROVE  ReviewAloneInv'
<1>1. r \in Requests /\ req'[r] = l
  BY DEF ReviewAloneInv, ReviewInv, Rev!TypeOK
<1>2. \A q \in Requests : ReviewAloneOK(req[q])'
  BY <1>1 DEF ReviewAloneOK
<1>3. RatingsUpToDate'
  <2> SUFFICES ASSUME NEW t \in Rev!Targets \ stale', Rev!exists(t)', ~recalculating(l, t)
               PROVE  rating'[t] = due(t)'
    BY <1>1 DEF RatingsUpToDate
  <2>1. t \notin stale /\ ~recalculating(req[r], t) /\ Rev!exists(t) /\ t # l.target /\ t # None
    BY DEF Rev!exists, Rev!ReviewAssumption, Rev!Targets
  <2>2. rating[t] = due(t)
    BY <2>1 DEF ReviewAloneInv, RatingsUpToDate
  <2>3. \A v \in ReviewIds : /\ reviews'[v].target = t <=> reviews[v].target = t
                             /\ reviews[v].target = t => reviews'[v] = reviews[v]
    BY <2>1
  <2>4. due(t)' = due(t)
    BY <2>3, SameAverage
  <2> QED BY <2>2, <2>4
<1> QED BY <1>2, <1>3 DEF ReviewAloneInv

\* With one request at a time: the steps that find something out, or do nothing.
LEMMA ReviewAloneFinds ==
    ASSUME Rev!ReviewAssumption, ReviewAloneInv, ReviewInv', NEW r, Requests = {r},
           \/ Rev!CreateCheckTarget(r) \/ Rev!UpdateFind(r) \/ Rev!DeleteFind(r) \/ Rev!EditFind(r) \/ Rev!CascadeFind(r)
           \/ Rev!CreateFindExisting(r)
    PROVE  ReviewAloneInv'
<1>0. r \in Requests
  OBVIOUS
<1>1. CASE Rev!CreateFindExisting(r)
  <2>1. PICK l : l = [req[r] EXCEPT !.pc = "create:save"]
    OBVIOUS
  <2>2. req' = [req EXCEPT ![r] = l] /\ l.pc = "create:save" /\ l.target = req[r].target
        /\ req[r].pc = "create:existing" /\ UNCHANGED <<reviews, rating, stale>>
    BY <1>0, <1>1, <2>1
    DEF Rev!CreateFindExisting, Rev!goto, ReviewAloneInv, ReviewInv, Rev!TypeOK, Rev!Local
  <2>3. Rev!exists(l.target)
    BY <1>0, <2>2 DEF ReviewAloneInv, ReviewAloneOK
  <2>4. ReviewAloneOK(l)'
    BY <2>2, <2>3 DEF ReviewAloneOK, Rev!exists
  <2> QED BY <2>2, <2>4, ReviewAloneSame DEF recalculating
<1>2. CASE Rev!CreateCheckTarget(r) \/ Rev!UpdateFind(r) \/ Rev!DeleteFind(r)
    \/ Rev!EditFind(r) \/ Rev!CascadeFind(r)
  <2>1. UNCHANGED <<reviews, rating, stale>> /\ req[r] = Rev!Idle
    BY <1>0, <1>2, ReviewFinds DEF ReviewAloneInv
  <2>2. PICK l \in Rev!Local :
                /\ ReviewLocalOK(l) /\ req' = [req EXCEPT ![r] = l]
                /\ l.pc \in {"create:existing", "update:write", "delete:delete", "edit:write",
                             "cascade:reviews"}
                /\ l.pc \notin {"update:write", "delete:delete"} => Rev!exists(l.target)
                /\ l.pc \in {"update:write", "delete:delete"} =>
                        Rev!stored(l.id) /\ reviews[l.id].target = l.target
                /\ l.pc = "edit:write" => l.value = rating[l.target]
    BY <1>0, <1>2, ReviewFinds DEF ReviewAloneInv
  <2>3. Rev!exists(l.target)
    BY <2>2 DEF ReviewAloneInv, Rev!NoOrphanReview, ReviewLocalOK
  <2>4. ReviewAloneOK(l)'
    BY <2>1, <2>2, <2>3 DEF ReviewAloneOK, Rev!exists, Rev!stored
  <2>5. req[r].pc = "idle"
    BY <2>1 DEF Rev!Idle
  <2> QED BY <2>1, <2>2, <2>4, <2>5, ReviewAloneSame DEF recalculating
<1> QED BY <1>1, <1>2

\* The save of a review whose target, with nothing else under way, is still there.
LEMMA ReviewAloneSaves ==
    ASSUME Rev!ReviewAssumption, ReviewAloneInv, ReviewInv', NEW r, Requests = {r},
           Rev!CreateSave(r)
    PROVE  ReviewAloneInv'
<1>0. r \in Requests
  OBVIOUS
<1>1. PICK v \in ReviewIds : Rev!save(v, req[r].author, req[r].target, req[r].value)
  BY DEF Rev!CreateSave
<1>2. PICK a, t, n : a = req[r].author /\ t = req[r].target /\ n = req[r].value
  OBVIOUS
<1>3. req[r].pc = "create:save" /\ Rev!exists(t) /\ t \in Rev!Targets
  BY <1>0, <1>2 DEF Rev!CreateSave, ReviewAloneInv, ReviewAloneOK, ReviewInv, ReviewLocalOK
<1>4. PICK l : l = [req[r] EXCEPT !.pc = "rating:read"]
  OBVIOUS
<1>5. req' = [req EXCEPT ![r] = l] /\ l.pc = "rating:read" /\ l.target = t
      /\ UNCHANGED <<rating, stale>>
  BY <1>0, <1>2, <1>4
  DEF Rev!CreateSave, Rev!goto, ReviewAloneInv, ReviewInv, Rev!TypeOK, Rev!Local
<1>6. PICK d : d = Rev!create(a, t, n)
  OBVIOUS
<1>7. d.target = t
  BY <1>6 DEF Rev!create
<1>8. reviews[v] = Rev!Absent /\ reviews' = [reviews EXCEPT ![v] = d]
  BY <1>1, <1>2, <1>6 DEF Rev!save
<1>9. reviews'[v] = d /\ (\A w \in ReviewIds : w # v => reviews'[w] = reviews[w])
      /\ reviews[v].target = None
  BY <1>8 DEF ReviewAloneInv, ReviewInv, Rev!TypeOK, Rev!Absent
<1>10. Rev!NoOrphanReview'
  BY <1>3, <1>5, <1>7, <1>9 DEF ReviewAloneInv, Rev!NoOrphanReview, Rev!stored, Rev!exists
<1>11. ReviewAloneOK(l)'
  BY <1>3, <1>5 DEF ReviewAloneOK, Rev!exists
<1> QED BY <1>3, <1>5, <1>7, <1>9, <1>10, <1>11, ReviewAloneChanges DEF recalculating

LEMMA ReviewAloneUpdates ==
    ASSUME Rev!ReviewAssumption, ReviewAloneInv, ReviewInv', NEW r, Requests = {r},
           Rev!UpdateWrite(r)
    PROVE  ReviewAloneInv'
<1>0. r \in Requests
  OBVIOUS
<1>1. PICK v, t : v = req[r].id /\ t = req[r].target
  OBVIOUS
<1>2. /\ req[r].pc = "update:write" /\ Rev!exists(t) /\ t \in Rev!Targets /\ v \in ReviewIds
      /\ Rev!stored(v) /\ reviews[v].target = t
  BY <1>0, <1>1 DEF Rev!UpdateWrite, ReviewAloneInv, ReviewAloneOK, ReviewInv, ReviewLocalOK
<1>3. PICK l : l = [req[r] EXCEPT !.pc = "rating:read"]
  OBVIOUS
<1>4. req' = [req EXCEPT ![r] = l] /\ l.pc = "rating:read" /\ l.target = t
      /\ UNCHANGED <<rating, stale>>
  BY <1>0, <1>1, <1>3
  DEF Rev!UpdateWrite, Rev!goto, ReviewAloneInv, ReviewInv, Rev!TypeOK, Rev!Local
<1>5. /\ reviews'[v].target = reviews[v].target
      /\ \A w \in ReviewIds \ {v} : reviews'[w] = reviews[w]
      /\ \A w \in ReviewIds : Rev!stored(w)' <=> Rev!stored(w)
  BY <1>0, <1>1, <1>2, ReviewUpdates DEF ReviewAloneInv
<1>6. \A w \in ReviewIds : reviews'[w].target = reviews[w].target
  BY <1>5
<1>7. Rev!NoOrphanReview'
  BY <1>4, <1>5, <1>6 DEF ReviewAloneInv, Rev!NoOrphanReview, Rev!exists
<1>8. ReviewAloneOK(l)'
  BY <1>2, <1>4 DEF ReviewAloneOK, Rev!exists
<1>9. \A w \in ReviewIds : \/ reviews'[w] = reviews[w]
                           \/ reviews[w].target = t /\ reviews'[w].target = t
  BY <1>2, <1>5
<1> QED BY <1>2, <1>4, <1>7, <1>8, <1>9, ReviewAloneChanges DEF recalculating

LEMMA ReviewAloneDeletes ==
    ASSUME Rev!ReviewAssumption, ReviewAloneInv, ReviewInv', NEW r, Requests = {r},
           Rev!DeleteDelete(r) \/ Rev!deleteManyByReferences(r)
    PROVE  ReviewAloneInv'
<1>0. r \in Requests
  OBVIOUS
<1>1. PICK t : t = req[r].target
  OBVIOUS
<1>2. ASSUME NEW D, Rev!deleteAll(D)
      PROVE  Rev!NoOrphanReview' \/ rating' # rating
  <2>1. \A w \in ReviewIds : Rev!stored(w)' => Rev!stored(w) /\ reviews'[w] = reviews[w]
    BY <1>2, ReviewsDeleted DEF ReviewAloneInv
  <2> QED BY <2>1 DEF ReviewAloneInv, Rev!NoOrphanReview, Rev!exists
<1>3. CASE Rev!DeleteDelete(r)
  <2>1. PICK v : v = req[r].id
    OBVIOUS
  <2>2. /\ req[r].pc = "delete:delete" /\ Rev!exists(t) /\ t \in Rev!Targets /\ v \in ReviewIds
        /\ reviews[v].target = t
    BY <1>0, <1>1, <1>3, <2>1
    DEF Rev!DeleteDelete, ReviewAloneInv, ReviewAloneOK, ReviewInv, ReviewLocalOK
  <2>3. PICK l : l = [req[r] EXCEPT !.pc = "rating:read"]
    OBVIOUS
  <2>4. req' = [req EXCEPT ![r] = l] /\ l.pc = "rating:read" /\ l.target = t
        /\ UNCHANGED <<rating, stale>> /\ Rev!deleteAll({v})
    BY <1>0, <1>1, <1>3, <2>1, <2>3
       DEF Rev!DeleteDelete, Rev!goto, ReviewAloneInv, ReviewInv, Rev!TypeOK, Rev!Local
  <2>5. \A w \in ReviewIds : \/ reviews'[w] = reviews[w]
                             \/ reviews[w].target = t /\ reviews'[w].target = None
    BY <2>2, <2>4, ReviewsDeleted DEF ReviewAloneInv
  <2>6. ReviewAloneOK(l)'
    BY <2>2, <2>4 DEF ReviewAloneOK, Rev!exists
  <2> QED BY <1>2, <2>2, <2>4, <2>5, <2>6, ReviewAloneChanges DEF recalculating
<1>4. CASE Rev!deleteManyByReferences(r)
  <2>1. req[r].pc = "cascade:reviews" /\ Rev!exists(t) /\ t \in Rev!Targets
    BY <1>0, <1>1, <1>4
    DEF Rev!deleteManyByReferences, ReviewAloneInv, ReviewAloneOK, ReviewInv, ReviewLocalOK
  <2>2. PICK D : D = {v \in ReviewIds : reviews[v].target = t}
    OBVIOUS
  <2>3. PICK l : l = [req[r] EXCEPT !.pc = "cascade:target"]
    OBVIOUS
  <2>4. req' = [req EXCEPT ![r] = l] /\ l.pc = "cascade:target" /\ l.target = t
        /\ rating' = rating /\ stale' = stale \cup {t} /\ Rev!deleteAll(D)
    BY <1>0, <1>1, <1>4, <2>2, <2>3
       DEF Rev!deleteManyByReferences, Rev!goto, ReviewAloneInv, ReviewInv, Rev!TypeOK,
           Rev!Local
  <2>5. \A w \in ReviewIds : \/ reviews'[w] = reviews[w] /\ reviews[w].target # t
                             \/ reviews[w].target = t /\ reviews'[w].target = None
    BY <2>1, <2>2, <2>4, ReviewsDeleted, StoredReview DEF ReviewAloneInv
  <2>6. t # None
    BY <2>1 DEF Rev!ReviewAssumption, Rev!Targets
  <2>7. ReviewAloneOK(l)'
    BY <2>1, <2>4, <2>5, <2>6 DEF ReviewAloneOK, Rev!exists
  <2> QED BY <1>2, <2>1, <2>4, <2>5, <2>7, ReviewAloneChanges DEF recalculating
<1> QED BY <1>3, <1>4

LEMMA ReviewAloneReads ==
    ASSUME Rev!ReviewAssumption, ReviewAloneInv, ReviewInv', NEW r, Requests = {r},
           Rev!RecalculateRead(r)
    PROVE  ReviewAloneInv'
<1>0. r \in Requests
  OBVIOUS
<1>1. PICK l : /\ req' = [req EXCEPT ![r] = l] /\ l.pc = "rating:write"
               /\ l.target = req[r].target /\ l.value = due(l.target)
               /\ stale' = stale \ {l.target}
  BY <1>0, ReviewReads DEF ReviewAloneInv
<1>2. UNCHANGED <<reviews, rating>>
  BY <1>0, ReviewReads DEF ReviewAloneInv
<1>3. Rev!exists(l.target) /\ req[r].pc = "rating:read"
  BY <1>0, <1>1 DEF Rev!RecalculateRead, ReviewAloneInv, ReviewAloneOK
<1>4. PICK t : t = l.target
  OBVIOUS
<1>5. l.value = due(t)'
  BY <1>1, <1>2, <1>4, SameReviews
<1>6. ReviewAloneOK(l)'
  BY <1>1, <1>2, <1>3, <1>4, <1>5 DEF ReviewAloneOK, Rev!exists
<1> QED BY <1>1, <1>2, <1>3, <1>6, ReviewAloneSame DEF recalculating

\* The steps that end a request.
LEMMA ReviewAloneEnds ==
    ASSUME Rev!ReviewAssumption, ReviewAloneInv, ReviewInv', NEW r, Requests = {r},
           Rev!RecalculateWrite(r) \/ Rev!EditWrite(r) \/ Rev!deleteTarget(r)
               \/ Rev!RequestFail(r)
    PROVE  ReviewAloneInv'
<1>0. r \in Requests /\ req' = [req EXCEPT ![r] = Rev!Idle] /\ UNCHANGED reviews /\ req'[r] = Rev!Idle
  <2>1. r \in Requests
    OBVIOUS
  <2> QED BY <2>1, ReviewEnds DEF ReviewAloneInv, ReviewInv, Rev!TypeOK
<1>1. \A q \in Requests : ReviewAloneOK(req[q])'
  BY <1>0, ReviewIdle DEF ReviewAloneOK
<1>2. PICK t, n : t = req[r].target /\ n = req[r].value
  OBVIOUS
<1>3. Rev!NoOrphanReview'
  <2>1. CASE ~Rev!deleteTarget(r)
    <3>1. \A u \in Rev!Targets : Rev!exists(u)' <=> Rev!exists(u)
      BY <1>0, <2>1, ReviewEnds DEF ReviewAloneInv
    <3> QED BY <1>0, <3>1, StoredReview DEF ReviewAloneInv, Rev!NoOrphanReview, Rev!stored
  <2>2. CASE Rev!deleteTarget(r)
    <3>1. rating' = [rating EXCEPT ![t] = None] /\ req[r].pc = "cascade:target"
      BY <1>2, <2>2 DEF Rev!deleteTarget
    <3>2. \A v \in ReviewIds : reviews[v].target # t
      BY <1>0, <1>2, <3>1 DEF ReviewAloneInv, ReviewAloneOK
    <3> QED BY <1>0, <3>1, <3>2, StoredReview
            DEF ReviewAloneInv, Rev!NoOrphanReview, Rev!stored, Rev!exists, ReviewInv,
                Rev!TypeOK
  <2> QED BY <2>1, <2>2
<1>4. ASSUME NEW u \in Rev!Targets \ stale', Rev!exists(u)'
      PROVE  rating'[u] = due(u)
  <2>1. ASSUME u \notin stale, Rev!exists(u), ~recalculating(req[r], u)
        PROVE  rating[u] = due(u)
    BY <2>1 DEF ReviewAloneInv, RatingsUpToDate
  <2>2. CASE Rev!RequestFail(r)
    <3>1. rating' = rating /\ stale' = stale \cup
            (IF req[r].pc \in {"rating:read", "rating:write"} THEN {req[r].target} ELSE {})
      BY <2>2 DEF Rev!RequestFail
    <3>2. u \notin stale /\ Rev!exists(u) /\ ~recalculating(req[r], u)
      BY <1>4, <3>1 DEF Rev!exists, recalculating
    <3> QED BY <2>1, <3>1, <3>2
  <2>3. CASE Rev!deleteTarget(r)
    <3>1. /\ rating' = [rating EXCEPT ![t] = None] /\ stale' = stale
          /\ req[r].pc = "cascade:target"
      BY <1>2, <2>3 DEF Rev!deleteTarget
    <3>2. rating'[u] = rating[u] /\ Rev!exists(u) /\ u \notin stale /\ ~recalculating(req[r], u)
      BY <1>4, <3>1 DEF Rev!exists, recalculating, ReviewAloneInv, ReviewInv, Rev!TypeOK
    <3> QED BY <2>1, <3>2
  <2>4. CASE Rev!EditWrite(r)
    <3>1. /\ rating' = (IF Rev!exists(t) THEN [rating EXCEPT ![t] = n] ELSE rating)
          /\ stale' = stale /\ req[r].pc = "edit:write"
      BY <1>2, <2>4 DEF Rev!EditWrite, Rev!updateRating
    <3>2. n = rating[t]
      BY <1>0, <1>2, <3>1 DEF ReviewAloneInv, ReviewAloneOK
    <3>3. rating'[u] = rating[u] /\ Rev!exists(u) /\ u \notin stale /\ ~recalculating(req[r], u)
      BY <1>4, <3>1, <3>2 DEF Rev!exists, recalculating, ReviewAloneInv, ReviewInv, Rev!TypeOK
    <3> QED BY <2>1, <3>3
  <2>5. CASE Rev!RecalculateWrite(r)
    <3>1. /\ rating' = (IF Rev!exists(t) THEN [rating EXCEPT ![t] = n] ELSE rating)
          /\ stale' = stale /\ req[r].pc = "rating:write"
      BY <1>2, <2>5 DEF Rev!RecalculateWrite, Rev!updateRating
    <3>2. t \notin stale => n = due(t)
      BY <1>0, <1>2, <3>1 DEF ReviewAloneInv, ReviewAloneOK
    <3>3. Rev!exists(t) /\ t \in Rev!Targets
      BY <1>0, <1>2, <3>1 DEF ReviewAloneInv, ReviewAloneOK, ReviewInv, ReviewLocalOK
    <3>4. rating'[t] = n /\ (u # t => rating'[u] = rating[u])
      BY <3>1, <3>3 DEF ReviewAloneInv, ReviewInv, Rev!TypeOK
    <3>5. CASE u = t
      BY <3>1, <3>2, <3>4, <3>5
    <3>6. CASE u # t
      BY <1>2, <1>4, <2>1, <3>1, <3>4, <3>6 DEF Rev!exists, recalculating
    <3> QED BY <3>5, <3>6
  <2> QED BY <2>2, <2>3, <2>4, <2>5
<1>5. RatingsUpToDate'
  BY <1>0, <1>4, SameReviews DEF RatingsUpToDate
<1> QED BY <1>1, <1>3, <1>5 DEF ReviewAloneInv

\* Moderation marks the target whose average it leaves behind.
LEMMA ReviewAloneModerated ==
    ASSUME Rev!ReviewAssumption, ReviewAloneInv, ReviewInv', NEW r, Requests = {r},
           Rev!AdminSoftDelete
    PROVE  ReviewAloneInv'
<1>0. r \in Requests /\ stale \subseteq stale' /\ UNCHANGED <<rating, req>>
  <2>1. r \in Requests
    OBVIOUS
  <2> QED BY <2>1, ReviewModerated DEF ReviewAloneInv
<1>1. PICK v \in ReviewIds :
                /\ Rev!stored(v)
                /\ \A w \in ReviewIds :
                        /\ Rev!stored(w)' <=> Rev!stored(w)
                        /\ reviews'[w].target = reviews[w].target
                        /\ reviews'[w].rating = reviews[w].rating
                        /\ w # v => reviews'[w] = reviews[w]
                /\ reviews[v].target \notin stale' => reviews' = reviews
  BY ReviewModerated DEF ReviewAloneInv
<1>2. Rev!NoOrphanReview'
  BY <1>0, <1>1 DEF ReviewAloneInv, Rev!NoOrphanReview, Rev!exists
<1>3. ASSUME NEW t \in Rev!Targets \ stale' PROVE due(t)' = due(t)
  <2>1. CASE reviews' = reviews
    BY <2>1, SameReviews
  <2>2. CASE reviews[v].target # t
    <3>1. \A w \in ReviewIds : /\ reviews'[w].target = t <=> reviews[w].target = t
                               /\ reviews[w].target = t => reviews'[w] = reviews[w]
      BY <1>1, <2>2
    <3> QED BY <3>1, SameAverage
  <2> QED BY <1>1, <2>1, <2>2
<1>4. RatingsUpToDate'
  BY <1>0, <1>3 DEF ReviewAloneInv, RatingsUpToDate, Rev!exists
<1>5. PICK l : l = req[r]
  OBVIOUS
<1>6. ReviewAloneOK(l) /\ ReviewLocalOK(l)
  BY <1>0, <1>5 DEF ReviewAloneInv, ReviewInv
<1>7. ReviewAloneOK(l)'
  <2>1. l.pc \in {"update:write", "delete:delete"} =>
            (Rev!stored(l.id) /\ reviews[l.id].target = l.target)'
    BY <1>1, <1>6 DEF ReviewAloneOK, ReviewLocalOK
  <2>2. PICK t : t = l.target
    OBVIOUS
  <2>3. l.pc = "rating:write" /\ t \notin stale' => l.value = due(t)'
    BY <1>0, <1>3, <1>6, <2>2 DEF ReviewAloneOK, ReviewLocalOK
  <2>4. l.pc = "cascade:target" => \A w \in ReviewIds : reviews'[w].target # l.target
    BY <1>1, <1>6 DEF ReviewAloneOK
  <2> QED BY <1>0, <1>6, <2>1, <2>2, <2>3, <2>4 DEF ReviewAloneOK, Rev!exists
<1>8. \A q \in Requests : ReviewAloneOK(req[q])'
  BY <1>0, <1>5, <1>7 DEF ReviewAloneOK
<1> QED BY <1>2, <1>4, <1>8 DEF ReviewAloneInv

LEMMA ReviewAloneNext ==
    ASSUME Rev!ReviewAssumption, NEW r, Requests = {r}
    PROVE  ReviewAloneInv /\ [Rev!Next]_Rev!vars => ReviewAloneInv'
<1> SUFFICES ASSUME ReviewAloneInv, [Rev!Next]_Rev!vars PROVE ReviewAloneInv'
  OBVIOUS
<1>1. ReviewInv'
  BY ReviewNext DEF ReviewAloneInv
<1>2. CASE UNCHANGED Rev!vars
  <2>1. Rev!NoOrphanReview'
    BY <1>2 DEF Rev!vars, ReviewAloneInv, Rev!NoOrphanReview, Rev!stored, Rev!exists
  <2>2. RatingsUpToDate'
    BY <1>2, SameReviews DEF Rev!vars, ReviewAloneInv, RatingsUpToDate, Rev!exists
  <2>3. PICK l : l = req[r]
    OBVIOUS
  <2>4. ReviewAloneOK(l) /\ req'[r] = l
    BY <1>2, <2>3 DEF Rev!vars, ReviewAloneInv
  <2>5. ReviewAloneOK(l)'
    BY <1>2, <2>4, SameReviews DEF Rev!vars, ReviewAloneOK, Rev!stored, Rev!exists
  <2>6. \A q \in Requests : ReviewAloneOK(req[q])'
    BY <2>4, <2>5 DEF ReviewAloneOK
  <2> QED BY <1>1, <2>1, <2>2, <2>6 DEF ReviewAloneInv
<1>3. CASE Rev!AdminSoftDelete
  BY <1>1, <1>3, ReviewAloneModerated
<1>4. CASE Rev!Step(r)
  BY <1>1, <1>4, ReviewAloneFinds, ReviewAloneSaves, ReviewAloneUpdates, ReviewAloneDeletes,
     ReviewAloneReads, ReviewAloneEnds DEF Rev!Step
<1> QED BY <1>2, <1>3, <1>4 DEF Rev!Next

\* One request at a time, a target shows the rounded average of the reviews in view,
\* unless they were moderated or a request was interrupted since it was calculated
\* (ReviewRatingUpdater:23-47).
THEOREM AveragesAreExact ==
    ASSUME Rev!ReviewAssumption, NEW r, Requests = {r}
    PROVE  Rev!Spec => []Rev!RatingExact
<1>1. ReviewAloneInv => Rev!RatingExact
  <2> SUFFICES ASSUME ReviewAloneInv, NEW t \in Rev!Targets \ stale, Rev!exists(t),
                      \A q \in Requests : req[q].target # t
               PROVE  rating[t] = due(t)
    BY DEF Rev!RatingExact, due
  <2> QED BY DEF ReviewAloneInv, RatingsUpToDate, recalculating
<1> QED BY <1>1, ReviewInit, ReviewAloneNext, PTL DEF Rev!Spec

\* One request at a time, no review outlives what it is about, nor does one appear for
\* a target that is gone (CreateReview:33-39, CascadeDelete:82-103).
THEOREM NoReviewOutlivesItsTarget ==
    ASSUME Rev!ReviewAssumption, NEW r, Requests = {r}
    PROVE  Rev!Spec => []Rev!NoOrphanReview
<1>1. ReviewAloneInv => Rev!NoOrphanReview
  BY DEF ReviewAloneInv
<1> QED BY <1>1, ReviewInit, ReviewAloneNext, PTL DEF Rev!Spec
-----------------------------------------------------------------------------
(* ANNOUNCEMENTS                                                           *)

\* What a handler of announcements relies on when it resumes.
AnnouncementLocalOK(l) ==
    /\ l.pc = "create:write" => l.slug \in Slugs
    /\ l.pc \in {"update:slug", "update:write"} =>
        l.id \in AnnouncementIds /\ l.next # Ann!Absent

\* The index keeps the slugs of all rows apart, soft-deleted ones included.
SlugsApart ==
    \A a, b \in AnnouncementIds :
        announcements[a].slug = announcements[b].slug /\ announcements[a].slug # None => a = b

AnnouncementInv ==
    Ann!TypeOK /\ (\A r \in Requests : AnnouncementLocalOK(req[r])) /\ SlugsApart

LEMMA AnnouncementInit == Ann!Init => AnnouncementInv
BY DEF Ann!Init, AnnouncementInv, Ann!TypeOK, AnnouncementLocalOK, SlugsApart,
   Ann!Announcements, Ann!Local,
       Ann!Idle, Ann!Absent

\* A step that sets the locals of one request and leaves the table alone.
LEMMA AnnouncementRead ==
    ASSUME AnnouncementInv, NEW r \in Requests, NEW l \in Ann!Local, AnnouncementLocalOK(l),
           req' = [req EXCEPT ![r] = l], UNCHANGED announcements
    PROVE  AnnouncementInv'
BY DEF AnnouncementInv, Ann!TypeOK, AnnouncementLocalOK, SlugsApart

\* A step that writes one row whose slug no other row has.
LEMMA AnnouncementWrite ==
    ASSUME AnnouncementInv, NEW r \in Requests, Ann!finish(r), NEW a \in AnnouncementIds,
           NEW next \in Ann!Announcements, Ann!slugFree(next.slug, a),
           announcements' = [announcements EXCEPT ![a] = next]
    PROVE  AnnouncementInv'
<1>1. Ann!TypeOK'
  BY DEF AnnouncementInv, Ann!TypeOK, Ann!finish, Ann!Local, Ann!Idle, Ann!Announcements
<1>2. \A q \in Requests : AnnouncementLocalOK(req[q])'
  BY DEF AnnouncementInv, Ann!TypeOK, Ann!finish, AnnouncementLocalOK, Ann!Idle
<1>3. SlugsApart'
  BY DEF AnnouncementInv, Ann!TypeOK, SlugsApart, Ann!slugFree
<1> QED BY <1>1, <1>2, <1>3 DEF AnnouncementInv

\* What is read of a row to be changed is a row, and what is written one as well.
LEMMA AnnouncementChanges ==
    ASSUME Ann!AnnouncementAssumption, AnnouncementInv, NEW a \in AnnouncementIds, Ann!stored(a)
    PROVE  /\ Ann!publish(announcements[a]) \in Ann!Announcements \ {Ann!Absent}
           /\ Ann!archive(announcements[a]) \in Ann!Announcements \ {Ann!Absent}
           /\ Ann!softDelete(announcements[a]) \in Ann!Announcements \ {Ann!Absent}
           /\ \A slug \in Slugs :
                Ann!withUpdates(announcements[a], slug) \in Ann!Announcements \ {Ann!Absent}
<1>1. announcements[a] \in [slug : Slugs, status : {"draft", "published", "archived"},
                            deleted : BOOLEAN]
  BY DEF AnnouncementInv, Ann!TypeOK, Ann!Announcements, Ann!stored
<1> QED BY <1>1
        DEF Ann!publish, Ann!archive, Ann!softDelete, Ann!withUpdates, Ann!Announcements,
            Ann!Absent

LEMMA AnnouncementFind ==
    ASSUME Ann!AnnouncementAssumption, AnnouncementInv, NEW r \in Requests, req[r] = Ann!Idle,
           NEW a \in AnnouncementIds, NEW pc \in {"update:slug", "update:write"},
           NEW next \in Ann!Announcements, next # Ann!Absent,
           req' = [req EXCEPT ![r] = [Ann!Idle EXCEPT !.pc = pc, !.id = a, !.next = next]],
           UNCHANGED announcements
    PROVE  AnnouncementInv'
<1>1. PICK l : l = [Ann!Idle EXCEPT !.pc = pc, !.id = a, !.next = next]
  OBVIOUS
<1>2. l \in Ann!Local /\ AnnouncementLocalOK(l)
  BY <1>1 DEF Ann!Idle, Ann!Local, AnnouncementLocalOK
<1> QED BY <1>1, <1>2, AnnouncementRead

LEMMA AnnouncementNext ==
    Ann!AnnouncementAssumption /\ AnnouncementInv /\ [Ann!Next]_Ann!vars => AnnouncementInv'
<1> SUFFICES ASSUME Ann!AnnouncementAssumption, AnnouncementInv, [Ann!Next]_Ann!vars
             PROVE  AnnouncementInv'
  OBVIOUS
<1>1. ASSUME NEW r \in Requests, Ann!CreateFindBySlug(r) PROVE AnnouncementInv'
  <2>1. PICK slug \in Slugs :
            req' = [req EXCEPT ![r] = [Ann!Idle EXCEPT !.pc = "create:write", !.slug = slug]]
    BY <1>1 DEF Ann!CreateFindBySlug
  <2>2. PICK l : l = [Ann!Idle EXCEPT !.pc = "create:write", !.slug = slug]
    OBVIOUS
  <2>3. l \in Ann!Local /\ AnnouncementLocalOK(l)
    BY <2>2 DEF Ann!Idle, Ann!Local, AnnouncementLocalOK, Ann!Announcements
  <2> QED BY <1>1, <2>1, <2>2, <2>3, AnnouncementRead DEF Ann!CreateFindBySlug
<1>2. ASSUME NEW r \in Requests, Ann!create(r) PROVE AnnouncementInv'
  <2>1. req[r].slug \in Slugs
    BY <1>2 DEF Ann!create, AnnouncementInv, AnnouncementLocalOK
  <2>2. PICK a \in AnnouncementIds :
            /\ Ann!slugFree(req[r].slug, a)
            /\ announcements' = [announcements EXCEPT ![a] = Ann!createDraft(req[r].slug)]
    BY <1>2 DEF Ann!create
  <2>3. PICK next : next = Ann!createDraft(req[r].slug)
    OBVIOUS
  <2>4. next \in Ann!Announcements /\ next.slug = req[r].slug
    BY <2>1, <2>3 DEF Ann!createDraft, Ann!Announcements
  <2> QED BY <1>2, <2>2, <2>3, <2>4, AnnouncementWrite DEF Ann!create
<1>3. ASSUME NEW r \in Requests,
             Ann!PublishFind(r) \/ Ann!ArchiveFind(r) \/ Ann!SoftDeleteFind(r)
      PROVE  AnnouncementInv'
  <2>1. PICK a \in AnnouncementIds, next \in Ann!Announcements \ {Ann!Absent} :
            req' = [req EXCEPT ![r] = [Ann!Idle EXCEPT !.pc = "update:write", !.id = a,
                                                       !.next = next]]
    BY <1>3, AnnouncementChanges
       DEF Ann!PublishFind, Ann!ArchiveFind, Ann!SoftDeleteFind, Ann!FindToChange, Ann!findById
  <2>2. req[r] = Ann!Idle /\ UNCHANGED announcements
    BY <1>3 DEF Ann!PublishFind, Ann!ArchiveFind, Ann!SoftDeleteFind, Ann!FindToChange
  <2> QED BY <2>1, <2>2, AnnouncementFind
<1>4. ASSUME NEW r \in Requests, Ann!UpdateFind(r) PROVE AnnouncementInv'
  <2>1. PICK a \in AnnouncementIds, slug \in Slugs :
            /\ Ann!stored(a)
            /\ req' = [req EXCEPT ![r] = [Ann!Idle EXCEPT
                        !.pc = IF slug = announcements[a].slug THEN "update:write"
                               ELSE "update:slug",
                        !.id = a, !.next = Ann!withUpdates(announcements[a], slug)]]
    BY <1>4 DEF Ann!UpdateFind, Ann!findById
  <2>2. PICK next : next = Ann!withUpdates(announcements[a], slug)
    OBVIOUS
  <2>3. next \in Ann!Announcements /\ next # Ann!Absent
    BY <2>1, <2>2, AnnouncementChanges
  <2>4. PICK pc : pc = IF slug = announcements[a].slug THEN "update:write" ELSE "update:slug"
    OBVIOUS
  <2>5. req' = [req EXCEPT ![r] = [Ann!Idle EXCEPT !.pc = pc, !.id = a, !.next = next]]
    BY <2>1, <2>2, <2>4
  <2>6. pc \in {"update:slug", "update:write"}
    BY <2>4
  <2>7. req[r] = Ann!Idle /\ UNCHANGED announcements
    BY <1>4 DEF Ann!UpdateFind
  <2> QED BY <2>3, <2>5, <2>6, <2>7, AnnouncementFind
<1>5. ASSUME NEW r \in Requests, Ann!UpdateFindBySlug(r) PROVE AnnouncementInv'
  <2>1. PICK l : l = [req[r] EXCEPT !.pc = "update:write"]
    OBVIOUS
  <2>2. req[r].pc = "update:slug" /\ req' = [req EXCEPT ![r] = l] /\ UNCHANGED announcements
    BY <1>5, <2>1 DEF Ann!UpdateFindBySlug, Ann!goto
  <2>3. l \in Ann!Local /\ AnnouncementLocalOK(l)
    BY <2>1, <2>2 DEF AnnouncementInv, Ann!TypeOK, Ann!Local, AnnouncementLocalOK
  <2> QED BY <2>2, <2>3, AnnouncementRead
<1>6. ASSUME NEW r \in Requests, Ann!update(r) PROVE AnnouncementInv'
  <2>1. req[r].id \in AnnouncementIds /\ req[r].next \in Ann!Announcements
    BY <1>6 DEF Ann!update, AnnouncementInv, AnnouncementLocalOK, Ann!TypeOK, Ann!Local
  <2> QED BY <1>6, <2>1, AnnouncementWrite DEF Ann!update
<1>7. ASSUME NEW r \in Requests, Ann!RequestFail(r) PROVE AnnouncementInv'
  <2>1. Ann!Idle \in Ann!Local /\ AnnouncementLocalOK(Ann!Idle)
    BY DEF Ann!Idle, Ann!Local, AnnouncementLocalOK, Ann!Announcements
  <2> QED BY <1>7, <2>1, AnnouncementRead DEF Ann!RequestFail, Ann!finish
<1>8. CASE UNCHANGED Ann!vars
  BY <1>8 DEF Ann!vars, AnnouncementInv, Ann!TypeOK, AnnouncementLocalOK, SlugsApart
<1> QED BY <1>1, <1>2, <1>3, <1>4, <1>5, <1>6, <1>7, <1>8 DEF Ann!Next, Ann!Step

\* Announcements and requests keep their types: a row that is written back has a slug
\* (UpdateAnnouncement).
THEOREM AnnouncementTypes == ASSUME Ann!AnnouncementAssumption PROVE Ann!Spec => []Ann!TypeOK
<1>1. AnnouncementInv => Ann!TypeOK
  BY DEF AnnouncementInv
<1> QED BY <1>1, AnnouncementInit, AnnouncementNext, PTL DEF Ann!Spec

\* However requests overlap, no two announcements in the administrators' list have one
\* slug (CreateAnnouncement:27-33, UpdateAnnouncement:40-48, schema.prisma:27).
THEOREM OneSlugEach == ASSUME Ann!AnnouncementAssumption PROVE Ann!Spec => []Ann!UniqueSlug
<1>1. AnnouncementInv => Ann!UniqueSlug
  <2> SUFFICES ASSUME AnnouncementInv, NEW a \in Ann!listAdmin, NEW b \in Ann!listAdmin,
                      announcements[a].slug = announcements[b].slug
               PROVE  a = b
    BY DEF Ann!UniqueSlug
  <2>1. a \in AnnouncementIds /\ b \in AnnouncementIds /\ announcements[a].slug # None
    BY DEF Ann!listAdmin, Ann!stored, AnnouncementInv, Ann!TypeOK, Ann!Announcements,
       Ann!AnnouncementAssumption
  <2> QED BY <2>1 DEF AnnouncementInv, SlugsApart
<1> QED BY <1>1, AnnouncementInit, AnnouncementNext, PTL DEF Ann!Spec

\* Served alone, a request changes a row that is still in view.
ChangesInView ==
    \A r \in Requests :
        req[r].pc \in {"update:slug", "update:write"} => ~Ann!isSoftDeleted(req[r].id)

LEMMA ChangesInViewNext ==
    ASSUME Ann!AnnouncementAssumption, NEW r, Requests = {r}, AnnouncementInv, ChangesInView,
           [Ann!Next]_Ann!vars
    PROVE  ChangesInView' /\ Ann!DeletionKept
<1>1. CASE UNCHANGED Ann!vars
  BY <1>1
  DEF Ann!vars, ChangesInView, Ann!DeletionKept, Ann!isSoftDeleted, Ann!listActive,
      Ann!listAdmin, Ann!stored
<1>2. CASE UNCHANGED announcements
  <2>1. Ann!DeletionKept
    BY <1>2 DEF Ann!DeletionKept, Ann!isSoftDeleted, Ann!listActive, Ann!listAdmin, Ann!stored
  <2> r \in Requests
    OBVIOUS
  <2>2. ASSUME Ann!PublishFind(r) \/ Ann!ArchiveFind(r) \/ Ann!SoftDeleteFind(r)
               \/ Ann!UpdateFind(r)
        PROVE  ~announcements[req'[r].id].deleted
    <3>1. PICK a, pc, next :
            /\ ~announcements[a].deleted
            /\ req' = [req EXCEPT ![r] = [Ann!Idle EXCEPT !.pc = pc, !.id = a, !.next = next]]
      BY <2>2
      DEF Ann!PublishFind, Ann!ArchiveFind, Ann!SoftDeleteFind, Ann!UpdateFind,
          Ann!FindToChange,
                  Ann!isSoftDeleted
    <3> QED BY <3>1 DEF AnnouncementInv, Ann!TypeOK, Ann!Idle
  <2>3. ASSUME Ann!CreateFindBySlug(r) \/ Ann!RequestFail(r)
        PROVE  req'[r].pc \notin {"update:slug", "update:write"}
    <3>1. CASE Ann!CreateFindBySlug(r)
      <4>1. PICK slug : req' = [req EXCEPT ![r] = [Ann!Idle EXCEPT !.pc = "create:write",
                                                            !.slug = slug]]
        BY <3>1 DEF Ann!CreateFindBySlug
      <4> QED BY <4>1 DEF AnnouncementInv, Ann!TypeOK, Ann!Idle
    <3>2. CASE Ann!RequestFail(r)
      BY <3>2 DEF Ann!RequestFail, Ann!finish, AnnouncementInv, Ann!TypeOK, Ann!Idle
    <3> QED BY <2>3, <3>1, <3>2
  <2>4. ASSUME Ann!UpdateFindBySlug(r)
        PROVE  ~announcements[req'[r].id].deleted
    BY <2>4
    DEF Ann!UpdateFindBySlug, Ann!goto, AnnouncementInv, Ann!TypeOK, Ann!Local, ChangesInView,
                Ann!isSoftDeleted
  <2>5. ASSUME Ann!create(r) \/ Ann!update(r)
        PROVE  req'[r].pc \notin {"update:slug", "update:write"}
    BY <2>5 DEF Ann!create, Ann!update, Ann!finish, AnnouncementInv, Ann!TypeOK, Ann!Idle
  <2> QED BY <1>1, <1>2, <2>1, <2>2, <2>3, <2>4, <2>5
          DEF Ann!Next, Ann!Step, ChangesInView, Ann!isSoftDeleted
<1>3. ASSUME Ann!create(r) \/ Ann!update(r) PROVE ChangesInView' /\ Ann!DeletionKept
  <2>1. req'[r].pc \notin {"update:slug", "update:write"}
    BY <1>3 DEF Ann!create, Ann!update, Ann!finish, AnnouncementInv, Ann!TypeOK, Ann!Idle
  <2>2. ASSUME NEW a \in AnnouncementIds,
               Ann!isSoftDeleted(a) PROVE announcements'[a] = announcements[a]
    <3>1. CASE Ann!create(r)
      BY <3>1, <2>2
      DEF Ann!create, Ann!isSoftDeleted, Ann!stored, Ann!Absent, AnnouncementInv, Ann!TypeOK
    <3>2. CASE Ann!update(r)
      BY <3>2, <2>2
      DEF Ann!update, Ann!isSoftDeleted, ChangesInView, AnnouncementInv, Ann!TypeOK
    <3> QED BY <1>3, <3>1, <3>2
  <2> QED BY <2>1, <2>2
          DEF ChangesInView, Ann!DeletionKept, Ann!isSoftDeleted, Ann!listActive, Ann!listAdmin
<1> QED BY <1>1, <1>2, <1>3
        DEF Ann!Next, Ann!Step, Ann!CreateFindBySlug, Ann!PublishFind, Ann!ArchiveFind,
            Ann!SoftDeleteFind, Ann!FindToChange,
            Ann!UpdateFind, Ann!UpdateFindBySlug, Ann!RequestFail

\* One request at a time, a soft-deleted announcement is neither listed nor shown again
\* (SoftDeleteAnnouncement:7-26).
THEOREM DeletionsAreKept ==
    ASSUME Ann!AnnouncementAssumption, NEW r, Requests = {r}
    PROVE  Ann!Spec => [][Ann!DeletionKept]_Ann!vars
<1>1. Ann!Init => ChangesInView
  BY DEF Ann!Init, ChangesInView, Ann!Idle
<1>2. AnnouncementInv /\ ChangesInView /\ [Ann!Next]_Ann!vars => ChangesInView' /\ Ann!DeletionKept
  BY ChangesInViewNext
<1>3. AnnouncementInv /\ [Ann!Next]_Ann!vars => AnnouncementInv'
  BY AnnouncementNext
<1> QED BY <1>1, <1>2, <1>3, AnnouncementInit, PTL DEF Ann!Spec
-----------------------------------------------------------------------------
(* MODERATION                                                              *)

\* What an edit, a deletion and an administrator rely on when they resume.
ModerationLocalOK(l) ==
    /\ l.pc \in {"update:write", "delete:write", "moderate:write"} => l.id \in Mod!Docs
    /\ l.pc = "update:write" => l.copy.state = "stored"

ModerationInv == Mod!TypeOK /\ \A r \in Requests : ModerationLocalOK(req[r])

LEMMA ModerationInit == Mod!Init => ModerationInv
BY DEF Mod!Init, ModerationInv, Mod!TypeOK, ModerationLocalOK, Mod!Documents, Mod!Local,
   Mod!Idle, Mod!Absent

LEMMA ModerationIdle == Mod!Idle \in Mod!Local /\ ModerationLocalOK(Mod!Idle)
BY DEF Mod!Idle, Mod!Local, ModerationLocalOK, Mod!Documents

LEMMA ModerationStep ==
    ASSUME ModerationInv, NEW r \in Requests, NEW l \in Mod!Local, ModerationLocalOK(l),
           req' = [req EXCEPT ![r] = l], doc' \in [Mod!Docs -> Mod!Documents]
    PROVE  ModerationInv'
BY DEF ModerationInv, Mod!TypeOK, ModerationLocalOK

\* What is stored keeps the fields of a stored document; None is no date or text.
LEMMA StoredDocument ==
    ASSUME ModerationInv, NEW d \in Mod!Docs, Mod!stored(d)
    PROVE  /\ doc[d] \in [state : {"stored"}, text : Texts, deleted : BOOLEAN,
                          by : Admins \cup {None}]
BY DEF ModerationInv, Mod!TypeOK, Mod!stored, Mod!Documents, Mod!Absent, Mod!Removed

LEMMA CopiedDocument ==
    ASSUME NEW copy \in Mod!Documents, copy.state = "stored"
    PROVE  copy \in [state : {"stored"}, text : Texts, deleted : BOOLEAN,
                     by : Admins \cup {None}]
BY DEF Mod!Documents, Mod!Absent, Mod!Removed

\* An edit writes a document, and leaves what administrators decided of it alone
\* unless it writes the whole copy.
LEMMA UpdateWrites ==
    ASSUME ModerationInv, NEW d \in Mod!Docs, NEW copy \in Mod!Documents, copy.state = "stored",
           Mod!update(d, copy)
    PROVE  /\ doc' \in [Mod!Docs -> Mod!Documents]
           /\ \A e \in Mod!Docs : e # d => doc'[e] = doc[e]
           /\ d \notin Events => Mod!moderated(d)' = Mod!moderated(d)
<1>1. CASE ~Mod!stored(d)
  BY <1>1 DEF Mod!update, Mod!set, ModerationInv, Mod!TypeOK, Mod!moderated
<1>2. CASE Mod!stored(d)
  <2>1. PICK next : next = IF d \in Events THEN Mod!toPersistence(d, copy)
                                           ELSE [doc[d] EXCEPT !.text = copy.text]
    OBVIOUS
  <2>2. doc' = [doc EXCEPT ![d] = next]
    BY <1>2, <2>1 DEF Mod!update, Mod!set
  <2>3. CASE d \in Events
    <3>1. PICK by : by = IF copy.by = None THEN doc[d].by ELSE copy.by
      OBVIOUS
    <3>2. by \in Admins \cup {None}
      BY <1>2, <3>1, StoredDocument, CopiedDocument
    <3>3. next = [copy EXCEPT !.by = by]
      BY <2>1, <2>3, <3>1 DEF Mod!toPersistence
    <3>4. next \in Mod!Documents
      BY <3>2, <3>3, CopiedDocument DEF Mod!Documents
    <3> QED BY <2>2, <2>3, <3>4 DEF ModerationInv, Mod!TypeOK
  <2>4. CASE d \notin Events
    <3>1. next = [doc[d] EXCEPT !.text = copy.text]
      BY <2>1, <2>4
    <3>2. next \in Mod!Documents /\ next.deleted = doc[d].deleted /\ next.by = doc[d].by
      BY <1>2, <3>1, StoredDocument, CopiedDocument DEF Mod!Documents
    <3> QED BY <2>2, <3>2 DEF ModerationInv, Mod!TypeOK, Mod!moderated
  <2> QED BY <2>3, <2>4
<1> QED BY <1>1, <1>2

LEMMA ModerationWrites ==
    ASSUME ModerationInv, NEW d \in Mod!Docs, NEW by \in Admins \cup {None},
           Mod!set(d, Mod!buildSoftDeleteUpdate(d, by))
    PROVE  /\ doc' \in [Mod!Docs -> Mod!Documents]
           /\ \A e \in Mod!Docs : e # d => doc'[e] = doc[e]
           /\ Mod!stored(d) => doc'[d].text = doc[d].text
<1>1. CASE ~Mod!stored(d)
  BY <1>1 DEF Mod!set, ModerationInv, Mod!TypeOK
<1>2. CASE Mod!stored(d)
  <2>1. PICK out : out = (by # None)
    OBVIOUS
  <2>2. out \in BOOLEAN
    BY <2>1
  <2>3. PICK next : next = [doc[d] EXCEPT !.deleted = out, !.by = by]
    OBVIOUS
  <2>4. next \in Mod!Documents /\ next.text = doc[d].text
    BY <1>2, <2>2, <2>3, StoredDocument DEF Mod!Documents
  <2>5. doc' = [doc EXCEPT ![d] = next]
    BY <1>2, <2>1, <2>3 DEF Mod!set, Mod!buildSoftDeleteUpdate
  <2> QED BY <2>4, <2>5 DEF ModerationInv, Mod!TypeOK
<1> QED BY <1>1, <1>2

LEMMA ModerationNext == ModerationInv /\ [Mod!Next]_Mod!vars => ModerationInv'
<1> SUFFICES ASSUME ModerationInv, [Mod!Next]_Mod!vars PROVE ModerationInv'
  OBVIOUS
<1>1. CASE Mod!Create
  <2>1. PICK d \in Mod!Docs, text \in Texts : doc' = [doc EXCEPT ![d] = Mod!create(text)]
    BY <1>1 DEF Mod!Create
  <2>2. Mod!create(text) \in Mod!Documents
    BY DEF Mod!create, Mod!Documents
  <2>3. doc' \in [Mod!Docs -> Mod!Documents]
    BY <2>1, <2>2 DEF ModerationInv, Mod!TypeOK
  <2> QED BY <1>1, <2>3 DEF Mod!Create, ModerationInv, Mod!TypeOK, ModerationLocalOK
<1>2. ASSUME NEW r \in Requests, Mod!UpdateFind(r) PROVE ModerationInv'
  <2>1. PICK d \in Mod!Docs, text \in Texts :
            /\ Mod!stored(d)
            /\ req' = [req EXCEPT ![r] = [Mod!Idle EXCEPT !.pc = "update:write", !.id = d,
                                                          !.copy = [doc[d] EXCEPT !.text = text]]]
    BY <1>2 DEF Mod!UpdateFind, Mod!start, Mod!editable
  <2>2. PICK copy : copy = [doc[d] EXCEPT !.text = text]
    OBVIOUS
  <2>3. copy \in Mod!Documents /\ copy.state = "stored"
    BY <2>1, <2>2, StoredDocument DEF Mod!Documents
  <2>4. PICK l : l = [Mod!Idle EXCEPT !.pc = "update:write", !.id = d, !.copy = copy]
    OBVIOUS
  <2>5. l \in Mod!Local /\ ModerationLocalOK(l)
    BY <2>3, <2>4 DEF Mod!Idle, Mod!Local, ModerationLocalOK
  <2> QED BY <1>2, <2>1, <2>2, <2>4, <2>5, ModerationStep
          DEF Mod!UpdateFind, ModerationInv, Mod!TypeOK
<1>3. ASSUME NEW r \in Requests, Mod!UpdateWrite(r) PROVE ModerationInv'
  <2>1. req[r].id \in Mod!Docs /\ req[r].copy \in Mod!Documents /\ req[r].copy.state = "stored"
    BY <1>3 DEF Mod!UpdateWrite, ModerationInv, Mod!TypeOK, Mod!Local, ModerationLocalOK
  <2> QED BY <1>3, <2>1, UpdateWrites, ModerationIdle, ModerationStep
          DEF Mod!UpdateWrite, Mod!finish
<1>4. ASSUME NEW r \in Requests, Mod!DeleteFind(r) PROVE ModerationInv'
  <2>1. PICK d \in Mod!Docs : req' = [req EXCEPT ![r] = [Mod!Idle EXCEPT !.pc = "delete:write", !.id = d]]
    BY <1>4 DEF Mod!DeleteFind, Mod!start
  <2>2. PICK l : l = [Mod!Idle EXCEPT !.pc = "delete:write", !.id = d]
    OBVIOUS
  <2>3. l \in Mod!Local /\ ModerationLocalOK(l)
    BY <2>2, ModerationIdle DEF Mod!Idle, Mod!Local, ModerationLocalOK
  <2> QED BY <1>4, <2>1, <2>2, <2>3, ModerationStep
          DEF Mod!DeleteFind, ModerationInv, Mod!TypeOK
<1>5. ASSUME NEW r \in Requests, Mod!DeleteWrite(r) PROVE ModerationInv'
  <2>1. doc' \in [Mod!Docs -> Mod!Documents]
    BY <1>5 DEF Mod!DeleteWrite, Mod!set, ModerationInv, Mod!TypeOK, Mod!Documents
  <2> QED BY <1>5, <2>1, ModerationIdle, ModerationStep DEF Mod!DeleteWrite, Mod!finish
<1>6. ASSUME NEW r \in Requests, Mod!applyAdminResourceSoftDelete(r) PROVE ModerationInv'
  <2>1. PICK d \in Mod!Docs, by \in Admins \cup {None} :
            req' = [req EXCEPT ![r] = [Mod!Idle EXCEPT !.pc = "moderate:write", !.id = d, !.by = by]]
    BY <1>6 DEF Mod!applyAdminResourceSoftDelete, Mod!start
  <2>2. PICK l : l = [Mod!Idle EXCEPT !.pc = "moderate:write", !.id = d, !.by = by]
    OBVIOUS
  <2>3. l \in Mod!Local /\ ModerationLocalOK(l)
    BY <2>2, ModerationIdle DEF Mod!Idle, Mod!Local, ModerationLocalOK
  <2> QED BY <1>6, <2>1, <2>2, <2>3, ModerationStep
          DEF Mod!applyAdminResourceSoftDelete, ModerationInv, Mod!TypeOK
<1>7. ASSUME NEW r \in Requests, Mod!softDelete(r) PROVE ModerationInv'
  <2>1. req[r].id \in Mod!Docs /\ req[r].by \in Admins \cup {None}
    BY <1>7 DEF Mod!softDelete, ModerationInv, Mod!TypeOK, Mod!Local, ModerationLocalOK
  <2> QED BY <1>7, <2>1, ModerationWrites, ModerationIdle, ModerationStep
          DEF Mod!softDelete, Mod!finish
<1>8. ASSUME NEW r \in Requests, Mod!RequestFail(r) PROVE ModerationInv'
  BY <1>8, ModerationIdle, ModerationStep
  DEF Mod!RequestFail, Mod!finish, ModerationInv, Mod!TypeOK
<1>9. CASE UNCHANGED Mod!vars
  BY <1>9 DEF Mod!vars, ModerationInv, Mod!TypeOK, ModerationLocalOK
<1> QED BY <1>1, <1>2, <1>3, <1>4, <1>5, <1>6, <1>7, <1>8, <1>9 DEF Mod!Next, Mod!Step

\* Who writes what, for the documents whose edits write only their text, or a copy
\* that agrees with what is stored.
LEMMA ModerationSteps ==
    ASSUME ModerationInv, [Mod!Next]_Mod!vars, NEW whole,
           \A r \in Requests, d \in Mod!Docs \ whole :
               Mod!UpdateWrite(r) /\ req[r].id = d => Mod!moderated(d)' = Mod!moderated(d)
    PROVE  Mod!ModerationKept(whole)
<1> SUFFICES ASSUME NEW d \in Mod!Docs \ whole, Mod!stored(d), Mod!stored(d)'
             PROVE  /\ Mod!moderated(d)' # Mod!moderated(d) => Mod!serves("moderate:write", d)
                    /\ doc'[d].text # doc[d].text => Mod!serves("update:write", d)
  BY DEF Mod!ModerationKept
<1>1. CASE doc' = doc
  BY <1>1 DEF Mod!moderated
<1>2. CASE Mod!Create
  <2>1. PICK e, text : doc[e] = Mod!Absent /\ doc' = [doc EXCEPT ![e] = Mod!create(text)]
    BY <1>2 DEF Mod!Create
  <2>2. d # e
    BY <2>1 DEF Mod!stored, Mod!Absent
  <2>3. doc'[d] = doc[d]
    BY <2>1, <2>2 DEF ModerationInv, Mod!TypeOK
  <2> QED BY <2>3 DEF Mod!moderated
<1>3. ASSUME NEW r \in Requests, Mod!finish(r)
      PROVE  \A pc : req[r].pc = pc /\ req[r].id = d => Mod!serves(pc, d)
  BY <1>3 DEF Mod!finish, Mod!serves, ModerationInv, Mod!TypeOK
<1>4. ASSUME NEW r \in Requests, Mod!UpdateWrite(r)
      PROVE  /\ Mod!moderated(d)' = Mod!moderated(d)
             /\ doc'[d].text # doc[d].text => Mod!serves("update:write", d)
  <2>1. req[r].id \in Mod!Docs /\ req[r].copy \in Mod!Documents /\ req[r].copy.state = "stored"
    BY <1>4 DEF Mod!UpdateWrite, ModerationInv, Mod!TypeOK, Mod!Local, ModerationLocalOK
  <2>2. PICK e, copy : e = req[r].id /\ copy = req[r].copy
    OBVIOUS
  <2>3. \A f \in Mod!Docs : f # e => doc'[f] = doc[f]
    BY <1>4, <2>1, <2>2, UpdateWrites DEF Mod!UpdateWrite
  <2>4. e \notin whole => Mod!moderated(e)' = Mod!moderated(e)
    BY <1>4, <2>1, <2>2
  <2>5. CASE d = e
    <3>1. Mod!serves("update:write", d)
      BY <1>3, <1>4, <2>2, <2>5 DEF Mod!UpdateWrite
    <3> QED BY <2>4, <2>5, <3>1
  <2>6. CASE d # e
    BY <2>3, <2>6 DEF Mod!moderated
  <2> QED BY <2>5, <2>6
<1>5. ASSUME NEW r \in Requests, Mod!softDelete(r)
      PROVE  /\ Mod!moderated(d)' # Mod!moderated(d) => Mod!serves("moderate:write", d)
             /\ doc'[d].text = doc[d].text
  <2>1. req[r].id \in Mod!Docs /\ req[r].by \in Admins \cup {None}
    BY <1>5 DEF Mod!softDelete, ModerationInv, Mod!TypeOK, Mod!Local, ModerationLocalOK
  <2>2. /\ \A e \in Mod!Docs : e # req[r].id => doc'[e] = doc[e]
        /\ Mod!stored(req[r].id) => doc'[req[r].id].text = doc[req[r].id].text
    BY <1>5, <2>1, ModerationWrites DEF Mod!softDelete
  <2> QED BY <1>3, <1>5, <2>2 DEF Mod!softDelete, Mod!moderated
<1>6. ASSUME NEW r \in Requests, Mod!DeleteWrite(r) PROVE doc'[d] = doc[d]
  <2>1. CASE d = req[r].id
    <3>1. doc'[d] = Mod!Removed
      BY <1>6, <2>1 DEF Mod!DeleteWrite, Mod!set, ModerationInv, Mod!TypeOK
    <3> QED BY <3>1 DEF Mod!stored, Mod!Removed, Mod!Absent
  <2>2. CASE d # req[r].id
    BY <1>6, <2>2 DEF Mod!DeleteWrite, Mod!set, ModerationInv, Mod!TypeOK
  <2> QED BY <2>1, <2>2
<1>7. ASSUME NEW r \in Requests,
             Mod!UpdateFind(r) \/ Mod!DeleteFind(r) \/ Mod!applyAdminResourceSoftDelete(r)
                                    \/ Mod!RequestFail(r)
      PROVE  doc' = doc
  BY <1>7 DEF Mod!UpdateFind, Mod!DeleteFind, Mod!applyAdminResourceSoftDelete, Mod!RequestFail
<1>8. CASE UNCHANGED Mod!vars
  BY <1>1, <1>8 DEF Mod!vars
<1> QED BY <1>1, <1>2, <1>4, <1>5, <1>6, <1>7, <1>8 DEF Mod!Next, Mod!Step, Mod!moderated

\* Moderated documents and requests keep their types (buildSoftDeleteUpdate).
THEOREM ModerationTypes == Mod!Spec => []Mod!TypeOK
<1>1. ModerationInv => Mod!TypeOK
  BY DEF ModerationInv
<1> QED BY <1>1, ModerationInit, ModerationNext, PTL DEF Mod!Spec

\* Events apart, only an administrator's request changes whether a document is in view
\* and who took it out, and only its owner's what it says, however they overlap
\* (applyAdminResourceSoftDelete).
THEOREM ModerationIsKept == Mod!Spec => [][Mod!ModerationKept(Events)]_Mod!vars
<1>1. ASSUME ModerationInv, NEW r \in Requests, NEW d \in Mod!Docs \ Events,
             Mod!UpdateWrite(r), req[r].id = d
      PROVE  Mod!moderated(d)' = Mod!moderated(d)
  <2>1. req[r].copy \in Mod!Documents /\ req[r].copy.state = "stored"
    BY <1>1 DEF Mod!UpdateWrite, ModerationInv, Mod!TypeOK, Mod!Local, ModerationLocalOK
  <2> QED BY <1>1, <2>1, UpdateWrites DEF Mod!UpdateWrite
<1>2. ModerationInv /\ [Mod!Next]_Mod!vars => Mod!ModerationKept(Events)
  BY <1>1, ModerationSteps
<1> QED BY <1>2, ModerationInit, ModerationNext, PTL DEF Mod!Spec

\* One request at a time, what an edit read is what it overwrites.
EditsFresh ==
    \A r \in Requests :
        req[r].pc = "update:write" =>
            /\ Mod!stored(req[r].id)
            /\ req[r].copy.deleted = doc[req[r].id].deleted
            /\ req[r].copy.by = doc[req[r].id].by

LEMMA EditsFreshNext ==
    ASSUME NEW r, Requests = {r}, ModerationInv, EditsFresh, [Mod!Next]_Mod!vars
    PROVE  EditsFresh'
<1>1. req = [q \in {r} |-> req[r]]
  BY DEF ModerationInv, Mod!TypeOK
<1>2. CASE req'[r].pc # "update:write"
  BY <1>2 DEF EditsFresh
<1>3. CASE req' = req /\ doc' = doc
  BY <1>3 DEF EditsFresh, Mod!stored
<1>4. CASE Mod!Create
  <2>1. PICK e \in Mod!Docs, text \in Texts :
            doc[e] = Mod!Absent /\ doc' = [doc EXCEPT ![e] = Mod!create(text)] /\ req' = req
    BY <1>4 DEF Mod!Create
  <2>2. req[r].pc = "update:write" => req[r].id # e
    BY <2>1 DEF EditsFresh, Mod!stored, Mod!Absent
  <2>3. req[r].pc = "update:write" => doc'[req[r].id] = doc[req[r].id]
    BY <2>1, <2>2 DEF ModerationInv, Mod!TypeOK
  <2> QED BY <2>1, <2>3 DEF EditsFresh, Mod!stored
<1>5. CASE Mod!UpdateFind(r)
  <2>1. PICK d \in Mod!Docs, text \in Texts :
            /\ Mod!stored(d)
            /\ req' = [req EXCEPT ![r] = [Mod!Idle EXCEPT !.pc = "update:write", !.id = d,
                                                          !.copy = [doc[d] EXCEPT !.text = text]]]
            /\ doc' = doc
    BY <1>5 DEF Mod!UpdateFind, Mod!start, Mod!editable
  <2>2. PICK copy : copy = [doc[d] EXCEPT !.text = text]
    OBVIOUS
  <2>3. copy.deleted = doc[d].deleted /\ copy.by = doc[d].by
    BY <2>1, <2>2, StoredDocument
  <2>4. req'[r].id = d /\ req'[r].copy = copy
    BY <1>1, <2>1, <2>2 DEF Mod!Idle
  <2> QED BY <2>1, <2>3, <2>4 DEF EditsFresh, Mod!stored
<1>6. CASE Mod!finish(r)
  <2>1. req'[r] = Mod!Idle
    BY <1>1, <1>6 DEF Mod!finish
  <2> QED BY <1>2, <2>1 DEF Mod!Idle
<1>7. ASSUME NEW l, Mod!start(r, l), l.pc # "update:write" PROVE req'[r].pc # "update:write"
  BY <1>1, <1>7 DEF Mod!start
<1>8. CASE Mod!DeleteFind(r)
  <2>1. PICK d \in Mod!Docs : Mod!start(r, [Mod!Idle EXCEPT !.pc = "delete:write", !.id = d])
    BY <1>8 DEF Mod!DeleteFind
  <2>2. PICK l : l = [Mod!Idle EXCEPT !.pc = "delete:write", !.id = d]
    OBVIOUS
  <2>3. l.pc # "update:write"
    BY <2>2 DEF Mod!Idle
  <2> QED BY <1>2, <1>7, <2>1, <2>2, <2>3
<1>9. CASE Mod!applyAdminResourceSoftDelete(r)
  <2>1. PICK d \in Mod!Docs, by \in Admins \cup {None} :
            Mod!start(r, [Mod!Idle EXCEPT !.pc = "moderate:write", !.id = d, !.by = by])
    BY <1>9 DEF Mod!applyAdminResourceSoftDelete
  <2>2. PICK l : l = [Mod!Idle EXCEPT !.pc = "moderate:write", !.id = d, !.by = by]
    OBVIOUS
  <2>3. l.pc # "update:write"
    BY <2>2 DEF Mod!Idle
  <2> QED BY <1>2, <1>7, <2>1, <2>2, <2>3
<1> QED BY <1>3, <1>4, <1>5, <1>6, <1>8, <1>9
        DEF Mod!Next, Mod!Step, Mod!vars, Mod!UpdateWrite, Mod!DeleteWrite, Mod!softDelete,
            Mod!RequestFail

\* One request at a time, events are no exception: only an administrator's request
\* changes whether a document is in view and who took it out
\* (MongooseEventRepository.ts:83-89 writes back what it read).
THEOREM ModerationIsKeptAlone ==
    ASSUME NEW r, Requests = {r}
    PROVE  Mod!Spec => [][Mod!ModerationKept({})]_Mod!vars
<1>1. Mod!Init => EditsFresh
  BY DEF Mod!Init, EditsFresh, Mod!Idle
<1>2. ASSUME ModerationInv, EditsFresh, NEW q \in Requests, NEW d \in Mod!Docs,
             Mod!UpdateWrite(q), req[q].id = d
      PROVE  Mod!moderated(d)' = Mod!moderated(d)
  <2>1. PICK copy : copy = req[q].copy
    OBVIOUS
  <2>2. /\ copy \in Mod!Documents /\ copy.state = "stored" /\ Mod!stored(d)
        /\ copy.deleted = doc[d].deleted /\ copy.by = doc[d].by
    BY <1>2, <2>1
    DEF Mod!UpdateWrite, ModerationInv, Mod!TypeOK, Mod!Local, ModerationLocalOK, EditsFresh
  <2>3. CASE d \notin Events
    BY <1>2, <2>1, <2>2, <2>3, UpdateWrites DEF Mod!UpdateWrite
  <2>4. CASE d \in Events
    <3>1. PICK by : by = IF copy.by = None THEN doc[d].by ELSE copy.by
      OBVIOUS
    <3>2. PICK next : next = [copy EXCEPT !.by = by]
      OBVIOUS
    <3>3. doc' = [doc EXCEPT ![d] = next]
      BY <1>2, <2>1, <2>2, <2>4, <3>1, <3>2
      DEF Mod!UpdateWrite, Mod!update, Mod!set, Mod!toPersistence
    <3>4. next.deleted = doc[d].deleted /\ next.by = doc[d].by
      BY <2>2, <3>1, <3>2, CopiedDocument
    <3> QED BY <3>3, <3>4 DEF ModerationInv, Mod!TypeOK, Mod!moderated
  <2> QED BY <2>3, <2>4
<1>3. ModerationInv /\ EditsFresh /\ [Mod!Next]_Mod!vars => Mod!ModerationKept({})
  BY <1>2, ModerationSteps
<1>4. ModerationInv /\ EditsFresh /\ [Mod!Next]_Mod!vars => EditsFresh'
  BY EditsFreshNext
<1> QED BY <1>1, <1>3, <1>4, ModerationInit, ModerationNext, PTL DEF Mod!Spec
-----------------------------------------------------------------------------
(* NOTIFICATIONS                                                           *)

\* What the mail and the marking by action rely on when they resume.
NotificationLocalOK(l) ==
    /\ l.pc = "create:mail" => l.id \in NotificationIds
    /\ l.pc = "mark:write" => l.user \in Members

NotificationInv == Ntf!TypeOK /\ \A r \in Requests : NotificationLocalOK(req[r])

LEMMA NotificationInit == Ntf!Init => NotificationInv
BY DEF Ntf!Init, NotificationInv, Ntf!TypeOK, NotificationLocalOK, Ntf!Notifications,
   Ntf!Local, Ntf!Idle, Ntf!Absent

LEMMA NotificationIdle == Ntf!Idle \in Ntf!Local /\ NotificationLocalOK(Ntf!Idle)
BY DEF Ntf!Idle, Ntf!Local, NotificationLocalOK

LEMMA NotificationStep ==
    ASSUME NotificationInv, NEW r \in Requests, NEW l \in Ntf!Local, NotificationLocalOK(l),
           req' = [req EXCEPT ![r] = l], notifications' \in [NotificationIds -> Ntf!Notifications],
           optedIn' \subseteq Members, mails' \subseteq NotificationIds
    PROVE  NotificationInv'
BY DEF NotificationInv, Ntf!TypeOK, NotificationLocalOK

\* A step of no request.
LEMMA NotificationOutside ==
    ASSUME NotificationInv, UNCHANGED <<req, optedIn, mails>>,
           notifications' \in [NotificationIds -> Ntf!Notifications]
    PROVE  NotificationInv'
BY DEF NotificationInv, Ntf!TypeOK, NotificationLocalOK

\* The notifiers store the actions of the schema.
LEMMA NotifierActions ==
    /\ \A m \in DOMAIN Ntf!eventInvitationNotifier : Ntf!eventInvitationNotifier[m] \in Ntf!Actions
    /\ \A m \in DOMAIN Ntf!eventNotifier : Ntf!eventNotifier[m] \in Ntf!Actions
    /\ \A m \in DOMAIN Ntf!partnershipNotifier : Ntf!partnershipNotifier[m] \in Ntf!Actions
    /\ \A m \in DOMAIN Ntf!followNotifier : Ntf!followNotifier[m] \in Ntf!Actions
BY DEF Ntf!eventInvitationNotifier, Ntf!eventNotifier, Ntf!partnershipNotifier,
   Ntf!followNotifier, Ntf!Actions

LEMMA MarkRead ==
    ASSUME NotificationInv, NEW ids, \A n \in ids : n \in NotificationIds /\ Ntf!stored(n),
           Ntf!markRead(ids)
    PROVE  /\ notifications' \in [NotificationIds -> Ntf!Notifications]
           /\ \A n \in NotificationIds :
                /\ n \in ids => notifications'[n].read
                /\ n \notin ids => notifications'[n] = notifications[n]
<1>1. ASSUME NEW n \in ids
      PROVE  /\ [notifications[n] EXCEPT !.read = TRUE] \in Ntf!Notifications
             /\ [notifications[n] EXCEPT !.read = TRUE].read
  <2>1. notifications[n] \in [sender : Members, receiver : Members, action : Ntf!Actions,
                              read : BOOLEAN]
    BY <1>1 DEF NotificationInv, Ntf!TypeOK, Ntf!Notifications, Ntf!stored
  <2> QED BY <2>1 DEF Ntf!Notifications
<1> QED BY <1>1 DEF Ntf!markRead, NotificationInv, Ntf!TypeOK

LEMMA NotificationCreate ==
    ASSUME NotificationInv, NEW r \in Requests,
           NEW notifier, \A m \in DOMAIN notifier : notifier[m] \in Ntf!Actions,
           Ntf!CreateSave(r, notifier)
    PROVE  NotificationInv' /\ Ntf!ReadingsKept
<1>0. PICK method \in DOMAIN notifier \cap Notifiers : \E sender, receiver \in Members,
           n \in NotificationIds :
        /\ sender # receiver
        /\ notifications[n] = Ntf!Absent
        /\ notifications' = [notifications EXCEPT
                ![n] = Ntf!create(sender, receiver, notifier[method])]
        /\ req' = [req EXCEPT ![r] = [Ntf!Idle EXCEPT !.pc = "create:mail", !.user = receiver,
                                                      !.id = n]]
  BY DEF Ntf!CreateSave
<1> DEFINE action == notifier[method]
<1>1. PICK sender \in Members, receiver \in Members, n \in NotificationIds :
        /\ notifications[n] = Ntf!Absent
        /\ notifications' = [notifications EXCEPT ![n] = Ntf!create(sender, receiver, action)]
        /\ req' = [req EXCEPT ![r] = [Ntf!Idle EXCEPT !.pc = "create:mail", !.user = receiver,
                                                      !.id = n]]
  BY <1>0
<1>9. action \in Ntf!Actions
  OBVIOUS
<1> HIDE DEF action
<1>2. PICK d : d = Ntf!create(sender, receiver, action)
  OBVIOUS
<1>3. d \in Ntf!Notifications
  BY <1>2, <1>9 DEF Ntf!create, Ntf!Notifications
<1>4. notifications' \in [NotificationIds -> Ntf!Notifications]
  BY <1>1, <1>2, <1>3 DEF NotificationInv, Ntf!TypeOK
<1>5. PICK l : l = [Ntf!Idle EXCEPT !.pc = "create:mail", !.user = receiver, !.id = n]
  OBVIOUS
<1>6. l \in Ntf!Local /\ NotificationLocalOK(l)
  BY <1>5 DEF Ntf!Idle, Ntf!Local, NotificationLocalOK
<1>7. NotificationInv'
  BY <1>1, <1>4, <1>5, <1>6, NotificationStep DEF Ntf!CreateSave, NotificationInv, Ntf!TypeOK
<1>8. \A m \in NotificationIds : Ntf!stored(m) => notifications'[m] = notifications[m]
  BY <1>1 DEF Ntf!stored, NotificationInv, Ntf!TypeOK
<1> QED BY <1>7, <1>8 DEF Ntf!ReadingsKept

\* A reader marks its own notifications.
LEMMA MarkOwn ==
    ASSUME NotificationInv, NEW u, NEW ids, ids \subseteq Ntf!receivedBy(u), Ntf!markRead(ids)
    PROVE  Ntf!ReadingsKept /\ notifications' \in [NotificationIds -> Ntf!Notifications]
<1>1. \A n \in ids : n \in NotificationIds /\ Ntf!stored(n) /\ notifications[n].receiver = u
  BY DEF Ntf!receivedBy
<1>2. /\ notifications' \in [NotificationIds -> Ntf!Notifications]
      /\ \A n \in NotificationIds :
                /\ n \in ids => notifications'[n].read
                /\ n \notin ids => notifications'[n] = notifications[n]
  BY <1>1, MarkRead
<1> QED BY <1>1, <1>2 DEF Ntf!ReadingsKept

\* What is removed is not stored.
LEMMA RemoveKept ==
    ASSUME NotificationInv, NEW ids, Ntf!remove(ids)
    PROVE  Ntf!ReadingsKept /\ notifications' \in [NotificationIds -> Ntf!Notifications]
<1>1. notifications' \in [NotificationIds -> Ntf!Notifications]
  BY DEF Ntf!remove, NotificationInv, Ntf!TypeOK, Ntf!Notifications
<1>2. \A n \in NotificationIds : Ntf!stored(n)' => notifications'[n] = notifications[n]
  BY DEF Ntf!remove, Ntf!stored
<1> QED BY <1>1, <1>2 DEF Ntf!ReadingsKept

LEMMA NotificationNext == NotificationInv /\ [Ntf!Next]_Ntf!vars => NotificationInv' /\ Ntf!ReadingsKept
<1> SUFFICES ASSUME NotificationInv, [Ntf!Next]_Ntf!vars PROVE NotificationInv' /\ Ntf!ReadingsKept
  OBVIOUS
<1>1. ASSUME NEW r \in Requests, Ntf!CreateMail(r) PROVE NotificationInv' /\ Ntf!ReadingsKept
  <2>1. mails' \subseteq NotificationIds
    BY <1>1 DEF Ntf!CreateMail, NotificationInv, Ntf!TypeOK, NotificationLocalOK
  <2>2. NotificationInv'
    BY <1>1, <2>1, NotificationIdle, NotificationStep
    DEF Ntf!CreateMail, Ntf!finish, NotificationInv, Ntf!TypeOK
  <2> QED BY <1>1, <2>2 DEF Ntf!CreateMail, Ntf!ReadingsKept
<1>2. ASSUME NEW r \in Requests, Ntf!markAllAsRead(r) PROVE NotificationInv' /\ Ntf!ReadingsKept
  <2>1. PICK u \in Members : Ntf!markRead(Ntf!unreadOf(u))
    BY <1>2 DEF Ntf!markAllAsRead
  <2>2. Ntf!unreadOf(u) \subseteq Ntf!receivedBy(u)
    BY DEF Ntf!unreadOf
  <2>3. Ntf!ReadingsKept /\ notifications' \in [NotificationIds -> Ntf!Notifications]
    BY <2>1, <2>2, MarkOwn
  <2> QED BY <1>2, <2>3, NotificationOutside DEF Ntf!markAllAsRead
<1>3. ASSUME NEW r \in Requests, Ntf!markAsReadByActionFind(r)
      PROVE  NotificationInv' /\ Ntf!ReadingsKept
  <2>0. PICK u \in Members, a \in {notifications[n].action : n \in {m \in NotificationIds : Ntf!stored(m)}} :
            req' = [req EXCEPT ![r] = [Ntf!Idle EXCEPT !.pc = "mark:write", !.user = u, !.action = a,
                        !.ids = {n \in Ntf!unreadOf(u) : notifications[n].action = a}]]
    BY <1>3 DEF Ntf!markAsReadByActionFind
  <2>1. PICK ids : ids = {n \in Ntf!unreadOf(u) : notifications[n].action = a}
    OBVIOUS
  <2>2. a \in Ntf!Actions
    BY DEF NotificationInv, Ntf!TypeOK, Ntf!Notifications, Ntf!stored
  <2>3. ids \subseteq NotificationIds
    BY <2>1 DEF Ntf!unreadOf, Ntf!receivedBy
  <2>4. PICK l : l = [Ntf!Idle EXCEPT !.pc = "mark:write", !.user = u, !.action = a, !.ids = ids]
    OBVIOUS
  <2>5. l \in Ntf!Local /\ NotificationLocalOK(l)
    BY <2>0, <2>2, <2>3, <2>4 DEF Ntf!Idle, Ntf!Local, NotificationLocalOK
  <2>6. NotificationInv'
    BY <1>3, <2>0, <2>1, <2>4, <2>5, NotificationStep
    DEF Ntf!markAsReadByActionFind, NotificationInv, Ntf!TypeOK
  <2> QED BY <1>3, <2>6 DEF Ntf!markAsReadByActionFind, Ntf!ReadingsKept
<1>4. ASSUME NEW r \in Requests, Ntf!markAsReadByActionWrite(r)
      PROVE  NotificationInv' /\ Ntf!ReadingsKept
  <2>1. Ntf!ReadingsKept /\ notifications' \in [NotificationIds -> Ntf!Notifications]
    BY <1>4, MarkOwn DEF Ntf!markAsReadByActionWrite
  <2> QED BY <1>4, <2>1, NotificationIdle, NotificationStep
          DEF Ntf!markAsReadByActionWrite, Ntf!finish, NotificationInv, Ntf!TypeOK
<1>5. ASSUME NEW r \in Requests, Ntf!RequestFail(r) PROVE NotificationInv' /\ Ntf!ReadingsKept
  <2>1. NotificationInv'
    BY <1>5, NotificationIdle, NotificationStep
    DEF Ntf!RequestFail, Ntf!finish, NotificationInv, Ntf!TypeOK
  <2> QED BY <1>5, <2>1 DEF Ntf!RequestFail, Ntf!ReadingsKept
<1>6. ASSUME Ntf!deleteByReferences \/ \E u \in Members : Ntf!deleteByUser(u)
      PROVE  NotificationInv' /\ Ntf!ReadingsKept
  <2>1. PICK ids : Ntf!remove(ids)
    BY <1>6 DEF Ntf!deleteByReferences, Ntf!deleteByUser
  <2>2. UNCHANGED <<req, optedIn, mails>>
    BY <1>6 DEF Ntf!deleteByReferences, Ntf!deleteByUser
  <2> QED BY <2>1, <2>2, RemoveKept, NotificationOutside
<1>7. ASSUME NEW r \in Requests,
             \/ Ntf!CreateSave(r, Ntf!eventInvitationNotifier) \/ Ntf!CreateSave(r, Ntf!eventNotifier)
             \/ Ntf!CreateSave(r, Ntf!partnershipNotifier) \/ Ntf!CreateSave(r, Ntf!followNotifier)
      PROVE  NotificationInv' /\ Ntf!ReadingsKept
  BY <1>7, NotificationCreate, NotifierActions
<1>8. CASE UNCHANGED Ntf!vars
  BY <1>8, NotificationOutside DEF Ntf!vars, NotificationInv, Ntf!TypeOK, Ntf!ReadingsKept
<1> QED BY <1>1, <1>2, <1>3, <1>4, <1>5, <1>6, <1>7, <1>8 DEF Ntf!Next, Ntf!Step

\* Notifications, mails and requests keep their types: a notification has a sender, a
\* receiver and a known action (CreateNotification).
THEOREM NotificationTypes == Ntf!Spec => []Ntf!TypeOK
<1>1. NotificationInv => Ntf!TypeOK
  BY DEF NotificationInv
<1> QED BY <1>1, NotificationInit, NotificationNext, PTL DEF Ntf!Spec

\* However requests overlap, a read notification stays read, and the notifications
\* that become read at once are all of one receiver (markAsReadByAction:75-101,
\* markAllAsRead:103-112).
THEOREM ReadNotificationsStayRead == Ntf!Spec => [][Ntf!ReadingsKept]_Ntf!vars
BY NotificationInit, NotificationNext, PTL DEF Ntf!Spec
-----------------------------------------------------------------------------
(* CONVERSATIONS AND MESSAGES                                              *)

\* Counting is the same in the instance.
LEMMA MessagingSets ==
    \A S : (Msg!IsFiniteSet(S) <=> IsFiniteSet(S)) /\ Msg!Cardinality(S) = Cardinality(S)
BY DEF Msg!IsFiniteSet, IsFiniteSet, Msg!Cardinality, Cardinality

\* The steps of a request about a conversation, and about a message, it has found.
ConversationPcs == {"create:find", "create:save", "create:last", "create:publish",
                    "mark:find", "mark:write"}
MessagePcs == {"create:last", "create:publish", "update:write", "delete:write"}

\* What a handler of messages relies on when it resumes.
MessagingLocalOK(l) ==
    /\ l.pc = "create:conversation" => l.user \in Members /\ l.other \in Members
    /\ l.pc \in ConversationPcs =>
        l.user \in Members /\ l.conversation \in ConversationIds /\ Msg!exists(l.conversation)
    /\ l.pc \in MessagePcs => l.message \in MessageIds /\ messages[l.message] # Msg!Absent
    /\ l.pc \in {"create:last", "create:publish"} /\ Msg!stored(l.message) =>
        messages[l.message].conversation = l.conversation
    /\ l.pc = "update:write" =>
        /\ l.next \notin {Msg!Absent, Msg!Removed}
        /\ Msg!stored(l.message) =>
            /\ l.next.conversation = messages[l.message].conversation
            /\ l.next.sender = messages[l.message].sender

\* Messages are in conversations that exist, and so are the rooms.
PlacesExist ==
    /\ \A m \in MessageIds, c \in ConversationIds :
        Msg!stored(m) /\ messages[m].conversation = c => Msg!exists(c)
    /\ \A u \in Listeners, c \in ConversationIds : c \in sockets[u].rooms => Msg!exists(c)

MessagingInv ==
    Msg!TypeOK /\ (\A r \in Requests : MessagingLocalOK(req[r])) /\ PlacesExist

\* Nothing removes a conversation or changes who is in it, and a message that was
\* saved stays in its conversation until it is removed for good.
ConversationsKept ==
    \A c \in ConversationIds : Msg!exists(c) =>
        Msg!exists(c)' /\ conversations'[c].participants = conversations[c].participants
MessagesKept ==
    \A m \in MessageIds : messages[m] # Msg!Absent =>
        /\ messages'[m] # Msg!Absent
        /\ Msg!stored(m)' => /\ Msg!stored(m)
                             /\ messages'[m].conversation = messages[m].conversation
                             /\ messages'[m].sender = messages[m].sender

\* The user has been sent the message, or is not owed it, or is not owed it yet.
delivered(u, m) ==
    \/ m \in pushed[u] \/ <<u, m>> \in excused
    \/ \E r \in Requests : req[r].pc \in {"create:last", "create:publish"} /\ req[r].message = m

\* Nothing is left unread that was not delivered, S apart.
settled(u, c, S) == \A m \in Msg!unread(c, u) \ S : delivered(u, m)

marking(l, u, c) == l.pc \in {"mark:find", "mark:write"} /\ l.user = u /\ l.conversation = c

\* Whoever is in a room is served, or a reading of theirs is about to find what is
\* left, or has found it.
RoomServed ==
    \A u \in Listeners, c \in ConversationIds :
        c \in sockets[u].rooms /\ Msg!isParticipant(c, u) =>
            \/ settled(u, c, {})
            \/ \E r \in Requests : marking(req[r], u, c) /\ req[r].pc = "mark:find"
            \/ \E r \in Requests : /\ marking(req[r], u, c) /\ req[r].pc = "mark:write"
                                   /\ settled(u, c, req[r].ids)

\* The creations that found no conversation of two users.
creating(u, v) ==
    {r \in Requests : req[r].pc = "create:conversation" /\ {req[r].user, req[r].other} = {u, v}}

between(u, v) == {c \in ConversationIds : conversations[c].participants = {u, v}}

CreationsBounded ==
    \A u, v \in Members :
        Cardinality(between(u, v)) + Cardinality(creating(u, v)) <= Cardinality(Requests)

\* One request at a time, what an edit writes back is what is there.
CopiesFresh ==
    \A r \in Requests : req[r].pc = "update:write" /\ Msg!stored(req[r].message) =>
        req[r].next = messages[req[r].message]

LEMMA MessageKinds ==
    ASSUME Msg!MessagingAssumption, NEW d \in Msg!Messages
    PROVE  /\ d \notin {Msg!Absent, Msg!Removed} =>
                /\ d \in [conversation : ConversationIds, sender : Members,
                          readBy : SUBSET Members, gone : {FALSE}]
                /\ d.conversation \in ConversationIds /\ d.sender \in Members
                /\ d.readBy \in SUBSET Members
           /\ Msg!Absent # Msg!Removed /\ Msg!Absent \in Msg!Messages /\ Msg!Removed \in Msg!Messages
           /\ Msg!Absent.conversation = None /\ Msg!Removed.conversation = None
           /\ Msg!Absent.readBy = {} /\ Msg!Removed.readBy = {}
BY DEF Msg!Messages, Msg!Absent, Msg!Removed, Msg!MessagingAssumption

LEMMA MessagingIdle ==
    Msg!Idle \in Msg!Local /\ Msg!Idle.pc = "idle" /\ MessagingLocalOK(Msg!Idle) /\ MessagingLocalOK(Msg!Idle)'
<1>1. Msg!Absent \in Msg!Messages
  BY DEF Msg!Messages
<1>2. Msg!Idle \in Msg!Local /\ Msg!Idle.pc = "idle"
  BY <1>1 DEF Msg!Idle, Msg!Local
<1> QED BY <1>2 DEF MessagingLocalOK, ConversationPcs, MessagePcs

LEMMA MessagingInit == Msg!MessagingAssumption /\ Msg!Init => MessagingInv /\ RoomServed
<1> SUFFICES ASSUME Msg!MessagingAssumption, Msg!Init PROVE MessagingInv /\ RoomServed
  OBVIOUS
<1>1. \A r \in Requests : req[r] = Msg!Idle
  BY DEF Msg!Init
<1>2. Msg!TypeOK
  <2>1. Msg!NoConversation \in Msg!Conversations /\ Msg!Absent \in Msg!Messages /\ Msg!Offline \in Msg!Sockets
    BY DEF Msg!NoConversation, Msg!Conversations, Msg!Messages, Msg!Offline, Msg!Sockets
  <2> QED BY <2>1, MessagingIdle DEF Msg!Init, Msg!TypeOK
<1>3. PlacesExist /\ RoomServed
  BY DEF Msg!Init, PlacesExist, RoomServed, Msg!stored, Msg!Offline
<1> QED BY <1>1, <1>2, <1>3, MessagingIdle DEF MessagingInv

\* A step of one request.
LEMMA MessagingStep ==
    ASSUME Msg!MessagingAssumption, MessagingInv, NEW r \in Requests, NEW l \in Msg!Local,
           req' = [req EXCEPT ![r] = l], MessagingLocalOK(l)',
           ConversationsKept, MessagesKept,
           conversations' \in [ConversationIds -> Msg!Conversations],
           messages' \in [MessageIds -> Msg!Messages],
           sockets' \in [Listeners -> Msg!Sockets],
           pushed' \in [Listeners -> SUBSET MessageIds],
           excused' \subseteq Listeners \X MessageIds,
           \A m \in MessageIds, c \in ConversationIds :
                Msg!stored(m)' /\ messages'[m].conversation = c => Msg!stored(m) \/ Msg!exists(c),
           \A u \in Listeners, c \in ConversationIds :
                c \in sockets'[u].rooms => c \in sockets[u].rooms \/ Msg!exists(c)
    PROVE  MessagingInv'
<1>1. Msg!TypeOK'
  BY DEF MessagingInv, Msg!TypeOK
<1>2. ASSUME NEW q \in Requests PROVE MessagingLocalOK(req[q])'
  <2>1. CASE q = r
    BY <2>1 DEF MessagingInv, Msg!TypeOK, MessagingLocalOK
  <2>2. CASE q # r
    <3>1. PICK k : k = req[q]
      OBVIOUS
    <3>2. req'[q] = k /\ MessagingLocalOK(k) /\ k \in Msg!Local
      BY <2>2, <3>1 DEF MessagingInv, Msg!TypeOK
    <3>3. k.pc \in ConversationPcs => Msg!exists(k.conversation)'
      BY <3>2 DEF MessagingLocalOK, ConversationsKept
    <3>4. k.pc \in MessagePcs =>
            /\ k.message \in MessageIds /\ messages'[k.message] # Msg!Absent
            /\ Msg!stored(k.message)' =>
                /\ Msg!stored(k.message)
                /\ messages'[k.message].conversation = messages[k.message].conversation
                /\ messages'[k.message].sender = messages[k.message].sender
      BY <3>2 DEF MessagingLocalOK, MessagesKept
    <3>5. MessagingLocalOK(k)'
      BY <3>2, <3>3, <3>4 DEF MessagingLocalOK, MessagePcs
    <3> QED BY <3>2, <3>5 DEF MessagingLocalOK
  <2> QED BY <2>1, <2>2
<1>3. ASSUME NEW m \in MessageIds, NEW c \in ConversationIds,
             Msg!stored(m)', messages'[m].conversation = c
      PROVE  Msg!exists(c)'
  <2>1. CASE Msg!exists(c)
    BY <2>1 DEF ConversationsKept
  <2>2. CASE Msg!stored(m)
    <3>1. messages[m] # Msg!Absent
      BY <2>2 DEF Msg!stored
    <3>2. messages[m].conversation = c
      BY <1>3, <3>1 DEF MessagesKept
    <3>3. Msg!exists(c)
      BY <2>2, <3>2 DEF MessagingInv, PlacesExist
    <3> QED BY <3>3 DEF ConversationsKept
  <2> QED BY <1>3, <2>1, <2>2
<1>4. ASSUME NEW u \in Listeners, NEW c \in ConversationIds, c \in sockets'[u].rooms
      PROVE  Msg!exists(c)'
  BY <1>4 DEF MessagingInv, PlacesExist, ConversationsKept
<1> QED BY <1>1, <1>2, <1>3, <1>4 DEF MessagingInv, PlacesExist

\* A step that leaves what is stored alone.
LEMMA MessagingSame ==
    ASSUME UNCHANGED Msg!stores
    PROVE  /\ ConversationsKept /\ MessagesKept
           /\ \A m : Msg!stored(m)' <=> Msg!stored(m)
           /\ \A c : Msg!exists(c)' <=> Msg!exists(c)
           /\ \A c, u : /\ Msg!isParticipant(c, u)' <=> Msg!isParticipant(c, u)
                        /\ Msg!unread(c, u)' = Msg!unread(c, u)
           /\ \A l : MessagingLocalOK(l) => MessagingLocalOK(l)'
<1>1. UNCHANGED <<conversations, messages>>
  BY DEF Msg!stores
<1>2. ConversationsKept /\ MessagesKept
  BY <1>1 DEF ConversationsKept, MessagesKept, Msg!stored, Msg!exists
<1>3. \A m : Msg!stored(m)' <=> Msg!stored(m)
  BY <1>1 DEF Msg!stored
<1>4. \A c : Msg!exists(c)' <=> Msg!exists(c)
  BY <1>1 DEF Msg!exists
<1>5. \A c, u : /\ Msg!isParticipant(c, u)' <=> Msg!isParticipant(c, u)
                /\ Msg!unread(c, u)' = Msg!unread(c, u)
  BY <1>1 DEF Msg!isParticipant, Msg!unread, Msg!stored
<1>6. \A l : MessagingLocalOK(l) => MessagingLocalOK(l)'
  BY <1>1 DEF MessagingLocalOK, Msg!stored, Msg!exists
<1> QED BY <1>2, <1>3, <1>4, <1>5, <1>6

LEMMA MessagingQuiet ==
    ASSUME Msg!MessagingAssumption, MessagingInv, NEW r \in Requests, NEW l \in Msg!Local,
           req' = [req EXCEPT ![r] = l], MessagingLocalOK(l), UNCHANGED Msg!stores,
           sockets' \in [Listeners -> Msg!Sockets],
           pushed' \in [Listeners -> SUBSET MessageIds],
           excused' \subseteq Listeners \X MessageIds,
           \A u \in Listeners, c \in ConversationIds :
                c \in sockets'[u].rooms => c \in sockets[u].rooms \/ Msg!exists(c)
    PROVE  MessagingInv'
<1>1. /\ conversations' \in [ConversationIds -> Msg!Conversations]
      /\ messages' \in [MessageIds -> Msg!Messages]
  BY DEF Msg!stores, MessagingInv, Msg!TypeOK
<1>2. MessagingLocalOK(l)' /\ ConversationsKept /\ MessagesKept
      /\ \A m : Msg!stored(m)' <=> Msg!stored(m)
  BY MessagingSame
<1> QED BY <1>1, <1>2, MessagingStep

\* The rooms are served after a step of a request that delivers no less in them.
LEMMA RoomStep ==
    ASSUME MessagingInv, RoomServed, NEW r \in Requests, NEW l, req' = [req EXCEPT ![r] = l],
           ConversationsKept,
           \A u \in Listeners, c \in ConversationIds : c \in sockets'[u].rooms =>
                \/ c \in sockets[u].rooms
                \/ Msg!isParticipant(c, u)' => marking(l, u, c) /\ l.pc = "mark:find",
           \A u \in Listeners, c \in ConversationIds : c \in sockets[u].rooms =>
                \A m \in Msg!unread(c, u)' :
                    \/ delivered(u, m)'
                    \/ m \in Msg!unread(c, u) /\ ~delivered(u, m),
           \A u \in Listeners, c \in ConversationIds : marking(req[r], u, c) =>
                \/ settled(u, c, {})'
                \/ marking(l, u, c) /\ l.pc = "mark:write" /\ settled(u, c, l.ids)'
                \/ req[r].pc = "mark:write" /\ ~settled(u, c, req[r].ids)
    PROVE  RoomServed'
<1> SUFFICES ASSUME NEW u \in Listeners, NEW c \in ConversationIds,
                    c \in sockets'[u].rooms, Msg!isParticipant(c, u)'
             PROVE  \/ settled(u, c, {})'
                    \/ \E q \in Requests : marking(req'[q], u, c) /\ req'[q].pc = "mark:find"
                    \/ \E q \in Requests : /\ marking(req'[q], u, c) /\ req'[q].pc = "mark:write"
                                           /\ \A m \in Msg!unread(c, u)' \ req'[q].ids : delivered(u, m)'
  BY DEF RoomServed, settled, marking
<1>0. req'[r] = l /\ \A q \in Requests : q # r => req'[q] = req[q]
  BY DEF MessagingInv, Msg!TypeOK
<1>1. CASE c \notin sockets[u].rooms
  <2>1. marking(l, u, c) /\ l.pc = "mark:find"
    BY <1>1
  <2> QED BY <1>0, <2>1
<1>2. CASE c \in sockets[u].rooms
  <2>1. Msg!isParticipant(c, u)
    BY <1>2 DEF MessagingInv, PlacesExist, ConversationsKept, Msg!isParticipant
  <2>2. ASSUME NEW S, settled(u, c, S) PROVE \A m \in Msg!unread(c, u)' \ S : delivered(u, m)'
    BY <1>2, <2>2 DEF settled
  <2>3. CASE settled(u, c, {})
    BY <2>2, <2>3 DEF settled
  <2>4. ASSUME NEW q \in Requests, marking(req[q], u, c), req[q].pc = "mark:find"
        PROVE  \/ settled(u, c, {})'
               \/ \E p \in Requests : marking(req'[p], u, c) /\ req'[p].pc = "mark:find"
               \/ \E p \in Requests : /\ marking(req'[p], u, c) /\ req'[p].pc = "mark:write"
                                      /\ \A m \in Msg!unread(c, u)' \ req'[p].ids : delivered(u, m)'
    <3>1. CASE q # r
      BY <1>0, <2>4, <3>1
    <3>2. CASE q = r
      <4>1. \/ settled(u, c, {})'
            \/ marking(l, u, c) /\ l.pc = "mark:write" /\ settled(u, c, l.ids)'
        BY <2>4, <3>2
      <4> QED BY <1>0, <4>1 DEF settled
    <3> QED BY <3>1, <3>2
  <2>5. ASSUME NEW q \in Requests, marking(req[q], u, c), req[q].pc = "mark:write",
               settled(u, c, req[q].ids)
        PROVE  \/ settled(u, c, {})'
               \/ \E p \in Requests : /\ marking(req'[p], u, c) /\ req'[p].pc = "mark:write"
                                      /\ \A m \in Msg!unread(c, u)' \ req'[p].ids : delivered(u, m)'
    <3>1. CASE q # r
      <4>1. \A m \in Msg!unread(c, u)' \ req[q].ids : delivered(u, m)'
        BY <1>2, <2>5 DEF settled
      <4> QED BY <1>0, <2>5, <3>1, <4>1
    <3>2. CASE q = r
      <4>1. \/ settled(u, c, {})'
            \/ marking(l, u, c) /\ l.pc = "mark:write" /\ settled(u, c, l.ids)'
        BY <2>5, <3>2
      <4> QED BY <1>0, <4>1 DEF settled
    <3> QED BY <3>1, <3>2
  <2> QED BY <1>2, <2>1, <2>3, <2>4, <2>5 DEF RoomServed
<1> QED BY <1>1, <1>2

\* What was delivered stays so, unless the request that had yet to deliver it stops.
LEMMA DeliveredKept ==
    ASSUME MessagingInv, NEW r \in Requests, NEW l, req' = [req EXCEPT ![r] = l], NEW u, NEW m,
           m \in pushed[u] => m \in pushed'[u],
           <<u, m>> \in excused => <<u, m>> \in excused',
           req[r].pc \in {"create:last", "create:publish"} /\ req[r].message = m =>
                \/ delivered(u, m)'
                \/ l.pc \in {"create:last", "create:publish"} /\ l.message = m
    PROVE  delivered(u, m) => delivered(u, m)'
<1>1. req'[r] = l /\ \A q \in Requests : q # r => req'[q] = req[q]
  BY DEF MessagingInv, Msg!TypeOK
<1>2. ASSUME NEW q \in Requests, req[q].pc \in {"create:last", "create:publish"},
             req[q].message = m
      PROVE  delivered(u, m)'
  BY <1>1, <1>2 DEF delivered
<1> QED BY <1>2 DEF delivered

\* A step that touches neither messages nor sockets.
LEMMA RoomQuiet ==
    ASSUME MessagingInv, RoomServed, NEW r \in Requests, NEW l, req' = [req EXCEPT ![r] = l],
           ConversationsKept, UNCHANGED <<messages, Msg!realtime, excused>>,
           req[r].pc \notin {"mark:find", "mark:write"},
           req[r].pc \in {"create:last", "create:publish"} =>
                l.pc \in {"create:last", "create:publish"} /\ l.message = req[r].message
    PROVE  RoomServed'
<1>1. UNCHANGED <<sockets, pushed, messages, excused>>
  BY DEF Msg!realtime
<1>2. \A u, c : Msg!unread(c, u)' = Msg!unread(c, u)
  BY <1>1 DEF Msg!unread, Msg!stored
<1>3. \A u, m : delivered(u, m) => delivered(u, m)'
  BY <1>1, DeliveredKept
<1>4. \A u, c : ~marking(req[r], u, c)
  BY DEF marking
<1> QED BY <1>1, <1>2, <1>3, <1>4, RoomStep

\* The look-ups of CreateMessage, UpdateMessage, DeleteMessage and MarkMessagesAsRead.
LEMMA MessagingFinds ==
    ASSUME Msg!MessagingAssumption, MessagingInv, NEW r \in Requests,
           Msg!CreateFindBetween(r) \/ Msg!CreateFind(r) \/ Msg!UpdateFind(r)
               \/ Msg!DeleteFind(r) \/ Msg!Mark(r)
    PROVE  MessagingInv' /\ (RoomServed => RoomServed')
<1>1. UNCHANGED <<Msg!stores, Msg!realtime, excused>>
  BY DEF Msg!CreateFindBetween, Msg!CreateFind, Msg!UpdateFind, Msg!DeleteFind, Msg!Mark
<1>2. UNCHANGED <<conversations, messages, sockets, pushed, excused>>
  BY <1>1 DEF Msg!stores, Msg!realtime
<1>3. /\ sockets' \in [Listeners -> Msg!Sockets]
      /\ pushed' \in [Listeners -> SUBSET MessageIds]
      /\ excused' \subseteq Listeners \X MessageIds
  BY <1>2 DEF MessagingInv, Msg!TypeOK
<1>4. ASSUME NEW l \in Msg!Local, req' = [req EXCEPT ![r] = l], MessagingLocalOK(l),
             req[r].pc \in {"idle", "create:find"}
      PROVE  MessagingInv' /\ (RoomServed => RoomServed')
  <2>1. MessagingInv'
    BY <1>1, <1>2, <1>3, <1>4, MessagingQuiet
  <2>2. ConversationsKept
    BY <1>1, MessagingSame
  <2>3. UNCHANGED <<messages, Msg!realtime, excused>>
    BY <1>1 DEF Msg!stores
  <2>4. ASSUME RoomServed PROVE RoomServed'
    BY <1>4, <2>2, <2>3, <2>4, RoomQuiet
  <2> QED BY <2>1, <2>4
<1>5. req[r] = Msg!Idle => req[r].pc = "idle"
  BY MessagingIdle
<1>6. CASE Msg!CreateFindBetween(r)
  <2>1. PICK u \in Members, v \in Members :
            \/ req' = [req EXCEPT ![r] = [Msg!Idle EXCEPT !.pc = "create:conversation",
                                                          !.user = u, !.other = v]]
            \/ \E c \in Msg!findBetweenUsers(u, v) :
                req' = [req EXCEPT ![r] = [Msg!Idle EXCEPT !.pc = "create:save", !.user = u,
                                                           !.conversation = c]]
    BY <1>6 DEF Msg!CreateFindBetween
  <2>2. CASE req' = [req EXCEPT ![r] = [Msg!Idle EXCEPT !.pc = "create:conversation",
                                                        !.user = u, !.other = v]]
    <3>1. PICK l : l = [Msg!Idle EXCEPT !.pc = "create:conversation", !.user = u, !.other = v]
      OBVIOUS
    <3>2. l \in Msg!Local /\ l.pc = "create:conversation" /\ l.user = u /\ l.other = v
      BY <3>1, MessagingIdle DEF Msg!Local
    <3>3. MessagingLocalOK(l)
      BY <3>2 DEF MessagingLocalOK, ConversationPcs, MessagePcs
    <3> QED BY <1>4, <1>5, <1>6, <2>2, <3>1, <3>2, <3>3 DEF Msg!CreateFindBetween
  <2>3. ASSUME NEW c \in Msg!findBetweenUsers(u, v),
               req' = [req EXCEPT ![r] = [Msg!Idle EXCEPT !.pc = "create:save", !.user = u,
                                                          !.conversation = c]]
        PROVE  MessagingInv' /\ (RoomServed => RoomServed')
    <3>1. PICK l : l = [Msg!Idle EXCEPT !.pc = "create:save", !.user = u, !.conversation = c]
      OBVIOUS
    <3>2. c \in ConversationIds /\ Msg!exists(c)
      BY DEF Msg!findBetweenUsers
    <3>3. l \in Msg!Local /\ l.pc = "create:save" /\ l.user = u /\ l.conversation = c
      BY <3>1, <3>2, MessagingIdle DEF Msg!Local
    <3>4. MessagingLocalOK(l)
      BY <3>2, <3>3 DEF MessagingLocalOK, ConversationPcs, MessagePcs
    <3> QED BY <1>4, <1>5, <1>6, <2>3, <3>1, <3>3, <3>4 DEF Msg!CreateFindBetween
  <2> QED BY <2>1, <2>2, <2>3
<1>7. CASE Msg!CreateFind(r)
  <2>1. PICK l : l = [req[r] EXCEPT !.pc = "create:save"]
    OBVIOUS
  <2>2. PICK k : k = req[r]
    OBVIOUS
  <2>3. /\ k \in Msg!Local /\ k.pc = "create:find" /\ MessagingLocalOK(k)
        /\ req' = [req EXCEPT ![r] = l]
    BY <1>7, <2>1, <2>2 DEF Msg!CreateFind, Msg!goto, MessagingInv, Msg!TypeOK
  <2>4. l \in Msg!Local /\ l.pc = "create:save" /\ l.user = k.user /\ l.conversation = k.conversation
    BY <2>1, <2>2, <2>3 DEF Msg!Local
  <2>5. MessagingLocalOK(l)
    BY <2>3, <2>4 DEF MessagingLocalOK, ConversationPcs, MessagePcs
  <2> QED BY <1>4, <2>2, <2>3, <2>4, <2>5
<1>8. CASE Msg!UpdateFind(r)
  <2>1. PICK m \in MessageIds, u \in Members :
            /\ Msg!belongsTo(m, u)
            /\ req' = [req EXCEPT ![r] = [Msg!Idle EXCEPT !.pc = "update:write", !.message = m,
                                                          !.next = Msg!withContent(messages[m])]]
    BY <1>8 DEF Msg!UpdateFind
  <2>2. PICK d : d = messages[m]
    OBVIOUS
  <2>3. d \in Msg!Messages /\ d \notin {Msg!Absent, Msg!Removed}
    BY <2>1, <2>2 DEF Msg!belongsTo, Msg!stored, MessagingInv, Msg!TypeOK
  <2>4. PICK l : l = [Msg!Idle EXCEPT !.pc = "update:write", !.message = m, !.next = d]
    OBVIOUS
  <2>5. req' = [req EXCEPT ![r] = l]
    BY <2>1, <2>2, <2>4 DEF Msg!withContent
  <2>6. l \in Msg!Local /\ l.pc = "update:write" /\ l.message = m /\ l.next = d
    BY <2>3, <2>4, MessagingIdle DEF Msg!Local
  <2>7. MessagingLocalOK(l)
    BY <2>2, <2>3, <2>6 DEF MessagingLocalOK, ConversationPcs, MessagePcs
  <2> QED BY <1>4, <1>5, <1>8, <2>5, <2>6, <2>7 DEF Msg!UpdateFind
<1>9. CASE Msg!DeleteFind(r)
  <2>1. PICK m \in MessageIds, u \in Members :
            /\ Msg!belongsTo(m, u)
            /\ req' = [req EXCEPT ![r] = [Msg!Idle EXCEPT !.pc = "delete:write", !.message = m]]
    BY <1>9 DEF Msg!DeleteFind
  <2>2. PICK l : l = [Msg!Idle EXCEPT !.pc = "delete:write", !.message = m]
    OBVIOUS
  <2>3. l \in Msg!Local /\ l.pc = "delete:write" /\ l.message = m
    BY <2>2, MessagingIdle DEF Msg!Local
  <2>4. messages[m] # Msg!Absent
    BY <2>1 DEF Msg!belongsTo, Msg!stored
  <2>5. MessagingLocalOK(l)
    BY <2>3, <2>4 DEF MessagingLocalOK, ConversationPcs, MessagePcs
  <2> QED BY <1>4, <1>5, <1>9, <2>1, <2>2, <2>3, <2>5 DEF Msg!DeleteFind
<1>10. CASE Msg!Mark(r)
  <2>1. PICK u \in Members, c \in ConversationIds : Msg!exists(c) /\ Msg!MarkBy(r, u, c)
    BY <1>10 DEF Msg!Mark
  <2>2. CASE Msg!isParticipant(c, u)
    <3>1. PICK l : l = [Msg!Idle EXCEPT !.pc = "mark:find", !.user = u, !.conversation = c]
      OBVIOUS
    <3>2. l \in Msg!Local /\ l.pc = "mark:find" /\ l.user = u /\ l.conversation = c
      BY <3>1, MessagingIdle DEF Msg!Local
    <3>3. MessagingLocalOK(l)
      BY <2>1, <3>2 DEF MessagingLocalOK, ConversationPcs, MessagePcs
    <3> QED BY <1>4, <1>5, <1>10, <2>1, <2>2, <3>1, <3>2, <3>3 DEF Msg!Mark, Msg!MarkBy
  <2>3. CASE ~Msg!isParticipant(c, u)
    <3>1. req[r] = Msg!Idle /\ req' = req
      BY <1>10, <2>1, <2>3 DEF Msg!Mark, Msg!MarkBy
    <3>2. req' = [req EXCEPT ![r] = Msg!Idle]
      BY <3>1 DEF MessagingInv, Msg!TypeOK
    <3> QED BY <1>4, <1>5, <3>1, <3>2, MessagingIdle
  <2> QED BY <2>2, <2>3
<1> QED BY <1>6, <1>7, <1>8, <1>9, <1>10

\* The two writes of a conversation.
LEMMA MessagingConversations ==
    ASSUME Msg!MessagingAssumption, MessagingInv, NEW r \in Requests,
           Msg!CreateConversation(r) \/ Msg!CreateUpdateLast(r)
    PROVE  MessagingInv' /\ (RoomServed => RoomServed') /\ ConversationsKept
<1>1. PICK k : k = req[r]
  OBVIOUS
<1>2. k \in Msg!Local /\ MessagingLocalOK(k)
  BY <1>1 DEF MessagingInv, Msg!TypeOK
<1>3. UNCHANGED <<messages, sockets, pushed, excused>>
  BY DEF Msg!CreateConversation, Msg!CreateUpdateLast, Msg!realtime
<1>4. /\ messages' \in [MessageIds -> Msg!Messages]
      /\ sockets' \in [Listeners -> Msg!Sockets]
      /\ pushed' \in [Listeners -> SUBSET MessageIds]
      /\ excused' \subseteq Listeners \X MessageIds
  BY <1>3 DEF MessagingInv, Msg!TypeOK
<1>5. MessagesKept /\ \A m : Msg!stored(m)' <=> Msg!stored(m)
  BY <1>3 DEF MessagesKept, Msg!stored
<1>6. ASSUME NEW l \in Msg!Local, req' = [req EXCEPT ![r] = l], MessagingLocalOK(l)',
             ConversationsKept, conversations' \in [ConversationIds -> Msg!Conversations],
             k.pc \in {"create:conversation", "create:last"},
             k.pc = "create:last" => l.pc = "create:publish" /\ l.message = k.message
      PROVE  MessagingInv' /\ (RoomServed => RoomServed')
  <2>1. MessagingInv'
    BY <1>3, <1>4, <1>5, <1>6, MessagingStep
  <2> QED BY <1>1, <1>3, <1>6, <2>1, RoomQuiet DEF Msg!realtime
<1>7. CASE Msg!CreateConversation(r)
  <2>1. PICK c \in ConversationIds :
        /\ ~Msg!exists(c)
        /\ conversations' = [conversations EXCEPT
                ![c].participants = {req[r].user, req[r].other}]
        /\ req' = [req EXCEPT ![r].pc = "create:find", ![r].conversation = c,
                              ![r].other = None]
    BY <1>7 DEF Msg!CreateConversation
  <2>2. PICK l : l = [k EXCEPT !.pc = "create:find", !.conversation = c, !.other = None]
    OBVIOUS
  <2>3. req' = [req EXCEPT ![r] = l]
    BY <1>1, <2>1, <2>2 DEF MessagingInv, Msg!TypeOK
  <2>4. k.pc = "create:conversation" /\ k.user \in Members /\ k.other \in Members
    BY <1>1, <1>2, <1>7 DEF Msg!CreateConversation, MessagingLocalOK
  <2>5. l \in Msg!Local /\ l.pc = "create:find" /\ l.user = k.user /\ l.conversation = c
    BY <1>2, <2>2 DEF Msg!Local
  <2>6. PICK d : d = [conversations[c] EXCEPT !.participants = {k.user, k.other}]
    OBVIOUS
  <2>7. d \in Msg!Conversations /\ d.participants = {k.user, k.other}
    BY <2>4, <2>6 DEF MessagingInv, Msg!TypeOK, Msg!Conversations
  <2>8. conversations' = [conversations EXCEPT ![c] = d]
    BY <1>1, <2>1, <2>6
  <2>9. conversations' \in [ConversationIds -> Msg!Conversations] /\ conversations'[c] = d
        /\ \A e \in ConversationIds : e # c => conversations'[e] = conversations[e]
    BY <2>7, <2>8 DEF MessagingInv, Msg!TypeOK
  <2>10. ConversationsKept
    BY <2>1, <2>9 DEF ConversationsKept, Msg!exists
  <2>11. Msg!exists(c)'
    BY <2>7, <2>9 DEF Msg!exists, Msg!NoConversation
  <2>12. MessagingLocalOK(l)'
    BY <2>4, <2>5, <2>11 DEF MessagingLocalOK, ConversationPcs, MessagePcs
  <2> QED BY <1>6, <2>3, <2>4, <2>5, <2>9, <2>10, <2>12
<1>8. CASE Msg!CreateUpdateLast(r)
  <2>1. PICK l : l = [k EXCEPT !.pc = "create:publish"]
    OBVIOUS
  <2>2. req' = [req EXCEPT ![r] = l] /\ k.pc = "create:last"
    BY <1>1, <1>8, <2>1 DEF Msg!CreateUpdateLast, Msg!goto, MessagingInv, Msg!TypeOK
  <2>3. l \in Msg!Local /\ l.pc = "create:publish" /\ l.user = k.user
        /\ l.conversation = k.conversation /\ l.message = k.message
    BY <1>2, <2>1 DEF Msg!Local
  <2>4. PICK c, m : c = k.conversation /\ m = k.message
    OBVIOUS
  <2>5. /\ k.user \in Members /\ c \in ConversationIds /\ Msg!exists(c)
        /\ m \in MessageIds /\ messages[m] # Msg!Absent
        /\ Msg!stored(m) => messages[m].conversation = c
    BY <1>2, <2>2, <2>4 DEF MessagingLocalOK, ConversationPcs, MessagePcs
  <2>6. PICK d : d = [conversations[c] EXCEPT !.last = m]
    OBVIOUS
  <2>7. d \in Msg!Conversations /\ d.participants = conversations[c].participants /\ d.last = m
    BY <2>5, <2>6 DEF MessagingInv, Msg!TypeOK, Msg!Conversations
  <2>8. conversations' = [conversations EXCEPT ![c] = d]
    BY <1>1, <1>8, <2>4, <2>6 DEF Msg!CreateUpdateLast, Msg!updateLastMessage
  <2>9. conversations' \in [ConversationIds -> Msg!Conversations] /\ conversations'[c] = d
        /\ \A e \in ConversationIds : e # c => conversations'[e] = conversations[e]
    BY <2>5, <2>7, <2>8 DEF MessagingInv, Msg!TypeOK
  <2>10. d # Msg!NoConversation
    BY <2>5, <2>7 DEF Msg!NoConversation, Msg!MessagingAssumption
  <2>11. ConversationsKept /\ Msg!exists(c)'
    BY <2>5, <2>7, <2>9, <2>10 DEF ConversationsKept, Msg!exists
  <2>12. MessagingLocalOK(l)'
    BY <1>3, <1>5, <2>3, <2>4, <2>5, <2>11 DEF MessagingLocalOK, ConversationPcs, MessagePcs
  <2> QED BY <1>6, <2>2, <2>3, <2>9, <2>11, <2>12
<1> QED BY <1>7, <1>8

\* A message is saved: the request has yet to deliver it.
LEMMA MessagingSaves ==
    ASSUME Msg!MessagingAssumption, MessagingInv, NEW r \in Requests, Msg!CreateSave(r)
    PROVE  MessagingInv' /\ (RoomServed => RoomServed')
<1>1. PICK k : k = req[r]
  OBVIOUS
<1>2. /\ k \in Msg!Local /\ k.pc = "create:save" /\ k.user \in Members
      /\ k.conversation \in ConversationIds /\ Msg!exists(k.conversation)
  BY <1>1 DEF Msg!CreateSave, MessagingInv, Msg!TypeOK, MessagingLocalOK, ConversationPcs
<1>3. PICK m \in MessageIds :
        /\ messages[m] = Msg!Absent
        /\ messages' = [messages EXCEPT ![m] = Msg!create(req[r].conversation, req[r].user)]
        /\ req' = [req EXCEPT ![r].pc = "create:last", ![r].message = m]
  BY DEF Msg!CreateSave
<1>4. PICK l : l = [k EXCEPT !.pc = "create:last", !.message = m]
  OBVIOUS
<1>5. req' = [req EXCEPT ![r] = l] /\ UNCHANGED <<conversations, sockets, pushed, excused>>
  BY <1>1, <1>3, <1>4 DEF Msg!CreateSave, Msg!realtime, MessagingInv, Msg!TypeOK
<1>6. l \in Msg!Local /\ l.pc = "create:last" /\ l.user = k.user
      /\ l.conversation = k.conversation /\ l.message = m
  BY <1>2, <1>4 DEF Msg!Local
<1>7. PICK d : d = Msg!create(k.conversation, k.user)
  OBVIOUS
<1>8. d \in Msg!Messages /\ d \notin {Msg!Absent, Msg!Removed} /\ d.conversation = k.conversation
  BY <1>2, <1>7 DEF Msg!create, Msg!Messages, Msg!Absent, Msg!Removed, Msg!MessagingAssumption
<1>9. messages'[m] = d /\ messages' \in [MessageIds -> Msg!Messages]
      /\ \A n \in MessageIds : n # m => messages'[n] = messages[n]
  BY <1>1, <1>3, <1>7, <1>8 DEF MessagingInv, Msg!TypeOK
<1>10. ConversationsKept /\ Msg!exists(k.conversation)'
  BY <1>2, <1>5 DEF ConversationsKept, Msg!exists
<1>11. MessagesKept
  BY <1>3, <1>9 DEF MessagesKept, Msg!stored
<1>12. MessagingLocalOK(l)'
  BY <1>2, <1>6, <1>8, <1>9, <1>10 DEF MessagingLocalOK, ConversationPcs, MessagePcs
<1>13. \A n \in MessageIds, c \in ConversationIds :
            Msg!stored(n)' /\ messages'[n].conversation = c => Msg!stored(n) \/ Msg!exists(c)
  BY <1>2, <1>8, <1>9 DEF Msg!stored
<1>14. /\ conversations' \in [ConversationIds -> Msg!Conversations]
       /\ sockets' \in [Listeners -> Msg!Sockets]
       /\ pushed' \in [Listeners -> SUBSET MessageIds]
       /\ excused' \subseteq Listeners \X MessageIds
  BY <1>5 DEF MessagingInv, Msg!TypeOK
<1>15. MessagingInv'
  BY <1>5, <1>6, <1>9, <1>10, <1>11, <1>12, <1>13, <1>14, MessagingStep
<1>16. ASSUME RoomServed PROVE RoomServed'
  <2>1. \A u, n : delivered(u, n) => delivered(u, n)'
    BY <1>1, <1>2, <1>5, DeliveredKept
  <2>2. \A u : delivered(u, m)'
    BY <1>5, <1>6 DEF delivered, MessagingInv, Msg!TypeOK
  <2>3. \A u, c : Msg!unread(c, u)' \subseteq Msg!unread(c, u) \cup {m}
    BY <1>9 DEF Msg!unread, Msg!stored
  <2>4. \A u, c : ~marking(req[r], u, c)
    BY <1>1, <1>2 DEF marking
  <2>5. \A u, c : \A n \in Msg!unread(c, u)' :
            delivered(u, n)' \/ (n \in Msg!unread(c, u) /\ ~delivered(u, n))
    BY <2>1, <2>2, <2>3
  <2> QED BY <1>5, <1>10, <1>16, <2>4, <2>5, RoomStep
<1> QED BY <1>15, <1>16

\* A message is pushed to the room of its conversation by the request that saved it.
LEMMA MessagingPublishes ==
    ASSUME Msg!MessagingAssumption, MessagingInv, NEW r \in Requests, Msg!CreatePublish(r)
    PROVE  MessagingInv' /\ (RoomServed => RoomServed')
<1>1. PICK k : k = req[r]
  OBVIOUS
<1>2. /\ k.pc = "create:publish" /\ k.message \in MessageIds
      /\ Msg!stored(k.message) => messages[k.message].conversation = k.conversation
  BY <1>1 DEF Msg!CreatePublish, MessagingInv, MessagingLocalOK, MessagePcs
<1>3. UNCHANGED <<Msg!stores, sockets, excused>> /\ req' = [req EXCEPT ![r] = Msg!Idle]
      /\ pushed' = [u \in Listeners |->
            IF k.conversation \in sockets[u].rooms /\ Msg!stored(k.message)
            THEN pushed[u] \cup {k.message} ELSE pushed[u]]
  BY <1>1 DEF Msg!CreatePublish, Msg!finish
<1>4. pushed' \in [Listeners -> SUBSET MessageIds]
  BY <1>2, <1>3 DEF MessagingInv, Msg!TypeOK
<1>5. /\ sockets' \in [Listeners -> Msg!Sockets]
      /\ excused' \subseteq Listeners \X MessageIds
  BY <1>3 DEF MessagingInv, Msg!TypeOK
<1>6. MessagingInv'
  BY <1>3, <1>4, <1>5, MessagingIdle, MessagingQuiet
<1>7. ASSUME RoomServed PROVE RoomServed'
  <2>1. ConversationsKept /\ \A c, u : Msg!unread(c, u)' = Msg!unread(c, u)
    BY <1>3, MessagingSame
  <2>2. ASSUME NEW u \in Listeners, NEW c \in ConversationIds, c \in sockets[u].rooms,
               NEW m \in Msg!unread(c, u)
        PROVE  delivered(u, m) => delivered(u, m)'
    <3>1. Msg!stored(m) /\ messages[m].conversation = c /\ m \in MessageIds
      BY DEF Msg!unread
    <3>2. k.message = m => m \in pushed'[u]
      BY <1>2, <1>3, <2>2, <3>1
    <3>3. m \in pushed[u] => m \in pushed'[u]
      BY <1>3
    <3>4. req[r].message = m => delivered(u, m)'
      BY <1>1, <3>2 DEF delivered
    <3> QED BY <1>3, <3>3, <3>4, DeliveredKept
  <2>3. \A u, c : ~marking(req[r], u, c)
    BY <1>1, <1>2 DEF marking
  <2>4. \A u \in Listeners, c \in ConversationIds : c \in sockets[u].rooms =>
            \A m \in Msg!unread(c, u)' :
                delivered(u, m)' \/ (m \in Msg!unread(c, u) /\ ~delivered(u, m))
    BY <2>1, <2>2
  <2> QED BY <1>3, <1>7, <2>1, <2>3, <2>4, RoomStep
<1> QED BY <1>6, <1>7

\* A request that stops excuses what it had yet to deliver.
LEMMA MessagingFails ==
    ASSUME Msg!MessagingAssumption, MessagingInv, NEW r \in Requests, Msg!RequestFail(r)
    PROVE  MessagingInv' /\ (RoomServed => RoomServed')
<1>1. PICK k : k = req[r]
  OBVIOUS
<1>2. PICK E : E = IF k.pc \in {"mark:find", "mark:write"}
                   THEN (Listeners \cap {k.user}) \X {m \in MessageIds : Msg!stored(m)}
                   ELSE Listeners \X {m \in MessageIds : m = k.message /\ Msg!stored(m)}
  OBVIOUS
<1>3. UNCHANGED <<Msg!stores, sockets, pushed>> /\ req' = [req EXCEPT ![r] = Msg!Idle]
      /\ excused' = excused \cup E
  BY <1>1, <1>2 DEF Msg!RequestFail, Msg!finish, Msg!realtime
<1>4. E \subseteq Listeners \X MessageIds
  BY <1>2
<1>5. /\ sockets' \in [Listeners -> Msg!Sockets]
      /\ pushed' \in [Listeners -> SUBSET MessageIds]
      /\ excused' \subseteq Listeners \X MessageIds
  BY <1>3, <1>4 DEF MessagingInv, Msg!TypeOK
<1>6. MessagingInv'
  BY <1>3, <1>5, MessagingIdle, MessagingQuiet
<1>7. ASSUME RoomServed PROVE RoomServed'
  <2>1. ConversationsKept /\ \A c, u : Msg!unread(c, u)' = Msg!unread(c, u)
    BY <1>3, MessagingSame
  <2>2. ASSUME NEW u \in Listeners, NEW c \in ConversationIds, NEW m \in Msg!unread(c, u)
        PROVE  delivered(u, m) => delivered(u, m)'
    <3>1. Msg!stored(m) /\ m \in MessageIds
      BY DEF Msg!unread
    <3>2. k.pc \in {"create:last", "create:publish"} /\ k.message = m => <<u, m>> \in excused'
      BY <1>2, <1>3, <3>1
    <3>3. req[r].pc \in {"create:last", "create:publish"} /\ req[r].message = m
                => delivered(u, m)'
      BY <1>1, <3>2 DEF delivered
    <3> QED BY <1>3, <3>3, DeliveredKept
  <2>3. ASSUME NEW u \in Listeners, NEW c \in ConversationIds, marking(req[r], u, c)
        PROVE  settled(u, c, {})'
    <3>1. \A m \in Msg!unread(c, u) : <<u, m>> \in excused'
      BY <1>1, <1>2, <1>3, <2>3 DEF marking, Msg!unread
    <3> QED BY <2>1, <3>1 DEF settled, delivered
  <2>4. \A u \in Listeners, c \in ConversationIds : c \in sockets[u].rooms =>
            \A m \in Msg!unread(c, u)' :
                delivered(u, m)' \/ (m \in Msg!unread(c, u) /\ ~delivered(u, m))
    BY <2>1, <2>2
  <2> QED BY <1>3, <1>7, <2>1, <2>3, <2>4, RoomStep
<1> QED BY <1>6, <1>7

\* An edit writes a copy back: the readers it loses are excused.
LEMMA MessagingUpdates ==
    ASSUME Msg!MessagingAssumption, MessagingInv, NEW r \in Requests, Msg!UpdateWrite(r)
    PROVE  MessagingInv' /\ (RoomServed => RoomServed')
<1>1. PICK k, m, d : k = req[r] /\ m = k.message /\ d = k.next
  OBVIOUS
<1>2. /\ k.pc = "update:write" /\ m \in MessageIds /\ messages[m] # Msg!Absent
      /\ d \in Msg!Messages /\ d \notin {Msg!Absent, Msg!Removed}
      /\ Msg!stored(m) => /\ d.conversation = messages[m].conversation
                          /\ d.sender = messages[m].sender
  BY <1>1 DEF Msg!UpdateWrite, MessagingInv, Msg!TypeOK, Msg!Local, MessagingLocalOK, MessagePcs
<1>3. UNCHANGED <<conversations, sockets, pushed>> /\ req' = [req EXCEPT ![r] = Msg!Idle]
      /\ messages' = (IF Msg!stored(m) THEN [messages EXCEPT ![m] = d] ELSE messages)
      /\ excused' = excused \cup
            (((messages[m].readBy \ d.readBy) \cap Listeners) \X {m})
  BY <1>1 DEF Msg!UpdateWrite, Msg!finish, Msg!realtime, Msg!update
<1>4. /\ messages' \in [MessageIds -> Msg!Messages]
      /\ \A n \in MessageIds : n # m => messages'[n] = messages[n]
      /\ Msg!stored(m) => messages'[m] = d
      /\ ~Msg!stored(m) => messages'[m] = messages[m]
  BY <1>2, <1>3 DEF MessagingInv, Msg!TypeOK
<1>5. /\ conversations' \in [ConversationIds -> Msg!Conversations]
      /\ sockets' \in [Listeners -> Msg!Sockets]
      /\ pushed' \in [Listeners -> SUBSET MessageIds]
      /\ excused' \subseteq Listeners \X MessageIds
  BY <1>2, <1>3 DEF MessagingInv, Msg!TypeOK
<1>6. ConversationsKept
  BY <1>3 DEF ConversationsKept, Msg!exists
<1>7. \A n \in MessageIds : Msg!stored(n)' <=> Msg!stored(n)
  BY <1>2, <1>4 DEF Msg!stored
<1>8. MessagesKept
  BY <1>2, <1>4, <1>7 DEF MessagesKept
<1>9. MessagingInv'
  BY <1>3, <1>4, <1>5, <1>6, <1>7, <1>8, MessagingIdle, MessagingStep
<1>10. ASSUME RoomServed PROVE RoomServed'
  <2>1. \A u, n : delivered(u, n) => delivered(u, n)'
    BY <1>1, <1>2, <1>3, DeliveredKept
  <2>2. ASSUME NEW u \in Listeners, NEW c, NEW n \in Msg!unread(c, u)', n \notin Msg!unread(c,
               u)
        PROVE  delivered(u, n)'
    <3>1. n \in MessageIds /\ Msg!stored(n) /\ n = m
      BY <1>4, <1>7, <2>2 DEF Msg!unread
    <3>2. u \in messages[m].readBy /\ u \notin d.readBy
      BY <1>2, <1>4, <2>2, <3>1 DEF Msg!unread
    <3> QED BY <1>3, <3>1, <3>2 DEF delivered
  <2>3. \A u, c : ~marking(req[r], u, c)
    BY <1>1, <1>2 DEF marking
  <2>4. \A u \in Listeners, c \in ConversationIds : c \in sockets[u].rooms =>
            \A n \in Msg!unread(c, u)' :
                delivered(u, n)' \/ (n \in Msg!unread(c, u) /\ ~delivered(u, n))
    BY <2>1, <2>2
  <2> QED BY <1>3, <1>6, <1>10, <2>3, <2>4, RoomStep
<1> QED BY <1>9, <1>10

LEMMA MessagingDeletes ==
    ASSUME Msg!MessagingAssumption, MessagingInv, NEW r \in Requests, Msg!DeleteWrite(r)
    PROVE  MessagingInv' /\ (RoomServed => RoomServed')
<1>1. PICK k, m : k = req[r] /\ m = k.message
  OBVIOUS
<1>2. k.pc = "delete:write" /\ m \in MessageIds /\ messages[m] # Msg!Absent
  BY <1>1 DEF Msg!DeleteWrite, MessagingInv, MessagingLocalOK, MessagePcs
<1>3. UNCHANGED <<conversations, sockets>> /\ req' = [req EXCEPT ![r] = Msg!Idle]
      /\ messages' = [messages EXCEPT ![m] = Msg!Removed]
      /\ pushed' = [u \in Listeners |-> pushed[u] \ {m}]
      /\ excused' = {pair \in excused : pair[2] # m}
  BY <1>1 DEF Msg!DeleteWrite, Msg!finish
<1>4. Msg!Removed \in Msg!Messages /\ Msg!Removed # Msg!Absent
  BY DEF Msg!Messages, Msg!Removed, Msg!Absent
<1>5. /\ messages' \in [MessageIds -> Msg!Messages] /\ messages'[m] = Msg!Removed
      /\ \A n \in MessageIds : n # m => messages'[n] = messages[n]
  BY <1>2, <1>3, <1>4 DEF MessagingInv, Msg!TypeOK
<1>6. /\ conversations' \in [ConversationIds -> Msg!Conversations]
      /\ sockets' \in [Listeners -> Msg!Sockets]
      /\ pushed' \in [Listeners -> SUBSET MessageIds]
      /\ excused' \subseteq Listeners \X MessageIds
  BY <1>3 DEF MessagingInv, Msg!TypeOK
<1>7. ConversationsKept
  BY <1>3 DEF ConversationsKept, Msg!exists
<1>8. ~Msg!stored(m)' /\ \A n \in MessageIds : n # m => (Msg!stored(n)' <=> Msg!stored(n))
  BY <1>5 DEF Msg!stored
<1>9. MessagesKept
  BY <1>4, <1>5, <1>8 DEF MessagesKept
<1>10. MessagingInv'
  BY <1>3, <1>5, <1>6, <1>7, <1>8, <1>9, MessagingIdle, MessagingStep
<1>11. ASSUME RoomServed PROVE RoomServed'
  <2>1. ASSUME NEW u \in Listeners, NEW c, NEW n \in Msg!unread(c, u)'
        PROVE  n \in Msg!unread(c, u) /\ (delivered(u, n) => delivered(u, n)')
    <3>1. n \in MessageIds /\ n # m /\ n \in Msg!unread(c, u)
      BY <1>5, <1>8 DEF Msg!unread
    <3>2. n \in pushed[u] => n \in pushed'[u]
      BY <1>3, <3>1
    <3>3. <<u, n>> \in excused => <<u, n>> \in excused'
      BY <1>3, <3>1
    <3> QED BY <1>1, <1>2, <1>3, <3>1, <3>2, <3>3, DeliveredKept
  <2>3. \A u, c : ~marking(req[r], u, c)
    BY <1>1, <1>2 DEF marking
  <2>4. \A u \in Listeners, c \in ConversationIds : c \in sockets[u].rooms =>
            \A n \in Msg!unread(c, u)' :
                delivered(u, n)' \/ (n \in Msg!unread(c, u) /\ ~delivered(u, n))
    BY <2>1
  <2> QED BY <1>3, <1>7, <1>11, <2>3, <2>4, RoomStep
<1> QED BY <1>10, <1>11

\* The messages a reading finds are what is unread.
LEMMA MessagingReads ==
    ASSUME Msg!MessagingAssumption, MessagingInv, NEW r \in Requests,
           Msg!markConversationAsReadFind(r)
    PROVE  MessagingInv' /\ (RoomServed => RoomServed')
<1>1. PICK k, S : k = req[r] /\ S = Msg!unread(k.conversation, k.user)
  OBVIOUS
<1>2. /\ k \in Msg!Local /\ k.pc = "mark:find" /\ k.user \in Members
      /\ k.conversation \in ConversationIds /\ Msg!exists(k.conversation)
  BY <1>1
  DEF Msg!markConversationAsReadFind, MessagingInv, Msg!TypeOK, MessagingLocalOK,
      ConversationPcs
<1>3. UNCHANGED <<Msg!stores, sockets, pushed, excused>>
      /\ IF S = {} THEN req' = [req EXCEPT ![r] = Msg!Idle]
         ELSE req' = [req EXCEPT ![r].pc = "mark:write", ![r].ids = S]
  BY <1>1 DEF Msg!markConversationAsReadFind, Msg!finish, Msg!realtime
<1>4. /\ sockets' \in [Listeners -> Msg!Sockets]
      /\ pushed' \in [Listeners -> SUBSET MessageIds]
      /\ excused' \subseteq Listeners \X MessageIds
  BY <1>3 DEF MessagingInv, Msg!TypeOK
<1>5. S \in SUBSET MessageIds
  BY <1>1 DEF Msg!unread
<1>6. ConversationsKept /\ \A c, u : Msg!unread(c, u)' = Msg!unread(c, u)
  BY <1>3, MessagingSame
<1>7. ASSUME NEW l \in Msg!Local, req' = [req EXCEPT ![r] = l], MessagingLocalOK(l),
             \/ S = {}
             \/ /\ l.pc = "mark:write" /\ l.user = k.user /\ l.conversation = k.conversation
                /\ l.ids = S
      PROVE  MessagingInv' /\ (RoomServed => RoomServed')
  <2>1. MessagingInv'
    BY <1>3, <1>4, <1>7, MessagingQuiet
  <2>2. ASSUME RoomServed PROVE RoomServed'
    <3>1. \A u, m : delivered(u, m) => delivered(u, m)'
      BY <1>1, <1>2, <1>3, <1>7, DeliveredKept
    <3>2. ASSUME NEW u \in Listeners, NEW c \in ConversationIds, marking(req[r], u, c)
          PROVE  \/ settled(u, c, {})'
                 \/ marking(l, u, c) /\ l.pc = "mark:write" /\ settled(u, c, l.ids)'
      <4>1. u = k.user /\ c = k.conversation
        BY <1>1, <3>2 DEF marking
      <4>2. Msg!unread(c, u)' = S
        BY <1>1, <1>6, <4>1
      <4> QED BY <1>7, <4>1, <4>2 DEF settled, marking
    <3>3. \A u \in Listeners, c \in ConversationIds : c \in sockets[u].rooms =>
            \A m \in Msg!unread(c, u)' :
                delivered(u, m)' \/ (m \in Msg!unread(c, u) /\ ~delivered(u, m))
      BY <1>6, <3>1
    <3> QED BY <1>3, <1>6, <1>7, <2>2, <3>2, <3>3, RoomStep
  <2> QED BY <2>1, <2>2
<1>8. CASE S = {}
  BY <1>3, <1>7, <1>8, MessagingIdle
<1>9. CASE S # {}
  <2>1. PICK l : l = [k EXCEPT !.pc = "mark:write", !.ids = S]
    OBVIOUS
  <2>2. req' = [req EXCEPT ![r] = l]
    BY <1>1, <1>3, <1>9, <2>1 DEF MessagingInv, Msg!TypeOK
  <2>3. /\ l \in Msg!Local /\ l.pc = "mark:write" /\ l.user = k.user
        /\ l.conversation = k.conversation /\ l.ids = S
    BY <1>2, <1>5, <2>1 DEF Msg!Local
  <2>4. MessagingLocalOK(l)
    BY <1>2, <2>3 DEF MessagingLocalOK, ConversationPcs, MessagePcs
  <2> QED BY <1>7, <2>2, <2>3, <2>4
<1> QED BY <1>8, <1>9

\* What a reading found is read when it ends; what was saved since is delivered.
LEMMA MessagingMarks ==
    ASSUME Msg!MessagingAssumption, MessagingInv, NEW r \in Requests,
           Msg!markConversationAsReadWrite(r)
    PROVE  /\ MessagingInv' /\ (RoomServed => RoomServed')
           /\ ConversationsKept /\ UNCHANGED conversations
           /\ \A c, u : Msg!unread(c, u)' \subseteq Msg!unread(c, u)
<1>1. PICK k : k = req[r]
  OBVIOUS
<1>2. /\ k.pc = "mark:write" /\ k.user \in Members
  BY <1>1
  DEF Msg!markConversationAsReadWrite, MessagingInv, Msg!TypeOK, MessagingLocalOK,
      ConversationPcs
<1>3. UNCHANGED <<conversations, sockets, pushed, excused>> /\ req' = [req EXCEPT ![r] = Msg!Idle]
      /\ messages' = [m \in MessageIds |->
            IF m \in k.ids /\ Msg!stored(m)
            THEN [messages[m] EXCEPT !.readBy = @ \cup {k.user}] ELSE messages[m]]
  BY <1>1 DEF Msg!markConversationAsReadWrite, Msg!finish, Msg!realtime
<1>4. ASSUME NEW m \in MessageIds
      PROVE  /\ messages'[m] \in Msg!Messages
             /\ Msg!stored(m)' <=> Msg!stored(m)
             /\ messages'[m].conversation = messages[m].conversation
             /\ messages'[m].sender = messages[m].sender
             /\ Msg!stored(m) => messages[m].readBy \subseteq messages'[m].readBy
             /\ Msg!stored(m) /\ m \in k.ids => k.user \in messages'[m].readBy
  <2>1. CASE m \in k.ids /\ Msg!stored(m)
    <3>1. PICK d : d = messages[m]
      OBVIOUS
    <3>2. d \in [conversation : ConversationIds, sender : Members, readBy : SUBSET Members,
                 gone : {FALSE}]
      BY <2>1, <3>1, MessageKinds DEF Msg!stored, MessagingInv, Msg!TypeOK
    <3>3. PICK e : e = [d EXCEPT !.readBy = d.readBy \cup {k.user}]
      OBVIOUS
    <3>4. /\ e \in [conversation : ConversationIds, sender : Members, readBy : SUBSET Members,
                    gone : {FALSE}]
          /\ e.conversation = d.conversation /\ e.sender = d.sender
          /\ e.readBy = d.readBy \cup {k.user}
      BY <1>2, <3>2, <3>3
    <3>5. messages'[m] = e
      BY <1>3, <2>1, <3>1, <3>3
    <3>6. e \in Msg!Messages /\ e \notin {Msg!Absent, Msg!Removed}
      <4>1. e \in Msg!Messages
        BY <3>4 DEF Msg!Messages
      <4>2. e.conversation # None
        <5>1. e.conversation \in ConversationIds
          BY <3>4
        <5> QED BY <5>1 DEF Msg!MessagingAssumption
      <4>3. Msg!Absent.conversation = None /\ Msg!Removed.conversation = None
        BY <4>1, MessageKinds
      <4> QED BY <4>1, <4>2, <4>3
    <3>7. Msg!stored(m)'
      BY <3>5, <3>6 DEF Msg!stored
    <3> QED BY <2>1, <3>1, <3>4, <3>5, <3>6, <3>7
  <2>2. CASE ~(m \in k.ids /\ Msg!stored(m))
    <3>1. messages'[m] = messages[m]
      BY <1>3, <2>2
    <3> QED BY <2>2, <3>1 DEF Msg!stored, MessagingInv, Msg!TypeOK
  <2> QED BY <2>1, <2>2
<1>5. messages' \in [MessageIds -> Msg!Messages]
  BY <1>3, <1>4
<1>6. /\ conversations' \in [ConversationIds -> Msg!Conversations]
      /\ sockets' \in [Listeners -> Msg!Sockets]
      /\ pushed' \in [Listeners -> SUBSET MessageIds]
      /\ excused' \subseteq Listeners \X MessageIds
  BY <1>3 DEF MessagingInv, Msg!TypeOK
<1>7. ConversationsKept
  BY <1>3 DEF ConversationsKept, Msg!exists
<1>8. MessagesKept
  <2>1. ASSUME NEW m \in MessageIds, messages[m] # Msg!Absent PROVE messages'[m] # Msg!Absent
    BY <1>3, <1>4, <2>1 DEF Msg!stored
  <2> QED BY <1>4, <2>1 DEF MessagesKept
<1>9. MessagingInv'
  BY <1>3, <1>4, <1>5, <1>6, <1>7, <1>8, MessagingIdle, MessagingStep
<1>10. \A c, u : Msg!unread(c, u)' \subseteq Msg!unread(c, u)
  BY <1>4 DEF Msg!unread
<1>11. ASSUME RoomServed PROVE RoomServed'
  <2>1. \A u, m : delivered(u, m) => delivered(u, m)'
    BY <1>1, <1>2, <1>3, DeliveredKept
  <2>2. ASSUME NEW u \in Listeners, NEW c \in ConversationIds, marking(req[r], u, c),
               settled(u, c, req[r].ids)
        PROVE  settled(u, c, {})'
    <3>1. u = k.user /\ c = k.conversation /\ settled(u, c, k.ids)
      BY <1>1, <2>2 DEF marking
    <3>2. \A m \in Msg!unread(c, u)' : m \in Msg!unread(c, u) \ k.ids
      BY <1>4, <1>10, <3>1 DEF Msg!unread
    <3> QED BY <2>1, <3>1, <3>2 DEF settled
  <2>3. \A u \in Listeners, c \in ConversationIds : c \in sockets[u].rooms =>
            \A m \in Msg!unread(c, u)' :
                delivered(u, m)' \/ (m \in Msg!unread(c, u) /\ ~delivered(u, m))
    BY <1>10, <2>1
  <2>4. req[r].pc = "mark:write"
    BY <1>1, <1>2
  <2> QED BY <1>3, <1>7, <1>11, <2>2, <2>3, <2>4, RoomStep
<1> QED BY <1>3, <1>7, <1>9, <1>10, <1>11

\* A socket joins the room before what waits there is marked.
LEMMA MessagingJoins ==
    ASSUME Msg!MessagingAssumption, MessagingInv, NEW r \in Requests,
           NEW v \in Listeners, NEW d \in ConversationIds, Msg!JoinConversation(r, v, d)
    PROVE  MessagingInv' /\ (RoomServed => RoomServed')
<1>1. /\ req[r] = Msg!Idle /\ Msg!exists(d) /\ UNCHANGED <<Msg!stores, pushed, excused>>
      /\ sockets' = [sockets EXCEPT ![v].rooms = @ \cup {d}] /\ Msg!MarkBy(r, v, d)
  BY DEF Msg!JoinConversation
<1>2. req[r].pc = "idle"
  BY <1>1, MessagingIdle
<1>3. PICK s : s = [sockets[v] EXCEPT !.rooms = sockets[v].rooms \cup {d}]
  OBVIOUS
<1>4. s \in Msg!Sockets /\ s.rooms = sockets[v].rooms \cup {d}
  BY <1>3 DEF Msg!Sockets, MessagingInv, Msg!TypeOK
<1>5. sockets' = [sockets EXCEPT ![v] = s]
  BY <1>1, <1>3
<1>6. /\ sockets' \in [Listeners -> Msg!Sockets]
      /\ \A u \in Listeners, c \in ConversationIds : c \in sockets'[u].rooms =>
            c \in sockets[u].rooms \/ (u = v /\ c = d)
  BY <1>4, <1>5 DEF MessagingInv, Msg!TypeOK
<1>7. /\ pushed' \in [Listeners -> SUBSET MessageIds]
      /\ excused' \subseteq Listeners \X MessageIds
  BY <1>1 DEF MessagingInv, Msg!TypeOK
<1>8. /\ ConversationsKept
      /\ \A c, u : Msg!unread(c, u)' = Msg!unread(c, u) /\ (Msg!isParticipant(c, u)' <=> Msg!isParticipant(c, u))
  BY <1>1, MessagingSame
<1>9. ASSUME NEW l \in Msg!Local, req' = [req EXCEPT ![r] = l], MessagingLocalOK(l),
             Msg!isParticipant(d, v) => marking(l, v, d) /\ l.pc = "mark:find"
      PROVE  MessagingInv' /\ (RoomServed => RoomServed')
  <2>1. MessagingInv'
    BY <1>1, <1>6, <1>7, <1>9, MessagingQuiet
  <2>2. ASSUME RoomServed PROVE RoomServed'
    <3>1. \A u, m : delivered(u, m) => delivered(u, m)'
      BY <1>1, <1>2, <1>9, DeliveredKept
    <3>2. \A u, c : ~marking(req[r], u, c)
      BY <1>2 DEF marking
    <3>3. \A u \in Listeners, c \in ConversationIds : c \in sockets[u].rooms =>
            \A m \in Msg!unread(c, u)' :
                delivered(u, m)' \/ (m \in Msg!unread(c, u) /\ ~delivered(u, m))
      BY <1>8, <3>1
    <3>4. \A u \in Listeners, c \in ConversationIds : c \in sockets'[u].rooms =>
                \/ c \in sockets[u].rooms
                \/ Msg!isParticipant(c, u)' => marking(l, u, c) /\ l.pc = "mark:find"
      BY <1>6, <1>8, <1>9
    <3> QED BY <1>8, <1>9, <2>2, <3>2, <3>3, <3>4, RoomStep
  <2> QED BY <2>1, <2>2
<1>10. CASE Msg!isParticipant(d, v)
  <2>1. PICK l : l = [Msg!Idle EXCEPT !.pc = "mark:find", !.user = v, !.conversation = d]
    OBVIOUS
  <2>2. v \in Members
    BY DEF Msg!MessagingAssumption
  <2>3. l \in Msg!Local /\ l.pc = "mark:find" /\ l.user = v /\ l.conversation = d
    BY <2>1, <2>2, MessagingIdle DEF Msg!Local
  <2>4. MessagingLocalOK(l)
    BY <1>1, <2>2, <2>3 DEF MessagingLocalOK, ConversationPcs, MessagePcs
  <2> QED BY <1>1, <1>9, <1>10, <2>1, <2>3, <2>4 DEF Msg!MarkBy, marking
<1>11. CASE ~Msg!isParticipant(d, v)
  <2>1. req' = [req EXCEPT ![r] = Msg!Idle]
    BY <1>1, <1>11 DEF Msg!MarkBy, MessagingInv, Msg!TypeOK
  <2> QED BY <1>9, <1>11, <2>1, MessagingIdle
<1> QED BY <1>10, <1>11

\* Sockets come and go: whoever is left in a room has what was pushed there.
LEMMA MessagingSockets ==
    ASSUME Msg!MessagingAssumption, MessagingInv, NEW v \in Listeners, Msg!SocketStep(v)
    PROVE  MessagingInv' /\ (RoomServed => RoomServed')
<1>1. UNCHANGED <<Msg!stores, excused, req>>
  BY DEF Msg!SocketStep, Msg!Connect, Msg!Disconnect, Msg!LeaveConversation
<1>2. PICK s : /\ sockets' = [sockets EXCEPT ![v] = s] /\ s \in Msg!Sockets
               /\ s.rooms \subseteq sockets[v].rooms
               /\ \/ pushed' = pushed
                  \/ pushed' = [pushed EXCEPT ![v] = {}] /\ s.rooms = {}
  <2>1. CASE Msg!Connect(v)
    <3>1. PICK s : s = [sockets[v] EXCEPT !.connected = TRUE]
      OBVIOUS
    <3>2. s \in Msg!Sockets /\ s.rooms = sockets[v].rooms
      BY <3>1 DEF Msg!Sockets, MessagingInv, Msg!TypeOK
    <3>3. sockets' = [sockets EXCEPT ![v] = s] /\ pushed' = pushed
      BY <2>1, <3>1 DEF Msg!Connect
    <3> QED BY <3>2, <3>3
  <2>2. CASE Msg!Disconnect(v)
    <3>1. Msg!Offline \in Msg!Sockets /\ Msg!Offline.rooms = {}
      BY DEF Msg!Offline, Msg!Sockets
    <3>2. sockets' = [sockets EXCEPT ![v] = Msg!Offline] /\ pushed' = [pushed EXCEPT ![v] = {}]
      BY <2>2 DEF Msg!Disconnect
    <3> QED BY <3>1, <3>2
  <2>3. ASSUME NEW c \in ConversationIds, Msg!LeaveConversation(v, c)
        PROVE  \E s : /\ sockets' = [sockets EXCEPT ![v] = s] /\ s \in Msg!Sockets
                      /\ s.rooms \subseteq sockets[v].rooms
                      /\ \/ pushed' = pushed
                         \/ pushed' = [pushed EXCEPT ![v] = {}] /\ s.rooms = {}
    <3>1. PICK s : s = [sockets[v] EXCEPT !.rooms = sockets[v].rooms \ {c}]
      OBVIOUS
    <3>2. s \in Msg!Sockets /\ s.rooms \subseteq sockets[v].rooms
      BY <3>1 DEF Msg!Sockets, MessagingInv, Msg!TypeOK
    <3>3. sockets' = [sockets EXCEPT ![v] = s] /\ pushed' = pushed
      BY <2>3, <3>1 DEF Msg!LeaveConversation
    <3> QED BY <3>2, <3>3
  <2> QED BY <2>1, <2>2, <2>3 DEF Msg!SocketStep
<1>3. /\ sockets' \in [Listeners -> Msg!Sockets] /\ pushed' \in [Listeners -> SUBSET MessageIds]
      /\ \A u \in Listeners : sockets'[u].rooms \subseteq sockets[u].rooms
      /\ \A u \in Listeners, c \in ConversationIds : c \in sockets'[u].rooms => pushed'[u] = pushed[u]
  BY <1>2 DEF MessagingInv, Msg!TypeOK
<1>4. MessagingInv'
  <2>1. Msg!TypeOK'
    BY <1>1, <1>3 DEF Msg!stores, MessagingInv, Msg!TypeOK
  <2>2. \A q \in Requests : MessagingLocalOK(req[q])'
    BY <1>1 DEF Msg!stores, MessagingInv, MessagingLocalOK, Msg!stored, Msg!exists
  <2>3. PlacesExist'
    BY <1>1, <1>3 DEF Msg!stores, MessagingInv, PlacesExist, Msg!stored, Msg!exists
  <2> QED BY <2>1, <2>2, <2>3 DEF MessagingInv
<1>5. ASSUME RoomServed PROVE RoomServed'
  <2> SUFFICES ASSUME NEW u \in Listeners, NEW c \in ConversationIds,
                      c \in sockets'[u].rooms, Msg!isParticipant(c, u)'
               PROVE  \/ settled(u, c, {})'
                      \/ \E q \in Requests : marking(req'[q], u, c) /\ req'[q].pc = "mark:find"
                      \/ \E q \in Requests : /\ marking(req'[q], u, c) /\ req'[q].pc = "mark:write"
                                             /\ \A m \in Msg!unread(c, u)' \ req'[q].ids : delivered(u, m)'
    BY DEF RoomServed, settled, marking
  <2>1. c \in sockets[u].rooms /\ Msg!isParticipant(c, u) /\ Msg!unread(c, u)' = Msg!unread(c, u)
    BY <1>1, <1>3, MessagingSame
  <2>2. \A m : delivered(u, m)' <=> delivered(u, m)
    BY <1>1, <1>3 DEF delivered
  <2>3. \A S : settled(u, c, S) <=> \A m \in Msg!unread(c, u)' \ S : delivered(u, m)'
    BY <2>1, <2>2 DEF settled
  <2>4. \/ settled(u, c, {})
        \/ \E q \in Requests : marking(req[q], u, c) /\ req[q].pc = "mark:find"
        \/ \E q \in Requests : /\ marking(req[q], u, c) /\ req[q].pc = "mark:write"
                               /\ settled(u, c, req[q].ids)
    BY <1>5, <2>1 DEF RoomServed
  <2>5. settled(u, c, {}) => settled(u, c, {})'
    BY <2>1, <2>2 DEF settled
  <2> QED BY <1>1, <2>3, <2>4, <2>5
<1> QED BY <1>4, <1>5

LEMMA MessagingNext ==
    Msg!MessagingAssumption /\ MessagingInv /\ RoomServed /\ [Msg!Next]_Msg!vars
        => MessagingInv' /\ RoomServed'
<1> SUFFICES ASSUME Msg!MessagingAssumption, MessagingInv, RoomServed, [Msg!Next]_Msg!vars
             PROVE  MessagingInv' /\ RoomServed'
  OBVIOUS
<1>1. CASE UNCHANGED Msg!vars
  <2>1. MessagingInv'
    BY <1>1
    DEF Msg!vars, MessagingInv, Msg!TypeOK, MessagingLocalOK, PlacesExist, Msg!stored,
        Msg!exists
  <2>2. RoomServed'
    BY <1>1
    DEF Msg!vars, RoomServed, settled, delivered, Msg!unread, Msg!stored, Msg!isParticipant,
        marking
  <2> QED BY <2>1, <2>2
<1>2. ASSUME NEW r \in Requests, Msg!Step(r) PROVE MessagingInv' /\ RoomServed'
  <2>1. CASE Msg!CreateFindBetween(r) \/ Msg!CreateFind(r) \/ Msg!UpdateFind(r) \/ Msg!DeleteFind(r) \/ Msg!Mark(r)
    BY <2>1, MessagingFinds
  <2>2. CASE Msg!CreateConversation(r) \/ Msg!CreateUpdateLast(r)
    BY <2>2, MessagingConversations
  <2>3. CASE Msg!CreateSave(r) \/ Msg!CreatePublish(r)
    BY <2>3, MessagingSaves, MessagingPublishes
  <2>4. CASE Msg!UpdateWrite(r) \/ Msg!DeleteWrite(r) \/ Msg!RequestFail(r)
    BY <2>4, MessagingUpdates, MessagingDeletes, MessagingFails
  <2>5. CASE Msg!markConversationAsReadFind(r) \/ Msg!markConversationAsReadWrite(r)
    BY <2>5, MessagingReads, MessagingMarks
  <2>6. CASE \E u \in Listeners, c \in ConversationIds : Msg!JoinConversation(r, u, c)
    BY <2>6, MessagingJoins
  <2> QED BY <1>2, <2>1, <2>2, <2>3, <2>4, <2>5, <2>6 DEF Msg!Step
<1>3. ASSUME NEW u \in Listeners, Msg!SocketStep(u) PROVE MessagingInv' /\ RoomServed'
  BY <1>3, MessagingSockets
<1> QED BY <1>1, <1>2, <1>3 DEF Msg!Next

\* Conversations, messages, sockets and requests keep their types (CreateMessage:27-64).
THEOREM MessagingTypes == ASSUME Msg!MessagingAssumption PROVE Msg!Spec => []Msg!TypeOK
<1>1. MessagingInv => Msg!TypeOK
  BY DEF MessagingInv
<1> QED BY <1>1, MessagingInit, MessagingNext, PTL DEF Msg!Spec

\* However many requests overlap, whoever is in the room of a conversation they take
\* part in has been pushed every message the inbox counts as unread for them, but
\* those they are not owed (socketService.ts:112-137, CreateMessage:52-64).
THEOREM RoomsAreServed == ASSUME Msg!MessagingAssumption PROVE Msg!Spec => []Msg!InboxAgrees
<1>1. RoomServed => Msg!InboxAgrees
  <2> SUFFICES ASSUME RoomServed, NEW u \in Listeners, NEW c \in ConversationIds,
                      c \in sockets[u].rooms, Msg!isParticipant(c, u),
                      ~ \E r \in Requests : /\ req[r].pc \in {"mark:find", "mark:write"}
                                            /\ req[r].user = u /\ req[r].conversation = c
               PROVE  \A m \in Msg!unread(c, u) :
                        \/ m \in pushed[u] \/ <<u, m>> \in excused
                        \/ \E r \in Requests : /\ req[r].pc \in {"create:last", "create:publish"}
                                               /\ req[r].message = m
    BY DEF Msg!InboxAgrees
  <2>1. \A r \in Requests : ~marking(req[r], u, c)
    BY DEF marking
  <2>2. settled(u, c, {})
    BY <2>1 DEF RoomServed
  <2> QED BY <2>2 DEF settled, delivered
<1> QED BY <1>1, MessagingInit, MessagingNext, PTL DEF Msg!Spec
-----------------------------------------------------------------------------
(* The conversations of a pair: a creation that found none and has yet to  *)
(* save counts as one.                                                     *)

LEMMA PairCounts ==
    ASSUME Msg!MessagingAssumption, NEW u, NEW v
    PROVE  /\ IsFiniteSet(between(u, v)) /\ Cardinality(between(u, v)) \in Nat
           /\ IsFiniteSet(creating(u, v)) /\ Cardinality(creating(u, v)) \in Nat
           /\ Cardinality(creating(u, v)) <= Cardinality(Requests)
           /\ Cardinality(Requests) \in Nat
<1>1. between(u, v) \subseteq ConversationIds /\ creating(u, v) \subseteq Requests
  BY DEF between, creating
<1> QED BY MessagingSets, <1>1, FS_Subset, FS_CardinalityType DEF Msg!MessagingAssumption

LEMMA PairCountsNext ==
    ASSUME Msg!MessagingAssumption, NEW u, NEW v
    PROVE  /\ Cardinality(between(u, v)') \in Nat /\ Cardinality(creating(u, v)') \in Nat
           /\ Cardinality(creating(u, v)') <= Cardinality(Requests)
<1>1. between(u, v)' \subseteq ConversationIds /\ creating(u, v)' \subseteq Requests
  BY DEF between, creating
<1>2. /\ IsFiniteSet(between(u, v)') /\ IsFiniteSet(creating(u, v)')
      /\ Cardinality(creating(u, v)') <= Cardinality(Requests)
  BY MessagingSets, <1>1, FS_Subset DEF Msg!MessagingAssumption
<1> QED BY <1>2, FS_CardinalityType

\* A step that makes no conversation of the pair and lets no creation through.
LEMMA PairQuiet ==
    ASSUME Msg!MessagingAssumption, CreationsBounded, NEW u \in Members, NEW v \in Members,
           between(u, v)' \subseteq between(u, v), creating(u, v)' \subseteq creating(u, v)
    PROVE  Cardinality(between(u, v)') + Cardinality(creating(u, v)') <= Cardinality(Requests)
<1>1. Cardinality(between(u, v)') + Cardinality(creating(u, v)')
          <= Cardinality(between(u, v)) + Cardinality(creating(u, v))
  BY PairCounts, FewerOfBoth
<1>2. Cardinality(between(u, v)) + Cardinality(creating(u, v)) <= Cardinality(Requests)
  BY DEF CreationsBounded
<1> QED BY <1>1, <1>2, PairCounts, PairCountsNext

\* A look-up that lets a creation through found nothing, and no more of them are
\* let through with it than there are requests.
LEMMA PairsLookedUp ==
    ASSUME Msg!MessagingAssumption, MessagingInv, CreationsBounded, NEW r \in Requests,
           Msg!CreateFindBetween(r)
    PROVE  CreationsBounded'
<1>1. UNCHANGED conversations
  BY DEF Msg!CreateFindBetween, Msg!stores
<1>2. \A u, v \in Members : between(u, v)' = between(u, v)
  BY <1>1 DEF between
<1>3. PICK x \in Members, y \in Members :
        \/ /\ Msg!findBetweenUsers(x, y) = {}
           /\ req' = [req EXCEPT ![r] = [Msg!Idle EXCEPT !.pc = "create:conversation",
                                                         !.user = x, !.other = y]]
        \/ \E c \in Msg!findBetweenUsers(x, y) :
            req' = [req EXCEPT ![r] = [Msg!Idle EXCEPT !.pc = "create:save", !.user = x,
                                                       !.conversation = c]]
  BY DEF Msg!CreateFindBetween
<1> SUFFICES ASSUME NEW u \in Members, NEW v \in Members
             PROVE  Cardinality(between(u, v)') + Cardinality(creating(u, v)')
                        <= Cardinality(Requests)
  BY DEF CreationsBounded
<1>4. ASSUME NEW l, req' = [req EXCEPT ![r] = l],
             ~(l.pc = "create:conversation" /\ {l.user, l.other} = {u, v})
      PROVE  creating(u, v)' \subseteq creating(u, v)
  BY <1>4 DEF creating, MessagingInv, Msg!TypeOK
<1>5. CASE \E c \in Msg!findBetweenUsers(x, y) :
            req' = [req EXCEPT ![r] = [Msg!Idle EXCEPT !.pc = "create:save", !.user = x,
                                                       !.conversation = c]]
  <2>1. PICK c \in Msg!findBetweenUsers(x, y) :
            req' = [req EXCEPT ![r] = [Msg!Idle EXCEPT !.pc = "create:save", !.user = x,
                                                       !.conversation = c]]
    BY <1>5
  <2>2. [Msg!Idle EXCEPT !.pc = "create:save", !.user = x, !.conversation = c].pc = "create:save"
    BY DEF Msg!Idle
  <2>3. creating(u, v)' \subseteq creating(u, v)
    BY <1>4, <2>1, <2>2
  <2> QED BY <1>2, <2>3, PairQuiet
<1>6. CASE /\ Msg!findBetweenUsers(x, y) = {}
           /\ req' = [req EXCEPT ![r] = [Msg!Idle EXCEPT !.pc = "create:conversation",
                                                         !.user = x, !.other = y]]
  <2>1. PICK l : l = [Msg!Idle EXCEPT !.pc = "create:conversation", !.user = x, !.other = y]
    OBVIOUS
  <2>2. req' = [req EXCEPT ![r] = l] /\ l.user = x /\ l.other = y
    BY <1>6, <2>1 DEF Msg!Idle
  <2>3. CASE {x, y} = {u, v}
    <3>1. between(u, v) = {}
      BY <1>6, <2>3 DEF between, Msg!findBetweenUsers, Msg!exists, Msg!NoConversation
    <3>2. Cardinality(between(u, v)') = 0
      BY <1>2, <3>1, FS_EmptySet
    <3> QED BY <3>2, PairCounts, PairCountsNext
  <2>4. CASE {x, y} # {u, v}
    <3>1. creating(u, v)' \subseteq creating(u, v)
      BY <1>4, <2>2, <2>4
    <3> QED BY <1>2, <3>1, PairQuiet
  <2> QED BY <2>3, <2>4
<1> QED BY <1>3, <1>5, <1>6

\* A conversation is made of a creation that was let through.
LEMMA PairsMade ==
    ASSUME Msg!MessagingAssumption, MessagingInv, CreationsBounded, NEW r \in Requests,
           Msg!CreateConversation(r)
    PROVE  CreationsBounded'
<1>1. PICK k : k = req[r]
  OBVIOUS
<1>2. PICK c \in ConversationIds :
        /\ ~Msg!exists(c)
        /\ conversations' = [conversations EXCEPT
                ![c].participants = {req[r].user, req[r].other}]
        /\ req' = [req EXCEPT ![r].pc = "create:find", ![r].conversation = c,
                              ![r].other = None]
  BY DEF Msg!CreateConversation
<1>3. /\ k \in Msg!Local /\ k.pc = "create:conversation"
      /\ conversations'[c].participants = {k.user, k.other}
      /\ \A d \in ConversationIds : d # c => conversations'[d] = conversations[d]
  BY <1>1, <1>2 DEF Msg!CreateConversation, MessagingInv, Msg!TypeOK, Msg!Conversations
<1>4. PICK l : l = [k EXCEPT !.pc = "create:find", !.conversation = c, !.other = None]
  OBVIOUS
<1>5. req' = [req EXCEPT ![r] = l] /\ l.pc = "create:find"
  BY <1>1, <1>2, <1>3, <1>4 DEF MessagingInv, Msg!TypeOK, Msg!Local
<1> SUFFICES ASSUME NEW u \in Members, NEW v \in Members
             PROVE  Cardinality(between(u, v)') + Cardinality(creating(u, v)')
                        <= Cardinality(Requests)
  BY DEF CreationsBounded
<1>6. creating(u, v)' \subseteq creating(u, v) \ {r}
  BY <1>5 DEF creating, MessagingInv, Msg!TypeOK
<1>7. CASE {k.user, k.other} = {u, v}
  <2>1. r \in creating(u, v)
    BY <1>1, <1>3, <1>7 DEF creating
  <2>2. between(u, v)' \subseteq between(u, v) \cup {c}
    BY <1>3 DEF between
  <2>3. Cardinality(between(u, v)') + Cardinality(creating(u, v)')
            <= Cardinality(between(u, v)) + Cardinality(creating(u, v))
    BY <1>6, <2>1, <2>2, PairCounts, OneForOne
  <2>4. Cardinality(between(u, v)) + Cardinality(creating(u, v)) <= Cardinality(Requests)
    BY DEF CreationsBounded
  <2> QED BY <2>3, <2>4, PairCounts, PairCountsNext
<1>8. CASE {k.user, k.other} # {u, v}
  <2>1. between(u, v)' \subseteq between(u, v)
    BY <1>3, <1>8 DEF between
  <2> QED BY <1>6, <2>1, PairQuiet
<1> QED BY <1>7, <1>8

\* Nothing else changes who takes part in a conversation.
LEMMA PairsOther ==
    ASSUME Msg!MessagingAssumption, CreationsBounded,
           \A c \in ConversationIds :
                conversations'[c].participants = conversations[c].participants,
           \A q \in Requests : req'[q].pc = "create:conversation" => req'[q] = req[q]
    PROVE  CreationsBounded'
<1> SUFFICES ASSUME NEW u \in Members, NEW v \in Members
             PROVE  Cardinality(between(u, v)') + Cardinality(creating(u, v)')
                        <= Cardinality(Requests)
  BY DEF CreationsBounded
<1>1. between(u, v)' \subseteq between(u, v) /\ creating(u, v)' \subseteq creating(u, v)
  BY DEF between, creating
<1> QED BY <1>1, PairQuiet

LEMMA PairsNext ==
    Msg!MessagingAssumption /\ MessagingInv /\ CreationsBounded /\ [Msg!Next]_Msg!vars => CreationsBounded'
<1> SUFFICES ASSUME Msg!MessagingAssumption, MessagingInv, CreationsBounded, [Msg!Next]_Msg!vars
             PROVE  CreationsBounded'
  OBVIOUS
<1>1. ASSUME NEW r \in Requests, NEW l, req' = [req EXCEPT ![r] = l],
             l.pc # "create:conversation"
      PROVE  \A q \in Requests : req'[q].pc = "create:conversation" => req'[q] = req[q]
  BY <1>1 DEF MessagingInv, Msg!TypeOK
<1>2. ASSUME NEW r \in Requests, Msg!finish(r)
      PROVE  \A q \in Requests : req'[q].pc = "create:conversation" => req'[q] = req[q]
  <2>1. Msg!Idle.pc # "create:conversation"
    BY DEF Msg!Idle
  <2> QED BY <1>1, <1>2, <2>1 DEF Msg!finish
<1>3. ASSUME NEW r \in Requests, NEW pc, pc # "create:conversation", Msg!goto(r, pc)
      PROVE  \A q \in Requests : req'[q].pc = "create:conversation" => req'[q] = req[q]
  <2>1. [req[r] EXCEPT !.pc = pc].pc = pc
    BY DEF MessagingInv, Msg!TypeOK, Msg!Local
  <2> QED BY <1>1, <1>3, <2>1 DEF Msg!goto
<1>4. ASSUME NEW r \in Requests, NEW u, NEW c, Msg!MarkBy(r, u, c)
      PROVE  \A q \in Requests : req'[q].pc = "create:conversation" => req'[q] = req[q]
  <2>1. [Msg!Idle EXCEPT !.pc = "mark:find", !.user = u, !.conversation = c].pc
            # "create:conversation"
    BY DEF Msg!Idle
  <2> QED BY <1>1, <1>4, <2>1 DEF Msg!MarkBy
<1>5. ASSUME NEW r \in Requests, Msg!Step(r) PROVE CreationsBounded'
  <2>1. CASE Msg!CreateFindBetween(r) \/ Msg!CreateConversation(r)
    BY <2>1, PairsLookedUp, PairsMade
  <2>2. CASE Msg!CreateFind(r)
    BY <1>3, <2>2, PairsOther DEF Msg!CreateFind, Msg!stores
  <2>3. CASE Msg!CreateSave(r)
    <3>1. PICK m \in MessageIds :
            /\ messages[m] = Msg!Absent
            /\ messages' = [messages EXCEPT ![m] = Msg!create(req[r].conversation, req[r].user)]
            /\ req' = [req EXCEPT ![r].pc = "create:last", ![r].message = m]
      BY <2>3 DEF Msg!CreateSave
    <3>2. PICK l : l = [req[r] EXCEPT !.pc = "create:last", !.message = m]
      OBVIOUS
    <3>3. req' = [req EXCEPT ![r] = l] /\ l.pc # "create:conversation"
      BY <3>1, <3>2 DEF MessagingInv, Msg!TypeOK, Msg!Local
    <3> QED BY <1>1, <2>3, <3>3, PairsOther DEF Msg!CreateSave
  <2>4. CASE Msg!CreateUpdateLast(r)
    <3>1. \A c \in ConversationIds :
            conversations'[c].participants = conversations[c].participants
      BY <2>4
      DEF Msg!CreateUpdateLast, Msg!updateLastMessage, MessagingInv, Msg!TypeOK,
          Msg!Conversations
    <3> QED BY <1>3, <2>4, <3>1, PairsOther DEF Msg!CreateUpdateLast
  <2>5. CASE Msg!CreatePublish(r) \/ Msg!UpdateWrite(r) \/ Msg!DeleteWrite(r) \/ Msg!RequestFail(r)
                \/ Msg!markConversationAsReadWrite(r)
    BY <1>2, <2>5, PairsOther
       DEF Msg!CreatePublish, Msg!UpdateWrite, Msg!DeleteWrite, Msg!RequestFail,
           Msg!markConversationAsReadWrite, Msg!stores
  <2>6. CASE Msg!UpdateFind(r)
    <3>1. PICK m \in MessageIds, u \in Members :
            /\ Msg!belongsTo(m, u)
            /\ req' = [req EXCEPT ![r] = [Msg!Idle EXCEPT !.pc = "update:write", !.message = m,
                                                          !.next = Msg!withContent(messages[m])]]
      BY <2>6 DEF Msg!UpdateFind
    <3>2. [Msg!Idle EXCEPT !.pc = "update:write", !.message = m,
                           !.next = Msg!withContent(messages[m])].pc # "create:conversation"
      BY DEF Msg!Idle
    <3> QED BY <1>1, <2>6, <3>1, <3>2, PairsOther DEF Msg!UpdateFind, Msg!stores
  <2>7. CASE Msg!DeleteFind(r)
    <3>1. PICK m \in MessageIds, u \in Members :
            /\ Msg!belongsTo(m, u)
            /\ req' = [req EXCEPT ![r] = [Msg!Idle EXCEPT !.pc = "delete:write", !.message = m]]
      BY <2>7 DEF Msg!DeleteFind
    <3>2. [Msg!Idle EXCEPT !.pc = "delete:write", !.message = m].pc # "create:conversation"
      BY DEF Msg!Idle
    <3> QED BY <1>1, <2>7, <3>1, <3>2, PairsOther DEF Msg!DeleteFind, Msg!stores
  <2>8. CASE Msg!Mark(r)
    BY <1>4, <2>8, PairsOther DEF Msg!Mark, Msg!stores
  <2>9. CASE Msg!markConversationAsReadFind(r)
    <3>1. CASE Msg!finish(r)
      BY <1>2, <2>9, <3>1, PairsOther DEF Msg!markConversationAsReadFind, Msg!stores
    <3>2. CASE ~Msg!finish(r)
      <4>1. PICK S : S = Msg!unread(req[r].conversation, req[r].user)
        OBVIOUS
      <4>2. PICK l : l = [req[r] EXCEPT !.pc = "mark:write", !.ids = S]
        OBVIOUS
      <4>3. req' = [req EXCEPT ![r] = l] /\ l.pc # "create:conversation"
        BY <2>9, <3>2, <4>1, <4>2
        DEF Msg!markConversationAsReadFind, MessagingInv, Msg!TypeOK, Msg!Local
      <4> QED BY <1>1, <2>9, <4>3, PairsOther DEF Msg!markConversationAsReadFind, Msg!stores
    <3> QED BY <3>1, <3>2
  <2>10. CASE \E u \in Listeners, c \in ConversationIds : Msg!JoinConversation(r, u, c)
    BY <1>4, <2>10, PairsOther DEF Msg!JoinConversation, Msg!stores
  <2> QED BY <1>5, <2>1, <2>2, <2>3, <2>4, <2>5, <2>6, <2>7, <2>8, <2>9, <2>10 DEF Msg!Step
<1>6. CASE UNCHANGED <<conversations, req>>
  BY <1>6, PairsOther
<1>7. ASSUME NEW u \in Listeners, Msg!SocketStep(u) PROVE UNCHANGED <<conversations, req>>
  BY <1>7 DEF Msg!SocketStep, Msg!Connect, Msg!Disconnect, Msg!LeaveConversation, Msg!stores
<1> QED BY <1>5, <1>6, <1>7 DEF Msg!Next, Msg!vars

LEMMA PairsInit == Msg!MessagingAssumption /\ Msg!Init => CreationsBounded
<1> SUFFICES ASSUME Msg!MessagingAssumption, Msg!Init, NEW u \in Members, NEW v \in Members
             PROVE  Cardinality(between(u, v)) + Cardinality(creating(u, v))
                        <= Cardinality(Requests)
  BY DEF CreationsBounded
<1>1. between(u, v) = {} /\ creating(u, v) = {}
  BY DEF Msg!Init, between, creating, Msg!NoConversation, Msg!Idle
<1> QED BY <1>1, FS_EmptySet, PairCounts

\* A pair of users never has more conversations than requests are served at once
\* (CreateMessage:27-36).
THEOREM ConversationsPerPair == ASSUME Msg!MessagingAssumption PROVE Msg!Spec => []Msg!ConversationsBounded
<1>1. CreationsBounded => Msg!ConversationsBounded
  <2> SUFFICES ASSUME CreationsBounded, NEW u \in Members, NEW v \in Members
               PROVE  Cardinality(between(u, v)) <= Cardinality(Requests)
    BY MessagingSets DEF Msg!ConversationsBounded, between
  <2> QED BY PairCounts DEF CreationsBounded
<1>2. MessagingInv /\ CreationsBounded /\ RoomServed /\ [Msg!Next]_Msg!vars
        => (MessagingInv /\ CreationsBounded /\ RoomServed)'
  BY MessagingNext, PairsNext
<1> QED BY <1>1, <1>2, MessagingInit, PairsInit, PTL DEF Msg!Spec
-----------------------------------------------------------------------------
(* Readings that last, one request at a time.                              *)

\* Nothing becomes unread but what was just saved.
UnreadKept ==
    \A c \in ConversationIds, u \in Members :
        Msg!unread(c, u)' \subseteq Msg!unread(c, u) \cup {m \in MessageIds : ~Msg!stored(m)}

LEMMA UnreadSame == UNCHANGED messages => UnreadKept
BY DEF UnreadKept, Msg!unread, Msg!stored

\* The badge counts conversations with an unread message: these exist, and nobody
\* joins them.
LEMMA BadgeKept ==
    ASSUME Msg!MessagingAssumption, MessagingInv, UnreadKept, ConversationsKept
    PROVE  Msg!ReadingsKept
<1> DEFINE shown(u) == {c \in Msg!findIdsForUser(u) : Msg!hasUnreadInConversation(c, u)}
<1>1. ASSUME NEW u \in Members, \A m \in MessageIds : Msg!stored(m)' => Msg!stored(m)
      PROVE  shown(u)' \subseteq shown(u)
  <2> SUFFICES ASSUME NEW c \in ConversationIds, Msg!isParticipant(c, u)', Msg!unread(c, u)' # {}
               PROVE  Msg!isParticipant(c, u) /\ Msg!unread(c, u) # {}
    BY DEF Msg!findIdsForUser, Msg!hasUnreadInConversation
  <2>1. PICK m \in MessageIds : m \in Msg!unread(c, u)'
    BY DEF Msg!unread
  <2>2. Msg!stored(m)'
    BY <2>1 DEF Msg!unread
  <2>3. m \in Msg!unread(c, u)
    BY <1>1, <2>1, <2>2 DEF UnreadKept
  <2>4. Msg!stored(m) /\ messages[m].conversation = c
    BY <2>3 DEF Msg!unread
  <2>5. Msg!exists(c)
    BY <2>4 DEF MessagingInv, PlacesExist
  <2>6. conversations'[c].participants = conversations[c].participants
    BY <2>5 DEF ConversationsKept
  <2> QED BY <2>3, <2>6 DEF Msg!isParticipant
<1>2. ASSUME NEW u \in Members, Msg!countForUser(u)' > Msg!countForUser(u)
      PROVE  \E m \in MessageIds : ~Msg!stored(m) /\ Msg!stored(m)'
  <2> SUFFICES ASSUME \A m \in MessageIds : Msg!stored(m)' => Msg!stored(m) PROVE FALSE
    OBVIOUS
  <2>1. shown(u) \subseteq ConversationIds /\ shown(u)' \subseteq shown(u)
    BY <1>1 DEF Msg!findIdsForUser
  <2>2. Msg!countForUser(u) = Cardinality(shown(u)) /\ Msg!countForUser(u)' = Cardinality(shown(u)')
    BY MessagingSets DEF Msg!countForUser
  <2> HIDE DEF shown
  <2>3. /\ IsFiniteSet(shown(u)) /\ IsFiniteSet(shown(u)')
        /\ Cardinality(shown(u)') <= Cardinality(shown(u))
    BY MessagingSets, <2>1, FS_Subset DEF Msg!MessagingAssumption
  <2>4. Cardinality(shown(u)) \in Nat /\ Cardinality(shown(u)') \in Nat
    BY <2>3, FS_CardinalityType
  <2> QED BY <1>2, <2>2, <2>3, <2>4
<1>3. \A u \in Members, c \in ConversationIds :
        Msg!unread(c, u)' \subseteq Msg!unread(c, u) \cup {m \in MessageIds : ~Msg!stored(m)}
  BY DEF UnreadKept
<1> HIDE DEF shown
<1> QED BY <1>2, <1>3 DEF Msg!ReadingsKept

LEMMA ReadingsNext ==
    ASSUME Msg!MessagingAssumption, NEW r, Requests = {r}, MessagingInv, CopiesFresh,
           [Msg!Next]_Msg!vars
    PROVE  CopiesFresh' /\ UnreadKept /\ ConversationsKept
<1>1. ASSUME NEW l, req' = [req EXCEPT ![r] = l], l.pc # "update:write"
      PROVE  CopiesFresh'
  BY <1>1 DEF CopiesFresh, MessagingInv, Msg!TypeOK
<1>2. ASSUME Msg!finish(r) PROVE CopiesFresh'
  <2>1. Msg!Idle.pc # "update:write"
    BY DEF Msg!Idle
  <2> QED BY <1>1, <1>2, <2>1 DEF Msg!finish
<1>3. ASSUME NEW pc, pc # "update:write", Msg!goto(r, pc) PROVE CopiesFresh'
  <2>1. [req[r] EXCEPT !.pc = pc].pc = pc
    BY DEF MessagingInv, Msg!TypeOK, Msg!Local
  <2> QED BY <1>1, <1>3, <2>1 DEF Msg!goto
<1>4. ASSUME NEW u, NEW c, Msg!MarkBy(r, u, c), req[r] = Msg!Idle PROVE CopiesFresh'
  <2>1. [Msg!Idle EXCEPT !.pc = "mark:find", !.user = u, !.conversation = c].pc # "update:write"
    BY DEF Msg!Idle
  <2>2. Msg!Idle.pc # "update:write" /\ (req' = req => req' = [req EXCEPT ![r] = Msg!Idle])
    BY <1>4 DEF Msg!Idle, MessagingInv, Msg!TypeOK
  <2> QED BY <1>1, <1>4, <2>1, <2>2 DEF Msg!MarkBy
<1>5. CASE UNCHANGED <<conversations, messages, req>>
  <2>1. CopiesFresh'
    BY <1>5 DEF CopiesFresh, Msg!stored
  <2>2. ConversationsKept
    BY <1>5 DEF ConversationsKept, Msg!exists
  <2> QED BY <1>5, <2>1, <2>2, UnreadSame
<1>6. ASSUME Msg!Step(r) PROVE CopiesFresh' /\ UnreadKept /\ ConversationsKept
  <2>1. ASSUME UNCHANGED Msg!stores PROVE UnreadKept /\ ConversationsKept
    BY <2>1, UnreadSame, MessagingSame DEF Msg!stores
  <2>2. CASE Msg!CreateFindBetween(r)
    <3>1. PICK x \in Members, y \in Members :
            \/ /\ Msg!findBetweenUsers(x, y) = {}
               /\ req' = [req EXCEPT ![r] = [Msg!Idle EXCEPT !.pc = "create:conversation",
                                                             !.user = x, !.other = y]]
            \/ \E c \in Msg!findBetweenUsers(x, y) :
                req' = [req EXCEPT ![r] = [Msg!Idle EXCEPT !.pc = "create:save", !.user = x,
                                                           !.conversation = c]]
      BY <2>2 DEF Msg!CreateFindBetween
    <3>2. /\ [Msg!Idle EXCEPT !.pc = "create:conversation", !.user = x, !.other = y].pc
                # "update:write"
          /\ \A c : [Msg!Idle EXCEPT !.pc = "create:save", !.user = x, !.conversation = c].pc
                # "update:write"
      BY DEF Msg!Idle
    <3>3. PICK l : req' = [req EXCEPT ![r] = l] /\ l.pc # "update:write"
      BY <3>1, <3>2
    <3>4. CopiesFresh'
      BY <1>1, <3>3
    <3> QED BY <2>1, <2>2, <3>4 DEF Msg!CreateFindBetween
  <2>3. CASE Msg!CreateConversation(r)
    <3>1. PICK c \in ConversationIds :
            /\ ~Msg!exists(c)
            /\ conversations' = [conversations EXCEPT
                    ![c].participants = {req[r].user, req[r].other}]
            /\ req' = [req EXCEPT ![r].pc = "create:find", ![r].conversation = c,
                                  ![r].other = None]
      BY <2>3 DEF Msg!CreateConversation
    <3>2. PICK l : l = [req[r] EXCEPT !.pc = "create:find", !.conversation = c, !.other = None]
      OBVIOUS
    <3>3. req' = [req EXCEPT ![r] = l] /\ l.pc # "update:write"
      BY <3>1, <3>2 DEF MessagingInv, Msg!TypeOK, Msg!Local
    <3>4. CopiesFresh'
      BY <1>1, <3>3
    <3> QED BY <2>3, <3>4, MessagingConversations, UnreadSame DEF Msg!CreateConversation
  <2>4. CASE Msg!CreateFind(r)
    BY <1>3, <2>1, <2>4 DEF Msg!CreateFind
  <2>5. CASE Msg!CreateSave(r)
    <3>1. PICK m \in MessageIds :
            /\ messages[m] = Msg!Absent
            /\ messages' = [messages EXCEPT ![m] = Msg!create(req[r].conversation, req[r].user)]
            /\ req' = [req EXCEPT ![r].pc = "create:last", ![r].message = m]
      BY <2>5 DEF Msg!CreateSave
    <3>2. PICK l : l = [req[r] EXCEPT !.pc = "create:last", !.message = m]
      OBVIOUS
    <3>3. req' = [req EXCEPT ![r] = l] /\ l.pc # "update:write"
      BY <3>1, <3>2 DEF MessagingInv, Msg!TypeOK, Msg!Local
    <3>4. CopiesFresh'
      BY <1>1, <3>3
    <3>5. ~Msg!stored(m) /\ \A n \in MessageIds : n # m => messages'[n] = messages[n]
      BY <3>1 DEF Msg!stored, MessagingInv, Msg!TypeOK
    <3>6. UnreadKept
      BY <3>5 DEF UnreadKept, Msg!unread, Msg!stored
    <3>7. ConversationsKept
      BY <2>5 DEF Msg!CreateSave, ConversationsKept, Msg!exists
    <3> QED BY <3>4, <3>6, <3>7
  <2>6. CASE Msg!CreateUpdateLast(r)
    BY <1>3, <2>6, MessagingConversations, UnreadSame DEF Msg!CreateUpdateLast
  <2>7. CASE Msg!CreatePublish(r)
    BY <1>2, <2>1, <2>7 DEF Msg!CreatePublish
  <2>8. CASE Msg!UpdateFind(r)
    <3>1. PICK m \in MessageIds, u \in Members :
            /\ Msg!belongsTo(m, u)
            /\ req' = [req EXCEPT ![r] = [Msg!Idle EXCEPT !.pc = "update:write", !.message = m,
                                                          !.next = Msg!withContent(messages[m])]]
      BY <2>8 DEF Msg!UpdateFind
    <3>2. PICK l : l = [Msg!Idle EXCEPT !.pc = "update:write", !.message = m,
                                        !.next = Msg!withContent(messages[m])]
      OBVIOUS
    <3>3. l.message = m /\ l.next = messages[m] /\ req'[r] = l
      BY <3>1, <3>2 DEF Msg!Idle, Msg!withContent, MessagingInv, Msg!TypeOK
    <3>4. UNCHANGED messages
      BY <2>8 DEF Msg!UpdateFind, Msg!stores
    <3>5. CopiesFresh'
      BY <3>3, <3>4 DEF CopiesFresh
    <3> QED BY <2>1, <2>8, <3>5 DEF Msg!UpdateFind
  <2>9. CASE Msg!UpdateWrite(r)
    <3>1. PICK m, d : m = req[r].message /\ d = req[r].next
      OBVIOUS
    <3>2. m \in MessageIds /\ (Msg!stored(m) => d = messages[m])
      BY <2>9, <3>1
         DEF Msg!UpdateWrite, CopiesFresh, MessagingInv, MessagingLocalOK, MessagePcs
    <3>3. messages' = (IF Msg!stored(m) THEN [messages EXCEPT ![m] = d] ELSE messages)
      BY <2>9, <3>1 DEF Msg!UpdateWrite, Msg!update
    <3>4. UNCHANGED messages
      BY <3>2, <3>3 DEF MessagingInv, Msg!TypeOK
    <3>5. ConversationsKept
      BY <2>9 DEF Msg!UpdateWrite, ConversationsKept, Msg!exists
    <3> QED BY <1>2, <2>9, <3>4, <3>5, UnreadSame DEF Msg!UpdateWrite
  <2>10. CASE Msg!DeleteFind(r)
    <3>1. PICK m \in MessageIds, u \in Members :
            /\ Msg!belongsTo(m, u)
            /\ req' = [req EXCEPT ![r] = [Msg!Idle EXCEPT !.pc = "delete:write", !.message = m]]
      BY <2>10 DEF Msg!DeleteFind
    <3>2. [Msg!Idle EXCEPT !.pc = "delete:write", !.message = m].pc # "update:write"
      BY DEF Msg!Idle
    <3> QED BY <1>1, <2>1, <2>10, <3>1, <3>2 DEF Msg!DeleteFind
  <2>11. CASE Msg!DeleteWrite(r)
    <3>1. PICK m : m = req[r].message
      OBVIOUS
    <3>2. messages' = [messages EXCEPT ![m] = Msg!Removed]
      BY <2>11, <3>1 DEF Msg!DeleteWrite
    <3>3. \A n \in MessageIds : messages'[n] = messages[n] \/ messages'[n] = Msg!Removed
      BY <3>2 DEF MessagingInv, Msg!TypeOK
    <3>4. UnreadKept
      BY <3>3 DEF UnreadKept, Msg!unread, Msg!stored
    <3>5. ConversationsKept
      BY <2>11 DEF Msg!DeleteWrite, ConversationsKept, Msg!exists
    <3> QED BY <1>2, <2>11, <3>4, <3>5 DEF Msg!DeleteWrite
  <2>12. CASE Msg!Mark(r)
    BY <1>4, <2>1, <2>12 DEF Msg!Mark
  <2>13. CASE Msg!markConversationAsReadFind(r)
    <3>1. CASE Msg!finish(r)
      BY <1>2, <2>1, <2>13, <3>1 DEF Msg!markConversationAsReadFind
    <3>2. CASE ~Msg!finish(r)
      <4>1. PICK S : S = Msg!unread(req[r].conversation, req[r].user)
        OBVIOUS
      <4>2. PICK l : l = [req[r] EXCEPT !.pc = "mark:write", !.ids = S]
        OBVIOUS
      <4>3. req' = [req EXCEPT ![r] = l] /\ l.pc # "update:write"
        BY <2>13, <3>2, <4>1, <4>2
        DEF Msg!markConversationAsReadFind, MessagingInv, Msg!TypeOK, Msg!Local
      <4> QED BY <1>1, <2>1, <2>13, <4>3 DEF Msg!markConversationAsReadFind
    <3> QED BY <3>1, <3>2
  <2>14. CASE Msg!markConversationAsReadWrite(r)
    <3>1. UnreadKept
      BY <2>14, MessagingMarks DEF UnreadKept
    <3> QED BY <1>2, <2>14, <3>1, MessagingMarks DEF Msg!markConversationAsReadWrite
  <2>15. CASE \E u \in Listeners, c \in ConversationIds : Msg!JoinConversation(r, u, c)
    <3>1. PICK u \in Listeners, c \in ConversationIds : Msg!JoinConversation(r, u, c)
      BY <2>15
    <3> QED BY <1>4, <2>1, <3>1 DEF Msg!JoinConversation
  <2>16. CASE Msg!RequestFail(r)
    BY <1>2, <2>1, <2>16 DEF Msg!RequestFail
  <2> QED BY <1>6, <2>2, <2>3, <2>4, <2>5, <2>6, <2>7, <2>8, <2>9, <2>10, <2>11, <2>12,
             <2>13, <2>14, <2>15, <2>16 DEF Msg!Step
<1>7. ASSUME NEW u \in Listeners, Msg!SocketStep(u)
      PROVE  UNCHANGED <<conversations, messages, req>>
  BY <1>7 DEF Msg!SocketStep, Msg!Connect, Msg!Disconnect, Msg!LeaveConversation, Msg!stores
<1> QED BY <1>5, <1>6, <1>7 DEF Msg!Next, Msg!vars

\* One request at a time, a message that was read is not unread again, and the badge
\* grows with a new message only (UpdateMessage:32,
\* MongooseUnreadConversationCounter.adapter.ts:14-29).
THEOREM ReadingsAreKept ==
    ASSUME Msg!MessagingAssumption, NEW r, Requests = {r}
    PROVE  Msg!Spec => [][Msg!ReadingsKept]_Msg!vars
<1>1. Msg!Init => CopiesFresh
  BY DEF Msg!Init, CopiesFresh, Msg!Idle
<1>2. MessagingInv /\ RoomServed /\ CopiesFresh /\ [Msg!Next]_Msg!vars
        => MessagingInv' /\ RoomServed' /\ CopiesFresh' /\ Msg!ReadingsKept
  BY MessagingNext, ReadingsNext, BadgeKept
<1>3. Msg!Init => MessagingInv /\ RoomServed /\ CopiesFresh
  BY <1>1, MessagingInit
<1> QED BY <1>2, <1>3, PTL DEF Msg!Spec
-----------------------------------------------------------------------------
(* PRODUCTS                                                                *)

\* What a handler relies on when it resumes.
LocalOK(l) ==
    /\ l.pc = "create:save" => l.user \in Users /\ l.category \in Categories
    /\ l.pc = "update:write" => l.id \in Products /\ l.category \in Categories

Inv == TypeOK /\ \A r \in Requests : LocalOK(req[r])

-----------------------------------------------------------------------------
(* Type correctness                                                        *)

LEMMA InitInv == Init => Inv
BY DEF Init, Inv, TypeOK, ProductDocs, Local, Idle, LocalOK

LEMMA IdleOK == Idle \in Local /\ LocalOK(Idle)
BY DEF Idle, Local, LocalOK

\* The locals a step sets are the only ones it changes.
LEMMA StepInv ==
    ASSUME Inv, products' \in [Products -> ProductDocs], accounts' \subseteq Users,
           NEW r \in Requests, NEW l \in Local, LocalOK(l), req' = [req EXCEPT ![r] = l]
    PROVE  Inv'
BY DEF Inv, TypeOK, LocalOK

\* The updates and the deletions leave well-formed documents, of the same users.
LEMMA UpdateType ==
    ASSUME Inv, NEW p \in Products, NEW c \in Categories, update(p, c)
    PROVE  /\ products' \in [Products -> ProductDocs]
           /\ \A q \in Products : products'[q].user = products[q].user
<1>1. CASE stored(p)
  <2>1. products[p] \in [user : Users, category : Categories, state : {"stored"}]
    BY <1>1 DEF Inv, TypeOK, stored, ProductDocs, Absent, Removed
  <2>2. /\ [products[p] EXCEPT !.category = c] \in ProductDocs
        /\ [products[p] EXCEPT !.category = c].user = products[p].user
    BY <2>1 DEF ProductDocs
  <2>3. products' = [products EXCEPT ![p] = [products[p] EXCEPT !.category = c]]
    BY <1>1 DEF update
  <2> QED BY <2>2, <2>3 DEF Inv, TypeOK
<1>2. CASE ~stored(p)
  BY <1>2 DEF Inv, TypeOK, update
<1> QED BY <1>1, <1>2

LEMMA DeleteType ==
    ASSUME Inv, NEW D, deleteAll(D)
    PROVE  /\ products' \in [Products -> ProductDocs]
           /\ \A q \in Products : products'[q].user \in {products[q].user, None}
BY DEF Inv, TypeOK, deleteAll, ProductDocs, Removed, Absent

LEMMA CreateInv ==
    ASSUME Inv, NEW r \in Requests, CreateCount(r) \/ CreateSave(r)
    PROVE  Inv'
<1>1. CASE CreateCount(r)
  <2>1. PICK u \in accounts, c \in Categories :
            req' = [req EXCEPT ![r] = [Idle EXCEPT !.pc = "create:save",
                                          !.user = u, !.category = c]]
    BY <1>1 DEF CreateCount
  <2> DEFINE l == [Idle EXCEPT !.pc = "create:save", !.user = u, !.category = c]
  <2>2. l \in Local /\ LocalOK(l)
    BY DEF Inv, TypeOK, Idle, Local, LocalOK
  <2> HIDE DEF l
  <2> QED BY <1>1, <2>1, <2>2, StepInv DEF CreateCount, Inv, TypeOK, l
<1>2. CASE CreateSave(r)
  <2>1. req[r].user \in Users /\ req[r].category \in Categories
    BY <1>2 DEF CreateSave, Inv, LocalOK
  <2>2. products' \in [Products -> ProductDocs]
    BY <1>2, <2>1 DEF CreateSave, save, ProductDocs, Inv, TypeOK
  <2> QED BY <1>2, <2>2, IdleOK, StepInv DEF CreateSave, finish, Inv, TypeOK
<1> QED BY <1>1, <1>2

LEMMA ChangeInv ==
    ASSUME Inv, NEW r \in Requests,
           UpdateFind(r) \/ UpdateWrite(r) \/ DeleteFind(r) \/ DeleteDelete(r)
    PROVE  Inv'
<1>1. ASSUME NEW pc \in {"update:write", "delete:delete"}, NEW p \in Products,
             NEW c \in Categories \cup {None}, FindOwn(r, pc, p, c),
             pc = "update:write" => c \in Categories, UNCHANGED <<products, accounts>>
      PROVE  Inv'
  <2> DEFINE l == [pc |-> pc, user |-> products[p].user, id |-> p, category |-> c]
  <2>1. l \in Local /\ LocalOK(l)
    BY <1>1 DEF FindOwn, Inv, TypeOK, Local, LocalOK
  <2>2. req' = [req EXCEPT ![r] = l]
    BY <1>1 DEF FindOwn
  <2> HIDE DEF l
  <2> QED BY <1>1, <2>1, <2>2, StepInv DEF Inv, TypeOK
<1>2. CASE UpdateFind(r)
  BY <1>1, <1>2 DEF UpdateFind
<1>3. CASE DeleteFind(r)
  BY <1>1, <1>3 DEF DeleteFind
<1>4. CASE UpdateWrite(r)
  <2>1. req[r].id \in Products /\ req[r].category \in Categories
    BY <1>4 DEF UpdateWrite, Inv, LocalOK
  <2> QED BY <1>4, <2>1, UpdateType, IdleOK, StepInv DEF UpdateWrite, finish, Inv, TypeOK
<1>5. CASE DeleteDelete(r)
  BY <1>5, DeleteType, IdleOK, StepInv DEF DeleteDelete, finish, Inv, TypeOK
<1> QED BY <1>2, <1>3, <1>4, <1>5

LEMMA AccountInv ==
    ASSUME Inv, NEW r \in Requests,
           AccountFind(r) \/ deleteManyByUserId(r) \/ AccountDelete(r)
    PROVE  Inv'
<1>1. CASE AccountFind(r)
  <2>1. PICK u \in accounts :
            req' = [req EXCEPT ![r] = [Idle EXCEPT !.pc = "account:products", !.user = u]]
    BY <1>1 DEF AccountFind
  <2> DEFINE l == [Idle EXCEPT !.pc = "account:products", !.user = u]
  <2>2. l \in Local /\ LocalOK(l)
    BY DEF Inv, TypeOK, Idle, Local, LocalOK
  <2> HIDE DEF l
  <2> QED BY <1>1, <2>1, <2>2, StepInv DEF AccountFind, Inv, TypeOK, l
<1>2. CASE deleteManyByUserId(r)
  <2> DEFINE l == [req[r] EXCEPT !.pc = "account:delete"]
  <2>1. l \in Local /\ LocalOK(l)
    BY DEF Inv, TypeOK, Local, LocalOK
  <2>2. req' = [req EXCEPT ![r] = l]
    BY <1>2 DEF deleteManyByUserId, goto
  <2> HIDE DEF l
  <2> QED BY <1>2, <2>1, <2>2, DeleteType, StepInv DEF deleteManyByUserId, Inv, TypeOK
<1>3. CASE AccountDelete(r)
  BY <1>3, IdleOK, StepInv DEF AccountDelete, finish, Inv, TypeOK
<1> QED BY <1>1, <1>2, <1>3

LEMMA NextInv == Inv /\ [Next]_vars => Inv'
<1> SUFFICES ASSUME Inv, [Next]_vars PROVE Inv'
  OBVIOUS
<1>1. ASSUME NEW r \in Requests, RequestFail(r) PROVE Inv'
  BY <1>1, IdleOK, StepInv DEF RequestFail, finish, Inv, TypeOK
<1>2. CASE UNCHANGED vars
  BY <1>2 DEF vars, Inv, TypeOK, LocalOK
<1> QED BY <1>1, <1>2, CreateInv, ChangeInv, AccountInv DEF Next, Step

-----------------------------------------------------------------------------
(* The bound on products: a request that has counted and has yet to save   *)
(* counts as a product of its user.                                        *)

LEMMA CountsFinite ==
    ASSUME ProductAssumption, NEW u
    PROVE  /\ IsFiniteSet(findByUserId(u)) /\ Cardinality(findByUserId(u)) \in Nat
           /\ IsFiniteSet(saving(u)) /\ Cardinality(saving(u)) \in Nat
           /\ IsFiniteSet(Requests) /\ Cardinality(Requests) \in Nat
           /\ Cardinality(saving(u)) <= Cardinality(Requests)
<1>1. findByUserId(u) \subseteq Products /\ saving(u) \subseteq Requests
  BY DEF findByUserId, saving
<1> QED BY <1>1, FS_Subset, FS_CardinalityType DEF ProductAssumption

LEMMA CountsFiniteNext ==
    ASSUME ProductAssumption, NEW u
    PROVE  /\ IsFiniteSet(findByUserId(u)') /\ Cardinality(findByUserId(u)') \in Nat
           /\ IsFiniteSet(saving(u)') /\ Cardinality(saving(u)') \in Nat
           /\ Cardinality(saving(u)') <= Cardinality(Requests)
<1>1. findByUserId(u)' \subseteq Products /\ saving(u)' \subseteq Requests
  BY DEF findByUserId, saving
<1>2. Cardinality(saving(u)') <= Cardinality(Requests)
  BY <1>1, FS_Subset DEF ProductAssumption
<1> QED BY <1>1, <1>2, FS_Subset, FS_CardinalityType DEF ProductAssumption

\* A step that adds no product and lets no creation through.
LEMMA QuietStep ==
    ASSUME ProductAssumption, ProductQuota, NEW u \in Users,
           findByUserId(u)' \subseteq findByUserId(u), saving(u)' \subseteq saving(u)
    PROVE  countByUserId(u)' + Cardinality(saving(u)')
               <= MAX_PRODUCTS_PER_USER - 1 + Cardinality(Requests)
<1>1. Cardinality(findByUserId(u)') + Cardinality(saving(u)')
          <= Cardinality(findByUserId(u)) + Cardinality(saving(u))
  BY CountsFinite, FewerOfBoth
<1>2. Cardinality(findByUserId(u)) + Cardinality(saving(u))
          <= MAX_PRODUCTS_PER_USER - 1 + Cardinality(Requests)
  BY DEF ProductQuota, countByUserId
<1> QED BY <1>1, <1>2, CountsFinite, CountsFiniteNext
        DEF countByUserId, ProductAssumption

\* At its count a creation sees less than the limit, and the creations let
\* through with it are no more than the requests.
LEMMA CreateCountQuota ==
    ASSUME ProductAssumption, Inv, ProductQuota, NEW r \in Requests, CreateCount(r)
    PROVE  ProductQuota'
<1>1. PICK v \in accounts, c \in Categories :
        /\ countByUserId(v) < MAX_PRODUCTS_PER_USER
        /\ req' = [req EXCEPT ![r] = [Idle EXCEPT !.pc = "create:save",
                                                  !.user = v, !.category = c]]
  BY DEF CreateCount
<1> SUFFICES ASSUME NEW u \in Users
             PROVE  countByUserId(u)' + Cardinality(saving(u)')
                        <= MAX_PRODUCTS_PER_USER - 1 + Cardinality(Requests)
  BY DEF ProductQuota
<1>2. findByUserId(u)' = findByUserId(u)
  BY DEF CreateCount, findByUserId
<1>3. CASE u = v
  <2>1. countByUserId(u)' < MAX_PRODUCTS_PER_USER
    BY <1>1, <1>2, <1>3 DEF countByUserId
  <2>2. /\ countByUserId(u)' \in Nat /\ Cardinality(saving(u)') \in Nat
        /\ Cardinality(saving(u)') <= Cardinality(Requests)
        /\ Cardinality(Requests) \in Nat /\ MAX_PRODUCTS_PER_USER \in Nat
    BY CountsFinite, CountsFiniteNext DEF countByUserId, ProductAssumption
  <2> QED BY <2>1, <2>2
<1>4. CASE u # v
  <2>1. saving(u)' \subseteq saving(u)
    BY <1>1, <1>4 DEF saving, Idle, Inv, TypeOK
  <2> QED BY <1>2, <2>1, QuietStep
<1> QED BY <1>3, <1>4

\* A save makes a product of a creation that was let through.
LEMMA CreateSaveQuota ==
    ASSUME ProductAssumption, Inv, ProductQuota, NEW r \in Requests, CreateSave(r)
    PROVE  ProductQuota'
<1>1. PICK p \in Products : save(p, req[r].user, req[r].category)
  BY DEF CreateSave
<1>2. req' = [req EXCEPT ![r] = Idle] /\ req[r].pc = "create:save"
  BY DEF CreateSave, finish
<1> SUFFICES ASSUME NEW u \in Users
             PROVE  countByUserId(u)' + Cardinality(saving(u)')
                        <= MAX_PRODUCTS_PER_USER - 1 + Cardinality(Requests)
  BY DEF ProductQuota
<1>3. CASE u = req[r].user
  <2>1. findByUserId(u)' \subseteq findByUserId(u) \cup {p}
    BY <1>1 DEF save, findByUserId, Inv, TypeOK
  <2>2. saving(u)' \subseteq saving(u) \ {r} /\ r \in saving(u)
    BY <1>2, <1>3 DEF saving, Idle, Inv, TypeOK
  <2>3. Cardinality(findByUserId(u)') + Cardinality(saving(u)')
            <= Cardinality(findByUserId(u)) + Cardinality(saving(u))
    BY <2>1, <2>2, CountsFinite, OneForOne
  <2>4. Cardinality(findByUserId(u)) + Cardinality(saving(u))
            <= MAX_PRODUCTS_PER_USER - 1 + Cardinality(Requests)
    BY DEF ProductQuota, countByUserId
  <2> QED BY <2>3, <2>4, CountsFinite, CountsFiniteNext
          DEF countByUserId, ProductAssumption
<1>4. CASE u # req[r].user
  <2>1. findByUserId(u)' \subseteq findByUserId(u)
    BY <1>1, <1>4 DEF save, findByUserId, Inv, TypeOK
  <2>2. saving(u)' \subseteq saving(u)
    BY <1>2 DEF saving, Idle, Inv, TypeOK
  <2> QED BY <2>1, <2>2, QuietStep
<1> QED BY <1>3, <1>4

\* Nothing else adds a product or lets a creation through.
LEMMA OtherQuota ==
    ASSUME ProductAssumption, Inv, ProductQuota,
           \A p \in Products : products'[p].user \in {products[p].user, None},
           \A r \in Requests :
               req'[r].pc = "create:save" => req'[r] = req[r]
    PROVE  ProductQuota'
<1> SUFFICES ASSUME NEW u \in Users
             PROVE  countByUserId(u)' + Cardinality(saving(u)')
                        <= MAX_PRODUCTS_PER_USER - 1 + Cardinality(Requests)
  BY DEF ProductQuota
<1>1. findByUserId(u)' \subseteq findByUserId(u)
  BY DEF findByUserId, ProductAssumption
<1>2. saving(u)' \subseteq saving(u)
  BY DEF saving
<1> QED BY <1>1, <1>2, QuietStep

LEMMA NextQuota ==
    ProductAssumption /\ Inv /\ ProductQuota /\ [Next]_vars => ProductQuota'
<1> SUFFICES ASSUME ProductAssumption, Inv, ProductQuota, [Next]_vars
             PROVE  ProductQuota'
  OBVIOUS
<1>1. ASSUME NEW r \in Requests, NEW l, req' = [req EXCEPT ![r] = l],
             l.pc # "create:save"
      PROVE  \A q \in Requests : req'[q].pc = "create:save" => req'[q] = req[q]
  BY <1>1 DEF Inv, TypeOK
<1>2. ASSUME NEW r \in Requests, finish(r)
      PROVE  \A q \in Requests : req'[q].pc = "create:save" => req'[q] = req[q]
  <2>1. Idle.pc # "create:save"
    BY DEF Idle
  <2> QED BY <1>1, <1>2, <2>1 DEF finish
<1>3. ASSUME NEW r \in Requests,
             UpdateFind(r) \/ DeleteFind(r) \/ AccountFind(r) \/ RequestFail(r)
                \/ AccountDelete(r)
      PROVE  ProductQuota'
  <2>1. \A p \in Products : products'[p].user = products[p].user
    BY <1>3 DEF UpdateFind, DeleteFind, AccountFind, RequestFail, AccountDelete
  <2>2. CASE UpdateFind(r) \/ DeleteFind(r)
    <3>1. PICK pc \in {"update:write", "delete:delete"}, p \in Products,
               c \in Categories \cup {None} : FindOwn(r, pc, p, c)
      BY <2>2 DEF UpdateFind, DeleteFind
    <3> DEFINE l == [pc |-> pc, user |-> products[p].user, id |-> p, category |-> c]
    <3>2. req' = [req EXCEPT ![r] = l] /\ l.pc # "create:save"
      BY <3>1 DEF FindOwn
    <3> HIDE DEF l
    <3> QED BY <1>1, <2>1, <3>2, OtherQuota
  <2>3. CASE AccountFind(r)
    <3>1. PICK l : req' = [req EXCEPT ![r] = l] /\ l.pc # "create:save"
      <4>1. PICK u \in accounts : req' = [req EXCEPT ![r] =
                            [Idle EXCEPT !.pc = "account:products", !.user = u]]
        BY <2>3 DEF AccountFind
      <4>2. [Idle EXCEPT !.pc = "account:products", !.user = u].pc # "create:save"
        BY DEF Idle
      <4> QED BY <4>1, <4>2
    <3> QED BY <1>1, <2>1, <3>1, OtherQuota
  <2>4. CASE RequestFail(r) \/ AccountDelete(r)
    BY <1>2, <2>1, <2>4, OtherQuota DEF RequestFail, AccountDelete
  <2> QED BY <1>3, <2>2, <2>3, <2>4
<1>4. ASSUME NEW r \in Requests, UpdateWrite(r)
      PROVE  ProductQuota'
  <2>1. req[r].id \in Products /\ req[r].category \in Categories
    BY <1>4 DEF UpdateWrite, Inv, LocalOK
  <2>2. \A p \in Products : products'[p].user = products[p].user
    BY <1>4, <2>1, UpdateType DEF UpdateWrite
  <2> QED BY <1>2, <1>4, <2>2, OtherQuota DEF UpdateWrite
<1>5. ASSUME NEW r \in Requests, DeleteDelete(r) \/ deleteManyByUserId(r)
      PROVE  ProductQuota'
  <2>1. \A p \in Products : products'[p].user \in {products[p].user, None}
    BY <1>5, DeleteType DEF DeleteDelete, deleteManyByUserId
  <2>2. CASE DeleteDelete(r)
    BY <1>2, <2>1, <2>2, OtherQuota DEF DeleteDelete
  <2>3. CASE deleteManyByUserId(r)
    <3>1. [req[r] EXCEPT !.pc = "account:delete"].pc = "account:delete"
      BY DEF Inv, TypeOK, Local
    <3> QED BY <1>1, <2>1, <2>3, <3>1, OtherQuota DEF deleteManyByUserId, goto
  <2> QED BY <1>5, <2>2, <2>3
<1>6. CASE UNCHANGED vars
  BY <1>6, OtherQuota DEF vars
<1> QED BY <1>3, <1>4, <1>5, <1>6, CreateCountQuota, CreateSaveQuota DEF Next, Step

LEMMA InitQuota == ProductAssumption /\ Init => ProductQuota
<1> SUFFICES ASSUME ProductAssumption, Init, NEW u \in Users
             PROVE  countByUserId(u) + Cardinality(saving(u))
                        <= MAX_PRODUCTS_PER_USER - 1 + Cardinality(Requests)
  BY DEF ProductQuota
<1>1. findByUserId(u) = {} /\ saving(u) = {}
  BY DEF Init, findByUserId, saving, Absent, Idle, ProductAssumption
<1>2. countByUserId(u) = 0 /\ Cardinality(saving(u)) = 0
  BY <1>1, FS_EmptySet DEF countByUserId
<1> QED BY <1>2, CountsFinite DEF ProductAssumption

-----------------------------------------------------------------------------

\* The documents and the requests keep their types: no handler stores a product
\* without its user or its category (CreateProduct:37-44, UpdateProduct).
THEOREM ProductTypes == Spec => []TypeOK
<1>1. Inv => TypeOK
  BY DEF Inv
<1> QED BY <1>1, InitInv, NextInv, PTL DEF Spec

\* However many requests overlap, a user's products pass the limit by less than
\* their number (CreateProduct:27-44).
THEOREM QuotaBound == ASSUME ProductAssumption PROVE Spec => []ProductQuota
<1>1. Init => Inv /\ ProductQuota
  BY InitInv, InitQuota
<1>2. Inv /\ ProductQuota /\ [Next]_vars => (Inv /\ ProductQuota)'
  BY NextInv, NextQuota
<1> QED BY <1>1, <1>2, PTL DEF Spec

-----------------------------------------------------------------------------
(* ROUTES                                                                  *)

\* The middlewares of the routes, and those that decode a session or refuse.
Ways ==
    {Http!open, Http!verify, Http!optional, Http!admin, Http!strictly, Http!limited,
     Http!limited \o Http!verify, <<"verify", "upload">>}
Verifying ==
    {Http!verify, Http!admin, Http!strictly, Http!limited \o Http!verify,
     <<"verify", "upload">>}

Middlewares == {"limit", "verify", "verifyOptional", "requireAdmin", "upload"}

admins == {"adminUsers", "adminAnnouncements", "adminResources"}
Handlers == UNION {DOMAIN Http!Routers[router] : router \in DOMAIN Http!Routers}

chainOf(l) == Http!middlewares(l.router, l.handler)

\* s is what is left of all.
restOf(s, all) ==
    /\ Len(s) <= Len(all)
    /\ \A i \in 1 .. Len(s) : s[i] = all[Len(all) - Len(s) + i]

passed(l, middleware) ==
    \E i \in 1 .. Len(chainOf(l)) - Len(l.chain) : chainOf(l)[i] = middleware

RouteLocal ==
    [router : {"none"} \cup DOMAIN Http!Routers, handler : {"none"} \cup Handlers,
     chain : Seq(Middlewares), session : Members \cup {None}, actor : Members \cup {None},
     barred : BOOLEAN, status : {0} \cup Http!Statuses]

\* What a request has gone through says who acts.
WayOK(l) ==
    l.router # "none" =>
        /\ l.router \in DOMAIN Http!Routers /\ l.handler \in DOMAIN Http!Routers[l.router]
        /\ restOf(l.chain, chainOf(l)) /\ l.status = 0
        /\ passed(l, "verify") => l.actor # None
        /\ passed(l, "requireAdmin") => l.actor \in Admins
        /\ l.session # None /\ standing[l.session] = "good" => ~l.barred
        /\ l.actor # None => l.actor = l.session /\ ~l.barred

RouteInv ==
    /\ up \in BOOLEAN /\ standing \in [Members -> {"good", "barred", "gone"}]
    /\ req \in [Requests -> RouteLocal]
    /\ \A r \in Requests : WayOK(req[r]) /\ (req[r].router = "none" => req[r].actor = None)

-----------------------------------------------------------------------------
(* The routes                                                              *)

LEMMA Joined ==
    ASSUME NEW S, NEW s \in Seq(S), NEW t \in Seq(S)
    PROVE  /\ s \o t \in Seq(S) /\ Len(s \o t) = Len(s) + Len(t)
           /\ Len(s) \in Nat /\ Len(t) \in Nat
           /\ \A i \in 1 .. Len(t) : (s \o t)[Len(s) + i] = t[i]
OBVIOUS

LEMMA WaysAhead ==
    /\ \A w \in Ways : w \in Seq(Middlewares)
    /\ \A w \in Verifying : \E i \in 1 .. Len(w) : w[i] = "verify"
    /\ \E i \in 1 .. Len(Http!admin) : Http!admin[i] = "requireAdmin"
<1>1. Http!limited \in Seq(Middlewares) /\ Http!verify \in Seq(Middlewares) /\ Len(Http!limited) = 1
  BY DEF Http!limited, Http!verify, Middlewares
<1>2. \A w \in Ways : w \in Seq(Middlewares)
  <2>1. Http!open \in Seq(Middlewares) /\ Http!optional \in Seq(Middlewares)
    BY DEF Http!open, Http!optional, Middlewares
  <2>2. Http!admin \in Seq(Middlewares) /\ Http!strictly \in Seq(Middlewares)
    BY DEF Http!admin, Http!strictly, Middlewares
  <2>3. <<"verify", "upload">> \in Seq(Middlewares)
    BY DEF Middlewares
  <2> QED BY <1>1, <2>1, <2>2, <2>3, Joined DEF Ways
<1>3. Http!verify[1] = "verify" /\ Len(Http!verify) = 1
  BY DEF Http!verify
<1>4. Http!admin[1] = "verify" /\ Http!admin[2] = "requireAdmin" /\ Len(Http!admin) = 2
  BY DEF Http!admin
<1>5. Http!strictly[1] = "verify" /\ Len(Http!strictly) = 2
  BY DEF Http!strictly
<1>6. (Http!limited \o Http!verify)[2] = "verify" /\ Len(Http!limited \o Http!verify) = 2
  <2>1. (Http!limited \o Http!verify)[Len(Http!limited) + 1] = Http!verify[1]
    <3>1. 1 \in 1 .. Len(Http!verify)
      BY <1>3
    <3> QED BY <1>1, <3>1, Joined
  <2> QED BY <1>1, <1>3, <2>1, Joined
<1>7. <<"verify", "upload">>[1] = "verify" /\ Len(<<"verify", "upload">>) = 2
  OBVIOUS
<1>8. 1 \in 1 .. 1 /\ 1 \in 1 .. 2 /\ 2 \in 1 .. 2
  OBVIOUS
<1>9. ASSUME NEW w \in Verifying PROVE \E i \in 1 .. Len(w) : w[i] = "verify"
  <2>1. CASE w = Http!verify
    BY <1>3, <1>8, <2>1
  <2>2. CASE w = Http!admin
    BY <1>4, <1>8, <2>2
  <2>3. CASE w = Http!strictly
    BY <1>5, <1>8, <2>3
  <2>4. CASE w = Http!limited \o Http!verify
    BY <1>6, <1>8, <2>4
  <2>5. CASE w = <<"verify", "upload">>
    BY <1>7, <1>8, <2>5
  <2> QED BY <2>1, <2>2, <2>3, <2>4, <2>5 DEF Verifying
<1> QED BY <1>2, <1>4, <1>8, <1>9

\* The tables of the routers and of the controllers agree.
LEMMA TablesAgree ==
    ASSUME NEW router \in DOMAIN Http!Routers, NEW handler \in DOMAIN Http!Routers[router]
    PROVE  /\ Http!Routers[router][handler] \in Ways
           /\ handler \in Http!Controllers[router] => Http!Routers[router][handler] \in Verifying
           /\ router \in admins => Http!Routers[router][handler] = Http!admin
<1>1. CASE router = "adminUsers"
  BY <1>1
  DEF Http!Routers, Http!Controllers, Http!adminUserRoutes, Http!AdminUsersController, admins,
      Ways, Verifying
<1>2. CASE router = "adminAnnouncements"
  BY <1>2
  DEF Http!Routers, Http!Controllers, Http!adminAnnouncementRoutes,
      Http!AnnouncementsController, admins, Ways, Verifying
<1>3. CASE router = "adminResources"
  BY <1>3
  DEF Http!Routers, Http!Controllers, Http!adminResourceRoutes, Http!AdminResourcesController,
      admins, Ways, Verifying
<1>4. CASE router = "announcements"
  BY <1>4
  DEF Http!Routers, Http!Controllers, Http!announcementRoutes, Http!AnnouncementsController,
      admins, Ways, Verifying
<1>5. CASE router = "auth"
  BY <1>5
  DEF Http!Routers, Http!Controllers, Http!authRoutes, Http!AuthController, admins, Ways,
      Verifying
<1>6. CASE router = "categories"
  BY <1>6
  DEF Http!Routers, Http!Controllers, Http!categoryRoutes, Http!CategoriesController, admins,
      Ways, Verifying
<1>7. CASE router = "comments"
  BY <1>7
  DEF Http!Routers, Http!Controllers, Http!commentRoutes, Http!CommentsController, admins,
      Ways, Verifying
<1>8. CASE router = "events"
  BY <1>8
  DEF Http!Routers, Http!Controllers, Http!eventRoutes, Http!EventsController, admins, Ways,
      Verifying
<1>9. CASE router = "eventBookings"
  BY <1>9
  DEF Http!Routers, Http!Controllers, Http!eventBookingRoutes, Http!EventBookingsController,
      admins, Ways, Verifying
<1>10. CASE router = "eventInvitations"
  BY <1>10
  DEF Http!Routers, Http!Controllers, Http!eventInvitationRoutes,
      Http!EventInvitationsController, admins, Ways, Verifying
<1>11. CASE router = "favorites"
  BY <1>11
  DEF Http!Routers, Http!Controllers, Http!favoriteRoutes, Http!FavoritesController, admins,
      Ways, Verifying
<1>12. CASE router = "follows"
  BY <1>12
  DEF Http!Routers, Http!Controllers, Http!followRoutes, Http!FollowsController, admins, Ways,
      Verifying
<1>13. CASE router = "geocode"
  BY <1>13
  DEF Http!Routers, Http!Controllers, Http!geocodeRoutes, Http!GeocodingController, admins,
      Ways, Verifying
<1>14. CASE router = "images"
  BY <1>14
  DEF Http!Routers, Http!Controllers, Http!imageRoutes, Http!ImagesController, admins, Ways,
      Verifying
<1>15. CASE router = "messages"
  BY <1>15
  DEF Http!Routers, Http!Controllers, Http!messageRoutes, Http!MessagesController, admins,
      Ways, Verifying
<1>16. CASE router = "notifications"
  BY <1>16
  DEF Http!Routers, Http!Controllers, Http!notificationRoutes, Http!NotificationsController,
      admins, Ways, Verifying
<1>17. CASE router = "partnerships"
  BY <1>17
  DEF Http!Routers, Http!Controllers, Http!partnershipRoutes, Http!PartnershipsController,
      admins, Ways, Verifying
<1>18. CASE router = "places"
  BY <1>18
  DEF Http!Routers, Http!Controllers, Http!placeRoutes, Http!PlacesController, admins, Ways,
      Verifying
<1>19. CASE router = "products"
  BY <1>19
  DEF Http!Routers, Http!Controllers, Http!productRoutes, Http!ProductsController, admins,
      Ways, Verifying
<1>20. CASE router = "reviews"
  BY <1>20
  DEF Http!Routers, Http!Controllers, Http!reviewRoutes, Http!ReviewsController, admins, Ways,
      Verifying
<1>21. CASE router = "users"
  BY <1>21
  DEF Http!Routers, Http!Controllers, Http!userRoutes, Http!UsersController, admins, Ways,
      Verifying
<1> QED
  BY <1>1, <1>2, <1>3, <1>4, <1>5, <1>6, <1>7, <1>8, <1>9, <1>10, <1>11,
     <1>12, <1>13, <1>14, <1>15, <1>16, <1>17, <1>18, <1>19, <1>20, <1>21
  DEF Http!Routers

LEMMA RoutesGuarded ==
    ASSUME NEW router \in DOMAIN Http!Routers, NEW handler \in DOMAIN Http!Routers[router]
    PROVE  LET all == Http!middlewares(router, handler) IN
           /\ all \in Seq(Middlewares) /\ router # "none" /\ handler \in Handlers
           /\ handler \in Http!Controllers[router] => \E i \in 1 .. Len(all) : all[i] = "verify"
           /\ router \in admins => \E i \in 1 .. Len(all) : all[i] = "requireAdmin"
<1>1. PICK w : w = Http!Routers[router][handler]
  OBVIOUS
<1>2. w \in Seq(Middlewares) /\ (handler \in Http!Controllers[router] => w \in Verifying)
      /\ (router \in admins => w = Http!admin)
  BY <1>1, TablesAgree, WaysAhead
<1>3. PICK all : all = Http!apiLimit \o w
  OBVIOUS
<1>4. all \in Seq(Middlewares) /\ Len(all) = 1 + Len(w) /\ Len(w) \in Nat
      /\ \A i \in 1 .. Len(w) : all[i + 1] = w[i]
  <2>1. Http!apiLimit \in Seq(Middlewares) /\ Len(Http!apiLimit) = 1
    BY DEF Http!apiLimit, Middlewares
  <2>2. \A i \in 1 .. Len(w) : (Http!apiLimit \o w)[Len(Http!apiLimit) + i] = w[i]
    BY <1>2, <2>1, Joined
  <2>3. \A i \in 1 .. Len(w) : Len(Http!apiLimit) + i = i + 1
    BY <2>1
  <2>4. \A i \in 1 .. Len(w) : all[i + 1] = w[i]
    BY <1>3, <2>2, <2>3
  <2> QED BY <1>2, <1>3, <2>1, <2>4, Joined
<1>5. all = Http!middlewares(router, handler)
  BY <1>1, <1>3 DEF Http!middlewares
<1>6. \A m : (\E i \in 1 .. Len(w) : w[i] = m) => \E i \in 1 .. Len(all) : all[i] = m
  <2> SUFFICES ASSUME NEW i \in 1 .. Len(w) PROVE i + 1 \in 1 .. Len(all) /\ all[i + 1] = w[i]
    OBVIOUS
  <2> QED BY <1>4
<1>7. router # "none"
  BY DEF Http!Routers
<1> QED BY <1>2, <1>4, <1>5, <1>6, <1>7, WaysAhead DEF Handlers

-----------------------------------------------------------------------------
(* The steps                                                               *)

LEMMA IdleRoute ==
    /\ Http!Idle \in RouteLocal /\ Http!Idle.router = "none" /\ Http!Idle.actor = None
    /\ \A status \in {0} \cup Http!Statuses :
        LET l == [Http!Idle EXCEPT !.status = status]
        IN  l \in RouteLocal /\ l.router = "none" /\ l.actor = None
<1>1. PICK none : none = <<>> /\ none \in Seq(Middlewares)
  <2>1. <<>> \in Seq(Middlewares)
    OBVIOUS
  <2> QED BY <2>1, Zenon
<1>2. Http!Idle = [router |-> "none", handler |-> "none", chain |-> none, session |-> None,
              actor |-> None, barred |-> FALSE, status |-> 0]
  BY <1>1 DEF Http!Idle
<1>3. Http!Idle \in RouteLocal
  BY <1>1, <1>2 DEF RouteLocal
<1> QED BY <1>2, <1>3 DEF RouteLocal

\* What a request has yet to go through.
LEMMA WayAhead ==
    ASSUME RouteInv, NEW r \in Requests, Http!running(r), req[r].chain # <<>>
    PROVE  LET l == req[r] all == chainOf(l) k == Len(all) - Len(l.chain) IN
           /\ Tail(l.chain) \in Seq(Middlewares) /\ restOf(Tail(l.chain), all)
           /\ \A m : (\E i \in 1 .. Len(all) - Len(Tail(l.chain)) : all[i] = m)
                        => passed(l, m) \/ m = Head(l.chain)
<1>1. PICK s : s = req[r].chain
  OBVIOUS
<1>2. PICK all : all = chainOf(req[r])
  OBVIOUS
<1>3. s \in Seq(Middlewares) /\ s # <<>> /\ restOf(s, all) /\ all \in Seq(Middlewares)
  BY <1>1, <1>2, RoutesGuarded DEF RouteInv, RouteLocal, WayOK, Http!running, chainOf
<1>4. Len(s) \in Nat /\ Len(s) # 0 /\ Head(s) = s[1] /\ Len(all) \in Nat
  BY <1>3
<1>5. Tail(s) \in Seq(Middlewares) /\ Len(Tail(s)) = Len(s) - 1
      /\ \A i \in 1 .. Len(s) - 1 : Tail(s)[i] = s[i + 1]
  BY <1>3
<1>6. Len(s) <= Len(all) /\ \A i \in 1 .. Len(s) : s[i] = all[Len(all) - Len(s) + i]
  BY <1>3 DEF restOf
<1>7. restOf(Tail(s), all)
  <2> SUFFICES ASSUME NEW i \in 1 .. Len(s) - 1
               PROVE  Tail(s)[i] = all[Len(all) - (Len(s) - 1) + i]
    BY <1>4, <1>5, <1>6 DEF restOf
  <2>1. i + 1 \in 1 .. Len(s) /\ Len(all) - Len(s) + (i + 1) = Len(all) - (Len(s) - 1) + i
    BY <1>4
  <2> QED BY <1>5, <1>6, <2>1
<1>8. ASSUME NEW i \in 1 .. Len(all) - Len(Tail(s))
      PROVE  i \in 1 .. Len(all) - Len(s) \/ all[i] = Head(s)
  <2>1. CASE i = Len(all) - Len(s) + 1
    <3>1. 1 \in 1 .. Len(s)
      BY <1>4
    <3> QED BY <1>4, <1>6, <2>1, <3>1
  <2>2. CASE i # Len(all) - Len(s) + 1
    BY <1>4, <1>5, <1>6, <2>2
  <2> QED BY <2>1, <2>2
<1> QED BY <1>1, <1>2, <1>5, <1>7, <1>8 DEF passed

LEMMA RouteSteps ==
    ASSUME RouteInv, NEW r \in Requests, NEW l \in RouteLocal, WayOK(l),
           l.router = "none" => l.actor = None,
           req' = [req EXCEPT ![r] = l], up' = up, standing' = standing
    PROVE  RouteInv'
<1>1. \A q \in Requests : req'[q] \in {req[q], l}
  BY DEF RouteInv
<1>2. \A q \in Requests : WayOK(req'[q]) /\ (req'[q].router = "none" => req'[q].actor = None)
  BY <1>1 DEF RouteInv
<1>3. \A m : WayOK(m)' <=> WayOK(m)
  BY DEF WayOK, passed
<1> QED BY <1>2, <1>3 DEF RouteInv, WayOK, passed

LEMMA RouteAnswer ==
    ASSUME RouteInv, NEW r \in Requests, NEW status \in {0} \cup Http!Statuses,
           Http!answer(r, status), up' = up, standing' = standing
    PROVE  RouteInv'
<1>1. PICK l : l = [Http!Idle EXCEPT !.status = status]
  OBVIOUS
<1> QED BY <1>1, IdleRoute, RouteSteps DEF Http!answer, WayOK

\* The middleware passes, and tells a who acts when it is one of those that do.
LEMMA RoutePass ==
    ASSUME Http!HttpAssumption, RouteInv, NEW r \in Requests, Http!running(r),
           req[r].chain # <<>>,
           NEW a \in {req[r].actor, req[r].session},
           req' = [req EXCEPT ![r].chain = Tail(@), ![r].actor = a],
           up' = up, standing' = standing,
           a = req[r].actor \/ Http!canAuthenticate(a),
           Head(req[r].chain) = "verify" => a # None,
           Head(req[r].chain) = "requireAdmin" => a \in Admins
    PROVE  RouteInv'
<1>1. req[r] \in RouteLocal /\ WayOK(req[r]) /\ req[r].router # "none"
  BY DEF RouteInv, Http!running
<1>2. PICK t : t = Tail(req[r].chain)
  OBVIOUS
<1>3. /\ t \in Seq(Middlewares) /\ restOf(t, chainOf(req[r]))
      /\ \A m : (\E i \in 1 .. Len(chainOf(req[r])) - Len(t) : chainOf(req[r])[i] = m)
                    => passed(req[r], m) \/ m = Head(req[r].chain)
  BY <1>2, WayAhead
<1>4. PICK l : l = [req[r] EXCEPT !.chain = t, !.actor = a]
  OBVIOUS
<1>5. req' = [req EXCEPT ![r] = l]
  BY <1>2, <1>4 DEF RouteInv
<1>6. l \in RouteLocal /\ l.chain = t /\ l.actor = a /\ l.router = req[r].router
      /\ l.handler = req[r].handler /\ l.session = req[r].session
      /\ l.barred = req[r].barred /\ l.status = req[r].status
  BY <1>1, <1>3, <1>4 DEF RouteLocal
<1>7. chainOf(l) = chainOf(req[r])
  BY <1>6 DEF chainOf
<1>8. \A m : passed(l, m) => passed(req[r], m) \/ m = Head(req[r].chain)
  BY <1>3, <1>6, <1>7 DEF passed
<1>9. a # None => a = req[r].session /\ ~req[r].barred
  BY <1>1 DEF WayOK, Http!canAuthenticate
<1>10. req[r].actor # None => a = req[r].actor
  BY <1>1 DEF WayOK
<1>11. passed(l, "verify") => a # None
  BY <1>1, <1>8, <1>10 DEF WayOK
<1>12. passed(l, "requireAdmin") => a \in Admins
  BY <1>1, <1>8, <1>10 DEF WayOK, Http!HttpAssumption
<1>13. WayOK(l)
  BY <1>1, <1>3, <1>6, <1>7, <1>9, <1>11, <1>12 DEF WayOK
<1> QED BY <1>1, <1>5, <1>6, <1>13, RouteSteps

LEMMA RouteArrive ==
    ASSUME Http!HttpAssumption, RouteInv, NEW r \in Requests, Http!Arrive(r) PROVE RouteInv'
<1>1. PICK router \in DOMAIN Http!Routers : \E handler \in DOMAIN Http!Routers[router],
           session \in Members \cup {None} :
        req' = [req EXCEPT ![r] = [Http!Idle EXCEPT
                !.router = router, !.handler = handler, !.session = session,
                !.chain = Http!middlewares(router, handler),
                !.barred = (session # None => standing[session] # "good")]]
  BY DEF Http!Arrive
<1>2. PICK handler \in DOMAIN Http!Routers[router], session \in Members \cup {None} :
        req' = [req EXCEPT ![r] = [Http!Idle EXCEPT
                !.router = router, !.handler = handler, !.session = session,
                !.chain = Http!middlewares(router, handler),
                !.barred = (session # None => standing[session] # "good")]]
  BY <1>1
<1>3. PICK all : all = Http!middlewares(router, handler)
  OBVIOUS
<1>4. all \in Seq(Middlewares) /\ router # "none" /\ handler \in Handlers
  BY <1>3, RoutesGuarded
<1>5. PICK l : l = [Http!Idle EXCEPT
                !.router = router, !.handler = handler, !.session = session,
                !.chain = all, !.barred = (session # None => standing[session] # "good")]
  OBVIOUS
<1>6. req' = [req EXCEPT ![r] = l]
  BY <1>2, <1>3, <1>5, Zenon
<1>7. /\ l \in RouteLocal /\ l.router = router /\ l.handler = handler /\ l.chain = all
      /\ l.session = session /\ l.actor = None /\ l.status = 0
      /\ l.barred <=> (session # None => standing[session] # "good")
  <2>1. /\ Http!Idle \in RouteLocal /\ Http!Idle.actor = None /\ Http!Idle.status = 0
    BY IdleRoute DEF Http!Idle
  <2> QED BY <1>4, <1>5, <2>1 DEF RouteLocal
<1>8. chainOf(l) = all
  BY <1>3, <1>7 DEF chainOf
<1>9. Len(all) \in Nat
  BY <1>4
<1>10. restOf(l.chain, chainOf(l))
  BY <1>7, <1>8, <1>9 DEF restOf
<1>11. \A m : ~passed(l, m)
  BY <1>7, <1>8, <1>9 DEF passed
<1>12. WayOK(l) /\ l.router # "none"
  BY <1>4, <1>7, <1>10, <1>11 DEF WayOK
<1> QED BY <1>6, <1>7, <1>12, RouteSteps DEF Http!Arrive

LEMMA RouteStep ==
    ASSUME Http!HttpAssumption, RouteInv, NEW r \in Requests, Http!Step(r) PROVE RouteInv'
<1> DEFINE pass(a) == req' = [req EXCEPT ![r].chain = Tail(@), ![r].actor = a]
<1>1. req[r] \in RouteLocal
  BY DEF RouteInv
<1>2. Http!next(r) => pass(req[r].actor)
  <2> SUFFICES ASSUME Http!next(r) PROVE pass(req[r].actor)
    OBVIOUS
  <2>1. PICK t : t = Tail(req[r].chain)
    OBVIOUS
  <2>2. req' = [req EXCEPT ![r] = [req[r] EXCEPT !.chain = t]]
    BY <2>1 DEF Http!next, RouteInv
  <2>3. [req[r] EXCEPT !.chain = t] = [req[r] EXCEPT !.chain = t, !.actor = req[r].actor]
    BY <1>1 DEF RouteLocal
  <2>4. req' = [req EXCEPT ![r] = [req[r] EXCEPT !.chain = t, !.actor = req[r].actor]]
    BY <2>2, <2>3
  <2> QED BY <2>1, <2>4 DEF RouteInv
<1>3. Http!decode(r) => pass(req[r].session)
  BY DEF Http!decode
<1> HIDE DEF pass
<1>4. ASSUME NEW m, Http!at(r, m), m \notin {"verify", "requireAdmin"}, Http!next(r),
             up' = up, standing' = standing
      PROVE  RouteInv'
  BY <1>2, <1>4, RoutePass DEF Http!at, pass
<1>5. ASSUME NEW status \in {0} \cup Http!Statuses, Http!nextError(r, status),
             up' = up, standing' = standing
      PROVE  RouteInv'
  <2>1. 400 \in Http!Statuses
    BY DEF Http!Statuses
  <2>2. PICK s \in {0} \cup Http!Statuses : Http!answer(r, s)
    BY <1>5, <2>1 DEF Http!nextError
  <2> QED BY <1>5, <2>2, RouteAnswer
<1>6. 400 \in Http!Statuses /\ 401 \in Http!Statuses /\ 403 \in Http!Statuses /\ 429 \in Http!Statuses
  BY DEF Http!Statuses
<1>7. CASE Http!Limit(r)
  BY <1>4, <1>6, <1>7, RouteAnswer DEF Http!Limit
<1>8. CASE Http!Verify(r)
  <2>1. CASE Http!canAuthenticate(req[r].session) /\ Http!decode(r)
    BY <1>3, <1>8, <2>1, RoutePass DEF Http!Verify, Http!at, pass, Http!canAuthenticate
  <2> QED BY <1>5, <1>6, <1>8, <2>1 DEF Http!Verify
<1>9. CASE Http!VerifyOptional(r)
  <2>1. CASE Http!canAuthenticate(req[r].session) /\ Http!decode(r)
    BY <1>3, <1>9, <2>1, RoutePass DEF Http!VerifyOptional, Http!at, pass
  <2> QED BY <1>4, <1>9, <2>1 DEF Http!VerifyOptional
<1>10. CASE Http!Upload(r)
  BY <1>4, <1>6, <1>10, RouteAnswer DEF Http!Upload
<1>11. CASE Http!RequireAdmin(r)
  <2>1. CASE Http!isAdmin(r) /\ Http!next(r)
    BY <1>2, <1>11, <2>1, RoutePass DEF Http!RequireAdmin, Http!at, pass, Http!isAdmin
  <2> QED BY <1>5, <1>6, <1>11, <2>1 DEF Http!RequireAdmin
<1>12. CASE Http!RequireAdminRejects(r)
  BY <1>12, IdleRoute DEF Http!RequireAdminRejects, RouteInv, WayOK
<1>13. CASE Http!Handle(r)
  <2>1. PICK status \in Http!Statuses : Http!answer(r, status)
    BY <1>6, <1>13 DEF Http!Handle
  <2> QED BY <1>13, <2>1, RouteAnswer DEF Http!Handle
<1> QED BY <1>7, <1>8, <1>9, <1>10, <1>11, <1>12, <1>13 DEF Http!Step

LEMMA RouteStanding ==
    ASSUME Http!HttpAssumption, RouteInv, NEW u \in Members,
           Http!ChangeStanding(u) PROVE RouteInv'
<1>1. PICK to \in {"good", "barred", "gone"} :
        /\ standing' = [standing EXCEPT ![u] = to] /\ up' = up
        /\ req' = [r \in Requests |->
                [req[r] EXCEPT !.barred = @ /\ ~(req[r].session = u /\ to = "good")]]
  BY DEF Http!ChangeStanding
<1>2. ASSUME NEW r \in Requests
      PROVE  /\ req'[r] \in RouteLocal /\ WayOK(req[r])'
             /\ (req'[r].router = "none" => req'[r].actor = None)
  <2>1. req[r] \in RouteLocal /\ WayOK(req[r]) /\ (req[r].router = "none" => req[r].actor = None)
    BY DEF RouteInv
  <2>2. PICK b \in BOOLEAN : b = (req[r].barred /\ ~(req[r].session = u /\ to = "good"))
    OBVIOUS
  <2>3. PICK l : l = req'[r]
    OBVIOUS
  <2>4. l = [req[r] EXCEPT !.barred = b]
    BY <1>1, <2>2, <2>3
  <2>5. l \in RouteLocal /\ l.chain = req[r].chain /\ l.actor = req[r].actor
        /\ l.router = req[r].router /\ l.handler = req[r].handler
        /\ l.session = req[r].session /\ l.barred = b /\ l.status = req[r].status
    BY <2>1, <2>4 DEF RouteLocal
  <2>6. chainOf(l) = chainOf(req[r]) /\ \A m : passed(l, m) => passed(req[r], m)
    BY <2>5 DEF chainOf, passed
  <2>7. b => req[r].barred
    BY <2>2
  <2>8. l.session # None /\ standing'[l.session] = "good" /\ WayOK(req[r])
        /\ req[r].router # "none" => ~b
    <3>1. req[r].session # None => req[r].session \in Members
      BY <2>1 DEF RouteLocal
    <3>2. req[r].session \in Members =>
            standing'[req[r].session] = IF req[r].session = u THEN to ELSE standing[req[r].session]
      BY <1>1 DEF RouteInv
    <3> QED BY <2>2, <2>5, <3>1, <3>2 DEF WayOK
  <2>9. WayOK(l)'
    BY <2>1, <2>5, <2>6, <2>7, <2>8 DEF WayOK
  <2>10. WayOK(req[r])'
    BY <2>3, <2>9 DEF WayOK, passed
  <2> QED BY <2>1, <2>3, <2>5, <2>10
<1>3. req' \in [Requests -> RouteLocal]
  BY <1>1, <1>2
<1>4. standing' \in [Members -> {"good", "barred", "gone"}]
  BY <1>1 DEF RouteInv
<1> QED BY <1>1, <1>2, <1>3, <1>4 DEF RouteInv

LEMMA RouteInvariant ==
    ASSUME Http!HttpAssumption
    PROVE  Http!Init /\ [][Http!Next]_Http!vars => []RouteInv
<1>1. Http!Init => RouteInv
  BY IdleRoute DEF Http!Init, RouteInv, WayOK
<1>2. RouteInv /\ [Http!Next]_Http!vars => RouteInv'
  <2> SUFFICES ASSUME RouteInv, [Http!Next]_Http!vars PROVE RouteInv'
    OBVIOUS
  <2>1. CASE UNCHANGED Http!vars
    BY <2>1 DEF Http!vars, RouteInv, WayOK, passed
  <2>2. CASE Http!Restart
    BY <2>2 DEF Http!Restart, RouteInv, WayOK, passed
  <2> QED BY <2>1, <2>2, RouteArrive, RouteStep, RouteStanding DEF Http!Next
<1> QED BY <1>1, <1>2, PTL

\* Neither the types nor what is known of the callers depends on the fairness.
LEMMA RoutesFromTheStart ==
    ASSUME Http!HttpAssumption
    PROVE  Http!Init /\ [][Http!Next]_Http!vars => []Http!TypeOK /\ []Http!ActorKnown
<1>1. RouteInv => Http!TypeOK
  <2> SUFFICES ASSUME RouteInv, NEW r \in Requests
               PROVE  /\ req[r].session \in Members \cup {None}
                      /\ req[r].actor \in {None, req[r].session}
                      /\ req[r].status \in Http!Statuses \cup {0}
                      /\ (req[r].status # 0) => (req[r].router = "none")
                      /\ req[r].router # "none" =>
                            /\ req[r].handler \in DOMAIN Http!Routers[req[r].router]
                            /\ Len(req[r].chain) <= Len(Http!middlewares(req[r].router, req[r].handler))
    BY DEF Http!TypeOK, RouteInv
  <2>1. req[r] \in RouteLocal /\ WayOK(req[r]) /\ (req[r].router = "none" => req[r].actor = None)
    BY DEF RouteInv
  <2> QED BY <2>1 DEF RouteLocal, WayOK, restOf, chainOf
<1>2. RouteInv => Http!ActorKnown
  <2> SUFFICES ASSUME RouteInv, NEW r \in Requests, Http!running(r), req[r].chain = <<>>
               PROVE  /\ Http!requireAuth(r) => req[r].actor # None
                      /\ Http!adminOnly(r) => req[r].actor \in Admins
                      /\ req[r].actor # None => ~req[r].barred
    BY DEF Http!ActorKnown
  <2>1. req[r].router # "none" /\ WayOK(req[r])
    BY DEF RouteInv, Http!running
  <2>2. PICK all : all = chainOf(req[r])
    OBVIOUS
  <2>3. /\ all \in Seq(Middlewares)
        /\ Http!requireAuth(r) => \E i \in 1 .. Len(all) : all[i] = "verify"
        /\ Http!adminOnly(r) => \E i \in 1 .. Len(all) : all[i] = "requireAdmin"
    BY <2>1, <2>2, RoutesGuarded DEF WayOK, chainOf, Http!requireAuth, Http!adminOnly, admins
  <2>4. Len(all) - Len(req[r].chain) = Len(all)
    BY <2>3
  <2>5. \A m : (\E i \in 1 .. Len(all) : all[i] = m) => passed(req[r], m)
    BY <2>2, <2>4 DEF passed
  <2> QED BY <2>1, <2>3, <2>5 DEF WayOK
<1> QED BY <1>1, <1>2, RouteInvariant, PTL

\* For any users, administrators, requests and routes asked for: what is known of a request
\* keeps its types, an answered request is over, and the actor is the user its token names.
THEOREM RouteTypes == ASSUME Http!HttpAssumption PROVE Http!Spec => []Http!TypeOK
BY RoutesFromTheStart, PTL DEF Http!Spec

\* However many requests are under way while accounts are banned, deleted and restored: a
\* handler that needs its caller has one, an administrator on the routes of administrators,
\* and never one whose account has not been in good standing since the request came in
\* (the router files against the controllers; auth.middleware.ts:35-50,
\* admin.middleware.ts:16-36).
THEOREM CallersAreKnown == ASSUME Http!HttpAssumption PROVE Http!Spec => []Http!ActorKnown
BY RoutesFromTheStart, PTL DEF Http!Spec

-----------------------------------------------------------------------------
(* THE WEEK OF A PLACE                                                     *)

weekFrom(monday) == [start |-> monday, end |-> monday + 6]

\* What a request has found, and what it shows.
WeekLocalOK(l) ==
    /\ l.pc \in {"events", "group", "answered"} => Week!getDay(l.start) = 1 /\ l.start <= today
    /\ l.pc \in {"group", "answered"} => l.found = Week!findByPlaceInDateRange(weekFrom(l.start))
    /\ l.pc = "answered" =>
        /\ Week!getDay(l.monday) = 1 /\ l.monday <= today
        /\ l.shown = Week!groupEventsByDay(l.found, weekFrom(l.monday))

WeekLocal ==
    [pc : {"idle", "events", "group", "answered"}, start : Int, found : SUBSET Events,
     monday : Int, shown : [Week!WeekDays -> SUBSET Events]]

WeekInv ==
    /\ event \in [Events -> Week!EventDocs] /\ today \in Days /\ req \in [Requests -> WeekLocal]
    /\ \A r \in Requests : WeekLocalOK(req[r])

\* The week of a day begins on the Monday before it, or that day.
LEMMA WeekOfDay ==
    ASSUME NEW now \in Nat
    PROVE  LET week == Week!getCurrentWeekRange(now) IN
           /\ week = weekFrom(week.start) /\ week.start \in Int
           /\ Week!getDay(week.start) = 1 /\ week.start <= now /\ now <= week.start + 6
<1>1. Week!getDay(now) \in 0 .. 6
  BY DEF Week!getDay
<1>2. Week!getDay(now) # 0 => (now + (1 - Week!getDay(now)) + 1) % 7 = 1
  BY DEF Week!getDay
<1>3. Week!getDay(now) = 0 => (now + (-6) + 1) % 7 = 1
  BY DEF Week!getDay
<1> QED BY <1>1, <1>2, <1>3 DEF Week!getCurrentWeekRange, weekFrom, Week!getDay

LEMMA DaysNamed ==
    ASSUME NEW d \in Int PROVE Week!getDayOfWeek(d) \in Week!WeekDays
<1>1. Week!getDay(d) \in 0 .. 6
  BY DEF Week!getDay
<1> QED BY <1>1 DEF Week!getDayOfWeek, Week!WeekDays

\* The days of a week have different names.
LEMMA DaysApart ==
    ASSUME NEW monday \in Int, Week!getDay(monday) = 1,
           NEW d \in Week!daysFrom(monday), NEW e \in Week!daysFrom(monday),
           Week!getDayOfWeek(d) = Week!getDayOfWeek(e)
    PROVE  d = e
<1>1. d \in Int /\ e \in Int /\ Week!getDay(d) \in 0 .. 6 /\ Week!getDay(e) \in 0 .. 6
  BY DEF Week!getDay, Week!daysFrom
<1>2. Week!getDay(d) = Week!getDay(e)
  BY <1>1 DEF Week!getDayOfWeek
<1> QED BY <1>1, <1>2 DEF Week!getDay, Week!daysFrom

LEMMA WeekSteps ==
    ASSUME Week!WeekAssumption, WeekInv, NEW r \in Requests, NEW l \in WeekLocal,
           req' = [req EXCEPT ![r] = l], event' = event, today' = today, WeekLocalOK(l)
    PROVE  WeekInv'
<1>1. \A q \in Requests : req'[q] \in {req[q], l}
  BY DEF WeekInv
<1>2. \A q \in Requests : WeekLocalOK(req'[q])
  BY <1>1 DEF WeekInv
<1>3. \A m : WeekLocalOK(m)' <=> WeekLocalOK(m)
  BY DEF WeekLocalOK, Week!findByPlaceInDateRange, Week!groupEventsByDay
<1> QED BY <1>2, <1>3
        DEF WeekInv, WeekLocalOK, Week!findByPlaceInDateRange, Week!groupEventsByDay

\* What a request found stays right while the clock runs.
LEMMA WeekTicks ==
    ASSUME NEW l \in WeekLocal, WeekLocalOK(l), today \in Int, today' \in Int,
           today <= today', event' = event
    PROVE  WeekLocalOK(l)'
<1>1. Week!findByPlaceInDateRange(weekFrom(l.start))'
        = Week!findByPlaceInDateRange(weekFrom(l.start))
  BY DEF Week!findByPlaceInDateRange
<1>2. Week!groupEventsByDay(l.found, weekFrom(l.monday))'
        = Week!groupEventsByDay(l.found, weekFrom(l.monday))
  BY DEF Week!groupEventsByDay
<1>3. l.start \in Int /\ l.monday \in Int
  BY DEF WeekLocal
<1> QED BY <1>1, <1>2, <1>3 DEF WeekLocalOK

LEMMA WeekNext == Week!WeekAssumption /\ WeekInv /\ [Week!Next]_Week!vars => WeekInv'
<1> SUFFICES ASSUME Week!WeekAssumption, WeekInv, [Week!Next]_Week!vars PROVE WeekInv'
  OBVIOUS
<1>1. today \in Nat /\ Days \subseteq Nat
  BY DEF WeekInv, Week!WeekAssumption
<1>2. CASE UNCHANGED Week!vars
  BY <1>2
  DEF Week!vars, WeekInv, WeekLocalOK, Week!findByPlaceInDateRange, Week!groupEventsByDay
<1>3. CASE Week!Tick
  <2>1. today' \in Days /\ today <= today' /\ event' = event /\ req' = req
    BY <1>1, <1>3 DEF Week!Tick
  <2>2. ASSUME NEW r \in Requests PROVE WeekLocalOK(req[r])'
    <3>1. WeekLocalOK(req[r]) /\ req[r] \in WeekLocal
      BY DEF WeekInv
    <3>2. today' \in Int /\ today \in Int
      BY <1>1, <2>1
    <3>3. \A l \in WeekLocal : WeekLocalOK(l) => WeekLocalOK(l)'
      BY <2>1, <3>2, WeekTicks
    <3> QED BY <2>1, <3>1, <3>3
  <2> QED BY <2>1, <2>2 DEF WeekInv
<1>4. ASSUME NEW r \in Requests, Week!Start(r) PROVE WeekInv'
  <2>1. PICK m : m = Week!getCurrentWeekRange(today).start
    OBVIOUS
  <2>2. m \in Int /\ Week!getDay(m) = 1 /\ m <= today
    BY <1>1, <2>1, WeekOfDay
  <2>3. PICK l : l = [Week!Idle EXCEPT !.pc = "events", !.start = m]
    OBVIOUS
  <2>4. req' = [req EXCEPT ![r] = l] /\ event' = event /\ today' = today
    BY <1>4, <2>1, <2>3 DEF Week!Start, Week!become
  <2>5. l \in WeekLocal /\ l.pc = "events" /\ l.start = m
    <3>1. Week!NoEvents \in [Week!WeekDays -> SUBSET Events]
      BY DEF Week!NoEvents
    <3>2. l = [pc |-> "events", start |-> m, found |-> {}, monday |-> 0, shown |-> Week!NoEvents]
      BY <2>3 DEF Week!Idle
    <3> QED BY <2>2, <3>1, <3>2 DEF WeekLocal
  <2>6. WeekLocalOK(l)
    BY <2>2, <2>5 DEF WeekLocalOK
  <2> QED BY <2>4, <2>5, <2>6, WeekSteps
<1>5. ASSUME NEW r \in Requests, Week!FindEvents(r) PROVE WeekInv'
  <2>1. PICK l : l = [req[r] EXCEPT !.pc = "group",
                            !.found = Week!findByPlaceInDateRange(weekFrom(req[r].start))]
    OBVIOUS
  <2>2. req' = [req EXCEPT ![r] = l] /\ event' = event /\ today' = today
    BY <1>5, <2>1 DEF Week!FindEvents, Week!become, weekFrom
  <2>3. Week!findByPlaceInDateRange(weekFrom(req[r].start)) \in SUBSET Events
    BY DEF Week!findByPlaceInDateRange
  <2>4. l \in WeekLocal /\ l.pc = "group" /\ l.start = req[r].start
        /\ l.found = Week!findByPlaceInDateRange(weekFrom(req[r].start))
    BY <2>1, <2>3 DEF WeekInv, WeekLocal
  <2>5. WeekLocalOK(l)
    BY <1>5, <2>4 DEF WeekInv, WeekLocalOK, Week!FindEvents
  <2> QED BY <2>2, <2>4, <2>5, WeekSteps
<1>6. ASSUME NEW r \in Requests, Week!Group(r) PROVE WeekInv'
  <2>1. PICK m : m = Week!getCurrentWeekRange(today).start
    OBVIOUS
  <2>2. Week!getCurrentWeekRange(today) = weekFrom(m) /\ m \in Int /\ Week!getDay(m) = 1 /\ m <= today
    BY <1>1, <2>1, WeekOfDay
  <2>3. PICK l : l = [req[r] EXCEPT !.pc = "answered", !.monday = m,
                            !.shown = Week!groupEventsByDay(req[r].found, weekFrom(m))]
    OBVIOUS
  <2>4. req' = [req EXCEPT ![r] = l] /\ event' = event /\ today' = today
    BY <1>6, <2>1, <2>2, <2>3 DEF Week!Group, Week!become
  <2>5. Week!groupEventsByDay(req[r].found, weekFrom(m)) \in [Week!WeekDays -> SUBSET Events]
    BY DEF Week!groupEventsByDay, WeekInv, WeekLocal
  <2>6. l \in WeekLocal /\ l.pc = "answered" /\ l.monday = m /\ l.start = req[r].start
        /\ l.shown = Week!groupEventsByDay(req[r].found, weekFrom(m)) /\ l.found = req[r].found
    BY <2>2, <2>3, <2>5 DEF WeekInv, WeekLocal
  <2>7. WeekLocalOK(l)
    BY <1>6, <2>2, <2>6 DEF WeekInv, WeekLocalOK, Week!Group
  <2> QED BY <2>4, <2>6, <2>7, WeekSteps
<1>7. ASSUME NEW r \in Requests, Week!RequestFail(r) PROVE WeekInv'
  <2>1. Week!Idle \in WeekLocal /\ WeekLocalOK(Week!Idle)
    BY DEF Week!Idle, WeekLocal, Week!NoEvents, WeekLocalOK
  <2> QED BY <1>7, <2>1, WeekSteps DEF Week!RequestFail, Week!become
<1> QED BY <1>2, <1>3, <1>4, <1>5, <1>6, <1>7 DEF Week!Next

LEMMA WeekInvariant == ASSUME Week!WeekAssumption PROVE Week!Spec => []WeekInv
<1>1. Week!Init => WeekInv
  BY DEF Week!Init, WeekInv, Week!Idle, WeekLocal, Week!NoEvents, WeekLocalOK
<1>2. WeekInv /\ [Week!Next]_Week!vars => WeekInv'
  BY WeekNext
<1> QED BY <1>1, <1>2, PTL DEF Week!Spec

\* For any events, schedules, days and requests, the locals of GetPlaceById keep their types.
THEOREM WeekTypes == ASSUME Week!WeekAssumption PROVE Week!Spec => []Week!TypeOK
<1>1. WeekInv => Week!TypeOK
  BY DEF WeekInv, WeekLocal, Week!TypeOK
<1> QED BY <1>1, WeekInvariant, PTL

\* For any schedules and wherever the clock stands: a page shows on each day of a week that
\* begins on a Monday the events that are on that day and no other, and all of them unless
\* the week turned between the two readings of the clock (GetPlaceById.usecase.ts:42-49,
\* placeScheduleWithEvents.ts).
THEOREM PagesShowTheWeek == ASSUME Week!WeekAssumption PROVE Week!Spec => []Week!WeekShown
<1>1. WeekInv => Week!WeekShown
  <2> SUFFICES ASSUME WeekInv PROVE Week!WeekShown
    OBVIOUS
  <2>1. \A r \in Requests : req[r].monday \in Week!daysFrom(req[r].monday)
    BY DEF WeekInv, WeekLocal, Week!daysFrom
  <2> SUFFICES ASSUME NEW r \in Requests, req[r].pc = "answered",
                      NEW d \in Week!daysFrom(req[r].monday)
               PROVE  /\ Week!getDay(req[r].monday) = 1 /\ req[r].monday <= today
                      /\ req[r].shown[Week!getDayOfWeek(d)] \subseteq Week!on(d)
                      /\ req[r].start = req[r].monday =>
                            Week!on(d) \subseteq req[r].shown[Week!getDayOfWeek(d)]
    BY <2>1 DEF Week!WeekShown
  <2> DEFINE m == req[r].monday
  <2>2. WeekLocalOK(req[r]) /\ req[r] \in WeekLocal
    BY DEF WeekInv
  <2>3. /\ m \in Int /\ Week!getDay(m) = 1 /\ m <= today /\ req[r].found \subseteq Events
        /\ req[r].shown = Week!groupEventsByDay(req[r].found, weekFrom(m))
        /\ req[r].found = Week!findByPlaceInDateRange(weekFrom(req[r].start))
    BY <2>2 DEF WeekLocalOK, WeekLocal
  <2> HIDE DEF m
  <2>4. d \in m .. m + 6 /\ d \in Int
    BY <2>3 DEF Week!daysFrom, m
  <2>5. Week!getDayOfWeek(d) \in Week!WeekDays
    BY <2>4, DaysNamed
  <2>6. \A e \in Events : \A p \in event[e].schedule : p.startDate \in Nat /\ p.endDate \in Nat
    BY DEF WeekInv, Week!EventDocs, Week!WeekAssumption
  <2>7. ASSUME NEW e, e \in req[r].shown[Week!getDayOfWeek(d)] PROVE e \in Week!on(d)
    <3>1. e \in Events /\ ~event[e].deleted /\ ~event[e].cancelled
      BY <2>3, <2>5, <2>7 DEF Week!groupEventsByDay
    <3>2. PICK p \in event[e].schedule :
            \E x \in Week!getDatesBetween(Week!later(p.startDate, m), Week!earlier(p.endDate, m + 6)) :
                Week!getDayOfWeek(x) = Week!getDayOfWeek(d)
      BY <2>3, <2>5, <2>7 DEF Week!groupEventsByDay, weekFrom
    <3>3. PICK x \in Week!getDatesBetween(Week!later(p.startDate, m), Week!earlier(p.endDate, m + 6)) :
            Week!getDayOfWeek(x) = Week!getDayOfWeek(d)
      BY <3>2
    <3>4. x \in m .. m + 6 /\ p.startDate <= x /\ x <= p.endDate
      BY <2>3, <2>6, <3>1 DEF Week!getDatesBetween, Week!later, Week!earlier
    <3>5. x = d
      BY <2>3, <2>4, <3>3, <3>4, DaysApart DEF Week!daysFrom
    <3> QED BY <3>1, <3>4, <3>5 DEF Week!on
  <2>8. ASSUME req[r].start = m,
               NEW e \in Week!on(d) PROVE e \in req[r].shown[Week!getDayOfWeek(d)]
    <3>1. PICK p \in event[e].schedule : p.startDate <= d /\ d <= p.endDate
      BY DEF Week!on
    <3>2. e \in Events /\ ~event[e].deleted /\ ~event[e].cancelled
      BY DEF Week!on
    <3>3. p.startDate <= m + 6 /\ p.endDate >= m
      BY <2>3, <2>4, <2>6, <3>1, <3>2
    <3>4. e \in req[r].found
      BY <2>3, <2>8, <3>2, <3>3 DEF Week!findByPlaceInDateRange, weekFrom
    <3>5. d \in Week!getDatesBetween(Week!later(p.startDate, m), Week!earlier(p.endDate, m + 6))
      BY <2>3, <2>4, <2>6, <3>1, <3>2 DEF Week!getDatesBetween, Week!later, Week!earlier
    <3> QED BY <2>3, <2>5, <3>2, <3>4, <3>5 DEF Week!groupEventsByDay, weekFrom
  <2> QED BY <2>3, <2>7, <2>8 DEF m
<1> QED BY <1>1, WeekInvariant, PTL

-----------------------------------------------------------------------------
(* THE MAP                                                                 *)

\* A request under way holds its look-up and what it found.
MapLocal == [pc : {"idle", "cache", "source", "store"}, lookup : Map!Lookups \cup {None},
             found : SUBSET Map!Items]

MapInv == Map!TypeOK /\ req \in [Requests -> MapLocal]

LEMMA SourcesInItems ==
    ASSUME NEW q \in Map!Lookups PROVE Map!source(q) \subseteq Map!Items
<1>1. q.kind \in {"places", "events", "categories", "suggest", "reverse"}
  BY DEF Map!Lookups
<1> QED BY <1>1
        DEF Map!source, Map!findPlacesInView, Map!findEventsInView, Map!findAllCategories,
            Map!suggest, Map!reverse, Map!Items

LEMMA KeyOfLookup == ASSUME NEW q \in Map!Lookups PROVE Map!cacheKey(q) \in Map!Keys
BY DEF Map!Keys

LEMMA LookupNoted ==
    ASSUME NEW l \in MapLocal, NEW q \in Map!Lookups
    PROVE  /\ [l EXCEPT !.pc = "cache", !.lookup = q] \in MapLocal
           /\ [l EXCEPT !.pc = "cache", !.lookup = q].lookup = q
BY DEF MapLocal

LEMMA FindNoted ==
    ASSUME NEW l \in MapLocal, NEW found \in SUBSET Map!Items
    PROVE  /\ [l EXCEPT !.pc = "store", !.found = found] \in MapLocal
           /\ [l EXCEPT !.pc = "store", !.found = found].lookup = l.lookup
BY DEF MapLocal

LEMMA NewEvent ==
    ASSUME NEW at \in Positions \cup {None}, NEW p \in Places \cup {None},
           NEW document \in Map!EventDocs
    PROVE  [document EXCEPT !.at = at, !.place = p, !.lifecycle = "upcoming"] \in Map!EventDocs
BY DEF Map!EventDocs

LEMMA MapInit == Map!Init => MapInv
BY DEF Map!Init, MapInv, Map!TypeOK, MapLocal, Map!NoPlace, Map!NoEvent, Map!PlaceDocs,
   Map!EventDocs, Map!Miss, Map!Entries, Map!Idle

\* The steps of a request change its locals and, at the end, an entry.
LEMMA MapRequest ==
    ASSUME MapInv, NEW r \in Requests, Map!Lookup(r) \/ Map!Step(r)
    PROVE  MapInv'
<1>1. /\ req \in [Requests -> MapLocal] /\ UNCHANGED Map!data
      /\ cache \in [Map!Keys -> Map!Entries]
      /\ req[r] \in MapLocal /\ (req[r].pc # "idle" => req[r].lookup \in Map!Lookups)
      /\ req[r].found \subseteq Map!Items
  BY DEF MapInv, Map!TypeOK, Map!Lookup, Map!Step, Map!get, Map!Find, Map!set, Map!RequestFail,
     Map!data
<1>2. /\ Map!Idle \in MapLocal /\ Map!Idle.pc = "idle" /\ Map!Idle.found = {}
  BY DEF Map!Idle, MapLocal
<1>3. ASSUME NEW new \in MapLocal, new.pc # "idle" => new.lookup \in Map!Lookups,
             req' = [req EXCEPT ![r] = new], cache' \in [Map!Keys -> Map!Entries]
      PROVE  MapInv'
  <2>1. req' \in [Requests -> MapLocal] /\ \A s \in Requests : req'[s] = IF s = r THEN new ELSE req[s]
    BY <1>1, <1>3
  <2>2. new.pc \in {"idle", "cache", "source", "store"} /\ new.found \subseteq Map!Items
    BY <1>3 DEF MapLocal
  <2> QED BY <1>1, <1>3, <2>1, <2>2 DEF MapInv, Map!TypeOK, Map!data
<1>4. CASE Map!RequestFail(r)
  BY <1>1, <1>2, <1>3, <1>4 DEF Map!RequestFail, Map!finish
<1>5. CASE Map!Lookup(r)
  <2>1. PICK q \in Map!Lookups : req' = [req EXCEPT ![r] = [Map!Idle EXCEPT !.pc = "cache", !.lookup = q]]
    BY <1>5 DEF Map!Lookup
  <2> DEFINE new == [Map!Idle EXCEPT !.pc = "cache", !.lookup = q]
  <2>2. new \in MapLocal /\ new.lookup \in Map!Lookups
    BY <1>2, LookupNoted
  <2>3. UNCHANGED cache
    BY <1>5 DEF Map!Lookup
  <2> HIDE DEF new
  <2> QED BY <1>1, <1>3, <2>1, <2>2, <2>3 DEF new
<1>6. CASE Map!get(r)
  <2> DEFINE new == [req[r] EXCEPT !.pc = "source"]
  <2>1. /\ new \in MapLocal /\ new.pc = "source" /\ new.lookup = req[r].lookup
        /\ req[r].lookup \in Map!Lookups
    BY <1>1, <1>6 DEF Map!get, MapLocal
  <2>2. CASE Map!finish(r)
    BY <1>1, <1>2, <1>3, <1>6, <2>2 DEF Map!get, Map!finish
  <2>3. CASE req' = [req EXCEPT ![r].pc = "source"]
    <3>1. req' = [req EXCEPT ![r] = new] /\ UNCHANGED cache
      BY <1>1, <1>6, <2>3 DEF Map!get
    <3> HIDE DEF new
    <3> QED BY <1>1, <1>3, <2>1, <3>1
  <2> QED BY <1>6, <2>2, <2>3 DEF Map!get
<1>7. CASE Map!Find(r)
  <2> DEFINE new == [req[r] EXCEPT !.pc = "store", !.found = Map!source(req[r].lookup)]
  <2>1. req[r].lookup \in Map!Lookups
    BY <1>1, <1>7 DEF Map!Find
  <2>2. Map!source(req[r].lookup) \in SUBSET Map!Items
    BY <2>1, SourcesInItems
  <2>3. new \in MapLocal /\ new.lookup \in Map!Lookups
    BY <1>1, <2>1, <2>2, FindNoted
  <2>4. req' = [req EXCEPT ![r] = new] /\ UNCHANGED cache
    BY <1>1, <1>7 DEF Map!Find
  <2> HIDE DEF new
  <2> QED BY <1>1, <1>3, <2>3, <2>4
<1>8. CASE Map!set(r)
  <2>1. Map!cacheKey(req[r].lookup) \in Map!Keys
    BY <1>1, <1>8, KeyOfLookup DEF Map!set
  <2>2. [stored |-> TRUE, value |-> req[r].found, expires |-> TRUE] \in Map!Entries
    BY <1>1 DEF Map!Entries
  <2>3. cache' \in [Map!Keys -> Map!Entries]
    BY <1>1, <1>8, <2>1, <2>2 DEF Map!set
  <2> QED BY <1>2, <1>3, <1>8, <2>3 DEF Map!set, Map!finish
<1> QED BY <1>4, <1>5, <1>6, <1>7, <1>8 DEF Map!Step

LEMMA MapExpire == ASSUME MapInv, NEW k \in Map!Keys, Map!Expire(k) PROVE MapInv'
<1>1. Map!Miss \in Map!Entries
  BY DEF Map!Miss, Map!Entries
<1>2. cache' \in [Map!Keys -> Map!Entries] /\ UNCHANGED <<Map!data, req>>
  BY <1>1 DEF Map!Expire, MapInv, Map!TypeOK
<1> QED BY <1>2 DEF MapInv, Map!TypeOK, Map!data

\* The documents keep their types, whoever changes them.
LEMMA MapSource == ASSUME MapInv, Map!Source PROVE MapInv'
<1>1. place \in [Places -> Map!PlaceDocs] /\ event \in [Events -> Map!EventDocs]
  BY DEF MapInv, Map!TypeOK
<1>2. ASSUME place' \in [Places -> Map!PlaceDocs], event' \in [Events -> Map!EventDocs],
             geocoder' \in BOOLEAN, UNCHANGED <<cache, req>>
      PROVE  MapInv'
  BY <1>2 DEF MapInv, Map!TypeOK
<1>3. ASSUME NEW p \in Places, NEW document \in Map!PlaceDocs, Map!changePlace(p,
             document) PROVE MapInv'
  <2>1. place' \in [Places -> Map!PlaceDocs]
    BY <1>1, <1>3 DEF Map!changePlace
  <2> QED BY <1>1, <1>2, <1>3, <2>1 DEF Map!changePlace, MapInv, Map!TypeOK
<1>4. ASSUME NEW e \in Events, NEW document \in Map!EventDocs, Map!changeEvent(e,
             document) PROVE MapInv'
  <2>1. event' \in [Events -> Map!EventDocs]
    BY <1>1, <1>4 DEF Map!changeEvent
  <2> QED BY <1>1, <1>2, <1>4, <2>1 DEF Map!changeEvent, MapInv, Map!TypeOK
<1>5. ASSUME NEW p \in Places,
             Map!savePlace(p) \/ Map!updatePlace(p) \/ Map!softDeletePlace(p)
                 \/ Map!deletePlace(p)
      PROVE  MapInv'
  <2>1. place[p] \in Map!PlaceDocs /\ Map!NoPlace \in Map!PlaceDocs
    BY <1>1 DEF Map!PlaceDocs, Map!NoPlace
  <2>2. ASSUME NEW document \in Map!PlaceDocs, NEW at \in Positions
        PROVE  [document EXCEPT !.at = at] \in Map!PlaceDocs /\ [document EXCEPT !.deleted = ~@] \in Map!PlaceDocs
    BY DEF Map!PlaceDocs
  <2>3. [place[p] EXCEPT !.deleted = ~@] \in Map!PlaceDocs
    BY <2>1 DEF Map!PlaceDocs
  <2>4. CASE Map!savePlace(p)
    BY <1>3, <2>1, <2>2, <2>4 DEF Map!savePlace
  <2>5. CASE Map!updatePlace(p)
    BY <1>3, <2>1, <2>2, <2>5 DEF Map!updatePlace
  <2>6. CASE Map!softDeletePlace(p)
    BY <1>3, <2>3, <2>6 DEF Map!softDeletePlace
  <2>7. CASE Map!deletePlace(p)
    BY <1>3, <2>1, <2>7 DEF Map!deletePlace
  <2> QED BY <1>5, <2>4, <2>5, <2>6, <2>7
<1>6. ASSUME NEW e \in Events,
             Map!saveEvent(e) \/ Map!cancelEvent(e) \/ Map!softDeleteEvent(e)
                 \/ Map!updateLifecycle(e)
                \/ Map!deleteEvent(e)
      PROVE  MapInv'
  <2>1. event[e] \in Map!EventDocs /\ Map!NoEvent \in Map!EventDocs
    BY <1>1 DEF Map!EventDocs, Map!NoEvent
  <2>2. /\ [event[e] EXCEPT !.cancelled = TRUE] \in Map!EventDocs
        /\ [event[e] EXCEPT !.deleted = ~@] \in Map!EventDocs
        /\ \A status \in {"upcoming", "ongoing", "ended"} :
                [event[e] EXCEPT !.lifecycle = status] \in Map!EventDocs
    BY <2>1 DEF Map!EventDocs
  <2>3. CASE Map!saveEvent(e)
    <3>1. PICK at \in Positions \cup {None}, p \in Places \cup {None} :
            Map!changeEvent(e, [Map!NoEvent EXCEPT !.at = at, !.place = p, !.lifecycle = "upcoming"])
      BY <2>3 DEF Map!saveEvent
    <3> QED BY <1>4, <2>1, <3>1, NewEvent
  <2>4. CASE Map!cancelEvent(e)
    BY <1>4, <2>2, <2>4 DEF Map!cancelEvent
  <2>5. CASE Map!softDeleteEvent(e)
    BY <1>4, <2>2, <2>5 DEF Map!softDeleteEvent
  <2>6. CASE Map!updateLifecycle(e)
    BY <1>4, <2>2, <2>6 DEF Map!updateLifecycle
  <2>7. CASE Map!deleteEvent(e)
    BY <1>4, <2>1, <2>7 DEF Map!deleteEvent
  <2> QED BY <1>6, <2>3, <2>4, <2>5, <2>6, <2>7
<1>7. CASE Map!Mapbox
  <2>1. geocoder' \in BOOLEAN
    BY <1>7 DEF Map!Mapbox, MapInv, Map!TypeOK
  <2> QED BY <1>1, <1>2, <1>7, <2>1 DEF Map!Mapbox
<1> QED BY <1>5, <1>6, <1>7 DEF Map!Source

LEMMA MapNext == MapInv /\ [Map!Next]_Map!vars => MapInv'
<1> SUFFICES ASSUME MapInv, [Map!Next]_Map!vars PROVE MapInv'
  OBVIOUS
<1>1. CASE Map!Next
  BY <1>1, MapRequest, MapExpire, MapSource DEF Map!Next
<1>2. CASE UNCHANGED Map!vars
  BY <1>2 DEF Map!vars, MapInv, Map!TypeOK
<1> QED BY <1>1, <1>2

\* Whatever the fairness.
LEMMA MapFromTheStart == Map!Init /\ [][Map!Next]_Map!vars => []Map!TypeOK
<1>1. MapInv => Map!TypeOK
  BY DEF MapInv
<1> QED BY <1>1, MapInit, MapNext, PTL

\* For any places, events, boxes, keys and requests: the documents, the entries of the cache
\* and what a request has found keep their types, whatever fails or expires (RedisCache,
\* GetPlacesInView, GetEventsInView, GetCategories and the two geocoding look-ups).
THEOREM MapTypes == Map!Spec => []Map!TypeOK
BY MapFromTheStart, PTL DEF Map!Spec

-----------------------------------------------------------------------------
(* PARTNERSHIPS                                                            *)

\* Counting is the same in the instance.
LEMMA PartnershipSets ==
    \A S : (Prt!IsFiniteSet(S) <=> IsFiniteSet(S)) /\ Prt!Cardinality(S) = Cardinality(S)
BY DEF Prt!IsFiniteSet, Prt!Cardinality, IsFiniteSet, Cardinality

Statuses == {"pending", "accepted", "cancelled"}

\* What a handler relies on when it resumes.
PartnershipLocalOK(l) ==
    /\ l.pc \in {"create:existing", "create:save"}
            => l.initiator \in Members /\ l.collaborator \in Creators
    /\ l.pc = "update:write" => l.id \in PartnershipIds /\ l.next.status \in Statuses

PartnershipTyped == Prt!TypeOK /\ \A r \in Requests : PartnershipLocalOK(req[r])

(* Type correctness                                                        *)

LEMMA PartnershipInit == Prt!Init => PartnershipTyped
BY DEF Prt!Init, PartnershipTyped, Prt!TypeOK, Prt!Partnerships, Prt!Absent, Prt!Local,
   Prt!Idle, PartnershipLocalOK

LEMMA PartnershipIdle == Prt!Idle \in Prt!Local /\ PartnershipLocalOK(Prt!Idle)
BY DEF Prt!Idle, Prt!Local, PartnershipLocalOK, Prt!Partnerships, Prt!Absent

\* The locals a step sets are the only ones it changes.
LEMMA PartnershipStep ==
    ASSUME PartnershipTyped, partnerships' \in [PartnershipIds -> Prt!Partnerships],
           accounts' \subseteq Members,
           NEW r \in Requests, NEW l \in Prt!Local, PartnershipLocalOK(l), req' = [req EXCEPT ![r] = l]
    PROVE  PartnershipTyped'
BY DEF PartnershipTyped, Prt!TypeOK, PartnershipLocalOK

\* What is stored has a status, two users and a flag.
LEMMA StoredType ==
    ASSUME PartnershipTyped, NEW p \in PartnershipIds,
           Prt!stored(p) \/ partnerships[p].status \in Statuses
    PROVE  partnerships[p] \in [status : Statuses, initiator : Members,
                                collaborator : Creators, deleted : BOOLEAN]
<1>1. Prt!Absent.status = "none" /\ Prt!Removed.status = "removed"
  BY DEF Prt!Absent, Prt!Removed
<1>2. partnerships[p] \notin {Prt!Absent, Prt!Removed}
  BY <1>1 DEF Prt!stored, Statuses
<1> QED BY <1>2 DEF PartnershipTyped, Prt!TypeOK, Prt!Partnerships, Statuses

\* A write changes the status and the flag of one document, and only of a stored
\* one.
LEMMA UpdateEffect ==
    ASSUME PartnershipTyped, NEW p \in PartnershipIds, NEW next \in Prt!Partnerships,
           next.status \in Statuses, Prt!update(p, next)
    PROVE  /\ partnerships' \in [PartnershipIds -> Prt!Partnerships]
           /\ \A q \in PartnershipIds :
                /\ partnerships'[q].initiator = partnerships[q].initiator
                /\ partnerships'[q].collaborator = partnerships[q].collaborator
                /\ Prt!stored(q)' => Prt!stored(q)
                /\ q # p \/ ~Prt!stored(q) => partnerships'[q] = partnerships[q]
                /\ q = p /\ Prt!stored(q) => partnerships'[q].deleted = next.deleted
<1>1. CASE Prt!stored(p)
  <2> DEFINE new == [partnerships[p] EXCEPT !.status = next.status,
                                            !.deleted = next.deleted]
  <2>1. partnerships[p] \in [status : Statuses, initiator : Members,
                             collaborator : Creators, deleted : BOOLEAN]
    BY <1>1, StoredType
  <2>2. next.deleted \in BOOLEAN
    <3>1. Prt!Absent.deleted = FALSE /\ Prt!Removed.deleted = FALSE
      BY DEF Prt!Absent, Prt!Removed
    <3>2. \A s \in Prt!Partnerships : s.deleted \in BOOLEAN
      BY <3>1 DEF Prt!Partnerships
    <3> QED BY <3>2
  <2>3. /\ new \in Prt!Partnerships
        /\ new.initiator = partnerships[p].initiator
        /\ new.collaborator = partnerships[p].collaborator
        /\ new.deleted = next.deleted
    BY <2>1, <2>2 DEF Prt!Partnerships, Statuses
  <2>4. partnerships' = [partnerships EXCEPT ![p] = new]
    BY <1>1 DEF Prt!update
  <2> HIDE DEF new
  <2>5. \A q \in PartnershipIds :
            partnerships'[q] = IF q = p THEN new ELSE partnerships[q]
    BY <2>4 DEF PartnershipTyped, Prt!TypeOK
  <2> QED BY <1>1, <2>3, <2>4, <2>5 DEF PartnershipTyped, Prt!TypeOK, Prt!stored
<1>2. CASE ~Prt!stored(p)
  BY <1>2 DEF Prt!update, Prt!stored, PartnershipTyped, Prt!TypeOK
<1> QED BY <1>1, <1>2

LEMMA PartnershipCreate ==
    ASSUME Prt!PartnershipAssumption, PartnershipTyped, NEW r \in Requests,
           \/ Prt!CreateFindCollaborator(r) \/ Prt!CreateFindExisting(r) \/ Prt!CreateSave(r)
           \/ Prt!CreateFind(r) \/ Prt!CreateNotify(r)
    PROVE  PartnershipTyped'
<1>1. CASE Prt!CreateFindCollaborator(r)
  <2>1. PICK a \in accounts, b \in accounts \cap Creators :
            req' = [req EXCEPT ![r] = [Prt!Idle EXCEPT !.pc = "create:existing",
                                           !.initiator = a, !.collaborator = b]]
    BY <1>1 DEF Prt!CreateFindCollaborator
  <2> DEFINE l == [Prt!Idle EXCEPT !.pc = "create:existing",
                                   !.initiator = a, !.collaborator = b]
  <2>2. l \in Prt!Local /\ PartnershipLocalOK(l)
    BY DEF PartnershipTyped, Prt!TypeOK, Prt!Idle, Prt!Local, PartnershipLocalOK,
       Prt!Partnerships, Prt!Absent
  <2> HIDE DEF l
  <2> QED BY <1>1, <2>1, <2>2, PartnershipStep
          DEF Prt!CreateFindCollaborator, PartnershipTyped, Prt!TypeOK, l
<1>2. ASSUME NEW pc \in {"create:save", "create:notify"}, Prt!goto(r, pc),
             UNCHANGED <<partnerships, accounts>>,
             pc = "create:save" => req[r].pc = "create:existing"
      PROVE  PartnershipTyped'
  <2> DEFINE l == [req[r] EXCEPT !.pc = pc]
  <2>1. l \in Prt!Local /\ PartnershipLocalOK(l)
    BY <1>2 DEF PartnershipTyped, Prt!TypeOK, Prt!Local, PartnershipLocalOK
  <2>2. req' = [req EXCEPT ![r] = l]
    BY <1>2 DEF Prt!goto
  <2> HIDE DEF l
  <2> QED BY <1>2, <2>1, <2>2, PartnershipStep DEF PartnershipTyped, Prt!TypeOK
<1>3. CASE Prt!CreateFindExisting(r)
  BY <1>2, <1>3 DEF Prt!CreateFindExisting
<1>4. CASE Prt!CreateSave(r)
  <2>1. PICK p \in PartnershipIds :
            /\ partnerships' = [partnerships EXCEPT
                    ![p] = Prt!create(req[r].initiator, req[r].collaborator)]
            /\ req' = [req EXCEPT ![r].pc = "create:find", ![r].id = p]
    BY <1>4 DEF Prt!CreateSave
  <2> DEFINE l == [req[r] EXCEPT !.pc = "create:find", !.id = p]
  <2>2. l \in Prt!Local /\ PartnershipLocalOK(l)
    BY DEF PartnershipTyped, Prt!TypeOK, Prt!Local, PartnershipLocalOK
  <2>3. req' = [req EXCEPT ![r] = l]
    BY <2>1
  <2>4. Prt!create(req[r].initiator, req[r].collaborator) \in Prt!Partnerships
    BY <1>4
    DEF Prt!CreateSave, Prt!create, Prt!Partnerships, PartnershipTyped, PartnershipLocalOK
  <2> HIDE DEF l
  <2> QED BY <1>4, <2>1, <2>2, <2>3, <2>4, PartnershipStep
          DEF Prt!CreateSave, PartnershipTyped, Prt!TypeOK
<1>5. CASE Prt!CreateFind(r)
  BY <1>2, <1>5 DEF Prt!CreateFind
<1>6. CASE Prt!CreateNotify(r)
  BY <1>6, PartnershipIdle, PartnershipStep
  DEF Prt!CreateNotify, Prt!finish, PartnershipTyped, Prt!TypeOK
<1> QED BY <1>1, <1>3, <1>4, <1>5, <1>6

\* The items that read a document hold a changed copy of it.
LEMMA FindEffect ==
    ASSUME PartnershipTyped, NEW r \in Requests, Prt!FindToAccept(r) \/ Prt!FindToDelete(r)
    PROVE  \E p \in PartnershipIds, l \in Prt!Local :
             /\ req' = [req EXCEPT ![r] = l] /\ PartnershipLocalOK(l)
             /\ l.pc = "update:write" /\ l.id = p /\ Prt!stored(p)
             /\ ~l.next.deleted => ~partnerships[p].deleted
<1>1. ASSUME NEW p \in PartnershipIds, NEW next \in Prt!Partnerships,
             next.status \in Statuses, Prt!FindToWrite(r, p, next), Prt!stored(p),
             ~next.deleted => ~partnerships[p].deleted
      PROVE  \E q \in PartnershipIds, l \in Prt!Local :
                /\ req' = [req EXCEPT ![r] = l] /\ PartnershipLocalOK(l)
                /\ l.pc = "update:write" /\ l.id = q /\ Prt!stored(q)
                /\ ~l.next.deleted => ~partnerships[q].deleted
  <2> DEFINE l == [Prt!Idle EXCEPT !.pc = "update:write", !.id = p, !.next = next]
  <2>1. /\ l \in Prt!Local /\ PartnershipLocalOK(l)
        /\ l.pc = "update:write" /\ l.id = p /\ l.next = next
    BY <1>1 DEF Prt!Idle, Prt!Local, PartnershipLocalOK
  <2>2. req' = [req EXCEPT ![r] = l]
    BY <1>1 DEF Prt!FindToWrite
  <2> HIDE DEF l
  <2> QED BY <1>1, <2>1, <2>2
<1>2. CASE Prt!FindToAccept(r)
  <2>1. PICK p \in PartnershipIds :
            partnerships[p].status = "pending" /\ Prt!FindToWrite(r, p, Prt!accept(partnerships[p]))
    BY <1>2 DEF Prt!FindToAccept
  <2>2. Prt!stored(p)
    BY <2>1 DEF Prt!stored, Prt!Absent, Prt!Removed
  <2>3. partnerships[p] \in [status : Statuses, initiator : Members,
                             collaborator : Creators, deleted : BOOLEAN]
    BY <2>2, StoredType
  <2>4. /\ Prt!accept(partnerships[p]) \in Prt!Partnerships
        /\ Prt!accept(partnerships[p]).status \in Statuses
        /\ Prt!accept(partnerships[p]).deleted = partnerships[p].deleted
    BY <2>3 DEF Prt!accept, Prt!Partnerships, Statuses
  <2> QED BY <1>1, <2>1, <2>2, <2>4
<1>3. CASE Prt!FindToDelete(r)
  <2>1. PICK p \in PartnershipIds :
            Prt!stored(p) /\ Prt!FindToWrite(r, p, Prt!cancel(partnerships[p]))
    BY <1>3 DEF Prt!FindToDelete
  <2>2. partnerships[p] \in [status : Statuses, initiator : Members,
                             collaborator : Creators, deleted : BOOLEAN]
    BY <2>1, StoredType
  <2>3. /\ Prt!cancel(partnerships[p]) \in Prt!Partnerships
        /\ Prt!cancel(partnerships[p]).status \in Statuses
        /\ Prt!cancel(partnerships[p]).deleted
    BY <2>2 DEF Prt!cancel, Prt!Partnerships, Statuses
  <2> QED BY <1>1, <2>1, <2>3
<1> QED BY <1>2, <1>3

LEMMA PartnershipChange ==
    ASSUME PartnershipTyped, NEW r \in Requests,
           Prt!FindToAccept(r) \/ Prt!FindToDelete(r) \/ Prt!UpdateWrite(r)
    PROVE  PartnershipTyped'
<1>1. CASE Prt!FindToAccept(r) \/ Prt!FindToDelete(r)
  <2>1. UNCHANGED <<partnerships, accounts>>
    BY <1>1 DEF Prt!FindToAccept, Prt!FindToDelete
  <2> QED BY <1>1, <2>1, FindEffect, PartnershipStep DEF PartnershipTyped, Prt!TypeOK
<1>2. CASE Prt!UpdateWrite(r)
  <2>1. req[r].id \in PartnershipIds /\ req[r].next.status \in Statuses
    BY <1>2 DEF Prt!UpdateWrite, PartnershipTyped, PartnershipLocalOK
  <2>2. partnerships' \in [PartnershipIds -> Prt!Partnerships]
    BY <1>2, <2>1, UpdateEffect DEF Prt!UpdateWrite, PartnershipTyped, Prt!TypeOK, Prt!Local
  <2> QED BY <1>2, <2>2, PartnershipIdle, PartnershipStep
          DEF Prt!UpdateWrite, Prt!finish, PartnershipTyped, Prt!TypeOK
<1> QED BY <1>1, <1>2

LEMMA PartnershipAccount ==
    ASSUME PartnershipTyped, NEW r \in Requests,
           Prt!AccountFind(r) \/ Prt!deleteManyByUserId(r) \/ Prt!AccountDelete(r)
    PROVE  PartnershipTyped'
<1>1. CASE Prt!AccountFind(r)
  <2>1. PICK u \in accounts : req' = [req EXCEPT ![r] =
                    [Prt!Idle EXCEPT !.pc = "account:partnerships", !.initiator = u]]
    BY <1>1 DEF Prt!AccountFind
  <2> DEFINE l == [Prt!Idle EXCEPT !.pc = "account:partnerships", !.initiator = u]
  <2>2. l \in Prt!Local /\ PartnershipLocalOK(l)
    BY DEF PartnershipTyped, Prt!TypeOK, Prt!Idle, Prt!Local, PartnershipLocalOK,
       Prt!Partnerships, Prt!Absent
  <2> HIDE DEF l
  <2> QED BY <1>1, <2>1, <2>2, PartnershipStep
          DEF Prt!AccountFind, PartnershipTyped, Prt!TypeOK, l
<1>2. CASE Prt!deleteManyByUserId(r)
  <2> DEFINE l == [req[r] EXCEPT !.pc = "account:delete"]
  <2>1. l \in Prt!Local /\ PartnershipLocalOK(l)
    BY DEF PartnershipTyped, Prt!TypeOK, Prt!Local, PartnershipLocalOK
  <2>2. req' = [req EXCEPT ![r] = l]
    BY <1>2 DEF Prt!deleteManyByUserId, Prt!goto
  <2>3. partnerships' \in [PartnershipIds -> Prt!Partnerships]
    BY <1>2 DEF Prt!deleteManyByUserId, PartnershipTyped, Prt!TypeOK, Prt!Partnerships
  <2> HIDE DEF l
  <2> QED BY <1>2, <2>1, <2>2, <2>3, PartnershipStep
          DEF Prt!deleteManyByUserId, PartnershipTyped, Prt!TypeOK
<1>3. CASE Prt!AccountDelete(r)
  BY <1>3, PartnershipIdle, PartnershipStep
  DEF Prt!AccountDelete, Prt!finish, PartnershipTyped, Prt!TypeOK
<1> QED BY <1>1, <1>2, <1>3

LEMMA PartnershipNext == Prt!PartnershipAssumption /\ PartnershipTyped /\ [Prt!Next]_Prt!vars => PartnershipTyped'
<1> SUFFICES ASSUME Prt!PartnershipAssumption, PartnershipTyped, [Prt!Next]_Prt!vars PROVE PartnershipTyped'
  OBVIOUS
<1>1. ASSUME NEW r \in Requests, Prt!RequestFail(r) PROVE PartnershipTyped'
  BY <1>1, PartnershipIdle, PartnershipStep
  DEF Prt!RequestFail, Prt!finish, PartnershipTyped, Prt!TypeOK
<1>2. CASE UNCHANGED Prt!vars
  BY <1>2 DEF Prt!vars, PartnershipTyped, Prt!TypeOK, PartnershipLocalOK
<1> QED BY <1>1, <1>2, PartnershipCreate, PartnershipChange, PartnershipAccount
        DEF Prt!Next, Prt!Step

(* The claims on a pair of users                                           *)

parties(p) == {partnerships[p].initiator, partnerships[p].collaborator}

\* The requests that may store a copy that is in view.
revivers == {q \in Requests : req[q].pc = "update:write" /\ ~req[q].next.deleted}

\* The partnerships of the pair that are in view or may be again.
claimed(pair) ==
    {p \in PartnershipIds :
        /\ Prt!stored(p) /\ parties(p) = pair
        /\ ~partnerships[p].deleted \/ \E q \in revivers : req[q].id = p}

\* The requests that found the pair free and have yet to save.
claiming(pair) ==
    {q \in Requests : req[q].pc = "create:save"
                      /\ {req[q].initiator, req[q].collaborator} = pair}

ClaimsBounded(pair) ==
    Cardinality(claimed(pair)) + Cardinality(claiming(pair)) <= Cardinality(Requests)

PairInv == \A a, b \in Members : ClaimsBounded({a, b})

LEMMA ClaimsFinite ==
    ASSUME Prt!PartnershipAssumption, NEW pair
    PROVE  /\ IsFiniteSet(claimed(pair)) /\ Cardinality(claimed(pair)) \in Nat
           /\ IsFiniteSet(claiming(pair)) /\ Cardinality(claiming(pair)) \in Nat
           /\ IsFiniteSet(Requests) /\ Cardinality(Requests) \in Nat
<1>1. claimed(pair) \subseteq PartnershipIds /\ claiming(pair) \subseteq Requests
  BY DEF claimed, claiming
<1> QED BY <1>1, PartnershipSets, FS_Subset, FS_CardinalityType DEF Prt!PartnershipAssumption

LEMMA ClaimsFiniteNext ==
    ASSUME Prt!PartnershipAssumption, NEW pair
    PROVE  /\ IsFiniteSet(claimed(pair)') /\ Cardinality(claimed(pair)') \in Nat
           /\ IsFiniteSet(claiming(pair)') /\ Cardinality(claiming(pair)') \in Nat
<1>1. claimed(pair)' \subseteq PartnershipIds /\ claiming(pair)' \subseteq Requests
  BY DEF claimed, claiming
<1> QED BY <1>1, PartnershipSets, FS_Subset, FS_CardinalityType DEF Prt!PartnershipAssumption

\* A step that adds no claim.
LEMMA PartnershipQuietStep ==
    ASSUME Prt!PartnershipAssumption, NEW pair, ClaimsBounded(pair),
           claimed(pair)' \subseteq claimed(pair), claiming(pair)' \subseteq claiming(pair)
    PROVE  ClaimsBounded(pair)'
<1>1. Cardinality(claimed(pair)') + Cardinality(claiming(pair)')
          <= Cardinality(claimed(pair)) + Cardinality(claiming(pair))
  BY ClaimsFinite, FewerOfBoth
<1> QED BY <1>1, ClaimsFinite, ClaimsFiniteNext DEF ClaimsBounded

\* The locals of the other requests are as they were.
LEMMA OneMoves ==
    ASSUME PartnershipTyped, NEW r \in Requests, NEW l, req' = [req EXCEPT ![r] = l]
    PROVE  \A q \in Requests : req'[q] = IF q = r THEN l ELSE req[q]
BY DEF PartnershipTyped, Prt!TypeOK

\* The request found nothing in view, so what the pair may still have is the
\* work of other requests, and this one takes a place of its own.
LEMMA CreateFindExistingClaims ==
    ASSUME Prt!PartnershipAssumption, PartnershipTyped, NEW r \in Requests,
           Prt!CreateFindExisting(r),
           NEW pair, ClaimsBounded(pair)
    PROVE  ClaimsBounded(pair)'
<1> DEFINE l == [req[r] EXCEPT !.pc = "create:save"]
<1>1. l.pc = "create:save" /\ l.initiator = req[r].initiator
      /\ l.collaborator = req[r].collaborator
  BY DEF PartnershipTyped, Prt!TypeOK, Prt!Local
<1>2. req' = [req EXCEPT ![r] = l] /\ UNCHANGED partnerships
  BY DEF Prt!CreateFindExisting, Prt!goto
<1> HIDE DEF l
<1>3. \A q \in Requests : req'[q] = IF q = r THEN l ELSE req[q]
  BY <1>2, OneMoves
<1>4. CASE pair = {req[r].initiator, req[r].collaborator}
  <2> DEFINE waiting == claiming(pair)'
             held    == claimed(pair)'
             f       == [q \in Requests |-> req'[q].id]
  <2>1. \A p \in held : \E q \in revivers' : req'[q].id = p
    BY <1>2, <1>4
    DEF Prt!CreateFindExisting, Prt!findExistingBetweenUsers, Prt!between, Prt!live,
                      Prt!stored, claimed, parties
  <2>2. waiting \subseteq Requests /\ revivers' \subseteq Requests \ waiting
    BY DEF claiming, revivers
  <2>3. \A p \in held : \E q \in Requests \ waiting : f[q] = p
    BY <2>1, <2>2
  <2> HIDE DEF waiting, held, f
  <2>4. Cardinality(held) + Cardinality(waiting) <= Cardinality(Requests)
    BY <2>2, <2>3, OneEach, PartnershipSets DEF Prt!PartnershipAssumption
  <2> QED BY <2>4 DEF ClaimsBounded, held, waiting
<1>5. CASE pair # {req[r].initiator, req[r].collaborator}
  <2>1. claimed(pair)' \subseteq claimed(pair)
    BY <1>1, <1>2, <1>3 DEF claimed, revivers, parties, Prt!stored
  <2>2. claiming(pair)' \subseteq claiming(pair)
    BY <1>1, <1>3, <1>5 DEF claiming
  <2> QED BY <2>1, <2>2, PartnershipQuietStep
<1> QED BY <1>4, <1>5

\* The request trades its place for the partnership it saves.
LEMMA CreateSaveClaims ==
    ASSUME Prt!PartnershipAssumption, PartnershipTyped, NEW r \in Requests, Prt!CreateSave(r),
           NEW pair, ClaimsBounded(pair)
    PROVE  ClaimsBounded(pair)'
<1>1. PICK p \in PartnershipIds :
        /\ partnerships' = [partnerships EXCEPT
                ![p] = Prt!create(req[r].initiator, req[r].collaborator)]
        /\ req' = [req EXCEPT ![r].pc = "create:find", ![r].id = p]
  BY DEF Prt!CreateSave
<1> DEFINE l == [req[r] EXCEPT !.pc = "create:find", !.id = p]
<1>2. req' = [req EXCEPT ![r] = l] /\ l.pc = "create:find"
  BY <1>1 DEF PartnershipTyped, Prt!TypeOK, Prt!Local
<1> HIDE DEF l
<1>3. \A q \in Requests : req'[q] = IF q = r THEN l ELSE req[q]
  BY <1>2, OneMoves
<1>4. \A q \in PartnershipIds : q # p => partnerships'[q] = partnerships[q]
  BY <1>1 DEF PartnershipTyped, Prt!TypeOK
<1>5. parties(p)' = {req[r].initiator, req[r].collaborator}
  BY <1>1 DEF parties, Prt!create, PartnershipTyped, Prt!TypeOK
<1>6. revivers' \subseteq revivers /\ \A q \in revivers' : req'[q] = req[q]
  BY <1>2, <1>3 DEF revivers
<1>7. claimed(pair)' \subseteq claimed(pair) \cup {p}
  BY <1>4, <1>6 DEF claimed, parties, Prt!stored
<1>8. CASE pair = {req[r].initiator, req[r].collaborator}
  <2>1. r \in claiming(pair) /\ claiming(pair)' \subseteq claiming(pair) \ {r}
    BY <1>2, <1>3, <1>8 DEF claiming, Prt!CreateSave
  <2>2. Cardinality(claimed(pair)') + Cardinality(claiming(pair)')
            <= Cardinality(claimed(pair)) + Cardinality(claiming(pair))
    BY <1>7, <2>1, ClaimsFinite, OneForOne
  <2> QED BY <2>2, ClaimsFinite, ClaimsFiniteNext DEF ClaimsBounded
<1>9. CASE pair # {req[r].initiator, req[r].collaborator}
  <2>1. p \notin claimed(pair)'
    BY <1>5, <1>9 DEF claimed
  <2>2. claiming(pair)' \subseteq claiming(pair)
    BY <1>2, <1>3 DEF claiming
  <2> QED BY <1>7, <2>1, <2>2, PartnershipQuietStep
<1> QED BY <1>8, <1>9

\* A copy that is in view was read from a document in view.
LEMMA FindClaims ==
    ASSUME Prt!PartnershipAssumption, PartnershipTyped, NEW r \in Requests,
           Prt!FindToAccept(r) \/ Prt!FindToDelete(r), NEW pair, ClaimsBounded(pair)
    PROVE  ClaimsBounded(pair)'
<1>1. PICK p \in PartnershipIds, l \in Prt!Local :
        /\ req' = [req EXCEPT ![r] = l]
        /\ l.pc = "update:write" /\ l.id = p /\ Prt!stored(p)
        /\ ~l.next.deleted => ~partnerships[p].deleted
  BY FindEffect
<1>2. \A q \in Requests : req'[q] = IF q = r THEN l ELSE req[q]
  BY <1>1, OneMoves
<1>3. UNCHANGED partnerships
  BY DEF Prt!FindToAccept, Prt!FindToDelete
<1>4. claimed(pair)' \subseteq claimed(pair)
  BY <1>1, <1>2, <1>3 DEF claimed, revivers, parties, Prt!stored
<1>5. claiming(pair)' \subseteq claiming(pair)
  BY <1>1, <1>2 DEF claiming
<1> QED BY <1>4, <1>5, PartnershipQuietStep

\* What a write brings into view counted already.
LEMMA UpdateWriteClaims ==
    ASSUME Prt!PartnershipAssumption, PartnershipTyped, NEW r \in Requests, Prt!UpdateWrite(r),
           NEW pair, ClaimsBounded(pair)
    PROVE  ClaimsBounded(pair)'
<1>1. /\ req[r].pc = "update:write" /\ req[r].id \in PartnershipIds
      /\ req[r].next \in Prt!Partnerships /\ req[r].next.status \in Statuses
  BY DEF Prt!UpdateWrite, PartnershipTyped, PartnershipLocalOK, Prt!TypeOK, Prt!Local
<1>2. \A q \in PartnershipIds :
        /\ partnerships'[q].initiator = partnerships[q].initiator
        /\ partnerships'[q].collaborator = partnerships[q].collaborator
        /\ Prt!stored(q)' => Prt!stored(q)
        /\ q # req[r].id \/ ~Prt!stored(q) => partnerships'[q] = partnerships[q]
        /\ q = req[r].id /\ Prt!stored(q) => partnerships'[q].deleted = req[r].next.deleted
  BY <1>1, UpdateEffect DEF Prt!UpdateWrite
<1>3. \A q \in Requests : req'[q] = IF q = r THEN Prt!Idle ELSE req[q]
  BY OneMoves DEF Prt!UpdateWrite, Prt!finish
<1>4. \A q \in revivers' : q \in revivers /\ req'[q] = req[q]
  BY <1>3 DEF revivers, Prt!Idle
<1>5. claimed(pair)' \subseteq claimed(pair)
  <2> SUFFICES ASSUME NEW p \in claimed(pair)' PROVE p \in claimed(pair)
    OBVIOUS
  <2>1. p \in PartnershipIds /\ Prt!stored(p) /\ parties(p) = pair
    BY <1>2 DEF claimed, parties
  <2>2. CASE \E q \in revivers' : req'[q].id = p
    BY <1>4, <2>1, <2>2 DEF claimed
  <2>3. CASE ~partnerships'[p].deleted
    <3>1. CASE p = req[r].id
      <4>1. r \in revivers
        BY <1>1, <1>2, <2>1, <2>3, <3>1 DEF revivers
      <4> QED BY <2>1, <3>1, <4>1 DEF claimed
    <3>2. CASE p # req[r].id
      BY <1>2, <2>1, <2>3, <3>2 DEF claimed
    <3> QED BY <3>1, <3>2
  <2> QED BY <2>2, <2>3 DEF claimed
<1>6. claiming(pair)' \subseteq claiming(pair)
  BY <1>3 DEF claiming, Prt!Idle
<1> QED BY <1>5, <1>6, PartnershipQuietStep

\* The other steps only drop claims.
LEMMA OtherClaims ==
    ASSUME Prt!PartnershipAssumption, PartnershipTyped, NEW pair, ClaimsBounded(pair),
           \A p \in PartnershipIds : partnerships'[p] \in {partnerships[p], Prt!Removed},
           \A q \in Requests :
               req'[q].pc \in {"update:write", "create:save"} => req'[q] = req[q]
    PROVE  ClaimsBounded(pair)'
<1>1. \A q \in revivers' : q \in revivers /\ req'[q] = req[q]
  BY DEF revivers
<1>2. claimed(pair)' \subseteq claimed(pair)
  BY <1>1 DEF claimed, parties, Prt!stored
<1>3. claiming(pair)' \subseteq claiming(pair)
  BY DEF claiming
<1> QED BY <1>2, <1>3, PartnershipQuietStep

LEMMA NextClaims ==
    ASSUME Prt!PartnershipAssumption, PartnershipTyped, [Prt!Next]_Prt!vars, NEW pair,
           ClaimsBounded(pair)
    PROVE  ClaimsBounded(pair)'
<1>1. ASSUME NEW r \in Requests, NEW l, req' = [req EXCEPT ![r] = l],
             l.pc \notin {"update:write", "create:save"},
             \A p \in PartnershipIds : partnerships'[p] \in {partnerships[p], Prt!Removed}
      PROVE  ClaimsBounded(pair)'
  BY <1>1, OneMoves, OtherClaims
<1>2. ASSUME NEW r \in Requests, Prt!finish(r), UNCHANGED partnerships
      PROVE  ClaimsBounded(pair)'
  <2>1. Prt!Idle.pc \notin {"update:write", "create:save"}
    BY DEF Prt!Idle
  <2> QED BY <1>1, <1>2, <2>1 DEF Prt!finish
<1>3. ASSUME NEW r \in Requests, Prt!CreateFindCollaborator(r)
      PROVE  ClaimsBounded(pair)'
  <2>1. PICK a \in accounts, b \in accounts \cap Creators :
            req' = [req EXCEPT ![r] = [Prt!Idle EXCEPT !.pc = "create:existing",
                                           !.initiator = a, !.collaborator = b]]
    BY <1>3 DEF Prt!CreateFindCollaborator
  <2> DEFINE l == [Prt!Idle EXCEPT !.pc = "create:existing",
                                   !.initiator = a, !.collaborator = b]
  <2>2. l.pc \notin {"update:write", "create:save"}
    BY DEF Prt!Idle
  <2> HIDE DEF l
  <2> QED BY <1>1, <1>3, <2>1, <2>2 DEF Prt!CreateFindCollaborator, l
<1>4. ASSUME NEW r \in Requests, Prt!AccountFind(r)
      PROVE  ClaimsBounded(pair)'
  <2>1. PICK u \in accounts : req' = [req EXCEPT ![r] =
                    [Prt!Idle EXCEPT !.pc = "account:partnerships", !.initiator = u]]
    BY <1>4 DEF Prt!AccountFind
  <2> DEFINE l == [Prt!Idle EXCEPT !.pc = "account:partnerships", !.initiator = u]
  <2>2. l.pc \notin {"update:write", "create:save"}
    BY DEF Prt!Idle
  <2> HIDE DEF l
  <2> QED BY <1>1, <1>4, <2>1, <2>2 DEF Prt!AccountFind, l
<1>5. ASSUME NEW r \in Requests, Prt!CreateFind(r) \/ Prt!deleteManyByUserId(r)
      PROVE  ClaimsBounded(pair)'
  <2>1. \A pc : [req[r] EXCEPT !.pc = pc].pc = pc
    BY DEF PartnershipTyped, Prt!TypeOK, Prt!Local
  <2>2. \A p \in PartnershipIds : partnerships'[p] \in {partnerships[p], Prt!Removed}
    BY <1>5 DEF Prt!CreateFind, Prt!deleteManyByUserId
  <2> QED BY <1>1, <1>5, <2>1, <2>2 DEF Prt!CreateFind, Prt!deleteManyByUserId, Prt!goto
<1>6. CASE UNCHANGED Prt!vars
  BY <1>6, OtherClaims DEF Prt!vars
<1>7. ASSUME NEW r \in Requests,
             Prt!CreateNotify(r) \/ Prt!RequestFail(r) \/ Prt!AccountDelete(r)
      PROVE  ClaimsBounded(pair)'
  BY <1>2, <1>7 DEF Prt!CreateNotify, Prt!RequestFail, Prt!AccountDelete
<1> QED BY <1>3, <1>4, <1>5, <1>6, <1>7, CreateFindExistingClaims, CreateSaveClaims,
           FindClaims, UpdateWriteClaims DEF Prt!Next, Prt!Step

LEMMA InitClaims == Prt!PartnershipAssumption /\ Prt!Init => PairInv
<1> SUFFICES ASSUME Prt!PartnershipAssumption, Prt!Init, NEW pair PROVE ClaimsBounded(pair)
  BY DEF PairInv
<1>1. claimed(pair) = {} /\ claiming(pair) = {}
  BY DEF Prt!Init, claimed, claiming, Prt!stored, Prt!Absent, Prt!Idle
<1>2. Cardinality(claimed(pair)) = 0 /\ Cardinality(claiming(pair)) = 0
  BY <1>1, FS_EmptySet
<1> QED BY <1>2, ClaimsFinite DEF ClaimsBounded


\* The documents and the requests keep their types: no handler stores a
\* partnership without its two users, or writes one it has not read
\* (CreatePartnership:66-70, UpdatePartnerships:69).
THEOREM PartnershipTypes == ASSUME Prt!PartnershipAssumption PROVE Prt!Spec => []Prt!TypeOK
<1>1. PartnershipTyped => Prt!TypeOK
  BY DEF PartnershipTyped
<1>2. PartnershipTyped /\ [Prt!Next]_Prt!vars => PartnershipTyped'
  BY PartnershipNext
<1> QED BY <1>1, <1>2, PartnershipInit, PTL DEF Prt!Spec

\* However many requests overlap, a pair of users has no more partnerships in
\* view than their number (CreatePartnership:49-70, UpdatePartnerships:69).
THEOREM PairBound == ASSUME Prt!PartnershipAssumption PROVE Prt!Spec => []Prt!PartnershipsBounded
<1>1. Prt!Init => PartnershipTyped /\ PairInv
  BY PartnershipInit, InitClaims
<1>2. PartnershipTyped /\ PairInv /\ [Prt!Next]_Prt!vars => (PartnershipTyped /\ PairInv)'
  BY PartnershipNext, NextClaims DEF PairInv
<1>3. PairInv => Prt!PartnershipsBounded
  <2> SUFFICES ASSUME PairInv, NEW a \in Members, NEW b \in Members
               PROVE  Cardinality({p \in PartnershipIds : Prt!live(p) /\ Prt!between(p, a, b)})
                          <= Cardinality(Requests)
    BY PartnershipSets DEF Prt!PartnershipsBounded
  <2> DEFINE shown == {p \in PartnershipIds : Prt!live(p) /\ Prt!between(p, a, b)}
  <2>1. shown \subseteq claimed({a, b})
    BY DEF Prt!live, Prt!between, claimed, parties
  <2>2. ClaimsBounded({a, b})
    BY DEF PairInv
  <2> HIDE DEF shown
  <2>3. /\ Cardinality(shown) <= Cardinality(claimed({a, b}))
        /\ Cardinality(shown) \in Nat
    BY <2>1, ClaimsFinite, FS_Subset, FS_CardinalityType
  <2>4. Cardinality(shown) <= Cardinality(Requests)
    BY <2>2, <2>3, ClaimsFinite DEF ClaimsBounded
  <2> QED BY <2>4 DEF shown
<1> QED BY <1>1, <1>2, <1>3, PTL DEF Prt!Spec

(* The requests served one at a time                                       *)
(*                                                                         *)
(* A handler that runs alone finds the accounts and the copy it read as    *)
(* they were, so nothing is saved for an account that is gone, and nothing *)
(* that was cancelled is written back.                                     *)

\* What a handler that runs alone relies on when it resumes.
AloneOK(l) ==
    /\ l.pc \in {"create:existing", "create:save"}
            => {l.initiator, l.collaborator} \subseteq accounts
    /\ l.pc = "update:write" =>
        /\ l.next.status = "cancelled" => l.next.deleted
        /\ partnerships[l.id].status = "cancelled" => l.next.deleted
    /\ l.pc = "account:delete" =>
        \A p \in PartnershipIds : Prt!stored(p) => l.initiator \notin parties(p)

CancelledDeleted ==
    \A p \in PartnershipIds :
        partnerships[p].status = "cancelled" => partnerships[p].deleted

PartnershipAloneInv ==
    /\ Prt!NoOrphanPartnership /\ CancelledDeleted
    /\ \A r \in Requests : AloneOK(req[r])

\* Nothing is relied on at the other steps.
QuietPcs == {"idle", "create:find", "create:notify", "account:partnerships"}

LEMMA QuietOK ==
    ASSUME NEW l, l.pc \in QuietPcs
    PROVE  AloneOK(l)
BY DEF AloneOK, QuietPcs

\* A step that leaves the documents and the accounts alone.
LEMMA QuietAlone ==
    ASSUME PartnershipTyped, PartnershipAloneInv, NEW r, Requests = {r},
           UNCHANGED <<partnerships, accounts>>,
           NEW l, req' = [req EXCEPT ![r] = l], AloneOK(l)
    PROVE  PartnershipAloneInv'
<1>1. req'[r] = l
  BY DEF PartnershipTyped, Prt!TypeOK
<1>2. AloneOK(req[r])'
  BY <1>1 DEF AloneOK, Prt!stored, parties
<1> QED BY <1>2
        DEF PartnershipAloneInv, Prt!NoOrphanPartnership, CancelledDeleted, Prt!stored, parties

LEMMA CreateAlone ==
    ASSUME Prt!PartnershipAssumption, PartnershipTyped, PartnershipAloneInv, NEW r,
           Requests = {r},
           \/ Prt!CreateFindCollaborator(r) \/ Prt!CreateFindExisting(r) \/ Prt!CreateSave(r)
           \/ Prt!CreateFind(r) \/ Prt!CreateNotify(r)
    PROVE  PartnershipAloneInv'
<1>1. CASE Prt!CreateFindCollaborator(r)
  <2>1. PICK a \in accounts, b \in accounts \cap Creators :
            req' = [req EXCEPT ![r] = [Prt!Idle EXCEPT !.pc = "create:existing",
                                           !.initiator = a, !.collaborator = b]]
    BY <1>1 DEF Prt!CreateFindCollaborator
  <2>2. PICK l : l = [Prt!Idle EXCEPT !.pc = "create:existing",
                                      !.initiator = a, !.collaborator = b]
    OBVIOUS
  <2>3. AloneOK(l)
    BY <2>2 DEF AloneOK, Prt!Idle
  <2> QED BY <1>1, <2>1, <2>2, <2>3, QuietAlone DEF Prt!CreateFindCollaborator
<1>2. CASE Prt!CreateFindExisting(r)
  <2>1. PICK l : l = [req[r] EXCEPT !.pc = "create:save"]
    OBVIOUS
  <2>2. req[r] \in Prt!Local /\ AloneOK(req[r]) /\ req[r].pc = "create:existing"
    BY <1>2 DEF Prt!CreateFindExisting, PartnershipTyped, Prt!TypeOK, PartnershipAloneInv
  <2>3. AloneOK(l)
    BY <2>1, <2>2 DEF AloneOK, Prt!Local
  <2> QED BY <1>2, <2>1, <2>3, QuietAlone DEF Prt!CreateFindExisting, Prt!goto
<1>3. CASE Prt!CreateSave(r)
  <2>1. PICK p \in PartnershipIds :
            /\ partnerships[p] = Prt!Absent
            /\ partnerships' = [partnerships EXCEPT
                    ![p] = Prt!create(req[r].initiator, req[r].collaborator)]
            /\ req' = [req EXCEPT ![r].pc = "create:find", ![r].id = p]
    BY <1>3 DEF Prt!CreateSave
  <2>2. PICK new : new = Prt!create(req[r].initiator, req[r].collaborator)
    OBVIOUS
  <2>3. /\ new.initiator \in accounts /\ new.collaborator \in accounts
        /\ new.status = "pending"
    BY <1>3, <2>2 DEF Prt!CreateSave, PartnershipAloneInv, AloneOK, Prt!create
  <2>4. \A q \in PartnershipIds :
            partnerships'[q] = IF q = p THEN new ELSE partnerships[q]
    BY <2>1, <2>2 DEF PartnershipTyped, Prt!TypeOK
  <2>5. accounts' = accounts
    BY <1>3 DEF Prt!CreateSave
  <2>6. Prt!NoOrphanPartnership' /\ CancelledDeleted'
    BY <2>3, <2>4, <2>5
    DEF PartnershipAloneInv, Prt!NoOrphanPartnership, CancelledDeleted, Prt!stored
  <2>7. req'[r].pc = "create:find"
    BY <2>1 DEF PartnershipTyped, Prt!TypeOK, Prt!Local
  <2> QED BY <2>6, <2>7, QuietOK DEF PartnershipAloneInv, QuietPcs, AloneOK
<1>4. CASE Prt!CreateFind(r)
  <2>1. PICK l : l = [req[r] EXCEPT !.pc = "create:notify"]
    OBVIOUS
  <2>2. l.pc \in QuietPcs
    BY <2>1 DEF PartnershipTyped, Prt!TypeOK, Prt!Local, QuietPcs
  <2> QED BY <1>4, <2>1, <2>2, QuietOK, QuietAlone DEF Prt!CreateFind, Prt!goto
<1>5. CASE Prt!CreateNotify(r)
  <2>1. AloneOK(Prt!Idle)
    BY QuietOK DEF Prt!Idle, QuietPcs
  <2> QED BY <1>5, <2>1, QuietAlone DEF Prt!CreateNotify, Prt!finish
<1> QED BY <1>1, <1>2, <1>3, <1>4, <1>5

\* The copy to write is that of the document as it is: an accepted one was not
\* cancelled.
LEMMA FindAlone ==
    ASSUME Prt!PartnershipAssumption, PartnershipTyped, PartnershipAloneInv, NEW r,
           Requests = {r},
           Prt!FindToAccept(r) \/ Prt!FindToDelete(r)
    PROVE  PartnershipAloneInv'
<1>1. ASSUME NEW p \in PartnershipIds, NEW next, Prt!FindToWrite(r, p, next),
             next.status = "cancelled" => next.deleted,
             partnerships[p].status = "cancelled" => next.deleted
      PROVE  PartnershipAloneInv'
  <2>1. PICK l : l = [Prt!Idle EXCEPT !.pc = "update:write", !.id = p, !.next = next]
    OBVIOUS
  <2>2. l.pc = "update:write" /\ l.id = p /\ l.next = next
    BY <2>1 DEF Prt!Idle
  <2>3. AloneOK(l)
    BY <1>1, <2>2 DEF AloneOK
  <2>4. UNCHANGED <<partnerships, accounts>>
    BY DEF Prt!FindToAccept, Prt!FindToDelete
  <2> QED BY <1>1, <2>1, <2>3, <2>4, QuietAlone DEF Prt!FindToWrite
<1>2. CASE Prt!FindToAccept(r)
  <2>1. PICK p \in PartnershipIds :
            partnerships[p].status = "pending" /\ Prt!FindToWrite(r, p, Prt!accept(partnerships[p]))
    BY <1>2 DEF Prt!FindToAccept
  <2>2. Prt!accept(partnerships[p]).status # "cancelled"
    <3>1. partnerships[p] \in [status : Statuses, initiator : Members,
                               collaborator : Creators, deleted : BOOLEAN]
      BY <2>1, StoredType DEF Statuses
    <3> QED BY <3>1 DEF Prt!accept
  <2> QED BY <1>1, <2>1, <2>2
<1>3. CASE Prt!FindToDelete(r)
  <2>1. PICK p \in PartnershipIds :
            Prt!stored(p) /\ Prt!FindToWrite(r, p, Prt!cancel(partnerships[p]))
    BY <1>3 DEF Prt!FindToDelete
  <2>2. Prt!cancel(partnerships[p]).deleted
    <3>1. partnerships[p] \in [status : Statuses, initiator : Members,
                               collaborator : Creators, deleted : BOOLEAN]
      BY <2>1, StoredType
    <3> QED BY <3>1 DEF Prt!cancel
  <2> QED BY <1>1, <2>1, <2>2
<1> QED BY <1>2, <1>3

\* What the write leaves of a document: its status and flag are those of the copy,
\* or what they were.
LEMMA WriteEffect ==
    ASSUME PartnershipTyped, NEW r \in Requests, Prt!UpdateWrite(r)
    PROVE  \A q \in PartnershipIds :
             /\ parties(q)' = parties(q)
             /\ Prt!stored(q)' => Prt!stored(q)
             /\ \/ partnerships'[q] = partnerships[q]
                \/ /\ q = req[r].id
                   /\ partnerships'[q].status = req[r].next.status
                   /\ partnerships'[q].deleted = req[r].next.deleted
<1>1. /\ req[r].id \in PartnershipIds /\ req[r].next \in Prt!Partnerships
      /\ req[r].next.status \in Statuses /\ Prt!update(req[r].id, req[r].next)
  BY DEF Prt!UpdateWrite, PartnershipTyped, Prt!TypeOK, PartnershipLocalOK, Prt!Local
<1>2. PICK p : p = req[r].id
  OBVIOUS
<1>3. PICK next : next = req[r].next
  OBVIOUS
<1>4. \A q \in PartnershipIds : parties(q)' = parties(q) /\ (Prt!stored(q)' => Prt!stored(q))
  BY <1>1, UpdateEffect DEF parties
<1>5. CASE Prt!stored(p)
  <2>1. /\ partnerships' = [partnerships EXCEPT ![p].status = next.status,
                                                ![p].deleted = next.deleted]
        /\ partnerships[p] \in [status : Statuses, initiator : Members,
                                collaborator : Creators, deleted : BOOLEAN]
    BY <1>1, <1>2, <1>3, <1>5, StoredType DEF Prt!update
  <2>2. /\ partnerships'[p].status = next.status /\ partnerships'[p].deleted = next.deleted
        /\ \A q \in PartnershipIds \ {p} : partnerships'[q] = partnerships[q]
    BY <1>1, <1>2, <2>1 DEF PartnershipTyped, Prt!TypeOK
  <2> QED BY <1>2, <1>3, <1>4, <2>2
<1>6. CASE ~Prt!stored(p)
  BY <1>1, <1>2, <1>4, <1>6 DEF Prt!update
<1> QED BY <1>5, <1>6

LEMMA WriteAlone ==
    ASSUME Prt!PartnershipAssumption, PartnershipTyped, PartnershipAloneInv, NEW r,
           Requests = {r}, Prt!UpdateWrite(r)
    PROVE  PartnershipAloneInv' /\ Prt!CancelKept
<1>1. PICK l : l = req[r]
  OBVIOUS
<1>2. /\ l.next.status = "cancelled" => l.next.deleted
      /\ partnerships[l.id].status = "cancelled" => l.next.deleted
  BY <1>1 DEF Prt!UpdateWrite, PartnershipAloneInv, AloneOK
<1>3. \A q \in PartnershipIds :
        /\ parties(q)' = parties(q)
        /\ Prt!stored(q)' => Prt!stored(q)
        /\ \/ partnerships'[q] = partnerships[q]
           \/ /\ q = l.id /\ partnerships'[q].status = l.next.status
              /\ partnerships'[q].deleted = l.next.deleted
  BY <1>1, WriteEffect
<1>4. accounts' = accounts /\ req'[r].pc = "idle"
  BY DEF Prt!UpdateWrite, Prt!finish, PartnershipTyped, Prt!TypeOK, Prt!Idle
<1>5. Prt!NoOrphanPartnership'
  <2> SUFFICES ASSUME NEW q \in PartnershipIds, Prt!stored(q)'
               PROVE  parties(q)' \subseteq accounts'
    BY DEF Prt!NoOrphanPartnership, parties
  <2>1. parties(q) \subseteq accounts
    BY <1>3 DEF PartnershipAloneInv, Prt!NoOrphanPartnership, parties
  <2> QED BY <1>3, <1>4, <2>1
<1>6. CancelledDeleted'
  BY <1>2, <1>3 DEF PartnershipAloneInv, CancelledDeleted
<1>7. \A q \in PartnershipIds :
        partnerships[q].status = "cancelled" => partnerships'[q].deleted
  BY <1>2, <1>3 DEF PartnershipAloneInv, CancelledDeleted
<1>8. Prt!CancelKept
  BY <1>7 DEF Prt!CancelKept, Prt!findListForUser, Prt!live
<1>9. AloneOK(req[r])'
  BY <1>4 DEF AloneOK
<1> QED BY <1>5, <1>6, <1>8, <1>9 DEF PartnershipAloneInv

LEMMA AccountAlone ==
    ASSUME Prt!PartnershipAssumption, PartnershipTyped, PartnershipAloneInv, NEW r,
           Requests = {r},
           Prt!AccountFind(r) \/ Prt!deleteManyByUserId(r) \/ Prt!AccountDelete(r)
    PROVE  PartnershipAloneInv'
<1>1. CASE Prt!AccountFind(r)
  <2>1. PICK u \in accounts : req' = [req EXCEPT ![r] =
                    [Prt!Idle EXCEPT !.pc = "account:partnerships", !.initiator = u]]
    BY <1>1 DEF Prt!AccountFind
  <2>2. PICK l : l = [Prt!Idle EXCEPT !.pc = "account:partnerships", !.initiator = u]
    OBVIOUS
  <2>3. l.pc \in QuietPcs
    BY <2>2 DEF Prt!Idle, QuietPcs
  <2>4. AloneOK(l)
    BY <2>3, QuietOK
  <2> QED BY <1>1, <2>1, <2>2, <2>4, QuietAlone DEF Prt!AccountFind
<1>2. CASE Prt!deleteManyByUserId(r)
  <2>1. \A q \in PartnershipIds :
            partnerships'[q] = IF req[r].initiator \in parties(q)
                               THEN Prt!Removed ELSE partnerships[q]
    BY <1>2 DEF Prt!deleteManyByUserId, parties
  <2>3. \A q \in PartnershipIds :
            Prt!stored(q)' => /\ req[r].initiator \notin parties(q)
                              /\ partnerships'[q] = partnerships[q] /\ Prt!stored(q)
    BY <2>1 DEF Prt!stored
  <2>4. accounts' = accounts
    BY <1>2 DEF Prt!deleteManyByUserId
  <2>5. Prt!NoOrphanPartnership'
    BY <2>3, <2>4 DEF PartnershipAloneInv, Prt!NoOrphanPartnership
  <2>6. CancelledDeleted'
    <3>1. Prt!Removed.status # "cancelled"
      BY DEF Prt!Removed
    <3> QED BY <2>1, <3>1 DEF PartnershipAloneInv, CancelledDeleted
  <2>7. req'[r].pc = "account:delete" /\ req'[r].initiator = req[r].initiator
    BY <1>2 DEF Prt!deleteManyByUserId, Prt!goto, PartnershipTyped, Prt!TypeOK, Prt!Local
  <2>8. AloneOK(req[r])'
    BY <2>3, <2>7 DEF AloneOK, parties
  <2> QED BY <2>5, <2>6, <2>8 DEF PartnershipAloneInv
<1>3. CASE Prt!AccountDelete(r)
  <2>1. \A q \in PartnershipIds : Prt!stored(q) => req[r].initiator \notin parties(q)
    BY <1>3 DEF Prt!AccountDelete, PartnershipAloneInv, AloneOK
  <2>2. UNCHANGED partnerships /\ accounts' = accounts \ {req[r].initiator}
    BY <1>3 DEF Prt!AccountDelete
  <2>3. Prt!NoOrphanPartnership' /\ CancelledDeleted'
    BY <2>1, <2>2
    DEF PartnershipAloneInv, Prt!NoOrphanPartnership, CancelledDeleted, Prt!stored, parties
  <2>4. req'[r].pc = "idle"
    BY <1>3 DEF Prt!AccountDelete, Prt!finish, PartnershipTyped, Prt!TypeOK, Prt!Idle
  <2>5. AloneOK(req[r])'
    BY <2>4 DEF AloneOK
  <2> QED BY <2>3, <2>5 DEF PartnershipAloneInv
<1> QED BY <1>1, <1>2, <1>3

LEMMA NextAlone ==
    ASSUME Prt!PartnershipAssumption, NEW r, Requests = {r}, PartnershipTyped,
           PartnershipAloneInv, [Prt!Next]_Prt!vars
    PROVE  PartnershipAloneInv' /\ [Prt!CancelKept]_Prt!vars
<1>1. \A q \in PartnershipIds : partnerships[q].status = "cancelled" => ~Prt!live(q)
  BY DEF PartnershipAloneInv, CancelledDeleted, Prt!live
<1>2. CASE UNCHANGED Prt!vars
  BY <1>2
  DEF Prt!vars, PartnershipAloneInv, Prt!NoOrphanPartnership, CancelledDeleted, AloneOK,
      Prt!stored,
              parties
<1>3. ASSUME Prt!RequestFail(r)
      PROVE  PartnershipAloneInv'
  <2>1. AloneOK(Prt!Idle)
    BY QuietOK DEF Prt!Idle, QuietPcs
  <2> QED BY <1>3, <2>1, QuietAlone DEF Prt!RequestFail, Prt!finish
<1>4. ASSUME \A q \in PartnershipIds :
                \/ partnerships'[q] = partnerships[q] \/ partnerships[q] = Prt!Absent
                \/ partnerships'[q] = Prt!Removed
      PROVE  Prt!CancelKept
  <2>1. Prt!Absent.status # "cancelled"
    BY DEF Prt!Absent
  <2>2. \A q \in PartnershipIds : partnerships[q].status = "cancelled" => ~Prt!live(q)'
    BY <1>1, <1>4, <2>1 DEF Prt!live, Prt!stored
  <2> QED BY <2>2 DEF Prt!CancelKept, Prt!findListForUser
<1>5. ASSUME Prt!Step(r), ~Prt!UpdateWrite(r)
      PROVE  Prt!CancelKept
  <2>1. CASE UNCHANGED partnerships
    BY <1>4, <2>1
  <2>2. CASE Prt!CreateSave(r)
    BY <1>4, <2>2 DEF Prt!CreateSave, PartnershipTyped, Prt!TypeOK
  <2>3. CASE Prt!deleteManyByUserId(r)
    BY <1>4, <2>3 DEF Prt!deleteManyByUserId
  <2> QED BY <1>5, <2>1, <2>2, <2>3
          DEF Prt!Step, Prt!CreateFindCollaborator, Prt!CreateFindExisting, Prt!CreateFind,
              Prt!CreateNotify,
              Prt!FindToAccept, Prt!FindToDelete, Prt!AccountFind, Prt!AccountDelete,
              Prt!RequestFail
<1>6. ASSUME Prt!Step(r)
      PROVE  PartnershipAloneInv' /\ Prt!CancelKept
  BY <1>3, <1>5, <1>6, CreateAlone, FindAlone, WriteAlone, AccountAlone DEF Prt!Step
<1>7. CASE Prt!Next
  BY <1>6, <1>7 DEF Prt!Next
<1> QED BY <1>2, <1>7

LEMMA InitAlone == Prt!Init => PartnershipAloneInv
BY DEF Prt!Init, PartnershipAloneInv, Prt!NoOrphanPartnership, CancelledDeleted, AloneOK,
   Prt!stored, parties,
       Prt!Absent, Prt!Idle

\* With one request at a time, no partnership outlives either account
\* (DeleteAccount:64, then :85).
THEOREM NoPartnershipOutlivesAccount ==
    ASSUME Prt!PartnershipAssumption, NEW r, Requests = {r}
    PROVE  Prt!Spec => []Prt!NoOrphanPartnership
<1>1. PartnershipTyped /\ PartnershipAloneInv /\ [Prt!Next]_Prt!vars => (PartnershipTyped /\ PartnershipAloneInv)'
  BY PartnershipNext, NextAlone
<1>2. PartnershipAloneInv => Prt!NoOrphanPartnership
  BY DEF PartnershipAloneInv
<1> QED BY <1>1, <1>2, PartnershipInit, InitAlone, PTL DEF Prt!Spec

\* With one request at a time, a partnership that was cancelled is out of every
\* list for good (Partnership.entity.ts:83-96).
THEOREM CancelledForGood ==
    ASSUME Prt!PartnershipAssumption, NEW r, Requests = {r}
    PROVE  Prt!Spec => Prt!CancelledIsFinal
<1>1. PartnershipTyped /\ PartnershipAloneInv /\ [Prt!Next]_Prt!vars => (PartnershipTyped /\ PartnershipAloneInv)'
  BY PartnershipNext, NextAlone
<1>2. PartnershipTyped /\ PartnershipAloneInv /\ [Prt!Next]_Prt!vars => [Prt!CancelKept]_Prt!vars
  BY NextAlone
<1> QED BY <1>1, <1>2, PartnershipInit, InitAlone, PTL DEF Prt!Spec, Prt!CancelledIsFinal
=============================================================================
