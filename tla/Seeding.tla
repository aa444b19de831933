-------------------------------- MODULE Seeding --------------------------------
(***************************************************************************)
(* The script scripts/seed-ecosystem: one run of it after another replaces *)
(* the seeded users and all they own by a new generation.  It writes past  *)
(* the application, straight into the collections and the bucket, and any  *)
(* of its operations may fail or be cut off with part of it done: there is *)
(* no transaction, and what a run leaves is what the next one has to find. *)
(*                                                                         *)
(* A generation is one user with a place and an event, and a peer who is   *)
(* invited, books, follows and so on (SeedContext has how the documents    *)
(* come to be).  In between, with the script not running, members of the   *)
(* application make documents about seeded ones, and seeded accounts about *)
(* those of a member, who owns a place and an event.                       *)
(***************************************************************************)
EXTENDS Naturals, Sequences, SequencesExt, FiniteSets

CONSTANTS
    Host,           \* what the name of the host of the database says of it
    Production,     \* whether NODE_ENV is "production"
    MaxGenerations, \* bound on the generations that are made up
    MaxMemberDocs   \* bound on the documents between members and seeded users

SeedingAssumption ==
    /\ Host \subseteq {"local", "staging", "production"} /\ Production \in BOOLEAN
    /\ MaxGenerations \in Nat /\ MaxMemberDocs \in Nat

VARIABLES
    db,     \* the documents of each collection
    bucket, \* the files under images/seed/
    run     \* the run of the script, and what the one before left

vars == <<db, bucket, run>>

\* Faulty variant: places go before the events that are at them.
PurgedPlacesFirst == <<"invitations", "bookings", "follows", "favorites", "partnerships",
                       "places", "events", "images", "users">>

\* persistSeedContext inserts in this order and purgeSeedMongo deletes in the other.
Inserted == <<"users", "places", "images", "events", "invitations", "bookings",
              "follows", "favorites", "partnerships">>
Purged   == <<"invitations", "bookings", "follows", "favorites", "partnerships",
              "events", "places", "images", "users">>
Collections == ToSet(Inserted)
Relations   == {"invitations", "bookings", "follows", "favorites", "partnerships"}

\* Generation 0 is that of the members, whose own user, place and event are there all
\* the time and are not in db.
Names ==
    {"owner", "peer", "place", "event", "ownerImage", "peerImage", "eventImage", "none"}
Id    == [gen : 0 .. MaxGenerations, name : Names]
Files == {"portrait-1", "workshop-1"}

\* Only users, places, events and images have an identifier that others refer to.
Document == [id : Id, refs : SUBSET Id, file : Files \cup {"none"}]

Run ==
    [pc : {"idle", "find", "purge", "bucket", "generate", "upload", "insert"},
     reset : BOOLEAN, skipImages : BOOLEAN, left : Seq(Collections),
     n : 0 .. MaxGenerations, users : SUBSET Id, places : SUBSET Id, events : SUBSET Id,
     complete : BOOLEAN]

TypeOK ==
    /\ db \in [Collections -> SUBSET Document]
    /\ bucket \subseteq Files
    /\ run \in Run

idle ==
    [pc |-> "idle", reset |-> FALSE, skipImages |-> FALSE, left |-> <<>>, n |-> run.n,
     users |-> {}, places |-> {}, events |-> {}, complete |-> run.complete]

Init ==
    /\ db = [c \in Collections |-> {}]
    /\ bucket = {}
    /\ run = [pc |-> "idle", reset |-> FALSE, skipImages |-> FALSE, left |-> <<>>,
              n |-> 0, users |-> {}, places |-> {}, events |-> {}, complete |-> FALSE]

ids(c) == {d.id : d \in db[c]}

-----------------------------------------------------------------------------
(* The documents                                                           *)

the(n, name) == [gen |-> n, name |-> name]

doc(n, name, refs) ==
    [id |-> the(n, name), refs |-> {the(n, r) : r \in refs}, file |-> "none"]

\* An image refers to the user it belongs to and to what it shows, a user or an event.
\* The two users share one file of the pool.
attachImages(n) ==
    {[id |-> the(n, "ownerImage"), refs |-> {the(n, "owner")}, file |-> "portrait-1"],
     [id |-> the(n, "peerImage"), refs |-> {the(n, "peer")}, file |-> "portrait-1"],
     [id |-> the(n, "eventImage"), refs |-> {the(n, "owner"), the(n, "event")},
      file |-> "workshop-1"]}

\* Faulty variant: an image is set with --skip-images, too.
imageAlways(skipImages, name) == {name}

\* The image of a user or an event, which attachImages sets.
image(skipImages, name) == IF skipImages THEN {} ELSE {name}

\* The event has the peer among its collaborators.
generated(n, skipImages) ==
    [users        |-> {doc(n, "owner", {"place"} \cup image(skipImages, "ownerImage")),
                       doc(n, "peer", image(skipImages, "peerImage"))},
     places       |-> {doc(n, "place", {"owner"})},
     images       |-> IF skipImages THEN {} ELSE attachImages(n),
     events       |-> {doc(n, "event", {"owner", "place", "peer"}
                                            \cup image(skipImages, "eventImage"))},
     invitations  |-> {doc(n, "none", {"owner", "peer", "event"})},
     bookings     |-> {doc(n, "none", {"peer", "event"})},
     follows      |-> {doc(n, "none", {"peer", "owner"})},
     favorites    |-> {doc(n, "none", {"peer", "place"})},
     partnerships |-> {doc(n, "none", {"owner", "peer"})}]

\* A document between a member and the seeded users: what it is of is the member's
\* and who makes it is seeded, or the other way round.
between(c, n, k, l) ==
    [id |-> the(0, "none"), file |-> "none",
     refs |-> {the(k, "owner"), the(l, "peer")} \cup
              (CASE c \in {"invitations", "bookings"} -> {the(n, "event")}
                 [] c = "favorites" -> {the(n, "place")}
                 [] OTHER -> {})]

-----------------------------------------------------------------------------
(* The run                                                                 *)

\* The targets the database may be seeded as.
assertAllowedTarget(target, confirm) ==
    /\ Production => target = "production"
    /\ target # "production" => "production" \notin Host
    /\ target = "local" => "local" \in Host
    /\ target = "staging" =>
        confirm = "staging" /\ Host \cap {"local", "staging"} = {"staging"}
    /\ target = "production" => confirm = "production" /\ Host = {"production"}

\* Whoever ran it before, seeded users are only replaced when that is asked for.
main ==
    /\ run.pc = "idle" /\ run.n < MaxGenerations
    /\ \E target \in {"local", "staging", "production"},
          confirm \in {"none", "staging", "production"} : assertAllowedTarget(target, confirm)
    /\ \E reset, skipImages \in BOOLEAN :
        /\ ids("users") = {} \/ reset
        /\ run' = [run EXCEPT !.pc = IF reset THEN "find" ELSE "generate",
                              !.reset = reset, !.skipImages = skipImages]
    /\ UNCHANGED <<db, bucket>>

\* The documents of a collection that users own.
ownedBy(users, c) ==
    {d.id : d \in {d \in db[c] : \E u \in d.refs \cap users : u.name = "owner"}}

\* What the script reads before it deletes; with no users left, only the images that
\* are named as seeds are deleted.
purgeFind ==
    /\ run.pc = "find"
    /\ LET users == ids("users")
       IN  run' = [run EXCEPT
             !.pc = "purge", !.users = users, !.complete = FALSE,
             !.left = IF users = {} THEN <<"images">> ELSE Purged,
             !.events = ownedBy(users, "events"), !.places = ownedBy(users, "places")]
    /\ UNCHANGED <<db, bucket>>

\* Faulty variant: what members made about a seeded event or place is not looked for.
isSoughtByUsers(c, d) ==
    CASE c \in Relations -> d.refs \cap run.users # {}
      [] c = "events" -> d.id \in run.events
      [] c = "places" -> d.id \in run.places
      [] c = "users" -> d.id \in run.users
      [] c = "images" -> d.refs \cap run.users # {} \/ d.file \in Files

\* The filter of the deleteMany on a collection.
isSought(c, d) ==
    CASE c \in {"invitations", "bookings"} -> d.refs \cap (run.users \cup run.events) # {}
      [] c \in {"follows", "partnerships"} -> d.refs \cap run.users # {}
      [] c = "favorites" -> d.refs \cap (run.users \cup run.places) # {}
      [] c = "events" -> d.id \in run.events
      [] c = "places" -> d.id \in run.places
      [] c = "users" -> d.id \in run.users
      [] c = "images" -> d.refs \cap (run.users \cup run.events) # {} \/ d.file \in Files

\* The next collection, of which any part is done when it fails.
after(done, pc) ==
    run' = IF ~done THEN idle
           ELSE [run EXCEPT !.left = Tail(@), !.pc = IF Len(run.left) = 1 THEN pc ELSE @]

purgeSeedMongo ==
    /\ run.pc = "purge"
    /\ LET c      == Head(run.left)
           sought == {d \in db[c] : isSought(c, d)}
       IN  \E gone \in SUBSET sought, done \in BOOLEAN :
            /\ done => gone = sought
            /\ db' = [db EXCEPT ![c] = @ \ gone]
            /\ after(done, "bucket")
    /\ UNCHANGED bucket

\* A failure here is reported and passed over.
purgeSeedS3 ==
    /\ run.pc = "bucket"
    /\ IF run.skipImages THEN UNCHANGED bucket ELSE bucket' \in SUBSET bucket
    /\ run' = [run EXCEPT !.pc = "generate", !.users = {}, !.events = {}, !.places = {}]
    /\ UNCHANGED db

\* The generators may throw, after the purge (SeedContext).
generate ==
    /\ run.pc = "generate"
    /\ \/ run' = idle
       \/ run' = [run EXCEPT !.n = @ + 1, !.complete = FALSE,
                             !.pc = IF run.skipImages THEN "insert" ELSE "upload",
                             !.left = IF run.skipImages THEN Inserted ELSE <<>>]
    /\ UNCHANGED <<db, bucket>>

\* The files have the same names in every run.
uploadImagePool ==
    /\ run.pc = "upload"
    /\ \E put \in SUBSET Files :
        /\ bucket' = bucket \cup put
        /\ run' = IF put # Files THEN idle
                  ELSE [run EXCEPT !.pc = "insert", !.left = Inserted]
    /\ UNCHANGED db

persistSeedContext ==
    /\ run.pc = "insert"
    /\ LET c    == Head(run.left)
           docs == generated(run.n, run.skipImages)[c]
       IN  \E put \in SUBSET docs, done \in BOOLEAN :
            /\ done => put = docs
            /\ db' = [db EXCEPT ![c] = @ \cup put]
            /\ IF done /\ Len(run.left) = 1 THEN run' = [idle EXCEPT !.complete = TRUE]
               ELSE after(done, "insert")
    /\ UNCHANGED bucket

-----------------------------------------------------------------------------
(* The members                                                             *)

\* The requests of the application between the runs: nothing is written while the
\* script works.
memberActs ==
    /\ run.pc = "idle"
    /\ Cardinality(UNION {{d \in db[c] : d.id.gen = 0} : c \in Relations}) < MaxMemberDocs
    /\ \E c \in Relations, n, k, l \in {0, run.n} :
        LET d == between(c, n, k, l) IN
        /\ d.refs \subseteq ids("users") \cup ids("places") \cup ids("events")
                             \cup {the(0, name) : name \in Names}
        /\ \E r \in d.refs : r.gen # 0
        /\ db' = [db EXCEPT ![c] = @ \cup {d}]
    /\ UNCHANGED <<bucket, run>>

Next ==
    \/ main \/ purgeFind \/ purgeSeedMongo \/ purgeSeedS3
    \/ generate \/ uploadImagePool \/ persistSeedContext \/ memberActs

Spec == Init /\ [][Next]_vars

-----------------------------------------------------------------------------
(* Safety                                                                  *)

stored == UNION {ids(c) : c \in {"users", "places", "images", "events"}}

\* What no order of the collections can keep, because the two refer to each other: a user
\* is inserted before its place and its image and deleted after them, an image before its
\* event and after it (purge.ts:35-64, persist.ts:40-70).
mutual(c) ==
    CASE c = "users" -> {"place", "ownerImage", "peerImage"}
      [] c = "images" -> {"event"}
      [] OTHER -> {}

\* Wherever a run breaks off, the documents refer to stored ones, those of members too,
\* with the exception of mutual references while the seed is incomplete; once a run has
\* ended there is none.  And seeded documents are all of one generation: a later run finds
\* by its users whatever an earlier one left, the images without their event included.
NoDangling ==
    /\ \A c \in Collections : \A d \in db[c] : \A r \in d.refs :
        \/ r.gen = 0 \/ r \in stored
        \/ ~run.complete /\ r.name \in mutual(c)
    /\ \A c, e \in Collections : \A i \in ids(c), j \in ids(e) :
        0 \in {i.gen, j.gen} \/ i.gen = j.gen

\* The files of a stored image are in the bucket, with the pool emptied and filled by
\* other calls than the documents (index.ts:77-91, 123-134).
ImagesHaveFiles == \A d \in db["images"] : d.file \in bucket

\* In a complete seed a user is linked to its place, which was not yet there when the
\* user was inserted (persist.ts:41-46), and the place to the user.
PlaceLinkAgrees ==
    run.complete =>
        \A u \in db["users"] : \A r \in u.refs :
            r.name = "place" => \E p \in db["places"] : p.id = r /\ u.id \in p.refs
=============================================================================
