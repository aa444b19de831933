------------------------------- MODULE MapView -------------------------------
(***************************************************************************)
(* The reads that go through the cache: places and events in a box of the  *)
(* map, categories, and the two geocoding look-ups.  Each asks Redis,      *)
(* then its source, then stores what it found with a time to live; nothing *)
(* that changes the source ever removes an entry.  A box is looked up in   *)
(* the cache under its rounded corners and in the source as it is.         *)
(* Filters, limits and the fields shown are left out.                      *)
(***************************************************************************)
EXTENDS FiniteSets

CONSTANTS
    Places, Events,
    Positions,
    Boxes,              \* each box of a client, as the positions in it
    Rounded(_),         \* quantizeBbox: the boxes that share a key
    Kinds,              \* the look-ups that run
    Requests, None

\* What is asked of the constants; the module of each run asserts it of its values.
MapAssumption == Boxes \subseteq SUBSET Positions /\ None \notin Positions

VARIABLES
    place,     \* the documents of the two collections
    event,
    geocoder,  \* Mapbox answers, or does not
    cache,     \* the value stored under each key, if any
    req

vars == <<place, event, geocoder, cache, req>>

NoPlace == [at |-> None, deleted |-> FALSE]
NoEvent == [at |-> None, place |-> None, cancelled |-> FALSE, deleted |-> FALSE,
            lifecycle |-> "none"]

PlaceDocs == [at : Positions \cup {None}, deleted : BOOLEAN]
EventDocs ==
    [at : Positions \cup {None}, place : Places \cup {None}, cancelled : BOOLEAN,
     deleted : BOOLEAN, lifecycle : {"none", "upcoming", "ongoing", "ended"}]

Lookups ==
    [kind : {"places", "events"} \cap Kinds, box : Boxes]
        \cup [kind : {"categories", "suggest", "reverse"} \cap Kinds, box : {None}]

cacheKey(q) == <<q.kind, IF q.box = None THEN None ELSE Rounded(q.box)>>

Keys == {cacheKey(q) : q \in Lookups}

\* What an answer may list: documents, and the address and the categories.
Items == Places \cup Events \cup {"address", "categories"}

Miss == [stored |-> FALSE, value |-> {}, expires |-> FALSE]

Entries == [stored : BOOLEAN, value : SUBSET Items, expires : BOOLEAN]

Idle == [pc |-> "idle", lookup |-> None, found |-> {}]

TypeOK ==
    /\ place \in [Places -> PlaceDocs]
    /\ event \in [Events -> EventDocs]
    /\ geocoder \in BOOLEAN
    /\ cache \in [Keys -> Entries]
    /\ \A r \in Requests :
        /\ req[r].pc \in {"idle", "cache", "source", "store"}
        /\ req[r].pc # "idle" => req[r].lookup \in Lookups
        /\ req[r].found \subseteq Items

Init ==
    /\ place = [p \in Places |-> NoPlace]
    /\ event = [e \in Events |-> NoEvent]
    /\ geocoder = TRUE
    /\ cache = [k \in Keys |-> Miss]
    /\ req = [r \in Requests |-> Idle]

-----------------------------------------------------------------------------
(* Sources                                                                 *)

findPlacesInView(box) ==
    {p \in Places : place[p].at \in box /\ ~place[p].deleted}

\* An event without a location of its own is where its place is, soft-deleted or
\* not; without either it is nowhere.
displayLocation(e) ==
    IF event[e].at # None THEN event[e].at
    ELSE IF event[e].place # None THEN place[event[e].place].at ELSE None

findEventsInView(box) ==
    {e \in Events : /\ ~event[e].deleted /\ ~event[e].cancelled
                    /\ event[e].lifecycle \in {"upcoming", "ongoing"}
                    /\ displayLocation(e) \in box}

findAllCategories == {"categories"}

\* A failure of the geocoder, or no token for it, is an empty answer like another.
suggest == IF geocoder THEN {"address"} ELSE {}
reverse == IF geocoder THEN {"address"} ELSE {}

source(q) ==
    CASE q.kind = "places"     -> findPlacesInView(q.box)
      [] q.kind = "events"     -> findEventsInView(q.box)
      [] q.kind = "categories" -> findAllCategories
      [] q.kind = "suggest"    -> suggest
      [] q.kind = "reverse"    -> reverse

-----------------------------------------------------------------------------
(* Requests                                                                *)

data == <<place, event, geocoder>>

finish(r) == req' = [req EXCEPT ![r] = Idle]

\* A source that throws, and a crash.
RequestFail(r) ==
    /\ req[r] # Idle
    /\ finish(r)
    /\ UNCHANGED <<data, cache>>

Lookup(r) ==
    /\ req[r] = Idle
    /\ \E q \in Lookups : req' = [req EXCEPT ![r] = [Idle EXCEPT !.pc = "cache",
                                                                 !.lookup = q]]
    /\ UNCHANGED <<data, cache>>

\* A hit is the answer; Redis absent or failing is a miss.
get(r) ==
    /\ req[r].pc = "cache"
    /\ \/ cache[cacheKey(req[r].lookup)].stored /\ finish(r)
       \/ req' = [req EXCEPT ![r].pc = "source"]
    /\ UNCHANGED <<data, cache>>

Find(r) ==
    /\ req[r].pc = "source"
    /\ req' = [req EXCEPT ![r].pc = "store", ![r].found = source(req[r].lookup)]
    /\ UNCHANGED <<data, cache>>

\* Faulty variant: the entry is stored without EX.
setForever(r) ==
    /\ req[r].pc = "store"
    /\ \/ cache' = [cache EXCEPT ![cacheKey(req[r].lookup)] =
                [stored |-> TRUE, value |-> req[r].found, expires |-> FALSE]]
       \/ cache' = cache
    /\ finish(r)
    /\ UNCHANGED data

\* A failure to store is logged, and the request answers what it found.
set(r) ==
    /\ req[r].pc = "store"
    /\ \/ cache' = [cache EXCEPT ![cacheKey(req[r].lookup)] =
                [stored |-> TRUE, value |-> req[r].found, expires |-> TRUE]]
       \/ cache' = cache
    /\ finish(r)
    /\ UNCHANGED data

\* Redis: the time to live is over.
Expire(k) ==
    /\ cache[k].stored /\ cache[k].expires
    /\ cache' = [cache EXCEPT ![k] = Miss]
    /\ UNCHANGED <<data, req>>

-----------------------------------------------------------------------------
(* What changes the sources                                                *)

changePlace(p, doc) ==
    /\ doc # place[p]
    /\ place' = [place EXCEPT ![p] = doc]
    /\ UNCHANGED <<event, geocoder, cache, req>>

changeEvent(e, doc) ==
    /\ doc # event[e]
    /\ event' = [event EXCEPT ![e] = doc]
    /\ UNCHANGED <<place, geocoder, cache, req>>

savePlace(p) ==
    place[p] = NoPlace /\ \E at \in Positions : changePlace(p, [NoPlace EXCEPT !.at = at])

updatePlace(p) ==
    place[p] # NoPlace /\ \E at \in Positions : changePlace(p, [place[p] EXCEPT !.at = at])

softDeletePlace(p) ==
    place[p] # NoPlace /\ changePlace(p, [place[p] EXCEPT !.deleted = ~@])

deletePlace(p) == changePlace(p, NoPlace)

saveEvent(e) ==
    /\ event[e] = NoEvent
    /\ \E at \in Positions \cup {None}, p \in Places \cup {None} :
        changeEvent(e, [NoEvent EXCEPT !.at = at, !.place = p, !.lifecycle = "upcoming"])

cancelEvent(e) ==
    event[e] # NoEvent /\ changeEvent(e, [event[e] EXCEPT !.cancelled = TRUE])

softDeleteEvent(e) ==
    event[e] # NoEvent /\ changeEvent(e, [event[e] EXCEPT !.deleted = ~@])

updateLifecycle(e) ==
    /\ event[e] # NoEvent
    /\ \E status \in {"upcoming", "ongoing", "ended"} :
        changeEvent(e, [event[e] EXCEPT !.lifecycle = status])

deleteEvent(e) == changeEvent(e, NoEvent)

Mapbox == geocoder' = ~geocoder /\ UNCHANGED <<place, event, cache, req>>

-----------------------------------------------------------------------------

Step(r) == get(r) \/ Find(r) \/ set(r) \/ RequestFail(r)

Source ==
    \/ \E p \in Places : \/ savePlace(p) \/ updatePlace(p) \/ softDeletePlace(p)
                         \/ deletePlace(p)
    \/ \E e \in Events : \/ saveEvent(e) \/ cancelEvent(e) \/ softDeleteEvent(e)
                         \/ updateLifecycle(e) \/ deleteEvent(e)
    \/ (\E q \in Lookups : q.kind \in {"suggest", "reverse"}) /\ Mapbox

Next ==
    \/ \E r \in Requests : Lookup(r) \/ Step(r)
    \/ \E k \in Keys : Expire(k)
    \/ Source

\* A request ends, one way or the other, and Redis honours the time to live.
Fairness ==
    /\ \A r \in Requests : WF_vars(Step(r))
    /\ \A k \in Keys : WF_vars(Expire(k))

Spec == Init /\ [][Next]_vars /\ Fairness

-----------------------------------------------------------------------------
(* Liveness                                                                *)

sharing(k) == {q \in Lookups : cacheKey(q) = k}

\* What a look-up under this key may still be answered: the value in the cache, and
\* what a request is about to store and answer.
answers(k) ==
    (IF cache[k].stored THEN {cache[k].value} ELSE {})
        \cup {req[r].found : r \in {s \in Requests : req[s].pc = "store"
                                       /\ cacheKey(req[s].lookup) = k}}

\* Of boxes that share a key this is said of what is in all of them, or in none.
outside(k, d)   == \A q \in sharing(k) : d \notin source(q)
inside(k, d)    == \A q \in sharing(k) : d \in source(q)
dropped(k, d)   == \A value \in answers(k) : d \notin value
answered(k, d)  == \A value \in answers(k) : d \in value

\* What has left a box for good is in the end no longer answered, and what is in
\* it for good is in the end in every answer, although nothing invalidates the
\* cache and a request may store what it read long before (GetPlacesInView:61-76,
\* GetEventsInView:35-43, RedisCache.adapter.ts:35-46).
EventuallyFresh ==
    \A k \in Keys, d \in Items :
        /\ <>[]outside(k, d) => <>[]dropped(k, d)
        /\ <>[]inside(k, d) => <>[]answered(k, d)
=============================================================================
