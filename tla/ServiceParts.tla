----------------------------- MODULE ServiceParts -----------------------------
(***************************************************************************)
(* The server's front, its cached reads and the page of a place.  The      *)
(* routes are run one request at a time with all of them, and several at   *)
(* once with some; the cached reads are run kind by kind.                  *)
(***************************************************************************)
EXTENDS Subjects

CONSTANTS
    Admins,
    Served(_, _),                  \* the routes that are run with several requests
    Positions, Boxes, Rounded(_),
    FewBoxes,                      \* those the events of the map are asked for in
    Schedules, Days

VARIABLES up, standing, place, event, geocoder, cache, today

allRoutes(router, handler) == TRUE

HttpOne == INSTANCE HttpApi WITH
    Requests <- {alone}, Served <- allRoutes
HttpTwo == INSTANCE HttpApi WITH
    Users <- Admins

MapPlaces == INSTANCE MapView WITH
    Events <- {}, Kinds <- {"places"}
MapEvents == INSTANCE MapView WITH
    Boxes <- FewBoxes, Kinds <- {"events"}, Requests <- {alone}
MapOthers == INSTANCE MapView WITH
    Places <- {}, Events <- {}, Positions <- {}, Boxes <- {},
    Kinds <- {"categories", "suggest", "reverse"}, Requests <- {alone}

Week == INSTANCE WeekSchedule WITH
    Requests <- {alone}

ASSUME ServicesAssumption ==
    /\ HttpOne!HttpAssumption
    /\ HttpTwo!HttpAssumption
    /\ MapPlaces!MapAssumption
    /\ MapEvents!MapAssumption
    /\ MapOthers!MapAssumption
    /\ Week!WeekAssumption

httpVars == <<up, standing>>
mapVars  == <<place, event, geocoder, cache>>
serviceVars   == <<part, httpVars, mapVars, today, req>>

httpUnused == up = Unused /\ standing = Unused
mapUnused  == place = Unused /\ event = Unused /\ geocoder = Unused /\ cache = Unused
weekUnused == today = Unused

ServiceInit ==
    \/ /\ \/ part = "http one" /\ HttpOne!Init
          \/ part = "http two" /\ HttpTwo!Init
       /\ mapUnused /\ weekUnused
    \/ /\ \/ part = "places" /\ MapPlaces!Init
          \/ part = "events" /\ MapEvents!Init
          \/ part = "others" /\ MapOthers!Init
       /\ httpUnused /\ weekUnused
    \/ /\ part = "week" /\ Week!Init
       /\ httpUnused /\ place = Unused /\ geocoder = Unused /\ cache = Unused

ServiceNext ==
    /\ UNCHANGED part
    /\ \/ /\ \/ part = "http one" /\ HttpOne!Next
             \/ part = "http two" /\ HttpTwo!Next
          /\ UNCHANGED <<mapVars, today>>
       \/ /\ \/ part = "places" /\ MapPlaces!Next
             \/ part = "events" /\ MapEvents!Next
             \/ part = "others" /\ MapOthers!Next
          /\ UNCHANGED <<httpVars, today>>
       \/ /\ part = "week" /\ Week!Next
          /\ UNCHANGED <<httpVars, place, geocoder, cache>>

\* The fairness of the parts: requests under way end, and entries expire.
ServiceFairness ==
    /\ \A r \in Requests :
        /\ WF_serviceVars(part = "http two" /\ HttpTwo!Step(r) /\ UNCHANGED <<part, mapVars, today>>)
        /\ WF_serviceVars(part = "places" /\ MapPlaces!Step(r) /\ UNCHANGED <<part, httpVars, today>>)
    /\ WF_serviceVars(part = "http one" /\ HttpOne!Step(alone) /\ UNCHANGED <<part, mapVars, today>>)
    /\ WF_serviceVars(part = "events" /\ MapEvents!Step(alone) /\ UNCHANGED <<part, httpVars, today>>)
    /\ WF_serviceVars(part = "others" /\ MapOthers!Step(alone) /\ UNCHANGED <<part, httpVars, today>>)
    /\ \A k \in MapPlaces!Keys :
        WF_serviceVars(part = "places" /\ MapPlaces!Expire(k) /\ UNCHANGED <<part, httpVars, today>>)
    /\ \A k \in MapEvents!Keys :
        WF_serviceVars(part = "events" /\ MapEvents!Expire(k) /\ UNCHANGED <<part, httpVars, today>>)
    /\ \A k \in MapOthers!Keys :
        WF_serviceVars(part = "others" /\ MapOthers!Expire(k) /\ UNCHANGED <<part, httpVars, today>>)

ServiceSpec == ServiceInit /\ [][ServiceNext]_serviceVars /\ ServiceFairness

-----------------------------------------------------------------------------
(* The properties of the parts                                             *)

\* Every part keeps to its types.
ServiceTypeOK ==
    /\ part = "http one" => HttpOne!TypeOK
    /\ part = "http two" => HttpTwo!TypeOK
    /\ part = "places" => MapPlaces!TypeOK
    /\ part = "events" => MapEvents!TypeOK
    /\ part = "others" => MapOthers!TypeOK
    /\ part = "week" => Week!TypeOK

\* Handlers run for callers they know, on every route there is.
ActorKnown ==
    /\ part = "http one" => HttpOne!ActorKnown
    /\ part = "http two" => HttpTwo!ActorKnown

\* The page of a place shows the events of the week on their days.
WeekShown == part = "week" => Week!WeekShown

\* Every request is answered or dropped with the process.
Answered ==
    /\ (part = "http one" /\ HttpOne!running(alone)) ~> (part = "http one" => ~HttpOne!running(alone))
    /\ \A r \in Requests :
        (part = "http two" /\ HttpTwo!running(r)) ~> (part = "http two" => ~HttpTwo!running(r))

\* What left a box for good leaves the answers, what is there for good is in them:
\* EventuallyFresh of the parts, each read in the states of its part only.
EventuallyFresh ==
    /\ \A k \in MapPlaces!Keys, d \in MapPlaces!Items :
        /\ <>[](part = "places" /\ MapPlaces!outside(k, d))
            => <>[](part = "places" /\ MapPlaces!dropped(k, d))
        /\ <>[](part = "places" /\ MapPlaces!inside(k, d))
            => <>[](part = "places" /\ MapPlaces!answered(k, d))
    /\ \A k \in MapEvents!Keys, d \in MapEvents!Items :
        /\ <>[](part = "events" /\ MapEvents!outside(k, d))
            => <>[](part = "events" /\ MapEvents!dropped(k, d))
        /\ <>[](part = "events" /\ MapEvents!inside(k, d))
            => <>[](part = "events" /\ MapEvents!answered(k, d))
    /\ \A k \in MapOthers!Keys, d \in MapOthers!Items :
        /\ <>[](part = "others" /\ MapOthers!outside(k, d))
            => <>[](part = "others" /\ MapOthers!dropped(k, d))
        /\ <>[](part = "others" /\ MapOthers!inside(k, d))
            => <>[](part = "others" /\ MapOthers!answered(k, d))
=============================================================================
