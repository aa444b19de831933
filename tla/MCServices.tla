------------------------------ MODULE MCServices ------------------------------
(***************************************************************************)
(* ServiceParts with every route for one request, one of each sort for two,*)
(* and a clock that goes over the end of a week.                           *)
(***************************************************************************)
EXTENDS ServiceParts, Integers, Sequences

\* No middleware, an optional one, an administrator's, an upload and a limited one.
someRoutes(router, handler) ==
    <<router, handler>> \in {<<"places", "getInView">>, <<"partnerships", "listByUser">>,
        <<"adminUsers", "ban">>, <<"images", "upload">>, <<"users", "deleteAccount">>}

oneKey(box) == "one"

\* Days 0, 7 and 14 are Mondays: the clock goes from a Friday over the end of its
\* week to a Tuesday, and events begin and end on both sides of the weeks' ends.
Edges   == {6, 7, 12, 13, 14}
Periods == [startDate : Edges, endDate : Edges]
aSunday == [startDate |-> 13, endDate |-> 13]

someSchedules == {{}} \cup {{p} : p \in Periods} \cup {{aSunday, p} : p \in Periods}
=============================================================================
