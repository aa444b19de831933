--------------------------------- MODULE Parts ---------------------------------
(***************************************************************************)
(* What the compositions have in common.  A composition runs components    *)
(* side by side that touch no document of each other (Ownership has the    *)
(* cascades that do), so nothing is gained by letting their steps          *)
(* interleave: part names the one that runs, and the variables of the      *)
(* others are unused.                                                      *)
(***************************************************************************)
CONSTANTS
    None,
    Requests,   \* the requests of the parts that serve several at once
    alone       \* the request of the parts that serve one at a time

VARIABLES
    part,
    req   \* the requests in flight

Unused == "unused"
=============================================================================
