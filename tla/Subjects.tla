------------------------------- MODULE Subjects -------------------------------
(***************************************************************************)
(* Who and what the requests of the compositions are about, accounts       *)
(* apart.                                                                  *)
(***************************************************************************)
EXTENDS Parts

CONSTANTS Users, Places, Events
=============================================================================
