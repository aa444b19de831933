------------------------------ MODULE MCOwnership ------------------------------
(***************************************************************************)
(* OwnershipParts with two owners and their places, and two requests in    *)
(* the parts with several.                                                 *)
(***************************************************************************)
EXTENDS OwnershipParts, TLC

MCSymmetry ==
    Permutations(Users) \cup Permutations(Places) \cup Permutations(Images)
        \cup Permutations(Products)
=============================================================================
