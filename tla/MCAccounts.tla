------------------------------ MODULE MCAccounts ------------------------------
(***************************************************************************)
(* AccountParts with two accounts of one address, and two requests in the  *)
(* part with several.                                                      *)
(***************************************************************************)
EXTENDS AccountParts, TLC

MCSymmetry == Permutations(UserIds) \cup Permutations(Requests)
=============================================================================
