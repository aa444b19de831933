------------------------------- MODULE MCSocial -------------------------------
(***************************************************************************)
(* SocialParts with three users, two of them in the parts with two         *)
(* requests, and two seeds.                                                *)
(***************************************************************************)
EXTENDS SocialParts, Integers, TLC

CONSTANTS ann, bob, cal, fair

\* One creator with three guests for one event, whom it has too few places for
\* (the least number of favorites is the code's own: the generation ends there).
MCSeedOne ==
    [creators |-> <<ann>>, guests |-> <<bob, cal, fair>>, Sited |-> {ann},
     EVENT_COUNT |-> 1, Capacities |-> {1, 3}, SeatLimits |-> {1, 2},
     PLACE_PERCENT |-> 75, INVITATION_PERCENT |-> 15, PARTNERSHIP_PERCENT |-> 40,
     ATTENDEES |-> <<2, 18>>, GUEST_FOLLOWS |-> <<1, 15>>, CREATOR_FOLLOWS |-> <<1, 5>>,
     FAVORITES |-> <<2, 8>>]

\* Two creators with their places, invitations and partnerships, and one guest.
MCSeedTwo ==
    [creators |-> <<ann, bob>>, guests |-> <<cal>>, Sited |-> {ann, bob},
     EVENT_COUNT |-> 2, Capacities |-> {}, SeatLimits |-> {1},
     PLACE_PERCENT |-> 75, INVITATION_PERCENT |-> 100, PARTNERSHIP_PERCENT |-> 100,
     ATTENDEES |-> <<1, 18>>, GUEST_FOLLOWS |-> <<1, 15>>, CREATOR_FOLLOWS |-> <<1, 5>>,
     FAVORITES |-> <<1, 8>>]

MCSymmetry == Permutations(Ids)
=============================================================================
