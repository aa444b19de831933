--------------------------- MODULE MCEventBooking ---------------------------
EXTENDS EventBooking, TLC

CONSTANTS alice, bob, carol

\* The event lasts for day 1 of a clock that starts at the day before.
MCSchedules == {{[startDate |-> 1, endDate |-> 1]}}
MCNoCollaborators == {{}}

MCUsers == {alice, bob}
MCThreeUsers == {alice, bob, carol}

MCSymmetry == Permutations(BookingIds)
                \cup Permutations(Requests)
                \cup Permutations(Users \ {Organiser})
=============================================================================
