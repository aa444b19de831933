-------------------------- MODULE MCEventInvitation --------------------------
EXTENDS EventInvitation, TLC

CONSTANTS bob, carol

\* The clock starts the day before the first schedule begins, and stops when the
\* first schedule is over and the second is under way.
MCSchedules == {{[startDate |-> 1, endDate |-> 1]},
                {[startDate |-> 2, endDate |-> 2]}}

MCOneSchedule == {{[startDate |-> 1, endDate |-> 1]}}

MCCreators == {bob}
MCTwoCreators == {bob, carol}
MCCollaboratorSets == SUBSET MCCreators

MCSymmetry == Permutations(InvitationIds)
=============================================================================
