--------------------------- MODULE MCEventDocument ---------------------------
EXTENDS EventDocument

\* Two instants make a day.  An event of the afternoon of day 1, and one whose
\* two periods, the later one first, leave a gap on the afternoon of day 1.
MCSchedules == {{[startDate |-> 3, endDate |-> 3]},
                {[startDate |-> 4, endDate |-> 5], [startDate |-> 2, endDate |-> 2]}}
MCNoCollaborators == {{}}
=============================================================================
