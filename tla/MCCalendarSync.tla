--------------------------- MODULE MCCalendarSync ---------------------------
(* Instances of CalendarSync for TLC.                                      *)
EXTENDS CalendarSync, TLC

CONSTANTS e1, e2, kickoff, moved, off, plain, quiet, a1, a2, a3, a4, t1, t2

\* One event whose every hazard is explored.
OneEvent == {e1}
OneRank == [e \in OneEvent |-> 1]

\* Two events competing for the batch.
TwoEvents == {e1, e2}
TwoRank == (e1 :> 1) @@ (e2 :> 2)
=============================================================================
