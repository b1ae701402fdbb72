--------------------------- MODULE MCManualReview ---------------------------
(***************************************************************************)
(* Instances of ManualReview for TLC: two tasks, one cycle works on one.   *)
(***************************************************************************)
EXTENDS ManualReview

CONSTANTS draw, time

MCPlans == [Tasks -> Contents \cup {None}]
=============================================================================
