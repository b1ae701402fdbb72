--------------------------- MODULE MCManualPreview ---------------------------
(***************************************************************************)
(* Instances of ManualPreview for TLC: as in MCFixtureImport, and the      *)
(* namespace also has a second fixture for the match it knows.             *)
(***************************************************************************)
EXTENDS ManualPreview, MCFixtureImport

MCReviewedFeed == [MCFeed EXCEPT ![b] = @ \cup {Fixture(y, P, final, late)}]
==============================================================================
