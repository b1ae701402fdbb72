--------------------------- MODULE MCFixtureImport ---------------------------
(***************************************************************************)
(* Instances of FixtureImport for TLC: an automatic source with two        *)
(* fixtures that may be of one match, and a manual namespace that knows    *)
(* the match in another stage and also delivers it unresolved, or          *)
(* unscheduled with another participant.                                   *)
(***************************************************************************)
EXTENDS FixtureImport

CONSTANTS a, b, x, y, P, Q, early, late, group, final

Fixture(external, pair, stage, kickoff) ==
    [external |-> external, pair |-> pair, stage |-> stage, kickoff |-> kickoff]

MCFeed == [s \in Sources |->
    IF s = a THEN {Fixture(x, P, group, early), Fixture(y, P, group, None),
                   Fixture(y, Q, group, early)}
    ELSE {Fixture(x, P, final, late), Fixture(x, None, final, None),
          Fixture(x, Q, final, None)}]

MCBoundaries == {{group}}
MCWindows == {{early}}

==============================================================================
