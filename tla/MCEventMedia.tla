---------------------------- MODULE MCEventMedia ----------------------------
(***************************************************************************)
(* An instance of EventMedia for TLC: a competition logo with two versions *)
(* and another logo that makes the choice ambiguous.                       *)
(***************************************************************************)
EXTENDS EventMedia

CONSTANTS group, final, logo, badge, rival

MCKey == [x \in Assets |-> IF x = rival THEN "rival" ELSE "logo"]
MCRole == [k \in {"logo", "rival"} |-> "logo"]
MCSha == [x \in Assets |-> x]
MCCandidates == [c \in Contents |-> [s \in Slots |-> <<"logo">>]]
MCAffected == [c \in Contents |-> {"logo"}]
MCRewrites == {<<group, final>>}
MCMaxPresentation == [c \in Contents |-> IF c = group THEN 3 ELSE 2]
=============================================================================
