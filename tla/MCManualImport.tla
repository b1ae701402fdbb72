--------------------------- MODULE MCManualImport ---------------------------
(***************************************************************************)
(* Instances of ManualImport for TLC: a package and a corrected one.       *)
(***************************************************************************)
EXTENDS ManualImport

CONSTANTS draw, first, second

MCPlans == {[t \in Tasks |-> None], [t \in Tasks |-> draw]}
MCSubmission == [p \in Packages |-> 1]
MCPlanOf == [p \in Packages |->
                IF p = first THEN [t \in Tasks |-> draw] ELSE [t \in Tasks |-> None]]
MCNames == <<4, 1, 5>>
MCStrays == {[name |-> 2, action |-> "unreadable"], [name |-> 3, action |-> "malformed"]}
MCUnacceptable == {<<second, 0>>}
=============================================================================
