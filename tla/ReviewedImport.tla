--------------------------- MODULE ReviewedImport ---------------------------
(***************************************************************************)
(* What the manual import promises, without inbox, worker or database      *)
(* rows: a package is applied at most once, as it was reviewed, and only   *)
(* when somebody decided so in the very situation it is applied to.  A     *)
(* situation is all that a preview depends on; the review plan is the part *)
(* of it that only packages change.                                        *)
(***************************************************************************)
CONSTANTS
    Submissions,  \* what is submitted, once
    PlanOf,       \* the review plan of each package
    None          \* not applied

VARIABLES
    situation,  \* what a preview depends on, with the review plan in it
    plan,
    decided,    \* <<submission, package, situation>> somebody has approved
    applied     \* the package applied for each submission, or None

vars == <<situation, plan, decided, applied>>

Init ==
    /\ decided = {}
    /\ applied = [s \in Submissions |-> None]

Decide ==
    /\ decided \subseteq decided'
    /\ UNCHANGED <<situation, plan, applied>>

\* Providers and tools change the situation, and never the review plan.
Change == UNCHANGED <<plan, decided, applied>>

Apply(s) ==
    \E d \in decided :
        /\ d[1] = s /\ d[3] = situation
        /\ applied[s] = None
        /\ applied' = [applied EXCEPT ![s] = d[2]]
        /\ plan' = PlanOf[d[2]]
        /\ UNCHANGED decided

Next == Decide \/ Change \/ \E s \in Submissions : Apply(s)

Spec == Init /\ [][Next]_vars
=============================================================================
