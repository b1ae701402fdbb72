-------------------------- MODULE MCReminderPolicy --------------------------
EXTENDS ReminderPolicy

(* Hours instead of minutes, four days: the clocks skip an hour in the      *)
(* night of the second and repeat one in the night of the fourth.            *)
MCDay == 24
MCClock == 0..95
MCShift == [zone \in {"Vienna", "London"} |-> [i \in MCClock |->
              (IF i \in 25..72 THEN 1 ELSE 0) + (IF zone = "Vienna" THEN 1 ELSE 0)]]
Skipped == 31
Repeated == 79
Ordinary == 60

MCEvents == {"e1", "e2"}
MCCompetitionOf == [e \in MCEvents |-> IF e = "e1" THEN "c1" ELSE "c2"]
D(e, l, k) == [event |-> e, lineup |-> l, kickoff |-> k]
MCDeliveries == {D("e1", {"p1"}, Skipped), D("e1", {"p1", "p2"}, Repeated),
                 D("e2", {"p1"}, Ordinary)}

S(scope, c, p, e) == [scope |-> scope, competition |-> c, participant |-> p, event |-> e]
Nothing == [f \in Fields |-> None]
Profile == [Nothing EXCEPT !.action = "suppress", !.preferred = 2, !.minimum = 1,
               !.maximum = 9, !.quiet_start = 2, !.quiet_end = 8,
               !.timezone = "Vienna"]
Enable == [Nothing EXCEPT !.action = "enable", !.minimum = 3]
Early == [Nothing EXCEPT !.preferred = 4]
Late == [Nothing EXCEPT !.preferred = 1]
OverMidnight == [Nothing EXCEPT !.quiet_start = 22, !.quiet_end = 8]
Own == [Nothing EXCEPT !.preferred = 5]

W(selector, policy) == [selector |-> selector, policy |-> policy]
MCWrites == {W(S("global", None, None, None), Profile),
             W(S("competition", "c1", None, None), Enable),
             W(S("participant", None, "p1", None), Early),
             W(S("participant", None, "p2", None), Late),
             W(S("competition_participant", "c1", "p1", None), OverMidnight),
             W(S("event", None, None, "e1"), Own)}
=============================================================================
