-------------------------- MODULE MCProviderImport --------------------------
EXTENDS ProviderImport

MCProviders == {"api_football", "football_data", "openligadb", "oefb_ical", "nflverse"}
MCJobs1 == {"first"}
MCJobs2 == {"second", "third"}
MCCups == {"second"}
MCDraws == {"third"}

(* Two pairings on pages of one; the third match replaces the second.       *)
MCMatches == 1..3
MCPairingOf == [m \in 1..3 |-> IF m = 3 THEN 2 ELSE m]

(* The rows as profiled, in each format, and the ways they may differ.      *)
Row(format, seasons, current, dates) ==
    [format |-> format, seasons |-> seasons, current |-> current, dates |-> dates]
MCCatalogs ==
    {Row(f, {"profiled"}, {"profiled"}, "agreed") : f \in {"league", "hybrid_tournament", "knockout_cup"}}
    \cup {Row("knockout_cup", {"profiled", "other"}, {"profiled", "other"}, "agreed"),
          Row("league", {"profiled", "other"}, {"other"}, "same year"),
          Row("no format", {"profiled"}, {"profiled"}, "agreed"),
          Row("no competition", {}, {}, "missing")}

MCTeams == <<"t1", "t2">>
MCParticipants == {"p", "q"}
Straight == [x \in {"t1", "t2"} |-> IF x = "t1" THEN "p" ELSE "q"]
Crossed == [x \in {"t1", "t2"} |-> IF x = "t1" THEN "q" ELSE "p"]
MCReviews == {Straight, Crossed}
MCTeamTables == {Straight, Crossed, [Straight EXCEPT !["t2"] = "nobody"],
                 [Straight EXCEPT !["t2"] = "p"]}
=============================================================================
