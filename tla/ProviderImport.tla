--------------------------- MODULE ProviderImport ---------------------------
(***************************************************************************)
(* One import of a provider job: the requests to the provider with their   *)
(* retries and pages, the validation of the collection, the source         *)
(* mappings written one transaction at a time, and the hand-over of the    *)
(* fixtures to the canonical import.                                        *)
(*                                                                          *)
(* The provider is live: it may list other matches, in another order, at   *)
(* every request, and it may give a team ID to another team.  What it       *)
(* lists is always a consistent schedule (one match for a pairing).         *)
(* Kickoffs, names and venues are left out; the decision for each fixture   *)
(* is FixtureImport's.                                                      *)
(***************************************************************************)
EXTENDS Naturals, Sequences, FiniteSets

CONSTANTS
    Providers,      \* the source keys an instance may run its jobs with
    Jobs1, Jobs2,   \* a job of any provider; the second job of a provider
                    \* whose adapter is built for each job
    Cups,           \* OpenLigaDB jobs whose profile is of a hybrid tournament's
                    \* league phase and demands no double round robin of all,
                    \* football-data.org jobs whose profile is of one stage
    Draws,          \* OpenLigaDB jobs of a knockout cup, whose profile expects no
                    \* number of matches or teams
    Matches,        \* the provider's match IDs
    PairingOf,      \* the home and away team a match is between
    Teams,          \* the provider's team IDs, in the order they are written
    Participants,   \* the canonical participants of the sport
    Reviews,        \* the reviewed team tables a release may carry
    TeamTables,     \* the participants the provider's team names may resolve to
    Catalogs,       \* the canonical catalogs an import may find when it reads
    PageLimit,      \* the matches on one page
    MaxAttempts,    \* the attempts of one request
    MaxRedirects    \* the redirects nflverse's and the ÖFB's clients follow

Nobody == "nobody"     \* no participant: an unmapped or an unreviewed team
NoFetch == "none"

Range(f) == {f[x] : x \in DOMAIN f}
Pairings == {PairingOf[m] : m \in Matches}
TeamIds == Range(Teams)

(* The canonical rows of a job's competition: its format, the keys of its   *)
(* seasons and of those marked current, and what the dates of the season an *)
(* import looks up are beside the ones it expects.                           *)
Formats == {"league", "knockout_cup", "hybrid_tournament"}
Unstated == "no format"
Absent == "no competition"
SeasonKeys == {"profiled", "other"}
SeasonDates == {"missing", "no end", "other", "same year", "agreed"}

CatalogRows ==
    {c \in [format : Formats \cup {Unstated, Absent}, seasons : SUBSET SeasonKeys,
            current : SUBSET SeasonKeys, dates : SeasonDates] :
        c.current \subseteq c.seasons}

ASSUME ProviderAssumption ==
    /\ Providers \subseteq {"api_football", "football_data", "openligadb",
                            "oefb_ical", "nflverse"}
    /\ Jobs1 \cap Jobs2 = {} /\ Cups \subseteq Jobs1 \cup Jobs2
    /\ Draws \subseteq Jobs2 \ Cups
    /\ Nobody \notin Participants
    /\ Reviews \subseteq [TeamIds -> Participants]
    /\ TeamTables \subseteq [TeamIds -> Participants \cup {Nobody}]
    /\ Catalogs \subseteq CatalogRows
    /\ PageLimit \in Nat \ {0} /\ MaxAttempts \in Nat \ {0} /\ MaxRedirects \in Nat
ASSUME JobAssumption == NoFetch \notin Jobs1 \cup Jobs2
ASSUME TeamAssumption == Teams \in Seq(TeamIds)

VARIABLES
    provider,   \* the source of this instance's jobs
    reviewed,   \* the reviewed team table of the running release
    mapping,    \* source_mappings, object type participant: ID -> participant
    members,    \* season_participants of each job's season
    events,     \* source_mappings, object type event: the IDs of each job
    job,        \* the job that imports
    fetch,      \* the import in progress
    held        \* what the ÖFB adapter keeps: its last snapshot, and the listing
                \* that came with the Last-Modified it sends, if one did

vars == <<provider, reviewed, mapping, members, events, job, fetch, held>>

(* One job of a provider, or one for each definition where the registry    *)
(* holds a task factory.                                                    *)
SourceJobs ==
    Jobs1 \cup CASE provider = "openligadb"    -> Jobs2
               [] provider = "football_data" -> Jobs2 \ Draws
               [] OTHER                      -> {}

-----------------------------------------------------------------------------
(* What the provider may list at a moment: a sequence of matches, none of   *)
(* them twice and no pairing twice.                                         *)
Listings ==
    {l \in UNION {[1..n -> Matches] : n \in 0..Cardinality(Pairings)} :
        \A i, k \in DOMAIN l : PairingOf[l[i]] = PairingOf[l[k]] => i = k}

Least(a, b) == IF a < b THEN a ELSE b
Page(l, k) == SubSeq(l, (k - 1) * PageLimit + 1, Least(k * PageLimit, Len(l)))
PageCount(l) == IF l = <<>> THEN 1 ELSE (Len(l) + PageLimit - 1) \div PageLimit

(* The exact collection of a double round robin: every match once, and     *)
(* every pairing once.                                                      *)
Distinct(l) == Cardinality(Range(l)) = Len(l)

Complete(l) == Len(l) = Cardinality(Pairings) /\ {PairingOf[m] : m \in Range(l)} = Pairings

DistinctPairings(l) == \A i, k \in DOMAIN l : PairingOf[l[i]] = PairingOf[l[k]] => i = k

-----------------------------------------------------------------------------
(* The steps of an import, in the order its provider takes them.            *)
Steps ==
    CASE provider = "api_football"  -> <<"teams", "map", "write", "matches", "import">>
      [] provider = "football_data" -> <<"teams", "matches", "map", "write", "import">>
      [] OTHER                      -> <<"matches", "map", "write", "import">>

After(step) ==
    LET i == CHOOSE i \in DOMAIN Steps : Steps[i] = step
    IN  IF i = Len(Steps) THEN "imported" ELSE Steps[i + 1]

NewFetch ==
    [step |-> Steps[1], attempt |-> 1, redirects |-> 0, read |-> <<>>, pages |-> 0, total |-> 0,
     batch |-> {}, always |-> {}, missed |-> {}, table |-> [x \in TeamIds |-> Nobody],
     format |-> Unstated, written |-> 0]

Idle == fetch.step = NoFetch
NoImport == [NewFetch EXCEPT !.step = NoFetch]

Refused == fetch' = [NewFetch EXCEPT !.step = "failed"]
NothingHeld == [snapshot |-> {}, listings |-> {}]
Rest == <<provider, reviewed, job, held>>

KeepTables == UNCHANGED <<Rest, mapping, members, events>>

-----------------------------------------------------------------------------
(* What one attempt of a request may be answered with.  A 429 may name the  *)
(* time to try again in a form no client can read.                           *)
Answers == {"unreachable", "200", "204", "304", "redirect", "429", "429 unreadable",
            "499", "5xx", "other"}

(* The answers each client tries again after.                               *)
OpenLigaDBRetries == {"unreachable", "429", "5xx"}
FootballDataRetries == {"unreachable", "429", "5xx"}
OefbRetries == {"unreachable", "429", "5xx"}
ApiFootballRetries == {"unreachable", "429", "499", "5xx"}
NflverseRetries == {"unreachable", "429", "429 unreadable", "5xx"}

Retries ==
    CASE provider = "openligadb"    -> OpenLigaDBRetries
      [] provider = "football_data" -> FootballDataRetries
      [] provider = "oefb_ical"     -> OefbRetries
      [] provider = "api_football"  -> ApiFootballRetries
      [] OTHER                      -> NflverseRetries

Requesting == fetch.step \in {"teams", "matches"}

(* The attempt is repeated while attempts are left.  The ÖFB's redirects    *)
(* belong to an attempt: the next one starts at the configured feed.         *)
RequestFails(answer) ==
    /\ Requesting /\ answer \in Retries
    /\ IF fetch.attempt < MaxAttempts
       THEN fetch' = [fetch EXCEPT !.attempt = @ + 1,
                                   !.redirects = IF provider = "oefb_ical" THEN 0 ELSE @]
       ELSE Refused
    /\ KeepTables

(* An answer no retry mends: a status the client does not try again after,   *)
(* or a 200 with a malformed body, the wrong competition or another season;  *)
(* a redirect without a location or to another host.                         *)
RequestRefused(answer) ==
    /\ Requesting /\ answer \notin Retries
    /\ Refused
    /\ KeepTables

(* nflverse's client counts every redirect as an attempt, so that what       *)
(* follows one has fewer retries left.                                       *)
NflverseRedirected ==
    /\ provider = "nflverse" /\ fetch.step = "matches" /\ fetch.pages = 0
    /\ IF fetch.redirects < MaxRedirects
       THEN fetch' = [fetch EXCEPT !.attempt = @ + 1, !.redirects = @ + 1]
       ELSE Refused
    /\ KeepTables

(* The ÖFB's client follows them within the attempt.                        *)
OefbRedirected ==
    /\ provider = "oefb_ical" /\ fetch.step = "matches" /\ fetch.pages = 0
    /\ IF fetch.redirects < MaxRedirects
       THEN fetch' = [fetch EXCEPT !.redirects = @ + 1]
       ELSE Refused
    /\ KeepTables

(* The provider's teams.  API-Football demands exactly the reviewed IDs and *)
(* takes the participants from the reviewed table; football-data.org's      *)
(* names are resolved when the catalog is mapped.                            *)
ReadTeams ==
    /\ fetch.step = "teams"
    /\ \E table \in TeamTables :
         fetch' = [fetch EXCEPT !.step = After("teams"), !.attempt = 1,
                                !.table = IF provider = "api_football"
                                          THEN reviewed ELSE table]
    /\ KeepTables

-----------------------------------------------------------------------------
(* The pages of a collection.  `always` are the matches the provider has    *)
(* listed at every request for them so far.                                  *)
Seen(l) ==
    IF fetch.pages = 0 THEN Range(l) ELSE fetch.always \cap Range(l)

Continue(l, page, total) ==
    fetch' = [fetch EXCEPT !.attempt = 1, !.read = @ \o page, !.pages = @ + 1,
                           !.total = total, !.always = Seen(l)]

(* football-data.org: one request where the limit holds the season;         *)
(* otherwise a full first page, or the whole season on it, and the exact    *)
(* remainder at the offset.                                                  *)
Expected == Cardinality(Pairings)

FootballDataTotal(page) ==
    IF Expected <= PageLimit \/ Len(page) = Expected THEN 1 ELSE 2

FootballDataPage(page) ==
    IF fetch.pages = 0
    THEN Expected <= PageLimit \/ Len(page) \in {Expected, PageLimit}
    ELSE Len(page) = Expected - PageLimit

(* API-Football: as many pages as the first one says, and every page must   *)
(* say the same.  A 204 stands for an empty page that is the last one.      *)
ApiFootballPage(total) == fetch.pages = 0 \/ total = fetch.total

ReadMatches ==
    /\ fetch.step = "matches"
    /\ fetch.pages = 0 \/ fetch.pages < fetch.total
    /\ \E l \in Listings :
         LET k == fetch.pages + 1 IN
         CASE provider = "football_data" ->
                \E page \in {Page(l, k)} \cup (IF k = 1 THEN {l} ELSE {}) :
                  IF FootballDataPage(page)
                  THEN Continue(l, page, IF k = 1 THEN FootballDataTotal(page) ELSE 2)
                  ELSE Refused
           [] provider = "api_football" ->
                \E answer \in {[page |-> <<>>, total |-> k]} \cup
                    (IF k <= PageCount(l)
                     THEN {[page |-> Page(l, k), total |-> PageCount(l)]} ELSE {}) :
                  IF ApiFootballPage(answer.total)
                  THEN Continue(l, answer.page, answer.total)
                  ELSE Refused
           [] OTHER -> Continue(l, l, 1)
    /\ KeepTables

(* A parser that only counts the matches.                                   *)
CountedSchedule(l) == Len(l) = Cardinality(Pairings)

(* What each provider's parser demands of the whole collection.             *)
FootballDataSchedule(l) == Distinct(l) /\ Complete(l)

ApiFootballBatch(l) == Distinct(l)

OpenLigaDBSnapshot(l) ==
    l # <<>> /\ Distinct(l) /\ DistinctPairings(l)
    /\ (job \in Cups \cup Draws \/ Complete(l))

NflverseGames(l) == Distinct(l) /\ Complete(l)

OefbUids(l) == l # <<>> /\ Distinct(l)

(* API-Football's fixtures take their participants from the stored mapping,  *)
(* and the competition's format and season from the catalog, read again.     *)
NormalizationContext(c) ==
    c.format \in Formats /\ Cardinality(c.current) = 1 /\ c.dates \in {"same year", "agreed"}

Normalizable(c) ==
    provider = "api_football" =>
        NormalizationContext(c) /\ \A x \in TeamIds : mapping[x] # Nobody

(* A snapshot's Last-Modified kept before the snapshot is known to be good.  *)
KeepStampFirst(l, ok) ==
    IF provider = "oefb_ical"
    THEN \E stamped \in BOOLEAN :
           held' = [snapshot |-> IF ok THEN Range(l) ELSE held.snapshot,
                    listings |-> IF stamped THEN {Range(l)} ELSE {}]
    ELSE UNCHANGED held

(* A parsed feed is kept for the answers that say it has not changed; the    *)
(* Last-Modified header may be missing.                                      *)
KeepSnapshot(l, ok) ==
    IF provider = "oefb_ical" /\ ok
    THEN \E stamped \in BOOLEAN :
           held' = [snapshot |-> Range(l),
                    listings |-> IF stamped THEN {Range(l)} ELSE {}]
    ELSE UNCHANGED held

(* 304: the ÖFB's feed is the one the kept Last-Modified came with.          *)
NotModified ==
    /\ provider = "oefb_ical" /\ fetch.step = "matches" /\ fetch.pages = 0
    /\ \E listing \in held.listings :
         fetch' = [fetch EXCEPT !.step = After("matches"), !.attempt = 1,
                                !.batch = held.snapshot, !.always = listing]
    /\ KeepTables

ParsedMatches ==
    /\ fetch.step = "matches" /\ fetch.pages > 0 /\ fetch.pages = fetch.total
    /\ LET l == fetch.read
           ok == CASE provider = "football_data" -> FootballDataSchedule(l)
                   [] provider = "api_football"  -> ApiFootballBatch(l)
                   [] provider = "openligadb"    -> OpenLigaDBSnapshot(l)
                   [] provider = "nflverse"      -> NflverseGames(l)
                   [] OTHER                      -> OefbUids(l)
       IN  /\ KeepSnapshot(l, ok)
           /\ \E c \in Catalogs :
                IF ok /\ Normalizable(c)
                THEN \E table \in IF provider = "openligadb" THEN TeamTables
                                  ELSE {fetch.table} :
                       fetch' = [fetch EXCEPT !.step = After("matches"), !.table = table,
                                              !.format = IF provider = "api_football"
                                                         THEN c.format ELSE @,
                                              !.batch = Range(l), !.read = <<>>,
                                              !.pages = 0, !.total = 0]
                ELSE Refused
    /\ UNCHANGED <<provider, reviewed, job, mapping, members, events>>

-----------------------------------------------------------------------------
(* The participants the provider's teams resolve to, each by its own rule:  *)
(* football-data.org by the team's name, OpenLigaDB by ID and name together  *)
(* or, in the Nations League, by name alone, the others by the reviewed      *)
(* table.  They are all the reviewed ones, but for a cup's draw, whose       *)
(* matches may be between some of them: Nobody is then a team not listed.    *)
OneToOne(f) == \A x, y \in DOMAIN f : f[x] = f[y] => x = y

FootballDataTeams ==
    IF /\ Nobody \notin Range(fetch.table) /\ OneToOne(fetch.table)
       /\ Range(fetch.table) = Range(reviewed)
    THEN {fetch.table} ELSE {}

OpenLigaDBTeams ==
    IF \/ fetch.table = reviewed
       \/ job \in Cups /\ Range(fetch.table) = Range(reviewed)
       \/ job \in Draws /\ \A x \in TeamIds : fetch.table[x] \in {Nobody, reviewed[x]}
    THEN {fetch.table} ELSE {}

(* A mapping in the way of x |-> p, by its team ID or by its participant.   *)
Conflicts(x, p) ==
    \/ mapping[x] \notin {Nobody, p}
    \/ \E y \in TeamIds : y # x /\ mapping[y] = p

(* API-Football looks for every conflict before its first write.            *)
ApiFootballTeams ==
    IF \E x \in TeamIds : Conflicts(x, reviewed[x]) THEN {} ELSE {reviewed}

Resolved ==
    CASE provider = "football_data" -> FootballDataTeams
      [] provider = "openligadb"    -> OpenLigaDBTeams
      [] provider = "api_football"  -> ApiFootballTeams
      [] OTHER                      -> {reviewed}

(* What each service demands of the canonical catalog before it maps teams  *)
(* to it.  API-Football's takes whatever season is the current one, if it    *)
(* starts in the provider's year; nflverse's never asks which is current.    *)
ApiFootballContext(c) ==
    /\ c.format # Absent /\ Cardinality(c.current) = 1
    /\ c.dates \in {"no end", "same year", "agreed"}

FootballDataContext(c) ==
    c.format # Absent /\ c.current = {"profiled"} /\ c.dates = "agreed"

OpenLigaDBContext(c) ==
    /\ c.format = CASE job \in Cups  -> "hybrid_tournament"
                     [] job \in Draws -> "knockout_cup"
                     [] OTHER         -> "league"
    /\ c.current = {"profiled"} /\ c.dates = "agreed"

OefbContext(c) ==
    c.format = "knockout_cup" /\ "profiled" \in c.current /\ c.dates = "agreed"

NflverseContext(c) ==
    c.format = "league" /\ "profiled" \in c.seasons /\ c.dates = "agreed"

Context(c) ==
    CASE provider = "api_football"  -> ApiFootballContext(c)
      [] provider = "football_data" -> FootballDataContext(c)
      [] provider = "openligadb"    -> OpenLigaDBContext(c)
      [] provider = "oefb_ical"     -> OefbContext(c)
      [] OTHER                      -> NflverseContext(c)

MapCatalog ==
    /\ fetch.step = "map"
    /\ \E c \in Catalogs :
         IF ~Context(c) \/ Resolved = {} THEN Refused
         ELSE \E table \in Resolved :
                fetch' = [fetch EXCEPT !.step = After("map"), !.table = table,
                                       !.format = c.format]
    /\ KeepTables

(* The writes in their order, each in a transaction of its own: a team's    *)
(* mapping and its membership of the season, team by team; API-Football's   *)
(* memberships follow the last of its mappings.                              *)
TeamWrites ==
    [i \in 1..2 * Len(Teams) |->
        [kind |-> IF i % 2 = 1 THEN "mapping" ELSE "member", team |-> Teams[(i + 1) \div 2]]]

ApiFootballWrites ==
    LET n == Len(Teams) IN
    [i \in 1..2 * n |-> IF i <= n THEN [kind |-> "mapping", team |-> Teams[i]]
                                  ELSE [kind |-> "member", team |-> Teams[i - n]]]

Writes == IF provider = "api_football" THEN ApiFootballWrites ELSE TeamWrites

(* A mapping that is kept without a look at what it maps to.                *)
KeptMapping(x, p) ==
    /\ mapping' = [mapping EXCEPT ![x] = IF @ = Nobody THEN p ELSE @]
    /\ fetch' = [fetch EXCEPT !.written = @ + 1]

(* A write that looks the row up and not what it conflicts with.            *)
OverwrittenMapping(x, p) ==
    /\ mapping' = [mapping EXCEPT ![x] = p]
    /\ fetch' = [fetch EXCEPT !.written = @ + 1]

(* An ID mapped to another participant, or a participant mapped to another  *)
(* ID, refuses the import and leaves the rows written before it.            *)
UpsertMapping(x, p) ==
    IF Conflicts(x, p) THEN Refused /\ UNCHANGED mapping
    ELSE /\ mapping' = [mapping EXCEPT ![x] = p]
         /\ fetch' = [fetch EXCEPT !.written = @ + 1]

Listed(x) == fetch.table[x] # Nobody

(* A team that no match is between is passed over.                          *)
PassOver ==
    /\ fetch.step = "write" /\ fetch.written < Len(Writes)
    /\ ~Listed(Writes[fetch.written + 1].team)
    /\ fetch' = [fetch EXCEPT !.written = @ + 1]
    /\ KeepTables

WriteMapping ==
    /\ fetch.step = "write" /\ fetch.written < Len(Writes)
    /\ LET write == Writes[fetch.written + 1] IN
         /\ write.kind = "mapping" /\ Listed(write.team)
         /\ UpsertMapping(write.team, fetch.table[write.team])
    /\ UNCHANGED <<Rest, members, events>>

WriteMember ==
    /\ fetch.step = "write" /\ fetch.written < Len(Writes)
    /\ LET write == Writes[fetch.written + 1] IN
         /\ write.kind = "member" /\ Listed(write.team)
         /\ members' = [members EXCEPT ![job] = @ \cup {fetch.table[write.team]}]
    /\ fetch' = [fetch EXCEPT !.written = @ + 1]
    /\ UNCHANGED <<Rest, mapping, events>>

Written ==
    /\ fetch.step = "write" /\ fetch.written = Len(Writes)
    /\ fetch' = [fetch EXCEPT !.step = After("write")]
    /\ KeepTables

(* The ÖFB's feed may grow but must hold every UID imported from it before. *)
UidsGrow == events[job] \subseteq fetch.batch

(* A read or a write, the canonical import among them, may find the database *)
(* locked.                                                                   *)
DatabaseRefuses ==
    /\ fetch.step \in {"map", "write", "import"}
    /\ Refused
    /\ KeepTables

(* What an observation claims to hold, and when that is well formed.  The   *)
(* format is the canonical competition's as the import found it.             *)
Whole == "no stage"
NoStageKind == "no stage kind"

Partial ==
    [format |-> fetch.format, kind |-> "partial", stage |-> Whole,
     stageKind |-> NoStageKind, bounded |-> FALSE, filtered |-> FALSE]

ValidLifecycle(o) ==
    /\ o.format \in Formats
    /\ o.stageKind # NoStageKind => o.format = "hybrid_tournament" /\ o.stage # Whole
    /\ CASE o.kind = "complete_season" -> o.format = "league" /\ o.stage = Whole
         [] o.kind = "complete_stage"  ->
                /\ o.stage # Whole
                /\ o.format = "hybrid_tournament" => o.stageKind # NoStageKind
         [] o.kind = "complete_round"  ->
                /\ o.format # "league"
                /\ o.format = "hybrid_tournament" => o.stageKind # NoStageKind
         [] OTHER -> TRUE

ValidScope(o) ==
    /\ ValidLifecycle(o)
    /\ o.filtered => o.kind = "partial"
    /\ o.kind = "complete_season" => o.bounded

(* The canonical import reads the competition's format once more.           *)
StoredScope(o, c) ==
    /\ o.filtered => o.kind = "partial"
    /\ o.kind = "complete_season" => o.bounded
    /\ c.format \in Formats /\ c.format = o.format

ApiFootballScope == [Partial EXCEPT !.kind = "complete_season", !.bounded = TRUE]

FootballDataScope ==
    IF job \in Cups
    THEN [Partial EXCEPT !.kind = "complete_stage", !.stage = "REGULAR_SEASON", !.bounded = TRUE]
    ELSE [Partial EXCEPT !.kind = "complete_season", !.bounded = TRUE]

OpenLigaDBScope ==
    IF job \in Cups
    THEN [Partial EXCEPT !.stage = "league-phase", !.stageKind = "league_phase",
                         !.filtered = TRUE]
    ELSE Partial

OefbScope == [Partial EXCEPT !.format = "knockout_cup"]

NflverseScope == [Partial EXCEPT !.format = "league", !.stage = "regular-season"]

Scope ==
    CASE provider = "api_football"  -> ApiFootballScope
      [] provider = "football_data" -> FootballDataScope
      [] provider = "openligadb"    -> OpenLigaDBScope
      [] provider = "oefb_ical"     -> OefbScope
      [] OTHER                      -> NflverseScope

(* The observations the canonical import may take as evidence of removal:   *)
(* a complete season or stage of a league, a complete stage or round of a    *)
(* tournament, nothing filtered.  Every provider is authoritative.           *)
RemovalSupported(o) ==
    o.kind \in IF o.format = "league" THEN {"complete_season", "complete_stage"}
                                      ELSE {"complete_stage", "complete_round"}

RemovalEligible == ~Scope.filtered /\ RemovalSupported(Scope)

(* The canonical import: it maps every fixture of the batch, and counts the *)
(* mapped ones a removal-eligible batch leaves out as missing.               *)
ImportFixtures ==
    /\ fetch.step = "import"
    /\ \E c \in Catalogs :
         IF \/ ~ValidScope(Scope) \/ ~StoredScope(Scope, c)
            \/ provider = "oefb_ical" /\ ~UidsGrow
         THEN Refused /\ UNCHANGED events
         ELSE /\ fetch' = [fetch EXCEPT !.step = "imported",
                                        !.missed = IF RemovalEligible
                                                   THEN events[job] \ fetch.batch
                                                   ELSE {}]
              /\ events' = [events EXCEPT ![job] = @ \cup fetch.batch]
    /\ UNCHANGED <<Rest, mapping, members>>

-----------------------------------------------------------------------------
(* The service.  One job imports at a time; the process may die between any *)
(* two steps; a restart may bring a release with another reviewed table.     *)
(* football-data.org's asks for the matches of the current season's year and *)
(* looks that season up before its first request.                            *)
FootballDataSeason(c) ==
    c.format \in Formats /\ c.current = {"profiled"} /\ c.dates # "missing"

Begin(j) ==
    /\ Idle
    /\ \E c \in Catalogs :
         IF provider = "football_data" /\ ~FootballDataSeason(c) THEN Refused
         ELSE fetch' = NewFetch
    /\ job' = j
    /\ UNCHANGED <<provider, reviewed, mapping, members, events, held>>

End ==
    /\ fetch.step \in {"imported", "failed"}
    /\ fetch' = NoImport /\ job' = NoFetch
    /\ UNCHANGED <<provider, reviewed, mapping, members, events, held>>

Restart ==
    /\ fetch' = NoImport /\ job' = NoFetch
    /\ reviewed' \in Reviews /\ held' = NothingHeld
    /\ UNCHANGED <<provider, mapping, members, events>>

Init ==
    /\ provider \in Providers
    /\ reviewed \in Reviews
    /\ mapping = [x \in TeamIds |-> Nobody]
    /\ members = [j \in Jobs1 \cup Jobs2 |-> {}]
    /\ events = [j \in Jobs1 \cup Jobs2 |-> {}]
    /\ fetch = NoImport /\ job = NoFetch /\ held = NothingHeld

Next ==
    \/ \E j \in SourceJobs : Begin(j)
    \/ \E answer \in Answers : RequestFails(answer) \/ RequestRefused(answer)
    \/ NflverseRedirected \/ OefbRedirected
    \/ ReadTeams \/ ReadMatches \/ NotModified \/ ParsedMatches
    \/ MapCatalog \/ PassOver \/ WriteMapping \/ WriteMember \/ Written
    \/ ImportFixtures \/ DatabaseRefuses
    \/ End \/ Restart

Spec == Init /\ [][Next]_vars

-----------------------------------------------------------------------------
(* Every variable has its type; a job is named while it imports.            *)
TypeOK ==
    /\ provider \in Providers /\ reviewed \in Reviews
    /\ mapping \in [TeamIds -> Participants \cup {Nobody}]
    /\ members \in [Jobs1 \cup Jobs2 -> SUBSET Participants]
    /\ events \in [Jobs1 \cup Jobs2 -> SUBSET Matches]
    /\ job \in SourceJobs \cup {NoFetch} /\ (job = NoFetch <=> Idle)
    /\ fetch.attempt \in 1..(MaxAttempts + MaxRedirects)
    /\ held.snapshot \subseteq Matches /\ held.listings \subseteq SUBSET Matches
    /\ fetch.batch \subseteq Matches /\ fetch.always \subseteq Matches

(* A provider's team ID keeps its participant for ever once it is mapped,   *)
(* whatever name the provider gives it and whatever the next release's      *)
(* reviewed table says; and no two IDs share one.                            *)
IdentitiesStand ==
    [][/\ \A x \in TeamIds : mapping[x] # Nobody => mapping'[x] = mapping[x]
       /\ \A x, y \in TeamIds : x # y /\ mapping'[x] # Nobody => mapping'[x] # mapping'[y]
      ]_vars

(* The fixtures an import hands over have teams whose participants are the  *)
(* mapped ones and members of the season, after any interrupted or refused  *)
(* import before it, and whatever teams the imports before it listed.        *)
FixturesAgree ==
    fetch.step = "import" =>
        \A x \in TeamIds : Listed(x) => /\ mapping[x] = fetch.table[x]
                                        /\ fetch.table[x] \in members[job]

(* What the ÖFB's adapter hands on for an unchanged feed, or for a new one,  *)
(* is what the feed holds at the request, whatever it answered before and    *)
(* whether or not the imports between them succeeded.                         *)
UnmodifiedIsCurrent ==
    provider = "oefb_ical" /\ fetch.step \in {"map", "write", "import"} =>
        fetch.batch = fetch.always

(* A match the provider listed at every request for the matches is never    *)
(* counted as missing, though the pages were read from a schedule that      *)
(* changed between them.  API-Football's pages do not give this.            *)
ListedIsNeverMissing ==
    provider # "api_football" => fetch.missed \cap fetch.always = {}

=============================================================================
