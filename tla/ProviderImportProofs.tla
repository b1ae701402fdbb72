------------------------ MODULE ProviderImportProofs ------------------------
(***************************************************************************)
(* Proofs about ProviderImport for every provider, every set of matches,   *)
(* teams and jobs, and every page size.                                     *)
(***************************************************************************)
EXTENDS ProviderImport, TLAPS

AllSteps == {"teams", "matches", "map", "write", "import", "imported", "failed", NoFetch}

Fetches ==
    [step : AllSteps, attempt : Nat \ {0}, redirects : 0..MaxRedirects, read : Seq(Matches),
     pages : Nat, total : Nat, batch : SUBSET Matches, always : SUBSET Matches,
     missed : SUBSET Matches, table : [TeamIds -> Participants \cup {Nobody}],
     format : Formats \cup {Unstated, Absent}, written : Nat]

(* The import in progress has its shape; its attempts are bounded by the    *)
(* redirects it followed.                                                    *)
FetchOK ==
    /\ fetch \in Fetches
    /\ fetch.attempt <= MaxAttempts + fetch.redirects
    /\ fetch.pages = 0 => fetch.read = <<>>
    /\ fetch.step # "matches" => fetch.pages = 0

HeldOK ==
    /\ held \in [snapshot : SUBSET Matches, listings : SUBSET (SUBSET Matches)]
    /\ held.listings \subseteq {held.snapshot}

(* The one page of a feed is the listing it was read from.                  *)
OnePage ==
    provider = "oefb_ical" /\ fetch.step = "matches" /\ fetch.pages > 0 =>
        fetch.total = 1 /\ fetch.always = Range(fetch.read)

(* A match listed at every request so far is the only one of its pairing    *)
(* that any of the pages can hold.                                           *)
OnePairing ==
    fetch.step = "matches" =>
        \A a \in fetch.always, b \in Range(fetch.read) :
            PairingOf[a] = PairingOf[b] => a = b

(* A season that football-data.org's parser accepts holds every such match. *)
NothingLost ==
    provider = "football_data" /\ fetch.step \in {"map", "write", "import"} =>
        fetch.always \subseteq fetch.batch

NothingMissed == fetch.step # "imported" => fetch.missed = {}

(* No two IDs share a participant.                                          *)
Separate ==
    \A x, y \in TeamIds : x # y /\ mapping[x] # Nobody => mapping[x] # mapping[y]

NothingWritten ==
    \/ fetch.step \in {"teams", "map"}
    \/ fetch.step = "matches" /\ provider # "api_football"
    => fetch.written = 0

(* What the writes before the next one have left.                           *)
Done(write) == Listed(write.team) =>
    IF write.kind = "mapping" THEN mapping[write.team] = fetch.table[write.team]
    ELSE fetch.table[write.team] \in members[job]

WrittenSoFar ==
    fetch.step = "write" =>
        /\ fetch.written \in 0..Len(Writes)
        /\ \A i \in 1..fetch.written : Done(Writes[i])

Agreed ==
    fetch.step = "import" \/ (provider = "api_football" /\ fetch.step = "matches") =>
        \A x \in TeamIds : Listed(x) => /\ mapping[x] = fetch.table[x]
                                        /\ fetch.table[x] \in members[job]

(* The order of the steps.                                                  *)
StepOK == fetch.step \in Range(Steps) \cup {NoFetch, "imported", "failed"}

IInv ==
    /\ TypeOK
    /\ StepOK
    /\ FetchOK
    /\ HeldOK
    /\ OnePage
    /\ OnePairing
    /\ UnmodifiedIsCurrent
    /\ NothingLost
    /\ NothingMissed
    /\ ListedIsNeverMissing
    /\ Separate
    /\ NothingWritten
    /\ WrittenSoFar
    /\ Agreed

-----------------------------------------------------------------------------
LEMMA NextStep ==
    ASSUME NEW i \in DOMAIN Steps,
           \A k \in DOMAIN Steps : Steps[k] = Steps[i] => k = i
    PROVE  After(Steps[i]) = IF i = Len(Steps) THEN "imported" ELSE Steps[i + 1]
<1> DEFINE c == CHOOSE k \in DOMAIN Steps : Steps[k] = Steps[i]
<1>1. c \in DOMAIN Steps /\ Steps[c] = Steps[i]
  OBVIOUS
<1>2. c = i
  BY <1>1
<1>3. After(Steps[i]) = IF c = Len(Steps) THEN "imported" ELSE Steps[c + 1]
  BY DEF After
<1> QED
  BY <1>2, <1>3

(* The order of the steps, provider by provider.                            *)
LEMMA StepOrder ==
    /\ Steps[1] \in {"teams", "matches"} /\ Steps[1] \in Range(Steps)
    /\ provider = "api_football" =>
         /\ Steps[1] = "teams"
         /\ Range(Steps) = {"teams", "map", "write", "matches", "import"}
         /\ After("teams") = "map" /\ After("map") = "write"
         /\ After("write") = "matches" /\ After("matches") = "import"
    /\ provider = "football_data" =>
         /\ Range(Steps) = {"teams", "matches", "map", "write", "import"}
         /\ After("teams") = "matches" /\ After("matches") = "map"
         /\ After("map") = "write" /\ After("write") = "import"
    /\ provider \notin {"api_football", "football_data"} =>
         /\ Range(Steps) = {"matches", "map", "write", "import"}
         /\ After("matches") = "map"
         /\ After("map") = "write" /\ After("write") = "import"
<1>1. CASE provider = "api_football"
  <2>1. Steps = <<"teams", "map", "write", "matches", "import">>
    BY <1>1 DEF Steps
  <2>2. /\ DOMAIN Steps = 1..5 /\ Len(Steps) = 5
        /\ Steps[1] = "teams" /\ Steps[2] = "map" /\ Steps[3] = "write"
        /\ Steps[4] = "matches" /\ Steps[5] = "import"
    BY <2>1
  <2>3. /\ After(Steps[1]) = Steps[2] /\ After(Steps[2]) = Steps[3]
        /\ After(Steps[3]) = Steps[4] /\ After(Steps[4]) = Steps[5]
    BY <2>2, NextStep
  <2>4. Range(Steps) = {"teams", "map", "write", "matches", "import"}
    BY <2>2 DEF Range
  <2> QED
    BY <1>1, <2>2, <2>3, <2>4
<1>2. CASE provider = "football_data"
  <2>1. Steps = <<"teams", "matches", "map", "write", "import">>
    BY <1>2 DEF Steps
  <2>2. /\ DOMAIN Steps = 1..5 /\ Len(Steps) = 5
        /\ Steps[1] = "teams" /\ Steps[2] = "matches" /\ Steps[3] = "map"
        /\ Steps[4] = "write" /\ Steps[5] = "import"
    BY <2>1
  <2>3. /\ After(Steps[1]) = Steps[2] /\ After(Steps[2]) = Steps[3]
        /\ After(Steps[3]) = Steps[4] /\ After(Steps[4]) = Steps[5]
    BY <2>2, NextStep
  <2>4. Range(Steps) = {"teams", "matches", "map", "write", "import"}
    BY <2>2 DEF Range
  <2> QED
    BY <1>2, <2>2, <2>3, <2>4
<1>3. CASE provider \notin {"api_football", "football_data"}
  <2>1. Steps = <<"matches", "map", "write", "import">>
    BY <1>3 DEF Steps
  <2>2. /\ DOMAIN Steps = 1..4 /\ Len(Steps) = 4
        /\ Steps[1] = "matches" /\ Steps[2] = "map" /\ Steps[3] = "write"
        /\ Steps[4] = "import"
    BY <2>1
  <2>3. /\ After(Steps[1]) = Steps[2] /\ After(Steps[2]) = Steps[3]
        /\ After(Steps[3]) = Steps[4]
    BY <2>2, NextStep
  <2>4. Range(Steps) = {"matches", "map", "write", "import"}
    BY <2>2 DEF Range
  <2> QED
    BY <1>3, <2>2, <2>3, <2>4
<1> QED
  BY <1>1, <1>2, <1>3

(* The writes of a team are among the writes, and each is of a team.        *)
LEMMA EveryTeamIsWritten ==
    /\ Len(Writes) = 2 * Len(Teams) /\ Len(Teams) \in Nat
    /\ \A i \in 1..Len(Writes) :
         Writes[i].kind \in {"mapping", "member"} /\ Writes[i].team \in TeamIds
    /\ \A x \in TeamIds : \A kind \in {"mapping", "member"} :
         \E i \in 1..Len(Writes) : Writes[i].kind = kind /\ Writes[i].team = x
<1> DEFINE n == Len(Teams)
           W(i) == IF provider = "api_football"
                   THEN IF i <= n THEN [kind |-> "mapping", team |-> Teams[i]]
                                  ELSE [kind |-> "member", team |-> Teams[i - n]]
                   ELSE [kind |-> IF i % 2 = 1 THEN "mapping" ELSE "member",
                         team |-> Teams[(i + 1) \div 2]]
<1>1. n \in Nat /\ DOMAIN Teams = 1..n /\ \A k \in 1..n : Teams[k] \in TeamIds
  BY TeamAssumption
<1>2. Writes = [i \in 1..2 * n |-> W(i)]
  BY DEF Writes, TeamWrites, ApiFootballWrites
<1>3. Len(Writes) = 2 * n
  BY <1>1, <1>2
<1>4. ASSUME NEW i \in 1..2 * n
      PROVE  Writes[i].kind \in {"mapping", "member"} /\ Writes[i].team \in TeamIds
  <2>1. Writes[i] = W(i)
    BY <1>2
  <2>2. (IF i <= n THEN i ELSE i - n) \in 1..n /\ (i + 1) \div 2 \in 1..n
    BY <1>1
  <2> QED
    BY <1>1, <2>1, <2>2
<1>5. ASSUME NEW x \in TeamIds, NEW kind \in {"mapping", "member"}
      PROVE  \E i \in 1..2 * n : Writes[i].kind = kind /\ Writes[i].team = x
  <2>1. PICK k \in 1..n : Teams[k] = x
    BY <1>1 DEF TeamIds, Range
  <2> DEFINE i == IF provider = "api_football"
                  THEN IF kind = "mapping" THEN k ELSE k + n
                  ELSE IF kind = "mapping" THEN 2 * k - 1 ELSE 2 * k
  <2>2. i \in 1..2 * n
    BY <1>1
  <2>3. Writes[i] = W(i)
    BY <1>2, <2>2
  <2>4. CASE provider = "api_football"
    BY <1>1, <2>1, <2>3, <2>4
  <2>5. CASE provider # "api_football"
    <3>1. CASE kind = "mapping"
      <4>1. (2 * k - 1) % 2 = 1 /\ (2 * k - 1 + 1) \div 2 = k
        BY <1>1
      <4> QED
        BY <2>1, <2>3, <2>5, <3>1, <4>1
    <3>2. CASE kind = "member"
      <4>1. (2 * k) % 2 # 1 /\ (2 * k + 1) \div 2 = k
        BY <1>1
      <4> QED
        BY <2>1, <2>3, <2>5, <3>2, <4>1
    <3> QED
      BY <3>1, <3>2
  <2> QED
    BY <2>2, <2>4, <2>5
<1> QED
  BY <1>1, <1>3, <1>4, <1>5

LEMMA SameProvider ==
    ASSUME provider' = provider
    PROVE  Steps' = Steps /\ Writes' = Writes /\ SourceJobs' = SourceJobs
BY DEF Steps, Writes, TeamWrites, ApiFootballWrites, SourceJobs

-----------------------------------------------------------------------------
(* A page holds matches of the listing it is cut from.                      *)
LEMMA PageWithin ==
    ASSUME NEW l \in Listings, NEW k \in Nat \ {0}
    PROVE  /\ l \in Seq(Matches) /\ Page(l, k) \in Seq(Matches)
           /\ Range(Page(l, k)) \subseteq Range(l) /\ Range(l) \subseteq Matches
           /\ \A a, b \in Range(l) : PairingOf[a] = PairingOf[b] => a = b
<1>1. PICK n \in 0..Cardinality(Pairings) : l \in [1..n -> Matches]
  BY DEF Listings
<1>2. l \in Seq(Matches) /\ Len(l) = n /\ n \in Nat /\ DOMAIN l = 1..n
  BY <1>1
<1> DEFINE first == (k - 1) * PageLimit + 1
           last == Least(k * PageLimit, Len(l))
<1>3. first \in Nat \ {0} /\ last \in Nat /\ last <= Len(l)
  <2>1. (k - 1) * PageLimit \in Nat /\ k * PageLimit \in Nat
    BY ProviderAssumption
  <2> QED
    BY <2>1, <1>2 DEF Least
<1> HIDE DEF first, last
<1>4. /\ SubSeq(l, first, last) \in Seq(Matches)
      /\ \A i \in DOMAIN SubSeq(l, first, last) :
           i + first - 1 \in DOMAIN l /\ SubSeq(l, first, last)[i] = l[i + first - 1]
  BY <1>2, <1>3
<1>5. Page(l, k) = SubSeq(l, first, last)
  BY DEF Page, first, last
<1>6. \A a, b \in Range(l) : PairingOf[a] = PairingOf[b] => a = b
  BY DEF Listings, Range
<1> QED
  BY <1>2, <1>4, <1>5, <1>6 DEF Range

LEMMA Appended ==
    ASSUME NEW s \in Seq(Matches), NEW t \in Seq(Matches)
    PROVE  s \o t \in Seq(Matches) /\ Range(s \o t) = Range(s) \cup Range(t)
<1>1. /\ s \o t \in Seq(Matches) /\ Len(s \o t) = Len(s) + Len(t)
      /\ Len(s) \in Nat /\ Len(t) \in Nat
      /\ \A i \in 1..Len(s) : (s \o t)[i] = s[i]
      /\ \A i \in 1..Len(t) : (s \o t)[Len(s) + i] = t[i]
  OBVIOUS
<1>2. \A i \in DOMAIN (s \o t) : i \in 1..Len(s) \/ (i - Len(s) \in 1..Len(t) /\ i = Len(s) + (i - Len(s)))
  BY <1>1
<1>3. DOMAIN s = 1..Len(s) /\ DOMAIN t = 1..Len(t) /\ DOMAIN (s \o t) = 1..(Len(s) + Len(t))
  BY <1>1
<1>4. Range(s \o t) \subseteq Range(s) \cup Range(t)
  BY <1>1, <1>2, <1>3 DEF Range
<1>5. \A i \in 1..Len(s) : i \in DOMAIN (s \o t)
  BY <1>1, <1>3
<1>6. \A i \in 1..Len(t) : Len(s) + i \in DOMAIN (s \o t)
  BY <1>1, <1>3
<1>7. Range(s) \subseteq Range(s \o t)
  BY <1>1, <1>3, <1>5 DEF Range
<1>8. Range(t) \subseteq Range(s \o t)
  BY <1>1, <1>3, <1>6 DEF Range
<1> QED
  BY <1>1, <1>4, <1>7, <1>8

-----------------------------------------------------------------------------
(* The shape of an import after each kind of step.                          *)
LEMMA NewShape ==
    ASSUME NEW s \in AllSteps, NEW r \in Seq(Matches), NEW d \in 0..MaxRedirects,
           NEW t \in [TeamIds -> Participants \cup {Nobody}]
    PROVE  [step |-> s, attempt |-> 1, redirects |-> d, read |-> r, pages |-> 0,
            total |-> 0, batch |-> {}, always |-> {}, missed |-> {}, table |-> t,
            format |-> Unstated, written |-> 0] \in Fetches
BY DEF Fetches

LEMMA StepShape ==
    ASSUME NEW f \in Fetches, NEW s \in AllSteps
    PROVE  [f EXCEPT !.step = s] \in Fetches /\ f = [f EXCEPT !.step = f.step]
BY DEF Fetches

LEMMA NewFetchShape == NewFetch \in Fetches /\ NewFetch.step = Steps[1]
<1>1. [x \in TeamIds |-> Nobody] \in [TeamIds -> Participants \cup {Nobody}]
  OBVIOUS
<1>2. 0 \in 0..MaxRedirects /\ <<>> \in Seq(Matches)
  BY ProviderAssumption
<1>3. Steps[1] \in AllSteps
  BY StepOrder DEF AllSteps
<1> QED
  BY <1>1, <1>2, <1>3, NewShape DEF NewFetch

LEMMA AttemptShape ==
    ASSUME NEW f \in Fetches, NEW a \in Nat \ {0}, NEW d \in 0..MaxRedirects
    PROVE  /\ [f EXCEPT !.attempt = a] \in Fetches
           /\ [f EXCEPT !.attempt = a, !.redirects = d] \in Fetches
           /\ [f EXCEPT !.redirects = d] \in Fetches
BY DEF Fetches

LEMMA TeamsShape ==
    ASSUME NEW f \in Fetches, NEW s \in AllSteps, NEW a \in Nat \ {0},
           NEW t \in [TeamIds -> Participants \cup {Nobody}],
           NEW form \in Formats \cup {Unstated, Absent}
    PROVE  /\ [f EXCEPT !.step = s, !.attempt = a, !.table = t] \in Fetches
           /\ [f EXCEPT !.step = s, !.table = t, !.format = form] \in Fetches
BY DEF Fetches

LEMMA PageShape ==
    ASSUME NEW f \in Fetches, NEW a \in Nat \ {0}, NEW r \in Seq(Matches),
           NEW k \in Nat, NEW n \in Nat, NEW l \in SUBSET Matches
    PROVE  [f EXCEPT !.attempt = a, !.read = r, !.pages = k, !.total = n,
                     !.always = l] \in Fetches
BY DEF Fetches

LEMMA BatchShape ==
    ASSUME NEW f \in Fetches, NEW s \in AllSteps, NEW a \in Nat \ {0},
           NEW b \in SUBSET Matches, NEW l \in SUBSET Matches, NEW r \in Seq(Matches),
           NEW k \in Nat, NEW n \in Nat,
           NEW t \in [TeamIds -> Participants \cup {Nobody}],
           NEW form \in Formats \cup {Unstated, Absent}
    PROVE  /\ [f EXCEPT !.step = s, !.attempt = a, !.batch = b, !.always = l] \in Fetches
           /\ [f EXCEPT !.step = s, !.table = t, !.format = form, !.batch = b, !.read = r,
                        !.pages = k, !.total = n] \in Fetches
BY DEF Fetches

LEMMA WriteShape ==
    ASSUME NEW f \in Fetches, NEW s \in AllSteps, NEW w \in Nat, NEW m \in SUBSET Matches
    PROVE  /\ [f EXCEPT !.written = w] \in Fetches
           /\ [f EXCEPT !.step = s, !.missed = m] \in Fetches
BY DEF Fetches

-----------------------------------------------------------------------------
(* An import that begins, is refused, or is over.                           *)
LEMMA Fresh ==
    ASSUME IInv, NEW s \in {"failed", NoFetch, Steps[1]},
           fetch' = [NewFetch EXCEPT !.step = s],
           job' \in SourceJobs \cup {NoFetch}, job' = NoFetch <=> s = NoFetch,
           reviewed' \in Reviews, HeldOK',
           UNCHANGED <<provider, mapping, members, events>>
    PROVE  IInv'
<1> USE DEF IInv
<1>1. /\ fetch'.step = s /\ fetch'.attempt = 1 /\ fetch'.redirects = 0
      /\ fetch'.read = <<>> /\ fetch'.pages = 0 /\ fetch'.batch = {}
      /\ fetch'.always = {} /\ fetch'.missed = {} /\ fetch'.written = 0
      /\ s \in AllSteps
  BY StepOrder DEF NewFetch, AllSteps
<1>2. FetchOK'
  <2>1. fetch' \in Fetches
    <3>4. NewFetch \in Fetches
      BY NewFetchShape
    <3> QED
      BY <1>1, <3>4, StepShape
  <2> QED
    BY <1>1, <2>1, ProviderAssumption DEF FetchOK
<1>3. TypeOK'
  <2>1. fetch'.attempt \in 1..(MaxAttempts + MaxRedirects)
    BY <1>1, ProviderAssumption
  <2>2. (job = NoFetch <=> Idle)'
    BY <1>1 DEF Idle
  <2>3. HeldOK' => held'.snapshot \subseteq Matches /\ held'.listings \subseteq SUBSET Matches
    BY DEF HeldOK
  <2> QED
    BY <1>1, <2>1, <2>2, <2>3, SameProvider DEF TypeOK
<1>4. StepOK'
  BY <1>1, SameProvider, StepOrder DEF StepOK
<1>5. OnePage' /\ OnePairing' /\ NothingLost' /\ NothingMissed' /\ NothingWritten'
  BY <1>1, StepOrder DEF OnePage, OnePairing, NothingLost, NothingMissed, NothingWritten, Range
<1>6. UnmodifiedIsCurrent' /\ ListedIsNeverMissing' /\ Separate'
  BY <1>1 DEF UnmodifiedIsCurrent, ListedIsNeverMissing, Separate
<1>8. s \notin {"map", "write", "import", "imported"}
  BY StepOrder DEF NoFetch
<1>9. provider = "api_football" => s # "matches"
  BY StepOrder DEF NoFetch
<1>7. WrittenSoFar' /\ Agreed'
  BY <1>1, <1>8, <1>9 DEF WrittenSoFar, Agreed
<1> QED
  BY <1>2, <1>3, <1>4, <1>5, <1>6, <1>7

(* A step within an import keeps the types.                                 *)
LEMMA Within ==
    ASSUME TypeOK, FetchOK', HeldOK', fetch.step # NoFetch, fetch'.step # NoFetch,
           UNCHANGED <<provider, reviewed, job>>,
           mapping' \in [TeamIds -> Participants \cup {Nobody}],
           members' \in [Jobs1 \cup Jobs2 -> SUBSET Participants],
           events' \in [Jobs1 \cup Jobs2 -> SUBSET Matches]
    PROVE  TypeOK'
<1>1. fetch' \in Fetches /\ fetch'.attempt <= MaxAttempts + fetch'.redirects
  BY DEF FetchOK
<1>2. /\ fetch'.attempt \in Nat \ {0} /\ fetch'.redirects \in 0..MaxRedirects
      /\ fetch'.batch \subseteq Matches /\ fetch'.always \subseteq Matches
  BY <1>1 DEF Fetches
<1>3. fetch'.attempt \in 1..(MaxAttempts + MaxRedirects)
  BY <1>1, <1>2, ProviderAssumption
<1>4. held'.snapshot \subseteq Matches /\ held'.listings \subseteq SUBSET Matches
  BY DEF HeldOK
<1>5. (job = NoFetch <=> Idle)'
  BY DEF TypeOK, Idle
<1> QED
  BY <1>2, <1>3, <1>4, <1>5, SameProvider DEF TypeOK

(* A request is tried again.                                                *)
LEMMA Retried ==
    ASSUME IInv, fetch.step \in {"teams", "matches"}, KeepTables,
           NEW a \in Nat \ {0}, NEW d \in 0..MaxRedirects, a <= MaxAttempts + d,
           \/ fetch' = [fetch EXCEPT !.attempt = a, !.redirects = d]
           \/ fetch' = [fetch EXCEPT !.redirects = d] /\ a = fetch.attempt
    PROVE  IInv'
<1> USE DEF IInv, KeepTables, Rest
<1>0. fetch \in Fetches
  BY DEF FetchOK
<1>1. /\ fetch'.step = fetch.step /\ fetch'.attempt = a /\ fetch'.redirects = d
      /\ fetch'.read = fetch.read /\ fetch'.pages = fetch.pages
      /\ fetch'.total = fetch.total /\ fetch'.batch = fetch.batch
      /\ fetch'.always = fetch.always /\ fetch'.missed = fetch.missed
      /\ fetch'.table = fetch.table /\ fetch'.written = fetch.written
  BY <1>0 DEF Fetches
<1>2. FetchOK'
  <2>0. /\ [fetch EXCEPT !.redirects = d] \in Fetches
        /\ [fetch EXCEPT !.attempt = a, !.redirects = d] \in Fetches
    BY <1>0, AttemptShape, Zenon
  <2>1. fetch' \in Fetches
    BY <2>0, Zenon
  <2> QED
    BY <1>1, <2>1 DEF FetchOK
<1>3. HeldOK'
  BY DEF HeldOK
<1>4. TypeOK'
  BY <1>1, <1>2, <1>3, Within DEF TypeOK, NoFetch
<1>5. StepOK'
  BY <1>1, SameProvider DEF StepOK
<1>6. OnePage' /\ OnePairing' /\ NothingLost' /\ NothingMissed' /\ NothingWritten'
  BY <1>1 DEF OnePage, OnePairing, NothingLost, NothingMissed, NothingWritten
<1>7. UnmodifiedIsCurrent' /\ ListedIsNeverMissing' /\ Separate'
  BY <1>1 DEF UnmodifiedIsCurrent, ListedIsNeverMissing, Separate
<1>8. WrittenSoFar' /\ Agreed'
  BY <1>1 DEF WrittenSoFar, Agreed, Listed
<1> QED
  BY <1>2, <1>3, <1>4, <1>5, <1>6, <1>7, <1>8

LEMMA RefusedKeeps ==
    ASSUME IInv, fetch.step # NoFetch, Refused, HeldOK',
           UNCHANGED <<provider, reviewed, job, mapping, members, events>>
    PROVE  IInv'
<1>1. job' \in SourceJobs \cup {NoFetch} /\ job' # NoFetch /\ reviewed' \in Reviews
  BY DEF IInv, TypeOK, Idle
<1>2. "failed" # NoFetch
  BY DEF NoFetch
<1> QED
  BY <1>1, <1>2, Fresh DEF Refused

LEMMA RequestFailsKeeps ==
    ASSUME IInv,
           (\E answer \in Answers : RequestFails(answer)) \/ NflverseRedirected \/ OefbRedirected
    PROVE  IInv'
<1>1. /\ fetch.step \in {"teams", "matches"} /\ KeepTables /\ HeldOK'
      /\ fetch.step # NoFetch /\ UNCHANGED Rest
  BY DEF RequestFails, NflverseRedirected, OefbRedirected, Requesting, IInv, HeldOK,
     KeepTables, Rest, NoFetch
<1>2. /\ fetch.attempt \in Nat \ {0} /\ fetch.redirects \in 0..MaxRedirects
      /\ fetch.attempt <= MaxAttempts + fetch.redirects
  BY DEF IInv, FetchOK, Fetches
<1>3. CASE Refused
  BY <1>1, <1>3, RefusedKeeps DEF KeepTables, Rest
<1>4. CASE (\E answer \in Answers : RequestFails(answer)) /\ ~Refused
  <2> DEFINE d == IF provider = "oefb_ical" THEN 0 ELSE fetch.redirects
  <2>1. /\ fetch' = [fetch EXCEPT !.attempt = fetch.attempt + 1, !.redirects = d]
        /\ fetch.attempt < MaxAttempts
    BY <1>4 DEF RequestFails
  <2>2. d \in 0..MaxRedirects /\ d \in Nat
    BY <1>2, ProviderAssumption
  <2> HIDE DEF d
  <2>3. fetch.attempt + 1 \in Nat \ {0} /\ fetch.attempt + 1 <= MaxAttempts + d
    BY <1>2, <2>1, <2>2, ProviderAssumption
  <2> QED
    BY <1>1, <2>1, <2>2, <2>3, Retried
<1>5. CASE NflverseRedirected /\ ~Refused
  <2>1. /\ fetch' = [fetch EXCEPT !.attempt = fetch.attempt + 1,
                                   !.redirects = fetch.redirects + 1]
        /\ fetch.attempt + 1 \in Nat \ {0} /\ fetch.redirects + 1 \in 0..MaxRedirects
        /\ fetch.attempt + 1 <= MaxAttempts + (fetch.redirects + 1)
    BY <1>2, <1>5, ProviderAssumption DEF NflverseRedirected
  <2> QED
    BY <1>1, <2>1, Retried
<1>6. CASE OefbRedirected /\ ~Refused
  <2>1. /\ fetch' = [fetch EXCEPT !.redirects = fetch.redirects + 1]
        /\ fetch.redirects + 1 \in 0..MaxRedirects
        /\ fetch.attempt <= MaxAttempts + (fetch.redirects + 1)
    BY <1>2, <1>6, ProviderAssumption DEF OefbRedirected
  <2> QED
    BY <1>1, <1>2, <2>1, Retried
<1> QED
  BY <1>3, <1>4, <1>5, <1>6

(* A step without a request and without a page.                             *)
LEMMA ReadTeamsKeeps == ASSUME IInv, ReadTeams PROVE IInv'
<1> USE DEF IInv, KeepTables, Rest
<1>1. fetch.step = "teams" /\ KeepTables /\ fetch \in Fetches
  BY DEF ReadTeams, FetchOK
<1>2. PICK t : t \in TeamTables \cup {reviewed}
               /\ fetch' = [fetch EXCEPT !.step = After("teams"), !.attempt = 1, !.table = t]
  BY DEF ReadTeams
<1>3. t \in [TeamIds -> Participants \cup {Nobody}]
  BY <1>2, ProviderAssumption DEF TypeOK
<1>4. \/ provider = "api_football" /\ After("teams") = "map"
      \/ provider = "football_data" /\ After("teams") = "matches"
  BY <1>1, StepOrder DEF StepOK, NoFetch
<1>5. /\ fetch'.step = After("teams") /\ fetch'.attempt = 1
      /\ fetch'.redirects = fetch.redirects
      /\ fetch'.read = fetch.read /\ fetch'.pages = fetch.pages
      /\ fetch'.total = fetch.total /\ fetch'.batch = fetch.batch
      /\ fetch'.always = fetch.always /\ fetch'.missed = fetch.missed
      /\ fetch'.table = t /\ fetch'.written = fetch.written
  BY <1>1, <1>2 DEF Fetches
<1>6. FetchOK'
  <2>0. After("teams") \in AllSteps /\ 1 \in Nat \ {0}
    BY <1>4 DEF AllSteps
  <2> DEFINE s == After("teams")
             one == 1
  <2>3. s \in AllSteps /\ one \in Nat \ {0}
        /\ fetch' = [fetch EXCEPT !.step = s, !.attempt = one, !.table = t]
    BY <2>0, <1>2
  <2> HIDE DEF s, one
  <2>1. fetch' \in Fetches
    BY <1>1, <1>3, <2>3, TeamsShape
  <2>2. fetch.redirects \in 0..MaxRedirects
    BY <1>1 DEF Fetches
  <2> QED
    BY <1>1, <1>5, <2>1, <2>2, ProviderAssumption DEF FetchOK
<1>7. HeldOK'
  BY <1>1 DEF HeldOK
<1>8. TypeOK'
  BY <1>1, <1>4, <1>5, <1>6, <1>7, Within DEF TypeOK, NoFetch
<1>9. StepOK'
  BY <1>1, <1>4, <1>5, SameProvider, StepOrder DEF StepOK
<1>10. fetch.pages = 0 /\ fetch.read = <<>> /\ fetch.written = 0
  BY <1>1 DEF FetchOK, NothingWritten
<1>11. OnePage' /\ NothingLost' /\ UnmodifiedIsCurrent'
  BY <1>1, <1>4, <1>5 DEF OnePage, NothingLost, UnmodifiedIsCurrent
<1>12. OnePairing'
  BY <1>5, <1>10 DEF OnePairing, Range
<1>13. NothingMissed' /\ NothingWritten' /\ ListedIsNeverMissing' /\ Separate'
  BY <1>1, <1>5, <1>10
     DEF NothingMissed, NothingWritten, ListedIsNeverMissing, Separate
<1>14. WrittenSoFar' /\ Agreed'
  BY <1>1, <1>4, <1>5 DEF WrittenSoFar, Agreed
<1> QED
  BY <1>6, <1>7, <1>8, <1>9, <1>11, <1>12, <1>13, <1>14

(* The pages: what has been listed at every request so far stays the only   *)
(* match of its pairing.                                                     *)
LEMMA ContinueKeeps ==
    ASSUME IInv, fetch.step = "matches", fetch.pages = 0 \/ fetch.pages < fetch.total,
           NEW l \in Listings, NEW k \in Nat \ {0}, NEW page, NEW total \in Nat,
           page \in {l, Page(l, k), <<>>}, Continue(l, page, total),
           provider = "oefb_ical" => page = l /\ total = 1, KeepTables
    PROVE  IInv'
<1> USE DEF IInv, KeepTables, Rest
<1>0. /\ fetch \in Fetches /\ fetch.read \in Seq(Matches) /\ fetch.always \subseteq Matches
      /\ fetch.pages \in Nat /\ fetch.redirects \in 0..MaxRedirects
  BY DEF FetchOK, Fetches
<1>1. /\ page \in Seq(Matches) /\ Range(page) \subseteq Range(l) /\ Range(l) \subseteq Matches
      /\ \A a, b \in Range(l) : PairingOf[a] = PairingOf[b] => a = b
  <2>1. <<>> \in Seq(Matches) /\ Range(<<>>) = {}
    BY DEF Range
  <2>2. /\ l \in Seq(Matches) /\ Page(l, k) \in Seq(Matches)
        /\ Range(Page(l, k)) \subseteq Range(l) /\ Range(l) \subseteq Matches
        /\ \A a, b \in Range(l) : PairingOf[a] = PairingOf[b] => a = b
    BY PageWithin
  <2>3. page = l \/ page = Page(l, k) \/ page = <<>>
    OBVIOUS
  <2> QED
    BY <2>1, <2>2, <2>3
<1> DEFINE read == fetch.read \o page
           pages == fetch.pages + 1
           always == Seen(l)
           one == 1
<1>2. /\ read \in Seq(Matches) /\ Range(read) = Range(fetch.read) \cup Range(page)
      /\ pages \in Nat /\ always \in SUBSET Matches /\ one \in Nat \ {0}
  BY <1>0, <1>1, Appended DEF Seen
<1>3. fetch' = [fetch EXCEPT !.attempt = one, !.read = read, !.pages = pages,
                             !.total = total, !.always = always]
  BY DEF Continue
<1>a. /\ one = 1 /\ pages = fetch.pages + 1 /\ always = Seen(l)
      /\ fetch.read = <<>> => read = page
  BY <1>1
<1> HIDE DEF read, pages, always, one
<1>4. /\ fetch'.step = "matches" /\ fetch'.attempt = 1
      /\ fetch'.redirects = fetch.redirects
      /\ fetch'.read = read /\ fetch'.pages = pages
      /\ fetch'.total = total /\ fetch'.batch = fetch.batch
      /\ fetch'.always = always /\ fetch'.missed = fetch.missed
      /\ fetch'.table = fetch.table /\ fetch'.written = fetch.written
  BY <1>0, <1>3, <1>a DEF Fetches
<1>5. FetchOK'
  <2>1. fetch' \in Fetches
    BY <1>0, <1>2, <1>3, PageShape
  <2> QED
    BY <1>0, <1>4, <1>a, <2>1, ProviderAssumption DEF FetchOK
<1>6. HeldOK'
  BY DEF HeldOK
<1>7. TypeOK'
  BY <1>4, <1>5, <1>6, Within DEF TypeOK, NoFetch
<1>8. StepOK' /\ NothingLost' /\ UnmodifiedIsCurrent'
  BY <1>4, SameProvider DEF StepOK, NothingLost, UnmodifiedIsCurrent
<1>9. OnePairing'
  <2>1. CASE fetch.pages = 0
    <3>1. fetch.read = <<>> /\ always = Range(l)
      BY <1>a, <2>1 DEF FetchOK, Seen
    <3>2. read = page
      BY <1>a, <3>1
    <3> QED
      BY <1>1, <1>4, <3>1, <3>2 DEF OnePairing
  <2>2. CASE fetch.pages # 0
    <3>1. always = fetch.always \cap Range(l)
      BY <1>a, <2>2 DEF Seen
    <3>2. \A a \in fetch.always, b \in Range(fetch.read) :
             PairingOf[a] = PairingOf[b] => a = b
      BY DEF OnePairing
    <3> QED
      BY <1>1, <1>2, <1>4, <3>1, <3>2 DEF OnePairing
  <2> QED
    BY <2>1, <2>2
<1>10. OnePage'
  <2> SUFFICES ASSUME provider = "oefb_ical" PROVE total = 1 /\ always = Range(read)
    BY <1>4 DEF OnePage
  <2>1. fetch.pages = 0
    <3> SUFFICES ASSUME fetch.pages # 0 PROVE FALSE
      OBVIOUS
    <3>1. fetch.total = 1 /\ fetch.pages > 0 /\ fetch.pages < fetch.total
      BY <1>0 DEF OnePage
    <3> QED
      BY <1>0, <3>1
  <2> QED
    BY <1>a, <2>1 DEF FetchOK, Seen
<1>11. NothingMissed' /\ NothingWritten' /\ ListedIsNeverMissing' /\ Separate'
  BY <1>4 DEF NothingMissed, NothingWritten, ListedIsNeverMissing, Separate
<1>12. WrittenSoFar' /\ Agreed'
  BY <1>4 DEF WrittenSoFar, Agreed, Listed
<1> QED
  BY <1>5, <1>6, <1>7, <1>8, <1>9, <1>10, <1>11, <1>12

LEMMA ReadMatchesKeeps == ASSUME IInv, ReadMatches PROVE IInv'
<1>1. /\ fetch.step = "matches" /\ (fetch.pages = 0 \/ fetch.pages < fetch.total)
      /\ KeepTables /\ fetch.step # NoFetch
  BY DEF ReadMatches, NoFetch
<1>2. HeldOK' /\ UNCHANGED <<provider, reviewed, job, mapping, members, events>>
  BY <1>1 DEF IInv, HeldOK, KeepTables, Rest
<1>3. fetch.pages \in Nat /\ fetch.pages + 1 \in Nat \ {0}
  BY DEF IInv, FetchOK, Fetches
<1>4. PICK l \in Listings :
         LET k == fetch.pages + 1 IN
         CASE provider = "football_data" ->
                \E page \in {Page(l, k)} \cup (IF k = 1 THEN {l} ELSE {}) :
                  IF FootballDataPage(page)
                  THEN Continue(l, page, IF k = 1 THEN FootballDataTotal(page) ELSE 2)
                  ELSE Refused
           [] provider = "api_football" ->
                \E answer \in {[page |-> <<>>, total |-> k]} \cup
                    (IF k <= PageCount(l)
                     THEN {[page |-> Page(l, k), total |-> PageCount(l)]} ELSE {}) :
                  IF ApiFootballPage(answer.total)
                  THEN Continue(l, answer.page, answer.total)
                  ELSE Refused
           [] OTHER -> Continue(l, l, 1)
  BY DEF ReadMatches
<1> DEFINE k == fetch.pages + 1
<1>5. CASE Refused
  BY <1>1, <1>2, <1>5, RefusedKeeps
<1>6. CASE provider = "football_data" /\ ~Refused
  <2>1. PICK page \in {Page(l, k), l} :
             Continue(l, page, IF k = 1 THEN FootballDataTotal(page) ELSE 2)
    BY <1>4, <1>6
  <2> DEFINE total == IF k = 1 THEN FootballDataTotal(page) ELSE 2
  <2>2. total \in Nat /\ k \in Nat \ {0} /\ page \in {l, Page(l, k), <<>>}
    BY <1>3 DEF FootballDataTotal
  <2>3. Continue(l, page, total) /\ provider # "oefb_ical"
    BY <1>6, <2>1
  <2> HIDE DEF total, k
  <2> QED
    BY <1>1, <2>2, <2>3, ContinueKeeps
<1>7. CASE provider = "api_football" /\ ~Refused
  <2>1. PICK answer \in {[page |-> <<>>, total |-> k], [page |-> Page(l, k), total |-> PageCount(l)]} :
             Continue(l, answer.page, answer.total)
    BY <1>4, <1>7
  <2>2. answer.page \in {l, Page(l, k), <<>>}
    BY <2>1
  <2>3. answer.total \in Nat
    <3>1. Len(l) \in Nat
      BY PageWithin
    <3>2. PageCount(l) \in Nat
      BY <3>1, ProviderAssumption DEF PageCount
    <3> QED
      BY <1>3, <2>1, <3>2
  <2> DEFINE page == answer.page
             total == answer.total
  <2>4. /\ total \in Nat /\ k \in Nat \ {0} /\ page \in {l, Page(l, k), <<>>}
        /\ Continue(l, page, total) /\ provider # "oefb_ical"
    BY <1>3, <1>7, <2>1, <2>2, <2>3
  <2> HIDE DEF page, total, k
  <2> QED
    BY <1>1, <2>4, ContinueKeeps
<1>8. CASE provider \notin {"football_data", "api_football"} /\ ~Refused
  <2> DEFINE one == 1
             page == l
  <2>1. /\ Continue(l, page, one) /\ one \in Nat /\ k \in Nat \ {0}
        /\ page \in {l, Page(l, k), <<>>} /\ page = l /\ one = 1
    BY <1>3, <1>4, <1>8
  <2> HIDE DEF page, one, k
  <2> QED
    BY <1>1, <2>1, ContinueKeeps
<1> QED
  BY <1>5, <1>6, <1>7, <1>8

-----------------------------------------------------------------------------
(* 304: what is handed on is the listing that the kept date came with.      *)
LEMMA NotModifiedKeeps == ASSUME IInv, NotModified PROVE IInv'
<1> USE DEF IInv, KeepTables, Rest
<1>0. /\ provider = "oefb_ical" /\ fetch.step = "matches" /\ fetch.pages = 0
      /\ After("matches") = "map" /\ fetch.read = <<>> /\ fetch \in Fetches
      /\ fetch.redirects \in 0..MaxRedirects /\ KeepTables
  BY StepOrder DEF NotModified, FetchOK, Fetches
<1>1. PICK listing \in held.listings :
         fetch' = [fetch EXCEPT !.step = "map", !.attempt = 1, !.batch = held.snapshot,
                                !.always = listing]
  BY <1>0 DEF NotModified
<1>2. held.snapshot \in SUBSET Matches /\ listing = held.snapshot
  BY <1>1 DEF HeldOK
<1>3. /\ fetch'.step = "map" /\ fetch'.attempt = 1
      /\ fetch'.redirects = fetch.redirects
      /\ fetch'.read = fetch.read /\ fetch'.pages = fetch.pages
      /\ fetch'.batch = held.snapshot /\ fetch'.always = held.snapshot
      /\ fetch'.missed = fetch.missed /\ fetch'.written = fetch.written
  BY <1>0, <1>1, <1>2 DEF Fetches
<1>4. FetchOK'
  <2> DEFINE map == "map"
             one == 1
  <2>1. /\ map \in AllSteps /\ one \in Nat \ {0}
        /\ fetch' = [fetch EXCEPT !.step = map, !.attempt = one, !.batch = held.snapshot,
                                   !.always = held.snapshot]
    BY <1>1, <1>2 DEF AllSteps
  <2> HIDE DEF map, one
  <2>2. [fetch EXCEPT !.step = map, !.attempt = one, !.batch = held.snapshot,
                      !.always = held.snapshot] \in Fetches
    BY <1>0, <1>2, <2>1 DEF Fetches
  <2> QED
    BY <1>0, <1>3, <2>1, <2>2, ProviderAssumption DEF FetchOK
<1>5. HeldOK'
  BY <1>0 DEF HeldOK
<1>6. TypeOK'
  BY <1>0, <1>3, <1>4, <1>5, Within DEF TypeOK, NoFetch
<1>7. StepOK'
  BY <1>0, <1>3, SameProvider, StepOrder DEF StepOK
<1>8. OnePage' /\ OnePairing' /\ NothingLost' /\ UnmodifiedIsCurrent'
  BY <1>0, <1>3 DEF OnePage, OnePairing, NothingLost, UnmodifiedIsCurrent
<1>9. NothingMissed' /\ NothingWritten' /\ ListedIsNeverMissing' /\ Separate'
  BY <1>0, <1>3 DEF NothingMissed, NothingWritten, ListedIsNeverMissing, Separate
<1>10. WrittenSoFar' /\ Agreed'
  BY <1>0, <1>3 DEF WrittenSoFar, Agreed
<1> QED
  BY <1>4, <1>5, <1>6, <1>7, <1>8, <1>9, <1>10

(* A whole season holds a match of every pairing, and so every match that   *)
(* was listed all the time.                                                  *)
LEMMA WholeSeason ==
    ASSUME IInv, fetch.step = "matches", Complete(fetch.read)
    PROVE  fetch.always \subseteq Range(fetch.read)
<1>1. fetch.always \subseteq Matches
  BY DEF IInv, FetchOK, Fetches
<1>2. {PairingOf[m] : m \in Range(fetch.read)} = {PairingOf[m] : m \in Matches}
  BY DEF Complete, Pairings
<1>3. ASSUME NEW a \in fetch.always PROVE a \in Range(fetch.read)
  <2>1. PICK b \in Range(fetch.read) : PairingOf[a] = PairingOf[b]
    BY <1>1, <1>2
  <2>2. a = b
    BY <2>1 DEF IInv, OnePairing
  <2> QED
    BY <2>2
<1> QED
  BY <1>3

LEMMA ParsedMatchesKeeps == ASSUME IInv, ParsedMatches PROVE IInv'
<1> DEFINE l == fetch.read
           ok == CASE provider = "football_data" -> FootballDataSchedule(l)
                   [] provider = "api_football"  -> ApiFootballBatch(l)
                   [] provider = "openligadb"    -> OpenLigaDBSnapshot(l)
                   [] provider = "nflverse"      -> NflverseGames(l)
                   [] OTHER                      -> OefbUids(l)
<1>1. /\ fetch.step = "matches" /\ fetch.pages > 0 /\ fetch \in Fetches
      /\ l \in Seq(Matches) /\ fetch.table \in [TeamIds -> Participants \cup {Nobody}]
      /\ fetch.redirects \in 0..MaxRedirects /\ fetch.step # NoFetch
      /\ UNCHANGED <<provider, reviewed, job, mapping, members, events>>
  BY DEF IInv, ParsedMatches, FetchOK, Fetches, NoFetch
<1>2. Range(l) \in SUBSET Matches
  BY <1>1 DEF Range
<1>3. KeepSnapshot(l, ok)
  BY DEF ParsedMatches
<1>4. HeldOK'
  <2>1. CASE UNCHANGED held
    BY <2>1 DEF IInv, HeldOK
  <2>2. CASE held' # held
    <3>1. PICK stamped \in BOOLEAN :
             held' = [snapshot |-> Range(l), listings |-> IF stamped THEN {Range(l)} ELSE {}]
      BY <1>3, <2>2 DEF KeepSnapshot
    <3> HIDE DEF l
    <3> QED
      BY <1>2, <3>1 DEF HeldOK
  <2> QED
    BY <2>1, <2>2
<1>5. CASE Refused
  BY <1>1, <1>4, <1>5, RefusedKeeps
<1>6. CASE ok /\ ~Refused
  <2>0. PICK c \in Catalogs :
           \E t \in TeamTables \cup {fetch.table} :
             /\ fetch' = [fetch EXCEPT !.step = After("matches"), !.table = t,
                                       !.format = IF provider = "api_football"
                                                  THEN c.format ELSE fetch.format,
                                       !.batch = Range(l), !.read = <<>>, !.pages = 0,
                                       !.total = 0]
             /\ provider # "openligadb" => t = fetch.table
    BY <1>6 DEF ParsedMatches
  <2> DEFINE form == IF provider = "api_football" THEN c.format ELSE fetch.format
  <2>1. PICK t \in TeamTables \cup {fetch.table} :
           /\ fetch' = [fetch EXCEPT !.step = After("matches"), !.table = t,
                                     !.format = form,
                                     !.batch = Range(l), !.read = <<>>, !.pages = 0,
                                     !.total = 0]
           /\ provider # "openligadb" => t = fetch.table
    BY <2>0
  <2>f. form \in Formats \cup {Unstated, Absent}
    BY <1>1, ProviderAssumption DEF CatalogRows, Fetches
  <2>2. t \in [TeamIds -> Participants \cup {Nobody}]
    BY <1>1, <2>1, ProviderAssumption
  <2> DEFINE s == After("matches")
             empty == <<>>
             none == 0
  <2>3. /\ provider = "api_football" => s = "import"
        /\ provider # "api_football" => s = "map"
        /\ s \in AllSteps /\ empty \in Seq(Matches) /\ none \in Nat
        /\ s \in Range(Steps)
    <3>1. empty \in Seq(Matches) /\ none \in Nat
      OBVIOUS
    <3> QED
      BY <3>1, StepOrder DEF AllSteps
  <2>4. /\ fetch' = [fetch EXCEPT !.step = s, !.table = t, !.format = form,
                                  !.batch = Range(l),
                                  !.read = empty, !.pages = none, !.total = none]
        /\ empty = <<>> /\ none = 0
    BY <2>1
  <2> HIDE DEF s, empty, none, l, ok, form
  <2>5. fetch' \in Fetches
    <3>1. [fetch EXCEPT !.step = s, !.table = t, !.format = form, !.batch = Range(l),
                        !.read = empty, !.pages = none, !.total = none] \in Fetches
      BY <1>1, <1>2, <2>2, <2>3, <2>f DEF Fetches
    <3> QED
      BY <2>4, <3>1
  <2>6. /\ fetch'.step = s /\ fetch'.attempt = fetch.attempt
        /\ fetch'.redirects = fetch.redirects
        /\ fetch'.read = <<>> /\ fetch'.pages = 0
        /\ fetch'.batch = Range(l) /\ fetch'.always = fetch.always
        /\ fetch'.missed = fetch.missed /\ fetch'.written = fetch.written
        /\ fetch'.table = t
    BY <1>1, <2>4 DEF Fetches
  <2>7. FetchOK'
    BY <2>5, <2>6 DEF IInv, FetchOK
  <2>8. TypeOK'
    BY <1>1, <1>4, <2>3, <2>6, <2>7, Within DEF IInv, TypeOK, NoFetch
  <2>9. StepOK'
    BY <1>1, <2>3, <2>6, SameProvider DEF StepOK
  <2>10. OnePage' /\ OnePairing'
    BY <2>3, <2>6 DEF OnePage, OnePairing
  <2>11. UnmodifiedIsCurrent'
    <3>1. provider = "oefb_ical" => fetch.always = Range(l)
      BY <1>1 DEF IInv, OnePage, l
    <3> QED
      BY <1>1, <2>6, <3>1 DEF UnmodifiedIsCurrent
  <2>12. NothingLost'
    <3>1. provider = "football_data" => Complete(fetch.read)
      BY <1>6 DEF ok, FootballDataSchedule, l
    <3>2. provider = "football_data" => fetch.always \subseteq Range(l)
      BY <1>1, <3>1, WholeSeason DEF l
    <3> QED
      BY <1>1, <2>6, <3>2 DEF NothingLost
  <2>13. NothingMissed' /\ ListedIsNeverMissing' /\ Separate'
    BY <1>1, <2>3, <2>6 DEF IInv, NothingMissed, ListedIsNeverMissing, Separate
  <2>14. NothingWritten'
    BY <1>1, <2>3, <2>6 DEF IInv, NothingWritten
  <2>15. WrittenSoFar' /\ Agreed'
    BY <1>1, <2>1, <2>3, <2>6 DEF IInv, WrittenSoFar, Agreed, Listed
  <2> QED
    BY <1>4, <2>7, <2>8, <2>9, <2>10, <2>11, <2>12, <2>13, <2>14, <2>15 DEF IInv
<1>7. CASE ~ok /\ ~Refused
  BY <1>7 DEF ParsedMatches
<1> QED
  BY <1>5, <1>6, <1>7

-----------------------------------------------------------------------------
(* The tables: the participants of the teams, and their rows.               *)
LEMMA MapCatalogKeeps == ASSUME IInv, MapCatalog PROVE IInv'
<1>1. /\ fetch.step = "map" /\ fetch \in Fetches /\ KeepTables /\ fetch.step # NoFetch
      /\ fetch.written = 0 /\ After("map") = "write" /\ fetch.pages = 0
      /\ fetch.table \in [TeamIds -> Participants \cup {Nobody}]
  <2>1. fetch.step = "map" /\ KeepTables /\ fetch \in Fetches
    BY DEF IInv, MapCatalog, FetchOK
  <2> QED
    BY <2>1, StepOrder DEF IInv, FetchOK, Fetches, NothingWritten, NoFetch
<1>2. HeldOK' /\ UNCHANGED <<provider, reviewed, job, mapping, members, events>>
  BY <1>1 DEF IInv, HeldOK, KeepTables, Rest
<1>3. CASE Refused
  BY <1>1, <1>2, <1>3, RefusedKeeps
<1>4. CASE ~Refused
  <2>0. PICK c \in Catalogs :
           \E t \in Resolved :
             fetch' = [fetch EXCEPT !.step = "write", !.table = t, !.format = c.format]
    BY <1>1, <1>4 DEF MapCatalog
  <2> DEFINE form == c.format
  <2>1. PICK t \in Resolved :
           fetch' = [fetch EXCEPT !.step = "write", !.table = t, !.format = form]
    BY <2>0
  <2>f. form \in Formats \cup {Unstated, Absent}
    BY ProviderAssumption DEF CatalogRows
  <2> HIDE DEF form
  <2>2. t \in {fetch.table, reviewed}
    BY <2>1 DEF Resolved, FootballDataTeams, OpenLigaDBTeams, ApiFootballTeams
  <2>3. t \in [TeamIds -> Participants \cup {Nobody}]
    <3>1. reviewed \in [TeamIds -> Participants]
      BY ProviderAssumption DEF IInv, TypeOK
    <3> QED
      BY <1>1, <2>2, <3>1
  <2> DEFINE write == "write"
  <2>4. write \in AllSteps /\ fetch' = [fetch EXCEPT !.step = write, !.table = t,
                                                            !.format = form]
    BY <2>1 DEF AllSteps
  <2> HIDE DEF write
  <2>5. fetch' \in Fetches
    <3>1. [fetch EXCEPT !.step = write, !.table = t, !.format = form] \in Fetches
      BY <1>1, <2>3, <2>4, <2>f DEF Fetches
    <3> QED
      BY <2>4, <3>1
  <2>6. /\ fetch'.step = "write" /\ fetch'.attempt = fetch.attempt
        /\ fetch'.redirects = fetch.redirects
        /\ fetch'.read = fetch.read /\ fetch'.pages = fetch.pages
        /\ fetch'.batch = fetch.batch /\ fetch'.always = fetch.always
        /\ fetch'.missed = fetch.missed /\ fetch'.written = fetch.written
    BY <1>1, <2>1 DEF Fetches
  <2>7. FetchOK'
    BY <1>1, <2>5, <2>6 DEF IInv, FetchOK
  <2>8. TypeOK'
    BY <1>1, <1>2, <2>6, <2>7, Within DEF IInv, TypeOK, NoFetch
  <2>9. StepOK'
    BY <1>2, <2>6, SameProvider, StepOrder DEF StepOK
  <2>10. OnePage' /\ OnePairing' /\ NothingLost' /\ UnmodifiedIsCurrent'
    BY <1>1, <1>2, <2>6 DEF IInv, OnePage, OnePairing, NothingLost, UnmodifiedIsCurrent
  <2>11. NothingMissed' /\ NothingWritten' /\ ListedIsNeverMissing' /\ Separate'
    BY <1>1, <1>2, <2>6
       DEF IInv, NothingMissed, NothingWritten, ListedIsNeverMissing, Separate
  <2>12. WrittenSoFar'
    <3>1. Len(Writes) \in Nat /\ Writes' = Writes
      BY <1>2, EveryTeamIsWritten, SameProvider
    <3>2. fetch'.table = t
      BY <1>1, <2>1 DEF Fetches
    <3> QED
      BY <1>1, <2>6, <3>1, <3>2 DEF WrittenSoFar
  <2>13. Agreed'
    BY <2>6 DEF Agreed
  <2> QED
    BY <1>2, <2>7, <2>8, <2>9, <2>10, <2>11, <2>12, <2>13 DEF IInv
<1> QED
  BY <1>3, <1>4

(* The next write is done, and it undoes none before it.                    *)
LEMMA WriteKeeps ==
    ASSUME IInv, fetch.step = "write", fetch.written < Len(Writes),
           fetch' = [fetch EXCEPT !.written = fetch.written + 1],
           UNCHANGED <<Rest, events>>,
           mapping' \in [TeamIds -> Participants \cup {Nobody}], Separate',
           members' \in [Jobs1 \cup Jobs2 -> SUBSET Participants],
           \A x \in TeamIds : mapping[x] = fetch.table[x] => mapping'[x] = fetch.table[x],
           members[job] \subseteq members'[job],
           Listed(Writes[fetch.written + 1].team) =>
           IF Writes[fetch.written + 1].kind = "mapping"
           THEN mapping'[Writes[fetch.written + 1].team]
                    = fetch.table[Writes[fetch.written + 1].team]
           ELSE fetch.table[Writes[fetch.written + 1].team] \in members'[job]
    PROVE  IInv'
<1> USE DEF Rest
<1>1. fetch \in Fetches /\ fetch.written \in Nat
  BY DEF IInv, FetchOK, Fetches
<1> DEFINE w == fetch.written + 1
<1>2. w \in Nat /\ fetch' = [fetch EXCEPT !.written = w]
  BY <1>1
<1>3. /\ fetch'.step = "write" /\ fetch'.attempt = fetch.attempt
      /\ fetch'.redirects = fetch.redirects
      /\ fetch'.read = fetch.read /\ fetch'.pages = fetch.pages
      /\ fetch'.batch = fetch.batch /\ fetch'.always = fetch.always
      /\ fetch'.missed = fetch.missed /\ fetch'.written = fetch.written + 1
      /\ fetch'.table = fetch.table
  BY <1>1 DEF Fetches
<1>4. FetchOK'
  <2> HIDE DEF w
  <2>1. [fetch EXCEPT !.written = w] \in Fetches
    BY <1>1, <1>2 DEF Fetches
  <2> QED
    BY <1>2, <1>3, <2>1 DEF IInv, FetchOK
<1>5. HeldOK'
  BY DEF IInv, HeldOK
<1>6. TypeOK'
  BY <1>3, <1>4, <1>5, Within DEF IInv, TypeOK, NoFetch
<1>7. StepOK'
  BY <1>3, SameProvider DEF IInv, StepOK
<1>8. OnePage' /\ OnePairing' /\ NothingLost' /\ UnmodifiedIsCurrent'
  BY <1>3 DEF IInv, OnePage, OnePairing, NothingLost, UnmodifiedIsCurrent
<1>9. NothingMissed' /\ NothingWritten' /\ ListedIsNeverMissing'
  BY <1>3 DEF IInv, NothingMissed, NothingWritten, ListedIsNeverMissing
<1>10. WrittenSoFar'
  <2>1. Writes' = Writes /\ Len(Writes) \in Nat
    BY EveryTeamIsWritten, SameProvider
  <2>2. fetch'.written \in 0..Len(Writes)
    BY <1>1, <1>3, <2>1
  <2>3. ASSUME NEW i \in 1..fetch'.written PROVE Done(Writes[i])'
    <3>1. CASE i = fetch.written + 1
      BY <1>3, <2>1, <3>1 DEF Done, Listed
    <3>2. CASE i # fetch.written + 1
      <4>1. i \in 1..fetch.written
        BY <1>1, <1>3, <2>3, <3>2
      <4>2. Done(Writes[i]) /\ i \in 1..Len(Writes)
        BY <1>1, <2>1, <4>1 DEF IInv, WrittenSoFar
      <4>3. Writes[i].team \in TeamIds
        BY <4>2, EveryTeamIsWritten
      <4> QED
        BY <1>3, <2>1, <4>2, <4>3 DEF Done, Listed
    <3> QED
      BY <3>1, <3>2
  <2> QED
    BY <1>3, <2>1, <2>2, <2>3 DEF IInv, WrittenSoFar
<1>11. Agreed'
  BY <1>3 DEF Agreed
<1> QED
  BY <1>4, <1>5, <1>6, <1>7, <1>8, <1>9, <1>10, <1>11 DEF IInv

LEMMA PassOverKeeps == ASSUME IInv, PassOver PROVE IInv'
<1>1. /\ fetch.step = "write" /\ fetch.written < Len(Writes)
      /\ fetch' = [fetch EXCEPT !.written = fetch.written + 1]
      /\ ~Listed(Writes[fetch.written + 1].team)
      /\ UNCHANGED <<Rest, mapping, members, events>>
  BY DEF PassOver, KeepTables
<1>2. /\ mapping' \in [TeamIds -> Participants \cup {Nobody}] /\ Separate'
      /\ members' \in [Jobs1 \cup Jobs2 -> SUBSET Participants]
  BY <1>1 DEF IInv, TypeOK, Separate
<1>3. /\ \A x \in TeamIds : mapping[x] = fetch.table[x] => mapping'[x] = fetch.table[x]
      /\ members[job] \subseteq members'[job]
      /\ UNCHANGED <<Rest, events>>
  BY <1>1
<1> QED
  BY <1>1, <1>2, <1>3, WriteKeeps

LEMMA WriteMappingKeeps == ASSUME IInv, WriteMapping PROVE IInv'
<1>1. /\ fetch.step = "write" /\ fetch.written < Len(Writes) /\ fetch.step # NoFetch
      /\ UNCHANGED <<Rest, members, events>> /\ fetch.written \in Nat
      /\ fetch.table \in [TeamIds -> Participants \cup {Nobody}]
      /\ mapping \in [TeamIds -> Participants \cup {Nobody}]
      /\ members \in [Jobs1 \cup Jobs2 -> SUBSET Participants]
  BY DEF IInv, WriteMapping, NoFetch, FetchOK, Fetches, TypeOK
<1>2. HeldOK'
  BY <1>1 DEF IInv, HeldOK, Rest
<1> DEFINE write == Writes[fetch.written + 1]
           x == write.team
           p == fetch.table[x]
<1>3. write.kind = "mapping" /\ UpsertMapping(x, p)
  BY DEF WriteMapping
<1>4. x \in TeamIds
  BY <1>1, EveryTeamIsWritten
<1>5. CASE Refused /\ UNCHANGED mapping
  BY <1>1, <1>2, <1>5, RefusedKeeps DEF Rest
<1>6. CASE ~Conflicts(x, p)
  <2>1. /\ mapping' = [mapping EXCEPT ![x] = p]
        /\ fetch' = [fetch EXCEPT !.written = fetch.written + 1]
    BY <1>3, <1>6 DEF UpsertMapping
  <2>2. /\ mapping[x] \in {Nobody, p}
        /\ \A y \in TeamIds : y # x => mapping[y] # p
    BY <1>6 DEF Conflicts
  <2> HIDE DEF x, p
  <2>3. p \in Participants \cup {Nobody}
    BY <1>1, <1>4 DEF p
  <2>4. mapping'[x] = p /\ \A y \in TeamIds : y # x => mapping'[y] = mapping[y]
    BY <1>1, <1>4, <2>1
  <2>5. mapping' \in [TeamIds -> Participants \cup {Nobody}]
    BY <1>1, <2>1, <2>3
  <2>6. Separate'
    BY <2>2, <2>4 DEF IInv, Separate
  <2>7. \A y \in TeamIds : mapping[y] = fetch.table[y] => mapping'[y] = fetch.table[y]
    BY <2>4 DEF p
  <2>8. mapping'[Writes[fetch.written + 1].team]
            = fetch.table[Writes[fetch.written + 1].team]
    BY <2>4 DEF x, p
  <2> QED
    BY <1>1, <1>3, <2>1, <2>5, <2>6, <2>7, <2>8, WriteKeeps
<1> QED
  BY <1>3, <1>5, <1>6 DEF UpsertMapping

LEMMA WriteMemberKeeps == ASSUME IInv, WriteMember PROVE IInv'
<1>1. /\ fetch.step = "write" /\ fetch.written < Len(Writes)
      /\ UNCHANGED <<Rest, mapping, events>> /\ fetch.written \in Nat
      /\ fetch' = [fetch EXCEPT !.written = fetch.written + 1]
      /\ fetch.table \in [TeamIds -> Participants \cup {Nobody}]
      /\ mapping \in [TeamIds -> Participants \cup {Nobody}]
      /\ members \in [Jobs1 \cup Jobs2 -> SUBSET Participants]
      /\ job \in Jobs1 \cup Jobs2
  BY DEF IInv, WriteMember, NoFetch, FetchOK, Fetches, TypeOK, Idle, SourceJobs
<1> DEFINE write == Writes[fetch.written + 1]
           x == write.team
           p == fetch.table[x]
<1>2. /\ write.kind = "member"
      /\ members' = [members EXCEPT ![job] = @ \cup {p}]
  BY DEF WriteMember
<1>3. x \in TeamIds
  BY <1>1, EveryTeamIsWritten
<1>4. p \in Participants
  BY <1>1, <1>3 DEF WriteMember, Listed
<1> HIDE DEF p
<1>5. /\ members' \in [Jobs1 \cup Jobs2 -> SUBSET Participants]
      /\ members[job] \subseteq members'[job] /\ p \in members'[job]
  BY <1>1, <1>2, <1>4
<1>6. mapping' \in [TeamIds -> Participants \cup {Nobody}] /\ Separate'
      /\ \A y \in TeamIds : mapping[y] = fetch.table[y] => mapping'[y] = fetch.table[y]
  BY <1>1 DEF IInv, Separate
<1>7. fetch.table[Writes[fetch.written + 1].team] \in members'[job]
      /\ Writes[fetch.written + 1].kind # "mapping" /\ UNCHANGED <<Rest, events>>
  BY <1>1, <1>2, <1>5 DEF p
<1> QED
  BY <1>1, <1>5, <1>6, <1>7, WriteKeeps

(* All is written: every team has its mapping and its membership.           *)
LEMMA WrittenKeeps == ASSUME IInv, Written PROVE IInv'
<1>1. /\ fetch.step = "write" /\ fetch \in Fetches /\ fetch.step # NoFetch
      /\ fetch.written = Len(Writes) /\ KeepTables /\ fetch.pages = 0
      /\ fetch' = [fetch EXCEPT !.step = After("write")]
  BY DEF IInv, Written, NoFetch, FetchOK
<1>2. HeldOK' /\ UNCHANGED <<provider, reviewed, job, mapping, members, events>>
  BY <1>1 DEF IInv, HeldOK, KeepTables, Rest
<1> DEFINE s == After("write")
<1>3. /\ s \in AllSteps /\ s \in Range(Steps)
      /\ provider = "api_football" => s = "matches"
      /\ provider # "api_football" => s = "import"
  BY StepOrder DEF AllSteps
<1> HIDE DEF s
<1>4. fetch' = [fetch EXCEPT !.step = s] /\ fetch' \in Fetches
  <2>1. fetch' = [fetch EXCEPT !.step = s]
    BY <1>1 DEF s
  <2>2. [fetch EXCEPT !.step = s] \in Fetches
    BY <1>1, <1>3 DEF Fetches
  <2> QED
    BY <2>1, <2>2
<1>5. /\ fetch'.step = s /\ fetch'.attempt = fetch.attempt
      /\ fetch'.redirects = fetch.redirects
      /\ fetch'.read = fetch.read /\ fetch'.pages = fetch.pages
      /\ fetch'.batch = fetch.batch /\ fetch'.always = fetch.always
      /\ fetch'.missed = fetch.missed /\ fetch'.written = fetch.written
      /\ fetch'.table = fetch.table
  BY <1>1, <1>4 DEF Fetches
<1>6. FetchOK'
  BY <1>1, <1>4, <1>5 DEF IInv, FetchOK
<1>7. TypeOK'
  BY <1>1, <1>2, <1>3, <1>5, <1>6, Within DEF IInv, TypeOK, NoFetch
<1>8. StepOK'
  BY <1>2, <1>3, <1>5, SameProvider DEF StepOK
<1>9. OnePage' /\ OnePairing'
  <2>1. Range(fetch.read) = {}
    BY <1>1 DEF IInv, FetchOK, Range
  <2> QED
    BY <1>1, <1>2, <1>5, <2>1 DEF OnePage, OnePairing
<1>10. NothingLost' /\ UnmodifiedIsCurrent'
  BY <1>1, <1>2, <1>3, <1>5 DEF IInv, NothingLost, UnmodifiedIsCurrent
<1>11. NothingMissed' /\ NothingWritten' /\ ListedIsNeverMissing' /\ Separate'
  BY <1>1, <1>2, <1>3, <1>5
     DEF IInv, NothingMissed, NothingWritten, ListedIsNeverMissing, Separate
<1>12. WrittenSoFar'
  BY <1>3, <1>5 DEF WrittenSoFar
<1>13. Agreed'
  <2>1. ASSUME NEW x \in TeamIds, Listed(x)
        PROVE  mapping[x] = fetch.table[x] /\ fetch.table[x] \in members[job]
    <3>1. \A i \in 1..Len(Writes) : Done(Writes[i])
      BY <1>1 DEF IInv, WrittenSoFar
    <3>2. PICK i \in 1..Len(Writes) : Writes[i].kind = "mapping" /\ Writes[i].team = x
      BY EveryTeamIsWritten
    <3>3. PICK k \in 1..Len(Writes) : Writes[k].kind = "member" /\ Writes[k].team = x
      BY EveryTeamIsWritten
    <3> QED
      BY <2>1, <3>1, <3>2, <3>3 DEF Done
  <2> QED
    BY <1>2, <1>5, <2>1 DEF Agreed, Listed
<1> QED
  BY <1>2, <1>6, <1>7, <1>8, <1>9, <1>10, <1>11, <1>12, <1>13 DEF IInv

-----------------------------------------------------------------------------
(* Only football-data.org's and API-Football's batches are evidence.        *)
LEMMA Evidence ==
    RemovalEligible => provider \in {"api_football", "football_data"}
<1>1. CASE provider = "openligadb"
  BY <1>1 DEF RemovalEligible, RemovalSupported, Scope, OpenLigaDBScope, Partial
<1>2. CASE provider = "oefb_ical"
  BY <1>2 DEF RemovalEligible, RemovalSupported, Scope, OefbScope, Partial
<1>3. CASE provider \notin {"api_football", "football_data", "openligadb", "oefb_ical"}
  BY <1>3 DEF RemovalEligible, RemovalSupported, Scope, NflverseScope, Partial
<1> QED
  BY <1>1, <1>2, <1>3

LEMMA ImportFixturesKeeps == ASSUME IInv, ImportFixtures PROVE IInv'
<1>1. /\ fetch.step = "import" /\ fetch \in Fetches /\ fetch.step # NoFetch
      /\ UNCHANGED <<Rest, mapping, members>> /\ fetch.pages = 0
      /\ fetch.batch \subseteq Matches
      /\ events \in [Jobs1 \cup Jobs2 -> SUBSET Matches] /\ job \in Jobs1 \cup Jobs2
  BY DEF IInv, ImportFixtures, NoFetch, FetchOK, Fetches, TypeOK, Idle, SourceJobs
<1>2. HeldOK' /\ UNCHANGED <<provider, reviewed, job, mapping, members>>
  BY <1>1 DEF IInv, HeldOK, Rest
<1>3. CASE Refused /\ UNCHANGED events
  BY <1>1, <1>2, <1>3, RefusedKeeps
<1>4. CASE ~(Refused /\ UNCHANGED events)
  <2> DEFINE m == IF RemovalEligible THEN events[job] \ fetch.batch ELSE {}
             s == "imported"
  <2>1. /\ fetch' = [fetch EXCEPT !.step = s, !.missed = m]
        /\ events' = [events EXCEPT ![job] = @ \cup fetch.batch]
    BY <1>4 DEF ImportFixtures
  <2>2. m \in SUBSET Matches /\ s \in AllSteps /\ s = "imported"
    BY <1>1 DEF AllSteps
  <2>3. provider # "api_football" => m \cap fetch.always = {}
    <3>1. provider = "football_data" => fetch.always \subseteq fetch.batch
      BY <1>1 DEF IInv, NothingLost
    <3> QED
      BY <3>1, Evidence
  <2> HIDE DEF m, s
  <2>4. fetch' \in Fetches
    <3>1. [fetch EXCEPT !.step = s, !.missed = m] \in Fetches
      BY <1>1, <2>2 DEF Fetches
    <3> QED
      BY <2>1, <3>1
  <2>5. /\ fetch'.step = "imported" /\ fetch'.attempt = fetch.attempt
        /\ fetch'.redirects = fetch.redirects
        /\ fetch'.read = fetch.read /\ fetch'.pages = fetch.pages
        /\ fetch'.batch = fetch.batch /\ fetch'.always = fetch.always
        /\ fetch'.missed = m
    BY <1>1, <2>1, <2>2 DEF Fetches
  <2>6. FetchOK'
    BY <1>1, <2>4, <2>5 DEF IInv, FetchOK
  <2>7. events' \in [Jobs1 \cup Jobs2 -> SUBSET Matches]
    BY <1>1, <2>1
  <2>8. TypeOK'
    BY <1>1, <1>2, <2>5, <2>6, <2>7, Within DEF IInv, TypeOK, NoFetch
  <2>9. StepOK' /\ OnePage' /\ OnePairing' /\ NothingLost' /\ UnmodifiedIsCurrent'
    BY <2>5 DEF StepOK, OnePage, OnePairing, NothingLost, UnmodifiedIsCurrent
  <2>10. NothingMissed' /\ NothingWritten' /\ WrittenSoFar' /\ Agreed'
    BY <2>5 DEF NothingMissed, NothingWritten, WrittenSoFar, Agreed
  <2>11. ListedIsNeverMissing' /\ Separate'
    BY <1>2, <2>3, <2>5 DEF IInv, ListedIsNeverMissing, Separate
  <2> QED
    BY <1>2, <2>6, <2>8, <2>9, <2>10, <2>11 DEF IInv
<1> QED
  BY <1>3, <1>4

-----------------------------------------------------------------------------
LEMMA InitialStates == ASSUME Init PROVE IInv
<1>1. /\ fetch.step = NoFetch /\ fetch.attempt = 1 /\ fetch.redirects = 0
      /\ fetch.read = <<>> /\ fetch.pages = 0 /\ fetch.batch = {}
      /\ fetch.always = {} /\ fetch.missed = {}
  BY DEF Init, NoImport, NewFetch
<1>2. fetch \in Fetches
  <2>3. NoFetch \in AllSteps
    BY DEF AllSteps
  <2>4. NewFetch \in Fetches
    BY NewFetchShape
  <2> QED
    BY <2>3, <2>4, StepShape DEF Init, NoImport
<1>3. FetchOK /\ StepOK
  BY <1>1, <1>2, ProviderAssumption DEF FetchOK, StepOK
<1>4. HeldOK
  BY DEF Init, NothingHeld, HeldOK
<1>5. TypeOK
  <2>1. fetch.attempt \in 1..(MaxAttempts + MaxRedirects)
    BY <1>1, ProviderAssumption
  <2>2. job = NoFetch <=> Idle
    BY <1>1 DEF Init, Idle
  <2>3. /\ mapping \in [TeamIds -> Participants \cup {Nobody}]
        /\ members \in [Jobs1 \cup Jobs2 -> SUBSET Participants]
        /\ events \in [Jobs1 \cup Jobs2 -> SUBSET Matches]
    BY DEF Init
  <2>4. held.snapshot \subseteq Matches /\ held.listings \subseteq SUBSET Matches
    BY <1>4 DEF HeldOK
  <2> QED
    BY <1>1, <2>1, <2>2, <2>3, <2>4 DEF TypeOK, Init
<1>6. OnePage /\ OnePairing /\ UnmodifiedIsCurrent /\ NothingLost /\ NothingMissed
  BY <1>1 DEF OnePage, OnePairing, UnmodifiedIsCurrent, NothingLost, NothingMissed, NoFetch
<1>7. ListedIsNeverMissing /\ NothingWritten /\ WrittenSoFar /\ Agreed
  BY <1>1 DEF ListedIsNeverMissing, NothingWritten, WrittenSoFar, Agreed, NoFetch
<1>8. Separate
  BY DEF Init, Separate
<1> QED
  BY <1>3, <1>4, <1>5, <1>6, <1>7, <1>8 DEF IInv

LEMMA StepsKeep == ASSUME IInv, [Next]_vars PROVE IInv'
<1>1. ASSUME NEW j \in SourceJobs, Begin(j) PROVE IInv'
  <2>0. Refused \/ fetch' = NewFetch
    BY <1>1 DEF Begin
  <2>1. /\ Refused \/ fetch' = [NewFetch EXCEPT !.step = Steps[1]]
        /\ job' = j /\ j # NoFetch /\ Steps[1] # NoFetch
    <3>1. NewFetch = [NewFetch EXCEPT !.step = Steps[1]]
      <4> DEFINE new == NewFetch
      <4>1. new \in Fetches /\ new.step = Steps[1]
        BY NewFetchShape
      <4> HIDE DEF new
      <4>2. new = [new EXCEPT !.step = new.step]
        BY <4>1 DEF Fetches
      <4> QED
        BY <4>1, <4>2, Zenon DEF new
    <3>2. j # NoFetch
      BY JobAssumption DEF SourceJobs
    <3>3. Steps[1] # NoFetch
      BY StepOrder DEF NoFetch
    <3> QED
      BY <1>1, <2>0, <3>1, <3>2, <3>3 DEF Begin
  <2>2. HeldOK' /\ reviewed' \in Reviews
    BY <1>1 DEF IInv, Begin, HeldOK, TypeOK
  <2> QED
    BY <1>1, <2>1, <2>2, Fresh DEF Begin, Refused, NoFetch
<1>2. CASE End
  <2>1. HeldOK' /\ reviewed' \in Reviews
    BY <1>2 DEF IInv, End, HeldOK, TypeOK
  <2> QED
    BY <1>2, <2>1, Fresh DEF End, NoImport
<1>3. CASE Restart
  <2>1. HeldOK'
    BY <1>3 DEF Restart, HeldOK, NothingHeld
  <2> QED
    BY <1>3, <2>1, Fresh DEF Restart, NoImport
<1>4. CASE (\E answer \in Answers : RequestRefused(answer)) \/ DatabaseRefuses
  <2>1. fetch.step # NoFetch /\ Refused /\ KeepTables
    BY <1>4 DEF RequestRefused, Requesting, DatabaseRefuses, NoFetch
  <2>2. HeldOK'
    BY <2>1 DEF IInv, HeldOK, KeepTables, Rest
  <2> QED
    BY <2>1, <2>2, RefusedKeeps DEF KeepTables, Rest
<1>5. CASE UNCHANGED vars
  <2>1. UNCHANGED <<provider, reviewed, mapping, members, events, job, fetch, held>>
    BY <1>5 DEF vars
  <2>2. TypeOK' /\ FetchOK' /\ HeldOK' /\ StepOK'
    BY <2>1, SameProvider DEF IInv, TypeOK, FetchOK, HeldOK, StepOK, Idle
  <2>3. OnePage' /\ OnePairing' /\ UnmodifiedIsCurrent' /\ NothingLost' /\ NothingMissed'
    BY <2>1 DEF IInv, OnePage, OnePairing, UnmodifiedIsCurrent, NothingLost, NothingMissed
  <2>4. ListedIsNeverMissing' /\ Separate' /\ NothingWritten' /\ Agreed'
    BY <2>1 DEF IInv, ListedIsNeverMissing, Separate, NothingWritten, Agreed, Listed
  <2>5. WrittenSoFar'
    BY <2>1, SameProvider DEF IInv, WrittenSoFar, Done, Listed
  <2> QED
    BY <2>2, <2>3, <2>4, <2>5 DEF IInv
<1> QED
  BY <1>1, <1>2, <1>3, <1>4, <1>5, RequestFailsKeeps, ReadTeamsKeeps, ReadMatchesKeeps,
     NotModifiedKeeps, ParsedMatchesKeeps, MapCatalogKeeps, PassOverKeeps,
     WriteMappingKeeps, WriteMemberKeeps, WrittenKeeps, ImportFixturesKeeps
     DEF Next

(* A step keeps every mapping, and never gives a participant to two IDs.    *)
LEMMA MappingStep ==
    ASSUME IInv, IInv', [Next]_vars
    PROVE  /\ \A x \in TeamIds : mapping[x] # Nobody => mapping'[x] = mapping[x]
           /\ \A x, y \in TeamIds :
                x # y /\ mapping'[x] # Nobody => mapping'[x] # mapping'[y]
<1>1. Separate'
  BY DEF IInv
<1>2. CASE WriteMapping
  <2> DEFINE write == Writes[fetch.written + 1]
             x == write.team
             p == fetch.table[x]
  <2>1. UpsertMapping(x, p)
    BY <1>2 DEF WriteMapping
  <2>2. mapping \in [TeamIds -> Participants \cup {Nobody}]
    BY DEF IInv, TypeOK
  <2> HIDE DEF x, p
  <2>3. \A y \in TeamIds : mapping[y] # Nobody => mapping'[y] = mapping[y]
    BY <2>1, <2>2 DEF UpsertMapping, Conflicts
  <2> QED
    BY <1>1, <2>3 DEF Separate
<1>3. CASE ~WriteMapping
  <2>1. UNCHANGED mapping
    BY <1>3 DEF Next, Begin, RequestFails, RequestRefused, NflverseRedirected, OefbRedirected, ReadTeams,
       ReadMatches, NotModified, ParsedMatches, MapCatalog, PassOver, WriteMember, Written,
       ImportFixtures, DatabaseRefuses, End, Restart, KeepTables, vars
  <2> QED
    BY <1>1, <2>1 DEF Separate
<1> QED
  BY <1>2, <1>3

-----------------------------------------------------------------------------
(* The invariant the properties follow from: what the listing at every      *)
(* request, the pages read and the rows written so far have in common.       *)
THEOREM Inductive == Spec => []IInv
<1>1. Init => IInv
  BY InitialStates
<1>2. IInv /\ [Next]_vars => IInv'
  BY StepsKeep
<1> QED
  BY <1>1, <1>2, PTL DEF Spec

(* The variables keep their types, for any number of attempts and pages.    *)
THEOREM TypeCorrect == Spec => []TypeOK
<1>1. IInv => TypeOK
  BY DEF IInv
<1> QED
  BY Inductive, <1>1, PTL

(* A fixture is imported with the mapped participants of its teams, all of  *)
(* them members of the season, whatever broke off before.                    *)
THEOREM TeamsAgree == Spec => []FixturesAgree
<1>1. IInv => FixturesAgree
  BY DEF IInv, Agreed, FixturesAgree
<1> QED
  BY Inductive, <1>1, PTL

(* What a 304 stands for is what the feed holds.                            *)
THEOREM SnapshotIsCurrent == Spec => []UnmodifiedIsCurrent
<1>1. IInv => UnmodifiedIsCurrent
  BY DEF IInv
<1> QED
  BY Inductive, <1>1, PTL

(* Whatever the provider changes between two pages, no match that it listed *)
(* at every request is taken for a missing one.                              *)
THEOREM PagesLoseNothing == Spec => []ListedIsNeverMissing
<1>1. IInv => ListedIsNeverMissing
  BY DEF IInv
<1> QED
  BY Inductive, <1>1, PTL

(* A team ID never changes its participant and shares it with no other.     *)
THEOREM MappingsStand == Spec => IdentitiesStand
<1>1. IInv /\ IInv' /\ [Next]_vars =>
        [/\ \A x \in TeamIds : mapping[x] # Nobody => mapping'[x] = mapping[x]
         /\ \A x, y \in TeamIds :
                x # y /\ mapping'[x] # Nobody => mapping'[x] # mapping'[y]]_vars
  BY MappingStep
<1> QED
  BY Inductive, <1>1, PTL DEF Spec, IdentitiesStand

=============================================================================
