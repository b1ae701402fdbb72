---------------------------- MODULE FixtureImport ----------------------------
(***************************************************************************)
(* The import of provider observations into one competition season         *)
(* (app/database/fixture_import_repository.py), with the assignments that  *)
(* say which source may write which stages                                 *)
(* (app/database/source_assignments_repository.py).                        *)
(*                                                                         *)
(* One observation is one SQLite transaction: db is the committed          *)
(* database, work what the open transaction sees.  An event is identified  *)
(* by its event_key, the source and external ID that created it.           *)
(***************************************************************************)
EXTENDS Naturals, FiniteSets

CONSTANTS
    Sources,        \* data sources; a manual namespace counts as one
    Manual,         \* the manual namespaces
    Externals,      \* the external IDs of a source
    Pairs,          \* home and away participants
    Stages,         \* the stage and round of a fixture
    Kickoffs,       \* start times
    None,           \* SQL NULL, Python None
    Feed,           \* the fixtures each source can deliver
    Boundaries,     \* the complete stage and round scopes
    Windows,        \* the UTC windows of observations
    MaxTime         \* bound on observed_at_utc

(* A fixture as normalized: no pair while a participant is unresolved, no   *)
(* kickoff while it is unconfirmed.                                         *)
FixtureRecords == [
    external: Externals, pair: Pairs \cup {None},
    stage: Stages \cup {None}, kickoff: Kickoffs \cup {None}]

ASSUME ManualAssumption == Manual \subseteq Sources
ASSUME NoneAssumption == None \notin Pairs \cup Stages \cup Kickoffs
ASSUME FeedAssumption == Feed \in [Sources -> SUBSET FixtureRecords]
ASSUME ScopeAssumption ==
    /\ Boundaries \subseteq SUBSET Stages
    /\ Windows \subseteq SUBSET Kickoffs
    /\ MaxTime \in Nat \ {0}

VARIABLES
    db,         \* the committed database
    work,       \* the database as the open transaction sees it
    tx,         \* the observation in progress, or None
    authority,  \* source_assignments: the stages each source may write
    last        \* history: the observation committed since the last assignment

vars == <<db, work, tx, authority, last>>

-----------------------------------------------------------------------------

EventIds == Sources \X Externals

\* stages_json NULL grants the whole season, events without a stage included.
Season == Stages \cup {None}
Grants == (SUBSET Stages) \cup {Season}

Events == [pair: Pairs, stage: Season, start: Kickoffs, deleted: BOOLEAN]

\* A row of fixture_reconciliation_state: missing_observation_count and
\* last_missing_at.  last_observation_id is left out: it is a hash that includes
\* the time, so that observations of one ID have one time.
Candidacies == [count: Nat, at: 1..MaxTime]

(* sports_events, source_mappings and fixture_reconciliation_state, and as  *)
(* history the times of the complete observations that lacked an event      *)
(* since the source last delivered it.                                      *)
Databases == [
    event: [EventIds -> Events \cup {None}],
    mapping: [Sources -> [Externals -> EventIds \cup {None}]],
    missing: [Sources -> [EventIds -> Candidacies \cup {None}]],
    absent: [Sources -> [EventIds -> SUBSET (1..MaxTime)]]]

Observations == [
    source: Sources, fixtures: SUBSET FixtureRecords,
    boundary: Boundaries \cup {Season, None}, window: SUBSET Kickoffs,
    at: 1..MaxTime]

Transactions == [
    observation: Observations, todo: SUBSET FixtureRecords,
    seen: SUBSET EventIds]

ASSUME RowAssumption ==
    None \notin EventIds \cup Events \cup Candidacies \cup Observations \cup Transactions

TypeOK ==
    /\ db \in Databases
    /\ work \in Databases
    /\ tx \in Transactions \cup {None}
    /\ authority \in [Sources -> Grants]
    /\ last \in Observations \cup {None}

EmptyDatabase == [
    event |-> [e \in EventIds |-> None],
    mapping |-> [s \in Sources |-> [x \in Externals |-> None]],
    missing |-> [s \in Sources |-> [e \in EventIds |-> None]],
    absent |-> [s \in Sources |-> [e \in EventIds |-> {}]]]

Init ==
    /\ db = EmptyDatabase
    /\ work = EmptyDatabase
    /\ tx = None
    /\ authority = [s \in Sources |-> {}]
    /\ last = None

-----------------------------------------------------------------------------
(* Assignments: SourceAssignmentsRepository.write_connection, and the       *)
(* triggers that refuse overlapping authoritative writers.                  *)

\* The events a source has mapped.
MappedBy(d, s) == {d.mapping[s][x] : x \in Externals} \ {None}

\* Mutant: a narrower grant is written whatever the source has mapped.
GrantableUnchecked(s, stages) ==
    \A t \in Sources \ {s} : authority[t] \cap stages = {}

Grantable(s, stages) ==
    /\ \A t \in Sources \ {s} : authority[t] \cap stages = {}
    /\ \/ stages \in {{}, Season}
       \/ \A e \in MappedBy(db, s) : db.event[e].stage \in stages

\* A source is granted, denied or moved; a manual grant always names stages.
Assign(s, stages) ==
    /\ tx = None
    /\ authority[s] # stages
    /\ s \in Manual => stages # Season
    /\ Grantable(s, stages)
    /\ authority' = [authority EXCEPT ![s] = stages]
    /\ last' = None
    /\ UNCHANGED <<db, work, tx>>

-----------------------------------------------------------------------------
(* Opening the transaction: the validation of the observation in the import *)
(* service, and the authority checks of import_in_transaction.              *)

Source == tx.observation.source
Boundary == tx.observation.boundary
Window == tx.observation.window
ObservedAt == tx.observation.at

\* Every fixture lies in the granted stages, and so does a scope that may
\* remove; a complete season needs the grant of the season.
Authorized(o) ==
    /\ authority[o.source] # {}
    /\ \A f \in o.fixtures : f.stage \in authority[o.source]
    /\ o.boundary # None => o.boundary \subseteq authority[o.source]

\* Boundary None is a scope that is partial, filtered or not authoritative.
Valid(o) ==
    /\ \A f, g \in o.fixtures : f.external = g.external => f = g
    /\ \A f \in o.fixtures : f.kickoff \in o.window \cup {None}
    /\ o.boundary \in Boundaries =>
          o.fixtures # {} /\ \A f \in o.fixtures : f.stage \in o.boundary
    /\ o.source \in Manual => o.boundary = None

Begin(o) ==
    /\ tx = None
    /\ Valid(o)
    /\ Authorized(o)
    /\ tx' = [observation |-> o, todo |-> o.fixtures, seen |-> {}]
    /\ UNCHANGED <<db, work, authority, last>>

-----------------------------------------------------------------------------
(* One fixture after the other: _import_fixture.                            *)

Mapped(f) == work.mapping[Source][f.external]

\* A mapped event outside the granted stages is a conflict for the whole
\* observation.
Turn(f) ==
    /\ tx # None
    /\ f \in tx.todo
    /\ Mapped(f) # None => work.event[Mapped(f)].stage \in authority[Source]

Done(f, delivered) ==
    /\ tx' = [tx EXCEPT !.todo = @ \ {f}, !.seen = @ \cup delivered]
    /\ UNCHANGED <<db, authority, last>>

\* A participant is unresolved: nothing is written, but a mapped event counts
\* as observed.
DeferUnresolved(f) ==
    /\ Turn(f)
    /\ f.pair = None
    /\ Done(f, {Mapped(f)} \ {None})
    /\ UNCHANGED work

\* The events of the season with the same home and away participants.
CrossSource(f) ==
    IF Source \in Manual THEN {}
    ELSE {e \in EventIds : work.event[e] # None /\ work.event[e].pair = f.pair}

DeferUnscheduled(f) ==
    /\ Turn(f)
    /\ f.pair # None /\ Mapped(f) = None /\ CrossSource(f) = {}
    /\ f.kickoff = None
    /\ Done(f, {})
    /\ UNCHANGED work

\* The event_key must not be taken.
Create(f) ==
    LET e == <<Source, f.external>> IN
    /\ Turn(f)
    /\ f.pair # None /\ Mapped(f) = None /\ CrossSource(f) = {}
    /\ f.kickoff # None
    /\ work.event[e] = None
    /\ Done(f, {e})
    /\ work' = [work EXCEPT
          !.event[e] = [pair |-> f.pair, stage |-> f.stage,
                        start |-> f.kickoff, deleted |-> FALSE],
          !.mapping[Source][f.external] = e]

\* Absent values keep what is known; a delivered fixture is never deleted.
Target(row, f) == [
    pair |-> f.pair,
    stage |-> IF f.stage # None THEN f.stage ELSE row.stage,
    start |-> IF f.kickoff # None THEN f.kickoff ELSE row.start,
    deleted |-> FALSE]

\* Delivering an event, already mapped to the fixture or adopted for it,
\* clears the reconciliation state of this source only.
Deliver(f, e) ==
    /\ Done(f, {e})
    /\ work' = [work EXCEPT
          !.event[e] = Target(work.event[e], f),
          !.mapping[Source][f.external] = e,
          !.missing[Source][e] = None,
          !.absent[Source][e] = {}]

Update(f) ==
    /\ Turn(f)
    /\ f.pair # None /\ Mapped(f) # None
    /\ Deliver(f, Mapped(f))

\* Mutant: the source may already know the event by another external ID.
AdoptTwice(f) ==
    /\ Turn(f)
    /\ f.pair # None /\ Mapped(f) = None
    /\ \E e \in EventIds :
          /\ CrossSource(f) = {e}
          /\ work.event[e].stage \in authority[Source]
          /\ Deliver(f, e)

\* Mutant: the stage of an event of another source is not checked.
AdoptAnyStage(f) ==
    /\ Turn(f)
    /\ f.pair # None /\ Mapped(f) = None
    /\ \E e \in EventIds :
          /\ CrossSource(f) = {e}
          /\ e \notin MappedBy(work, Source)
          /\ Deliver(f, e)

\* The only event of the same participants is taken for the fixture, unless
\* it lies in another stage or the source knows it by another external ID.
Adopt(f) ==
    /\ Turn(f)
    /\ f.pair # None /\ Mapped(f) = None
    /\ \E e \in EventIds :
          /\ CrossSource(f) = {e}
          /\ work.event[e].stage \in authority[Source]
          /\ e \notin MappedBy(work, Source)
          /\ Deliver(f, e)

-----------------------------------------------------------------------------
(* The end of the transaction: _reconcile_missing and the commit.           *)

\* Events the complete scope covers and the observation lacks.
Missing(e) ==
    /\ e \in MappedBy(work, Source)
    /\ work.event[e].stage \in Boundary
    /\ work.event[e].start \in Window
    /\ e \notin tx.seen

\* Mutant: an observation counts again when it is replayed.
CountsReplayed(e) == Missing(e)

\* The same observation, and one that is not later than the last, add nothing.
Counts(e) ==
    /\ Missing(e)
    /\ LET state == work.missing[Source][e] IN
       state # None => state.at < ObservedAt

NewCount(e) ==
    IF work.missing[Source][e] = None THEN 1
    ELSE work.missing[Source][e].count + 1

\* Mutant: the first absence already removes the event.
RemovedAtOnce(e) == Counts(e) /\ NewCount(e) >= 1

Removed(e) == Counts(e) /\ NewCount(e) >= 2

Reconciled == [work EXCEPT
    !.event = [e \in EventIds |->
        IF Removed(e) THEN [work.event[e] EXCEPT !.deleted = TRUE]
                      ELSE work.event[e]],
    !.missing[Source] = [e \in EventIds |->
        IF Counts(e)
        THEN [count |-> NewCount(e), at |-> ObservedAt]
        ELSE work.missing[Source][e]],
    !.absent[Source] = [e \in EventIds |->
        IF Missing(e) THEN work.absent[Source][e] \cup {ObservedAt}
                      ELSE work.absent[Source][e]]]

Commit ==
    /\ tx # None
    /\ tx.todo = {}
    /\ db' = IF Boundary = None THEN work ELSE Reconciled
    /\ work' = db'
    /\ tx' = None
    /\ last' = tx.observation
    /\ UNCHANGED authority

\* A conflict, a failing write or the death of the process.
Rollback ==
    /\ tx # None
    /\ work' = db
    /\ tx' = None
    /\ UNCHANGED <<db, authority, last>>

ImportFixture(f) ==
    \/ DeferUnresolved(f)
    \/ DeferUnscheduled(f)
    \/ Create(f)
    \/ Update(f)
    \/ Adopt(f)

\* The observations a source can hand to the import service.  Where nothing
\* can be removed the time is not compared and the window only validates: the
\* first and the widest stand for all.
Observed(s, boundaries, windows, times) ==
    {o \in [source: {s}, fixtures: SUBSET Feed[s], boundary: boundaries,
            window: windows, at: times] : Valid(o)}

Observable == UNION {
    Observed(s, Boundaries \cup {Season}, Windows, 1..MaxTime)
        \cup Observed(s, {None}, {Kickoffs}, {1}) : s \in Sources}

Next ==
    \/ \E s \in Sources, stages \in Grants : Assign(s, stages)
    \/ \E o \in Observable : Begin(o)
    \/ \E f \in FixtureRecords : ImportFixture(f)
    \/ Commit
    \/ Rollback

Spec == Init /\ [][Next]_vars

-----------------------------------------------------------------------------

\* A source identifies an event by one external ID, and it is there.
MappingsAreExact == \A s \in Sources, x, y \in Externals :
    db.mapping[s][x] # None =>
        /\ db.event[db.mapping[s][x]] # None
        /\ db.mapping[s][x] = db.mapping[s][y] => x = y

\* Whatever is repeated, reordered or handed over between sources, an event is
\* deleted only while some source has two complete observations of different
\* times that cover it and lack it, both since that source last delivered it.
RemovalIsConfirmed == \A e \in EventIds :
    db.event[e] # None /\ db.event[e].deleted =>
        \E s \in Sources : \E t, u \in db.absent[s][e] : t < u

\* Stage grants and mappings stay consistent whoever writes an event in
\* between: the events a granted source has mapped lie in its stages, so a
\* mapping never turns into a conflict that blocks its imports.
GrantCoversMappings == \A s \in Sources :
    authority[s] # {} =>
        \A e \in MappedBy(db, s) : db.event[e].stage \in authority[s]

ChangesWithin(stages) == \A e \in EventIds : db'.event[e] # db.event[e] =>
    /\ db.event[e] # None => db.event[e].stage \in stages
    /\ db'.event[e] # None /\ db'.event[e].stage \in stages

\* A committed observation changes, adopts, moves and removes only events in
\* the stages granted to its source.
AuthorityIsKept == [][db' # db => tx # None /\ ChangesWithin(authority[Source])]_vars

SameRows == <<db.event, db.mapping, db.missing>>' =
            <<db.event, db.mapping, db.missing>>

ReplayIsIdle == tx # None /\ tx.observation = last => SameRows

\* Importing the observation that was just committed again writes nothing,
\* in whatever order its fixtures are taken.
ReplaysChangeNothing == [][ReplayIsIdle]_vars

-----------------------------------------------------------------------------

EmptyIsIdle == tx # None /\ tx.observation.fixtures = {} => SameRows

\* docs/api-football-fixture-import.md: "Partial, failed, filtered,
\* non-authoritative, empty, or scope-conflicting observations cannot create
\* removal candidates."
EmptyIsNoEvidence == [][EmptyIsIdle]_vars

=============================================================================
