--------------------------- MODULE SourceAuthority ---------------------------
(***************************************************************************)
(* Who may write which stages of one competition season: the assignments   *)
(* the application writes when it starts                                   *)
(* (app/database/source_assignments_repository.py and the triggers of      *)
(* migration 013), and the retirement of a finished scope                  *)
(* (app/application/scope_retirement_service.py, migration 015).           *)
(*                                                                         *)
(* The retirement tool runs while the application is stopped: both hold    *)
(* the lock of the instance.  A database transaction is one step.          *)
(***************************************************************************)
EXTENDS Naturals, FiniteSets

CONSTANTS
    Jobs,       \* job keys of SOURCE_JOBS_JSON
    Namespaces, \* manual namespaces; the job key of n is manual:n
    Source,     \* the data source of each job; a namespace is its own
    Rank,       \* the order of the jobs, and of the profile files
    Stages,     \* stage identifiers
    Settings,   \* the configurations an operator may start with
    Events,     \* fixtures
    Writer,     \* the source that maps each fixture
    Ends,       \* the days on which a fixture can end
    Decisions,  \* completion decisions: completed_at and grace_days
    None,       \* SQL NULL, Python None
    MaxDay      \* bound on the calendar

Owners == Jobs \cup Namespaces

\* stages_json NULL owns the season, fixtures without a stage included.
Season == Stages \cup {None}
Grants == ((SUBSET Stages) \ {{}}) \cup {Season}
Rows == [stages: Grants, enabled: BOOLEAN]

\* A fixture as the database has it; open is postponed, suspended, abandoned
\* or live, noticed by the operator, or not yet resolved.
Fixtures == [stage: Season, end: Ends, open: BOOLEAN]
PackageStates == {"none", "open", "approved", "applied", "rejected"}

ASSUME OwnerAssumption ==
    /\ Jobs \cap Namespaces = {}
    /\ \A n \in Namespaces : Source[n] = n /\ \A j \in Jobs : Source[j] # n
ASSUME RankAssumption ==
    /\ Rank \in [Owners -> Nat]
    /\ \A i, j \in Owners : Rank[i] = Rank[j] => i = j
ASSUME StageAssumption == None \notin Stages
ASSUME DayAssumption ==
    /\ Ends \subseteq Nat /\ MaxDay \in Nat
    /\ Decisions \subseteq [completed: Nat, grace: Nat]
\* What load_source_jobs can make of SOURCE_JOBS_JSON for the season, an enabled
\* job being an authoritative one; and the stages the profile files claim.
Configurations == [
    jobs: [Jobs -> Rows \cup {None}], profiles: [Namespaces -> SUBSET Stages]]

ASSUME SettingsAssumption == Settings \subseteq Configurations
ASSUME AbsentAssumption ==
    None \notin Settings \cup Decisions \cup Rows \cup Fixtures

VARIABLES
    phase,      \* what the application does, "stopped" while it does not run
    settings,   \* the configuration it was started with
    profiles,   \* the profile files it has not yet installed
    assignment, \* source_assignments, None without a row
    retired,    \* scope_retirements: the decision in force, None without
    event,      \* sports_events, None before the first delivery
    shown,      \* the fixtures whose calendar work is done
    package,    \* the latest import package of a namespace
    seen,       \* the retirement preview the operator has inspected
    today

processVars  == <<phase, settings, profiles>>
databaseVars == <<assignment, retired, event, shown, package>>
authorityVars == <<processVars, databaseVars, seen, today>>

-----------------------------------------------------------------------------

Active(o) == retired[o] # None
Boundary(o) == {e \in Events :
    event[e] # None /\ event[e].stage \in assignment[o].stages}

\* ScopeRetirementRepository.blocked: a retired scope overlaps the grant.
Blocked(o) == \E r \in Owners :
    /\ Active(r)
    /\ assignment[o] # None /\ assignment[r] # None
    /\ assignment[o].stages \cap assignment[r].stages # {}

-----------------------------------------------------------------------------
(* The start: SourceAssignmentsRepository.synchronize in one transaction,   *)
(* then ManualImportRepository.configure once for every profile.            *)

\* validate_source_jobs: one enabled job of a source, one of a stage.
Loadable(c) == \A i, j \in Jobs :
    (/\ i # j
     /\ c.jobs[i] # None /\ c.jobs[i].enabled
     /\ c.jobs[j] # None /\ c.jobs[j].enabled)
    => /\ Source[i] # Source[j]
       /\ c.jobs[i].stages \cap c.jobs[j].stages = {}

\* With any other configuration the process ends before it takes the lock.
Start(c) ==
    /\ phase = "stopped" /\ Loadable(c)
    /\ phase' = "assigning" /\ settings' = c
    /\ profiles' = {n \in Namespaces : c.profiles[n] # {}}
    /\ UNCHANGED <<databaseVars, seen, today>>

\* Mutant: only the jobs that are gone give up their grants beforehand.
ReleasedIfGone(c) == [j \in Jobs |->
    IF assignment[j] # None /\ c.jobs[j] = None
    THEN [assignment[j] EXCEPT !.enabled = FALSE] ELSE assignment[j]]

\* Every automatic row that is gone, disabled or changed gives up its grant
\* before any is written.
Released(c) == [j \in Jobs |->
    IF /\ assignment[j] # None
       /\ \/ c.jobs[j] = None
          \/ ~c.jobs[j].enabled
          \/ c.jobs[j].stages # assignment[j].stages
    THEN [assignment[j] EXCEPT !.enabled = FALSE] ELSE assignment[j]]

\* The table when the row of o is written: earlier rows are new.
TableBefore(c, o) == [p \in Owners |->
    IF p \in Namespaces THEN assignment[p]
    ELSE IF Rank[p] < Rank[o] /\ c.jobs[p] # None THEN c.jobs[p]
    ELSE Released(c)[p]]

\* Mutant: the trigger on updates is missing.
OverlapsOnInsert(table, o, row) ==
    /\ row.enabled /\ table[o] = None
    /\ \E p \in Owners \ {o} :
           table[p] # None /\ table[p].enabled /\ table[p].stages \cap row.stages # {}

\* trg_source_authority_insert and trg_source_authority_update.
Overlaps(table, o, row) ==
    /\ row.enabled
    /\ \E p \in Owners \ {o} :
           table[p] # None /\ table[p].enabled /\ table[p].stages \cap row.stages # {}

\* The grant leaves out a fixture that its source has mapped.
Exceeded(o, row) ==
    /\ row.enabled /\ row.stages # Season
    /\ \E e \in Events :
           Writer[e] = Source[o] /\ event[e] # None /\ event[e].stage \notin row.stages

\* uq_source_assignments_automatic_scope: one row of a source and season,
\* a disabled one included.
Taken(table, o) == table[o] = None /\ \E p \in Jobs \ {o} :
    table[p] # None /\ Source[p] = Source[o]

\* Mutant: the trigger compares only the stages.
ReservedStages(o, old, row) ==
    Active(o) /\ old # None /\ row # None /\ old.stages # row.stages

\* trg_retired_assignment_identity.
Reserved(o, old, row) == Active(o) /\ old # row

WriteRefused(table, o, row) ==
    \/ Overlaps(table, o, row)
    \/ Exceeded(o, row)
    \/ Taken(table, o)
    \/ Reserved(o, table[o], row)

Refused(c) == \E j \in Jobs :
    \/ Reserved(j, assignment[j], Released(c)[j])
    \/ c.jobs[j] # None /\ WriteRefused(TableBefore(c, j), j, c.jobs[j])

\* The fixtures whose writer a change of the table touches, which the revision
\* triggers hand to the calendar again.
Revised(table) == {e \in Events : \E o \in Owners :
    /\ event[e] # None /\ table[o] # assignment[o]
    /\ \E row \in {assignment[o], table[o]} \ {None} :
           row.enabled /\ event[e].stage \in row.stages}

Assign(table) ==
    /\ assignment' = table
    /\ shown' = shown \ Revised(table)

\* _persist_source_assignments.  Every source has its row of data_sources; the code
\* passes a disabled job of a source without one over, where a disabled row, which
\* grants nothing, is written here.
Synchronized(c) == [o \in Owners |->
    IF o \in Namespaces THEN assignment[o]
    ELSE IF c.jobs[o] # None THEN c.jobs[o]
    ELSE Released(c)[o]]

Synchronize ==
    /\ phase = "assigning" /\ ~Refused(settings)
    /\ Assign(Synchronized(settings))
    /\ phase' = "configuring"
    /\ UNCHANGED <<settings, profiles, retired, event, package, seen, today>>

Granted(n) == [stages |-> settings.profiles[n], enabled |-> TRUE]

Configure(n) ==
    /\ phase = "configuring"
    /\ n \in profiles /\ \A m \in profiles : Rank[n] <= Rank[m]
    /\ ~WriteRefused(assignment, n, Granted(n))
    /\ Assign([assignment EXCEPT ![n] = Granted(n)])
    /\ profiles' = profiles \ {n}
    /\ UNCHANGED <<phase, settings, retired, event, package, seen, today>>

Serve ==
    /\ phase = "configuring" /\ profiles = {}
    /\ phase' = "running"
    /\ UNCHANGED <<settings, profiles, databaseVars, seen, today>>

\* A signal, a crash or a refused write: the lock is free again.
Stop ==
    /\ phase # "stopped"
    /\ phase' = "stopped"
    /\ UNCHANGED <<settings, profiles, databaseVars, seen, today>>

-----------------------------------------------------------------------------
(* What the running application does to the season.                         *)

\* One fixture of an observation of source o, within its grant before and after.
Deliver(o, e, f) ==
    /\ Writer[e] = Source[o]
    /\ assignment[o] # None /\ assignment[o].enabled
    /\ f.stage \in assignment[o].stages
    /\ event[e] # None => event[e].stage \in assignment[o].stages
    /\ f # event[e]
    /\ event' = [event EXCEPT ![e] = f]
    /\ shown' = shown \ {e}

\* A scheduled source job behind its guard.
Import(j, e, f) ==
    /\ phase = "running"
    /\ settings.jobs[j] # None /\ settings.jobs[j].enabled
    /\ ~Blocked(j)
    /\ Deliver(j, e, f)
    /\ UNCHANGED <<processVars, assignment, retired, package, seen, today>>

\* The steps of a package; every one asks whether the scope is retired.
PackageStep(n, from, to) ==
    /\ phase = "running"
    /\ package[n] \in from /\ assignment[n] # None /\ ~Blocked(n)
    /\ package' = [package EXCEPT ![n] = to]
    /\ UNCHANGED <<processVars, assignment, retired, seen, today>>

Receive(n) ==
    PackageStep(n, {"none", "applied"}, "open") /\ UNCHANGED <<event, shown>>
Prepare(n) ==
    PackageStep(n, {"rejected", "approved"}, "open") /\ UNCHANGED <<event, shown>>
Approve(n) ==
    PackageStep(n, {"open"}, "approved") /\ UNCHANGED <<event, shown>>
Apply(n, e, f) ==
    PackageStep(n, {"approved"}, "applied") /\ Deliver(n, e, f)

\* A batch of the calendar, which leaves out the fixtures of retired scopes.
SynchronizeCalendar(e) ==
    /\ phase = "running"
    /\ event[e] # None /\ e \notin shown
    /\ \A r \in Owners : Active(r) => e \notin Boundary(r)
    /\ shown' = shown \cup {e}
    /\ UNCHANGED <<processVars, assignment, retired, event, package, seen, today>>

-----------------------------------------------------------------------------
(* The retirement tool.                                                     *)

Unresolved(o, d) == {e \in Boundary(o) :
    event[e].open \/ event[e].end > d.completed}
PendingGraph(o) == Boundary(o) \ shown

\* Enabled grants that overlap the boundary and reach beyond it.
Exceeding(o) == {p \in Owners \ {o} :
    /\ assignment[p] # None /\ assignment[p].enabled
    /\ assignment[p].stages \cap assignment[o].stages # {}
    /\ ~(assignment[p].stages \subseteq assignment[o].stages)}

\* The namespaces whose work lies in the boundary.
Covered(o) == {n \in Namespaces :
    /\ assignment[n] # None /\ assignment[n].enabled
    /\ assignment[n].stages \cap assignment[o].stages # {}}

Clear(o, d) ==
    /\ assignment[o].enabled
    /\ today >= d.completed + d.grace
    /\ Exceeding(o) = {}
    /\ Unresolved(o, d) = {}
    /\ PendingGraph(o) = {}

\* What the fingerprint of a preview covers.
Report(o, d) == [
    owner |-> o, decision |-> d, row |-> assignment[o],
    events |-> [e \in Boundary(o) |-> event[e]],
    packages |-> [n \in Covered(o) |-> package[n]]]

\* A preview with blockers can never be used, and is not kept.
Preview(o, d) ==
    /\ phase = "stopped"
    /\ assignment[o] # None /\ ~Active(o) /\ Clear(o, d)
    /\ seen' = Report(o, d)
    /\ UNCHANGED <<processVars, databaseVars, today>>

\* Mutant: packages that were approved before stay approved.
RejectedIfOpen(o) == [n \in Namespaces |->
    IF n \in Covered(o) /\ package[n] = "open" THEN "rejected" ELSE package[n]]

\* reject_batches: every package that is neither applied nor rejected.
Rejected(o) == [n \in Namespaces |->
    IF n \in Covered(o) /\ package[n] \in {"open", "approved"}
    THEN "rejected" ELSE package[n]]

Deactivate(o, d) ==
    /\ phase = "stopped"
    /\ assignment[o] # None /\ ~Active(o)
    /\ seen = Report(o, d) /\ Clear(o, d)
    /\ retired' = [retired EXCEPT ![o] = d]
    /\ package' = Rejected(o)
    /\ UNCHANGED <<processVars, assignment, event, shown, seen, today>>

Reactivate(o) ==
    /\ phase = "stopped" /\ Active(o)
    /\ retired' = [retired EXCEPT ![o] = None]
    /\ UNCHANGED <<processVars, assignment, event, shown, package, seen, today>>

NextDay ==
    /\ today < MaxDay
    /\ today' = today + 1
    /\ UNCHANGED <<processVars, databaseVars, seen>>

Application ==
    \/ \E c \in Settings : Start(c)
    \/ Synchronize \/ (\E n \in Namespaces : Configure(n)) \/ Serve \/ Stop
    \/ \E e \in Events, f \in Fixtures :
           (\E j \in Jobs : Import(j, e, f)) \/ (\E n \in Namespaces : Apply(n, e, f))
    \/ \E n \in Namespaces : Receive(n) \/ Prepare(n) \/ Approve(n)
    \/ \E e \in Events : SynchronizeCalendar(e)

Maintenance == \E o \in Owners :
    \/ \E d \in Decisions : Preview(o, d) \/ Deactivate(o, d)
    \/ Reactivate(o)

AuthorityNext == Application \/ Maintenance \/ NextDay

AuthorityInit ==
    /\ phase = "stopped" /\ settings = None /\ profiles = {}
    /\ assignment = [o \in Owners |-> None]
    /\ retired = [o \in Owners |-> None]
    /\ event = [e \in Events |-> None]
    /\ shown = {}
    /\ package = [n \in Namespaces |-> "none"]
    /\ seen = None
    /\ today = 0

AuthoritySpec == AuthorityInit /\ [][AuthorityNext]_authorityVars

-----------------------------------------------------------------------------

Reports == {Report(o, d) : o \in Owners, d \in Decisions}

\* Processes, rows, fixtures and packages keep their types, and an application
\* that runs has a configuration.
AuthorityTypeOK ==
    /\ phase \in {"stopped", "assigning", "configuring", "running"}
    /\ settings \in Settings \cup {None}
    /\ settings = None => phase = "stopped"
    /\ profiles \subseteq Namespaces
    /\ assignment \in [Owners -> Rows \cup {None}]
    /\ retired \in [Owners -> Decisions \cup {None}]
    /\ event \in [Events -> Fixtures \cup {None}]
    /\ shown \in SUBSET {e \in Events : event[e] # None}
    /\ package \in [Namespaces -> PackageStates]
    /\ today \in 0..MaxDay

\* No stage has two enabled writers, whatever the order in which automatic
\* jobs and manual profiles of successive configurations claim it.
OneWriterPerStage == \A i, j \in Owners :
    (/\ i # j
     /\ assignment[i] # None /\ assignment[i].enabled
     /\ assignment[j] # None /\ assignment[j].enabled)
    => assignment[i].stages \cap assignment[j].stages = {}

\* A retired scope is finished for as long as it is retired: nothing in its
\* boundary is open or ends after the decided completion, and no package of its
\* namespaces waits or keeps an approval.
RetiredIsFinished == \A o \in Owners : Active(o) =>
    /\ assignment[o] # None /\ assignment[o].enabled
    /\ today >= retired[o].completed + retired[o].grace
    /\ Unresolved(o, retired[o]) = {}
    /\ \A n \in Covered(o) : package[n] \notin {"open", "approved"}

\* While a scope is retired neither its grant nor any fixture in its boundary
\* changes, and none enters or leaves it.
RetiredStands == \A o \in Owners : (Active(o) /\ Active(o)') =>
    /\ assignment'[o] = assignment[o]
    /\ Boundary(o)' = Boundary(o)
    /\ \A e \in Boundary(o) : event'[e] = event[e]
RetiredHistoryStands == [][RetiredStands]_authorityVars

\* What a configuration asks for is possible: it leaves manual grants, retired
\* grants, mapped fixtures and the rows of its sources alone.
Feasible(c) == \A j \in Jobs :
    /\ Active(j) => c.jobs[j] = assignment[j]
    /\ c.jobs[j] # None =>
        /\ ~Exceeded(j, c.jobs[j])
        /\ \A i \in Jobs \ {j} : Source[i] = Source[j] =>
               assignment[j] # None \/ (assignment[i] = None /\ c.jobs[i] = None)
        /\ \A n \in Namespaces :
               (c.jobs[j].enabled /\ assignment[n] # None /\ assignment[n].enabled)
               => assignment[n].stages \cap c.jobs[j].stages = {}

\* A loadable, possible configuration is never refused on account of the rows it
\* replaces, also when jobs exchange their stages.
PossibleIsAccepted == \A c \in Settings : Loadable(c) /\ Feasible(c) => ~Refused(c)

==============================================================================
