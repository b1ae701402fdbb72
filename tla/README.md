# SMART Sports Calendar: TLA+ models and proofs

The application imports fixtures from several providers and from reviewed manual
packages into one SQLite database, and keeps one Outlook calendar in agreement
with it through Microsoft Graph. This directory models the parts of it whose
correctness depends on order, failure and concurrency, checks them with TLC, and
proves the central ones with TLAPS.

| Run | Command | Distinct states |
|---|---|---|
| `calendar_sync` | `tlc -workers 2 -config CalendarSync.cfg MCCalendarSync` | 788 k |
| `calendar_live` | `tlc -workers 2 -config CalendarSyncLive.cfg MCCalendarSync` | 252 k |
| `calendar_starve` (violation) | `tlc -workers 2 -config CalendarSyncStarve.cfg MCCalendarSync` | small |
| `fixture_import` | `tlc -workers 2 -config FixtureImport.cfg MCManualPreview` | 813 k |
| `fixture_import_empty` (violation) | `tlc -workers 2 -config FixtureImportEmpty.cfg MCFixtureImport` | small |
| `manual_import` | `tlc -workers 2 -config ManualImport.cfg MCManualImport` | 939 k |
| `manual_review` | `tlc -workers 2 -config ManualReview.cfg MCManualReview` | 231 k |
| `event_media` | `tlc -workers 2 -config EventMedia.cfg MCEventMedia` | 546 k |
| `source_authority` | `tlc -workers 2 -config SourceAuthority.cfg MCSourceAuthority` | 90 k |
| `service_runs` | `tlc -workers 2 -config ServiceRuns.cfg MCServiceRuns` | 42 k |
| `provider_import` | `tlc -workers 2 -config ProviderImport.cfg MCProviderImport` | 1206 k |
| `reminder_policy` | `tlc -workers 2 -config ReminderPolicy.cfg MCReminderPolicy` | 95 k |

The proofs are checked with `tlapm <Module>Proofs.tla` for `CalendarSync`,
`FixtureImport` (with `ManualPreview`), `ManualImport` (with `ManualReview`),
`EventMedia`, `SourceAuthority`, `ServiceRuns`, `ProviderImport` and
`ReminderPolicy`. `PROJECT.json` maps every definition to the lines of source it
models.

## 1. Inventory

One process owns the database: `app/operations/instance_lock.py` holds a file
lock for its lifetime, and `app/scheduler/scheduler.py` runs every job one after
the other on one thread. Beside it run short command-line tools; some take the
lock (season retirement), some do not (reminder rules, presentation revisions,
media assets). Every database write is a transaction of its own, every Graph
request can fail before or after it was applied.

| Component | State | Operations | Talks to | Hard behaviour | Correct when |
|---|---|---|---|---|---|
| Calendar synchronization (`app/synchronization`, `calendar_event_mappings_repository`, `synchronization_query_repository`) | one mapping row per event: status, transaction ID, Outlook ID, hash, captured and current revisions | select a batch; create, update, check, delete, revive, fail | reads `sports_events`, reminder rules; Graph POST, PATCH, DELETE | lost answers, crash between Graph and database, tools committing under a running batch, a batch smaller than the backlog | no lost update, no duplicate or forgotten appointment, no deletion recorded early, everything settles |
| Outlook calendar (`app/graph`) | appointments with transaction ID and body | POST deduplicated by `transactionId`, PATCH, DELETE, attachments | called by synchronization, media, manual review | refuses, applies without answering, user deletes | external |
| Fixture import (`fixture_import_repository`, `competition_lifecycle`) | events, source mappings, reconciliation state, evidence | import one observation: create, update, adopt, defer, reconcile missing | called by provider services and manual import; raises `sync_revision` through triggers | two-observation removal, replays and reordering, several sources and stages | nothing is removed without two distinct complete observations, a replay changes nothing |
| Source authority (`source_assignments_repository`, `source_registry`) | one assignment per job: source, season, role, stages, enabled | synchronize at start, grant manual namespaces, hand over | import asks which stages it may write | overlap of grants, mappings left behind, a start that fails half way | one writer per stage, a possible configuration is accepted |
| Scope retirement (`scope_retirement_service`) | retirements with preview fingerprint | preview, deactivate, reactivate | import guard and batch query skip retired scopes | the database outruns a preview | a retired scope is finished and stays as it was |
| Reminder rules (`reminder_rules_repository`, `event_reminder_resolver`) | rules by scope, presentation revisions | set, disable, delete, invalidate | raises `presentation_revision` of mappings | commits during a batch; precedence of scopes; clock changes | an event's reminder is that of its rules in order, a change reaches every mapping it concerns |
| Manual import (`manual_import_service`, `_worker`, `_repository`, `manual_inbox`) | packages, approvals, receipts, inbox files | receive, prepare, approve, apply, publish, archive | fixture import, retirement, review plans | stale approvals, replay after a crash, repeated requests | nothing is applied that was not approved against the same database, every request is answered |
| Manual preview (`manual_preview_service`) | none | accept a package, plan each fixture | read by manual import before the approval and inside the transaction | the plan must say what the import will do | the import follows the plan, touches nothing shared, adds no second event for a match |
| Manual review (`manual_review_service`) | tasks with generation, transaction ID, Outlook ID, hashes | project tasks, create, update, delete | Graph | lost answers around a retirement, user deletes | one reminder per open task, none per finished task |
| Event media (`event_media_synchronizer`, `event_asset_attachments_repository`, `media_assets_repository`, `asset_service`) | library of assets with their files; per slot: desired, pending, synchronized and obsolete attachment | import, approve, disable; reconcile, upload, recover, switch body, clean up | Graph attachments, after the core write | uploads without answer, partial failure, changed library | the body never refers to a deleted attachment, nothing is uploaded twice |
| Scheduler and runs (`scheduler`, `sync_runs_repository`, runtime services, `container`) | next run per job, run records | run due jobs, start, complete, fail and recover runs | all jobs | a job fails, death during a run, a failed start | one failure does not stop the other jobs, no record of a dead process stays open |
| Provider clients and adapters (`app/providers/*`) | ÖFB's last snapshot | request with retries, pages, redirects; validate a collection | provider HTTP services | the schedule changes between two pages; a 304 without a snapshot | what is imported is what the provider listed |
| Provider import services (`*_import_service`, `*_orchestrator`) | none of their own | check teams against reviewed tables, write mappings and members, import fixtures | mapping repositories, fixture import | separate transactions, new releases of the tables | a stored identity never changes, fixtures agree with it |
| Catalogs, settings beside the source jobs, rendering, CLIs, qualification reports | seed data, configuration | read and print | - | none | - |

## 2. Modules and how they fit together

| Module | Models | Proofs | Instance |
|---|---|---|---|
| `CalendarSync` (invariant in `CalendarSyncInvariant`) | the synchronization of events with Outlook | `CalendarSyncProofs` | `MCCalendarSync` |
| `FixtureImport` | observations imported into one season | `FixtureImportProofs` | `MCFixtureImport` |
| `ManualPreview`, extends `FixtureImport` | the plan of a package and its transaction | (`FixtureImportProofs`) | `MCManualPreview` |
| `ManualReview` | the reminder appointments of the review tasks | (`ManualImportProofs`) | `MCManualReview` |
| `ManualImport`, extends `ManualReview` | inbox, packages, approvals, results | `ManualImportProofs` | `MCManualImport` |
| `ReviewedImport` | the promise of the manual import | (`ManualImportProofs`) | - |
| `EventMedia` | asset library and one appointment's images | `EventMediaProofs` | `MCEventMedia` |
| `SourceAuthority` | assignments, starts, retirement | `SourceAuthorityProofs` | `MCSourceAuthority` |
| `ServiceRuns` | process, scheduler, run records | `ServiceRunsProofs` | `MCServiceRuns` |
| `ProviderImport` | one provider job's import up to the hand-over | `ProviderImportProofs` | `MCProviderImport` |
| `ReminderPolicy` | rules, overlay, schedule, invalidation | `ReminderPolicyProofs` | `MCReminderPolicy` |

Where a component is an input of another one, the two modules meet in a fact that
one checks and the other assumes:

- `ServiceRuns` runs jobs; what a job does is `ProviderImport`, `ManualImport`
  with `ManualReview`, or `CalendarSync`. Because one job runs at a time
  (`current` is one job), `CalendarSync` lets imports step only between batches.
- `ProviderImport` ends with the observation it hands over; `FixtureImport`
  begins with any observation. `ManualPreview` adds the condition under which a
  package becomes one, and its theorem `ReviewedIsImport` says that the composed
  behaviours are behaviours of `FixtureImport`.
- `PlanIsImported` of `ManualPreview` is why `ManualImport` may treat "the import
  does what the preview says" as one step; the branch of the code that compares
  the two again stays in `ManualImport` as the fault `differs`.
- `ManualImport` extends `ManualReview`: an applied package replaces the plan of
  review tasks in the same transaction, and the same job projects it afterwards.
- `SourceAuthority` produces the grants that `FixtureImport` takes as given
  (disjoint per season and stage) and the retirements that `CalendarSync` guards
  against.
- `ReminderPolicy` produces the effective presentation that `CalendarSync` takes
  as one value; `ShownIsCurrent` there and `NoLostUpdate` here are the two halves
  of "a change of a rule reaches Outlook".
- `EventMedia` refines the `media` step of a synchronized mapping, which
  `CalendarSync` leaves out; its `hash` is the one `CalendarSync` records.

All bounds are in guards and named in the modules' CONSTANTS (`Max...`, `Limit`,
finite sets of IDs); no run uses a CONSTRAINT or a symmetry set.

## 3. CalendarSync

**Correspondence.** `content, deleted, revision` are a row of `sports_events` as
far as Outlook shows it; `status` to `lastPresentation` are the columns of
`calendar_event_mappings`; `appointment, owner, body` are the Outlook calendar;
`pc, batch, work` are the position of the process in `synchronize_event`, the
snapshots it has not taken up yet, and the one in progress with its local
results. `rule` is the effective presentation of each event. A payload is the
pair of content and rule it is rendered from and stands for its own SHA-256.
`unrecorded` is history: the events with a Graph write whose outcome the
database never stored. Each action is one transaction or one Graph request with
the branch that leads to it.

- *Imports* run only between batches, on the same thread, and not in retired
  scopes; the revision triggers are part of them. Which observations confirm a
  removal is the subject of `FixtureImport`.
- *Tools* (`ChangePresentation`) take no lock and may step at any moment.
  `Retire` and `Reactivate` take the lock, so the process is stopped.
- *Graph* deduplicates a POST by `transactionId` while the appointment exists
  and returns the existing one unchanged: this is the assumption the code itself
  makes when it reuses `transaction_id` for retries.
- *Faults*: a request is refused (`Rejected`, `DeleteRejected`), is applied with
  its answer lost (`CreateLost`, `UpdateLost`, `DeleteLost`), a write fails
  because a tool holds the database (`WriteFails`, `MarkSyncedFails`,
  `MarkSyncedUnread`, `RefreshFails`, `TakeUpFails`), rendering raises, the
  process dies at any step, the user deletes an appointment. The constant
  `Faults` says which a run contains.

**Runs and bounds.** `calendar_sync` has one event with three contents (one
cancelled), two presentations, two appointments, two transactions, all faults,
four import revisions and two presentation revisions. Four revisions are enough
for create, change, remove and reappear, which with a retry at each point
reaches every branch of `synchronize_event`; two presentation revisions are one
change under a batch. Two appointments allow a duplicate or a recreation after a
user deletion. Rows of different events meet in one action only through the
order of a batch and the uniqueness of transactions; the order is the subject of
`calendar_live` (two fixtures, a batch of one, refusals, three revisions each),
and the proofs cover any number of events. Deadlock is checked.

**Fairness (`FairSpec`).** The supervisor restarts the container (`WF Start`);
the scheduler comes round to the synchronization again and again, although
imports and stops may come in between (`SF StartBatch`; `ServiceRuns` shows that
it does), and runs each batch to its end (`WF`); Graph does not refuse every
request for ever (`SF` of the requests). Nothing is assumed of imports, tools
and faults. `EventuallySettled` uses that the bounds let imports and tools act
finitely often: it says that disagreement never survives their silence.

`HashIsShown` is conditional on `unrecorded`: the code cannot know of a write
whose answer it lost, and the condition names exactly those events.

## 4. FixtureImport

**Correspondence.** `db` and `work` hold `sports_events`, `source_mappings` and
`fixture_reconciliation_state` of one competition season: `db` as committed,
`work` as the open transaction of `import_observation` sees it. `tx` is the
observation being imported with the fixtures still to do and the events
observed so far; `authority` is `source_assignments`, one grant per source. An
event is named by the source and external ID of its `event_key`. `Begin` is the
validation in the import service and the authority checks, `DeferUnresolved`,
`DeferUnscheduled`, `Create`, `Update` and `Adopt` are the branches of
`_import_fixture`, `Commit` is `_reconcile_missing` and the commit. A conflict
disables every action of its fixture, so only `Rollback` is left; a failing
write or the death of the process is a `Rollback` too. `absent` and `last` are
history.

- A *fixture* keeps what the repository decides by: external ID, participants
  (`None` while unresolved), stage (round included) and kickoff (`None` while
  unconfirmed). Titles, venues and status never choose a branch.
- A *scope* is `Boundary` and `Window`. Boundary `None` stands for partial,
  filtered and non-authoritative observations, which cannot remove; nothing
  compares their times, so they occur at one time and in the widest window.
- An `observation_id` is a hash over the observation's time, so equal IDs mean
  equal times, and the comparison of times covers both tests of the code. Times
  are not monotonic: an older observation may come later.
- A *manual namespace* is a source of its own that never correlates by
  participants and never removes, as its importer does.
- Left out: the use of the repository without any assignment, which the shipped
  application does not make, and the retirement guard, which is in
  `CalendarSync`. Observers and disabled jobs have no grant. The fixtures are
  taken in any order, which includes the one they are delivered in.

**Runs and bounds.** An automatic source with two fixtures that may turn out to
be of one match and a manual namespace that knows the match in another stage,
unresolved or unscheduled as well; two stages, two kickoffs, one window,
complete scopes of the season and of one stage, two observation times, every
grant. Two sources make every hand-over and adoption; two times are what a
removal needs, and any sequence of observations at those times is allowed. The
passing run is that of the next section; `fixture_import_empty` is this instance
with the property of section 13. There is no liveness: an import does what it
does when a provider answers.

**Properties.** `RemovalIsConfirmed` relates a deleted event to the whole
history of complete observations; `ReplaysChangeNothing` compares the database
before and after the repetition of the observation committed last;
`GrantCoversMappings` and `AuthorityIsKept` join the check made when a grant is
written to those made when fixtures are; `MappingsAreExact` is what the unique
indexes and the adoption by participants must maintain together.

## 5. ManualPreview

`manual_preview_service.py` plans a package without a write: it accepts or
refuses each fixture and says what the import would do with it.
`manual_import_service.apply` plans again inside its transaction and then calls
the ordinary importer. `PreviewedSpec` is `FixtureImport` whose manual
namespaces begin a transaction only with a package that is accepted.

`Plannable` is the acceptance of a fixture (`MappedAlone`, `NewMatch`),
`Distinct` that of the package, `Decision` the planned outcome. The run
`fixture_import` adds a second fixture of the namespace for the match it already
knows, so that a package can be a twin of itself or of the automatic source's
event, and checks with the properties of section 4:

- `PlanIsImported`: a committed package did to every fixture what was planned.
- `SharedIsUntouched`: no package moves an event another source has mapped, even
  one that was adopted from the namespace.
- `NoTwinIsCreated`: no package creates a second event for a match of the same
  stage and round. An update may still make one, because only unmapped fixtures
  are compared with the others.

Left out: the decision CANCEL and the cancelled status, warnings about venues
and cities, checks of the manifest against the static profile and format, leg
and group.

## 6. ManualImport and ReviewedImport

`ReviewedImport` is the promise: somebody decides on a package in a situation
(database and review plan), and it is applied only in a situation it was decided
for, once, replacing the review plan; nothing else changes the plan.
`ManualImport` is the code: the inbox with its pending and archived files, the
package row of each submission, the request the worker has read with its
position in `process_pending`, the results it has published, and
`AppliedAsReviewed` is `ReviewedImport!Spec` under the mapping that takes the
approve requests in the inbox for decisions and APPLIED rows for what is applied.

Each transaction (`Receive`, `Prepare`, `ApproveBatch`, `ApplyBatch`) and each
file operation (`Publish`, `Archive`, `Unlink`) is a step of its own, so the
worker dies between any two of them and repeats the request. `Busy` is a locked
database, `Conflict` a `FixtureImportConflictError`, which ends the whole job,
`Differs` the defensive comparison of the applied outcome with the plan.
Commands (`Submit`, `AskPreview`, `Approve`, `Redeliver`) step `Between` the
requests of the worker; `Administration` is a change of the database by the
automatic imports, the retirement and its withdrawal, which happen between jobs.
The review appointments are those of section 7, in the same job.

**Run and bounds.** Two packages of one submission (the second may be
unacceptable), three request names out of order, two stray files (one
unreadable, one malformed), one request per run, one change of the database, all
four faults. Two packages are what "approved but since replaced" needs, one
change of the database what "approved but stale" needs. Fairness is `WF(Work)`:
the scheduler runs the job again and again (`EveryJobRuns`), to its end.
`EventuallyAnswered` says that a request is archived in the end if from some
moment on there are no faults, whatever failed before.

The situation cannot change between the approval and the application, and a
replayed request is validated by both, so the stale branch of `ApplyBatch` is a
second line of defence that no behaviour reaches. Left out: the refusal of an
approval dated in the future.

## 7. ManualReview

`row` is `manual_review_appointments`: what a task says, its generation, the
transaction of its appointment, and two hashes, of what it should be and of what
was applied. `Synchronize` is the projection of the plan into the rows,
`FirstOf` the rotation of `cursor` over at most `Limit` of the pending rows;
then one action per request (`PostNew`, `PostKnown`, `Patch`, `PatchMissing`,
`Delete`) with three outcomes (answered, refused, lost), and `Record`.
`Unrecorded` is a record that fails, `Die` the death of the process anywhere,
`UserRemoves` a person who deletes an appointment. `SetEnabled` stands for the
direct change of the assignment that `docs/manual-import-workflow.md:222`
describes.

`AppointmentsAreKnown` and `AppliedIsShown` join a row to the calendar across
the separate steps; the history `overtaken` names the tasks that were changed
before their last change was recorded, and section 13 says what happens to
them. `EventuallyProjected` is under `WF(Project)`, for behaviours in which
faults end.

**Bounds.** Two tasks and a limit of one are competition for the place in a
cycle and a cursor that wraps; three changes are add, change and withdraw (or
disable and re-enable) between any two requests; eight IDs are more than a
behaviour can use. Left out: `projected_start`, the start an appointment is
first projected with and keeps while its due time stands.

## 8. EventMedia

The asset library (`imported`, `active`, `files`) changes under a batch; `row`
is `calendar_event_asset_attachments` with its desired, pending, synchronized
and obsolete image; `remote` and `body` are the appointment. A cycle is: text
(written or only checked), then clean-up of obsolete attachments, audit of the
recorded ones, selection of the images, preparation, recovery of uploads already
there, upload, one body PATCH that switches all slots, clean-up again. Each
request may be refused, applied and its answer lost, or the last before a death;
`PatchUnrecorded` loses the record of a PATCH, its answer lost or the process dead
before it; a person deletes an attachment. Of the body only the images it refers
to are kept: what its text says is `hash`, and `Rewrites` are the changes of the
text that imports make. A rewritten text carries no images, so every row is
queued for the body (`Refreshed`) until a body PATCH is recorded.
`Gone` is an appointment whose deletion was never recorded and whose event came
back: every request for it is answered with 404. `PatchOverfull` is a switch of
the body that `apply_body` refuses to record, because another attachment already
waits for its deletion (section 13).

`NoDanglingImage`: every image the body refers to is attached.
`NoDuplicateUpload`: no content ID is attached twice. `QuietCycle`: once the
appointment shows the chosen images and the rows say so, no cycle changes it, one
that began before included, and none sends the body but after a text it has just
written. `EventuallyIllustrated`: under `WF(Work)`, if from some moment on there
are no faults and the event stays as it is, the appointment comes to show the
approved images, after rewritten texts too. It does not cover `damaged`: a body
that a person or an unrecorded PATCH changed, a text written as the process died,
or a queued refresh that the code overwrites with "synced" (`Overwritten`) and no
body PATCH follows (section 13). Later the next recorded PATCH ends `damaged`.

**Bounds.** One slot with two versions of one asset and a rival asset that makes
the choice ambiguous; slots never share a row or an attachment, and only the
body PATCH joins them. Eight content IDs and attachments are never exhausted;
the event is removed and comes back any number of times. Its text is rewritten
once, at any moment between batches, from a state in which the library changes
twice for it (three presentation revisions) to one with its own bound of two:
that is a rewritten text before, between and after uploads, switches and
deletions, each of which may fail; a second rewrite meets rows that the first one
could have left. One of the stored files may be lost. `damaged` is history: the
body is in a state that no row describes. A corrupt file is modelled as a lost
one.

## 9. SourceAuthority

A start synchronizes the assignments of a whole configuration in one
transaction (first a pass that disables, then one that writes), then each manual
profile in one of its own, and may fail or be interrupted between any two of
them. Imports, deliveries and packages follow the assignments in force; the
retirement tool runs while the application is stopped: `seen` is the preview the
operator has inspected, and `Deactivate` compares it with the present one.

- `OneWriterPerStage`: no two enabled assignments share a stage, whatever starts
  failed.
- `PossibleIsAccepted`: a configuration without overlap, whose mappings its jobs
  may keep, is not refused because of the one before it.
- `RetiredIsFinished` and `RetiredHistoryStands`: what is retired has no open
  fixture, package or calendar work, and nothing in it changes until it is
  reactivated.

**Bounds.** Jobs of two sources, one source under two job keys, a namespace, two
stages, two fixtures, two days, and the five configurations an operator may move
between: split, exchanged, renamed, merged, handed to the namespace. The roles
bootstrap and verification never become jobs, so a job's role is its being
enabled; a retirement's fingerprint is the preview itself. A configuration is any
choice of jobs and stages; `Loadable` is what `load_source_jobs` makes of it at a
start, and a sixth configuration, with a stage claimed twice, is refused there.
The catalog rows of a job are there: the code passes a disabled job of a source
without one over, and fails the start of any other job without. Approvals that
survive a reactivation are in `ManualImport`.

## 10. ServiceRuns

One process at a time: `Start` (or `StartFails`), passes over the due jobs in
the scheduler's order, for each job recovery of interrupted runs, the record of
the run, the work, and its completion or failure; each step may fail or be the
last (`Crash`). `Signal` ends the process between passes. `open` are the records
still running of dead processes and of failed writes.

`OldRunsAreClosed`: when a runtime has run its first job, no record of that type
by a dead process is open. `SourcesBeforeCalendar`: the first batch of a process
follows a turn of every source, be it skipped or failed. A record that its own
process failed to close stays running until the next start. `EveryJobRuns`: a due job is reached, or the
process stops; fairness is `WF(Run)` (a thread that runs) and `WF` of each
job's interval.

**Bounds.** Two sources, the manual import, the calendar, three starts: a record
left by one process, its recovery by the next, and a third after an
unsuccessful start.

## 11. ProviderImport

One import of one job of any of the five providers: the requests with the
answers each client tells apart, the attempts it makes of them and the redirects
it follows within an attempt, the pages (each from whatever the provider lists at
that moment), the validations of the collection (`FootballDataSchedule`, `ApiFootballBatch`,
`OpenLigaDBSnapshot`, `NflverseGames`, `OefbUids`), the teams checked against
the reviewed table of the release, the source mappings and season members
written one transaction at a time, and the hand-over of the fixtures with the
scope of the observation. `held` is the snapshot the ÖFB adapter keeps with its
`Last-Modified`. `Restart` may bring a release with another reviewed table.
The rows of the catalog (format, seasons, current season, dates) are an input of
the import: each provider's service compares them with its own profile before a
mapping is written (`MapCatalog`), some of them again with the fixtures, and the
format and the job's kind decide which scopes an observation may claim
(`ValidScope`, `StoredScope`).

- `ListedIsNeverMissing`: a match listed at every request is not counted missing
  by the observation (not for API-Football, section 13).
- `UnmodifiedIsCurrent`: what a 304 imports is a listing that had that stamp.
- `FixturesAgree`: imported fixtures have the participants of the mapping
  stored, although the mapping was written before and by itself. The teams are
  those the matches are between: all reviewed ones, or some for a cup's draw
  (`Draws`, `PassOver`).
- `IdentitiesStand`: a stored mapping never changes its participant.

**Bounds.** Two pairings on pages of one, so that a match can move between two
requests, and a third match that replaces the second; two teams, two reviewed
tables, two attempts, one redirect; a job of a league, one of a single stage and,
with OpenLigaDB, one of a cup; a catalog as profiled in three formats, and four
that differ from it: a cup with a second season, a season that is not the current
one, no format, no competition. Larger pages and schedules are left to
the proofs. The mappings of sources, competitions and seasons never change and
are left out, and so are throttling delays; length and type checks of an answer
are part of `RequestRefused`. One record's conversion is left to the tests.

## 12. ReminderPolicy

Rules of the five scopes are set, disabled and deleted by a tool beside the
imports and cycles; `Resolved` overlays the applicable rules field by field and
`Scheduled` turns policy and kickoff into a lead time. Time is a line of instants and a local time is the
instant plus the zone's shift, so a spring gap is a local minute without instant
and an autumn overlap one with two. Each mutation and the invalidation of the
appointments it concerns are one transaction.

- `ShownIsCurrent`: a reminder acknowledged as written is the effective one,
  although rules, lineups and kickoffs changed under the cycle.
- `ResolvedAsDocumented`: the code's fold over the five scopes is the precedence of
  `docs/outlook-presentation-reminder-media-contract.md:200-312`.
- `NeverInQuietTime`: a reminder that is on rings outside the quiet time, within
  its minimum and maximum, and no later than preferred; if it rings earlier, it
  does so at an instant whose local time is not a repetition, and any later one
  was quiet or such a repetition. Where the clocks skip the begin of the quiet
  time, it rings at the last time they show before.

**Bounds.** Days of 24 minutes, two zones with one skipped and one repeated hour
each, kickoffs next to them and on an ordinary day, two events that share a
participant, a rule of each scope, one row disabled at a time. The lead of an
event depends on its own instant and rules alone. `CHECK_DEADLOCK FALSE`: the
system may stop when nothing is due. Left out: operator notes, seconds, a
kickoff without zone, the preview command.

## 13. Where the code and its documents part

Two disagreements are runs that TLC violates:

- *Starvation* (`calendar_starve`). A cancelled fixture that never had a mapping
  is skipped without a write and stays a candidate of highest priority. As many
  of them as the batch limit keep every later fixture out of the calendar;
  `docs/source-orchestration.md:119-125` promises progress for any backlog.
- *Empty season* (`fixture_import_empty`). An empty answer for a complete season
  counts as an absence of everything: the service refuses empty complete stages
  and rounds only, so two empty answers remove the season, which
  `docs/api-football-fixture-import.md:76-77` excludes.

The others were met while modelling. The properties name the excluded
histories (`unrecorded`, `overtaken`, `removed`, `damaged`) or say the
exception in words.

*Calendar.* A creation that Outlook applied and whose answer was lost leaves the
row without Outlook ID; if the fixture is then removed, the row is closed
without a request and the appointment stays (`event_synchronizer.py:116-129`
against `docs/provider-outlook-end-to-end-testing.md:80-82`). If instead the
content changes before the retry, the retry gets the old appointment back
unchanged and records the new hash as shown (`event_synchronizer.py:304-318`
against `docs/outlook-presentation-reminder-media-contract.md:367-368`). An
appointment the user deleted is patched for ever and blocks the retirement of
its season. With API-Football enabled a skipped import also skips the calendar
cycle.

*Review appointments.* `docs/manual-import-workflow.md:226-228` says "An
uncertain POST is recovered before its intent can be retired, preventing an
orphan after a mapping-write failure." The code keeps this while a task stands,
and not when it changes before its last change was recorded:

1. a lost POST, then disabling and re-enabling the assignment: the generation
   moves on and with it the transaction, and the first appointment is orphaned;
2. a recreation after a 404 whose answer is lost, then a changed task: a second
   appointment;
3. a reopened task whose POST is lost and which is closed again: its row still
   says "retired" was applied, and the appointment is never looked for;
4. a DELETE applied without an answer, then the task is back as it was: nothing
   differs, and the appointment is missing for ever;
5. a PATCH applied without an answer, then the task is back as it was: the
   appointment shows the reverted content for ever.

*Images.* After a body PATCH that was applied and not recorded, an asset
disabled or replaced turns the pending image into an obsolete one, and the
clean-up deletes an attachment the body refers to
(`event_asset_attachments_repository.py:131-149`). Refusals alone are enough to
lose an image for good: an upload succeeds and the PATCH after it is refused; the
image is disabled, so that its attachment becomes obsolete, and the deletion of
it is refused; a PATCH without the image is applied, but `apply_body` raises
"Multiple obsolete attachments require cleanup."
(`event_asset_attachments_repository.py:381-384`) and nothing of it is recorded.
When the image is approved again its row counts as synchronized,
`mark_cleanup_complete` writes that over the queued refresh, and the body stays
without it (`PatchOverfull`, `damaged`). The same overwrite needs neither a lost answer nor a disabled image: the deletion of a
replaced image is refused and stays queued; an import rewrites the text, whose
PATCH strips the images, and `mark_body_refresh_required` queues the body; the
deletion is refused again, which ends the cycle. In the next cycle the text is
unchanged, the deletion succeeds, and `mark_cleanup_complete`
(`event_asset_attachments_repository.py:449-453`) writes "synced", since desired
and synchronized hash agree, over the queued refresh: no body is due, and the
approved image is not shown again until something else about it changes. A
process that dies between that record and the body loses it as well, and
`reconcile_desired` overwrites a queued refresh in the same way when the desired
image changes back. `docs/media-asset-registry.md:79-83` promises that a restart
"resumes from SQLite" and that failures leave a "retryable state". The model
takes these steps, `Overwritten` sets `damaged`, and `EventuallyIllustrated` without
that exemption is violated. A retry inside the client
after a gateway timeout (`client.py:399`) can attach a content ID twice, which
the next cycle takes for an error for ever (`event_media_synchronizer.py:262`
against `docs/media-asset-registry.md:81-83`): `"repeated"` in `Faults` shows
it. A lost upload followed by a change of the desired asset leaves an orphaned
attachment. A row without image that is marked failed stays failed and blocks
the retirement of its scope. A corrupt stored file makes its re-import fail
until it is deleted by hand.

*Imports.* `docs/source-orchestration.md` says "A failed or overlapping import
makes no canonical changes", but fixtures are committed before the run is
completed, so a run recorded as failed may have changed them, and mappings and
season members precede a failing import. API-Football's pages are read one by
one from a schedule that may shift, and a match between two pages counts as
missing. A 204 is accepted as an empty last page. A reviewed table changed by a
release conflicts with the stored mapping and the job fails until the mapping is
repaired; an ÖFB feed that drops UIDs is refused until its job is renewed; a
second meeting of the same home and away teams is a conflict and rolled back
each time (`api_football_fixture_import_service.py:136`). The absence count of a
source survives deliveries of the event by another source.

*Packages.* A `submit` archived after a rejection is never queued again although
the command reports it queued (`manual_inbox.py:106-116`). A
`FixtureImportConflictError` ends the job, the review appointments included.

*Sources.* `UNIQUE(source, season)` makes a renamed job key fail every start
until the old row is gone. A failed start leaves the automatic part committed.
Moving a stage from a namespace to a job needs a start of its own first.

*Reminders.* When imports bring several events into conflict between equal
rules, every single mutation is refused, the repairing ones too
(`reminder_rules_repository.py:408-459` against the contract's lines 244-246).

## 14. Proofs

Every proof is for all values of the constants that satisfy the named
assumptions of the module: types of the constants, `None` outside the sets it
stands beside, and those mentioned below.

`CalendarSyncProofs` proves the invariants and action properties of
`calendar_sync`, for every set of events, contents, rules, appointments and
transactions, every batch limit and every set of faults. Assumptions: cancelled
contents are contents, `Rank` is a strict order. None of the invariants is
inductive alone; `CalendarSyncInvariant` states what joins them:

- `BatchInv`, `WorkInv`: an ageing snapshot agrees with its rows in everything
  but the presentation revision, which can only have grown, because only tools
  step under a batch and they reach nothing else; a snapshot is never of a
  retired scope, and no event is in the batch twice.
- `RenderInv`: a payload in hand is the current one unless the presentation
  revision has moved past the captured one; this is what makes the comparison
  in `mark_synced` and `mark_checked` sufficient.
- `MappingInv`: recorded revisions never run ahead, and while they are current
  the recorded hash is current; a removed event's mapping is always behind.
- `TransactionInv`, `AppointmentInv`: transactions identify mappings for life,
  the Outlook ID of a mapping is the only live appointment of its transaction,
  and a gone appointment stays gone.
- `BodyInv`: `HashIsShown` and its counterpart for an answer not yet written.

It has frame lemmas for the kinds of step (imports and process, tools, taking up
a candidate, Graph, recording) and one lemma per part of the invariant.

`FixtureImportProofs` proves the invariants of section 4 and `AuthorityIsKept`.
Its invariant holds of `db` and `work` alike, since a rollback returns to the one
and a commit publishes the other. `Exact` and `Covered` need `Disjoint`, because
another source may move an event only within its own stages, which exclude those
of every source that has the event mapped and is granted. `Candidate` ties the
reconciliation state to the history: the last time counted is one of the
absences since the source delivered the event, so with the strict comparison of
times a second count is a different absence, which gives `Confirmed`.
`TransactionInv` keeps the change made so far within the source's stages.

`ReplaysAreIdle` compares two whole transactions, in which the fixtures may be
taken in different orders. `ReplayInv` is what makes that possible: a database
left by a commit is `Settled` for the observation, that is, every fixture of it
is mapped to a row that delivering it again would write unchanged, and every
absence it can count has been counted at its time or later. While an observation
is taken (`TakenInv`) its fixtures have different external IDs, so no fixture
unsettles what another one has settled; and if it is the one committed last, the
working database never differs from the committed one.

The second half of the module proves that reviewed imports are imports (so the
theorems above hold of them) and the three properties of `ManualPreview`. The invariant `PlanInv` says that
a namespace never misses anything, that no grant of it includes fixtures without
stage, and `PackageInv`: while a package is applied, its fixtures have different
external IDs, whatever is changed was written by a fixture already taken, and a
waiting fixture's mapping is what it was when it was planned. The importer may
take the fixtures in any order, so this is what makes the plan's decisions,
computed all at once, still true when each is carried out.

`ManualImportProofs` proves `ResultIsCurrent` and the refinement. `WorkOK`: what
the worker has in hand is still in the inbox, and leaves it only when it is in
the archive. `ApprovalsAreKept`: an APPROVED row rests on an approve request
that is kept, for this package and this preview; with the equality of stored and
recomputed preview this is the decision `ReviewedImport` asks for.
`AnsweredFirst`: what is put away has its result published.

It also proves `AppointmentsAreKnown` and `AppliedIsShown` of the review
appointments, and of the manual import that shares the job with them
(`AppointmentsSurviveImports`), for any number of tasks and places per run.
`TaskOK` says where the appointments of a task are for each state of its row
(known to the row, or carrying the transaction of its generation, or gone), for
the tasks that are neither `overtaken` nor had an appointment removed by a
person; `FlightOK` says what the step in progress may rely on between a request
and its record; `CycleOK` that the tasks of a cycle stay pending until their
turn, because plans change between cycles only.

`EventMediaProofs` proves the three safety properties of section 8 for any number
of slots, versions, families and contents; `NoDuplicateUpload` where no gateway
repeats a request (`"repeated"` not in `Faults`), which is the exception of
section 13. No property is inductive alone, as rows, attachments and body are
changed by separate requests:

- `IdsApart`, `RemoteApart`: no two rows refer to one content ID or attachment,
  none to one that waits for its deletion, and Graph knows an attachment by the
  content ID its row remembers; so a clean-up or a recovery never reaches
  another slot's image.
- `RowOK`: a pending image is the desired one, and there is none before the last
  obsolete attachment is deleted. `ProcessOK` carries this through a cycle, to
  the uploads still to be made.
- `BodyOK`: unless `damaged`, the body shows what rows have recorded as
  synchronized, and what rows refer to is attached.
- For `QuietCycle` besides: `CycleOK` (the snapshot is of the event as it is, and
  a body just rewritten has no images until the PATCH) and `PendingIsNew` (an
  image that waits is not the one shown, so in a converged state none waits);
  `ConvergedDue` says that no body is due then but after a text just written.

`SourceAuthorityProofs` proves the four properties of section 9, for any set of
configurations, loadable or not, by one invariant: types, profiles of the
configuration in force, which was loadable, one writer per stage, retired scopes
finished. They need each other, because a retired scope stays as it is
only if no other writer reaches its stages.

`ServiceRunsProofs`: `WaitsForTurn` (a job that had no turn is due, and in the
pass) with `CalendarIsLast` (its place in the list) gives
`SourcesBeforeCalendar`; that a runtime is noted as recovered only after its
records are closed gives `OldRunsAreClosed`. Assumption: no job is scheduled
twice.

`ProviderImportProofs`: `OnePairing` (a match listed at every request so far is
the only one of its pairing that any page can hold) with the demand for a whole
season gives `NothingLost`, and that `ListedIsNeverMissing`; `OnePage` and
`HeldOK` give `UnmodifiedIsCurrent`; `WrittenSoFar` and `Agreed` follow the
separate writes up to `FixturesAgree`; `Separate` gives `IdentitiesStand`.

`ReminderPolicyProofs`: `KnownToRules` (what is up to date has an event and a
mapping a mutation can invalidate) and `BuiltIsCurrent` (a payload in hand was
built of the present rules, or will not be acknowledged) give `ShownIsCurrent`;
`ResolvedAsDocumented` follows by unrolling the five layers. `NeverInQuietTime`
is proved by arithmetic on local times: the quiet time around a preferred instant
began less than a day before it and is quiet from there on (`QuietTimes`), and the
first instant of that begin, or of the latest local time before it that was
shown, is in no quiet time and no repetition (`Moved`). Assumptions: the
operator's possible writes are finitely many and validated (`PolicyAssumption`,
`ValueAssumption`); the clocks never go back to a time they had not shown, and
the line of instants reaches back from every preferred instant to the begin of
its quiet time, or to a local time before it that was shown (`ZoneAssumption`).

**Only model-checked.** Liveness (`EventuallySettled`, `EventuallyIllustrated`,
`EventuallyProjected`, `EventuallyAnswered`, `EveryJobRuns`), since fairness and
`ENABLED` are out of the prover's reach. The two properties of the violation
runs are false. Every other property of a run is a theorem.

## 15. Not modelled

- *Conversion of a provider's record*, HTML layout, log lines: functions of
  their input that the tests cover.
- *Settings*: the parsing of the environment. What a start refuses of the source
  jobs is `Loadable` of `SourceAuthority`; the job list is an input of
  `ServiceRuns`.
- *Catalogs*: seed data, and single-statement reads and upserts; the triggers
  and unique indexes of the migrations are part of the actions that meet them.
- *Qualification and staging tools*: one-shot reports over provider answers and
  files, without state or concurrency.
- *Token acquisition and retries inside one Graph request*: to the modules a
  request is refused, or applied with or without an answer; a retry after a
  gateway timeout is the fault `"repeated"` of `EventMedia`.
- *File validation and image conversion* of assets: I/O.
- What a modelled component leaves out is said in its section.
