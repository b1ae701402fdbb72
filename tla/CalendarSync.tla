---------------------------- MODULE CalendarSync ----------------------------
(***************************************************************************)
(* The synchronization of canonical sports events with one Outlook         *)
(* calendar (app/synchronization, app/database/calendar_event_mappings,    *)
(* app/database/synchronization_query_repository).                         *)
(*                                                                         *)
(* One process owns the database (app/operations/instance_lock.py) and     *)
(* runs its jobs one after the other on one thread, so provider imports    *)
(* and calendar batches never overlap.  A batch loads snapshots of its     *)
(* candidates and then works through them; every database write is a      *)
(* transaction of its own and every Graph request may be refused, or be    *)
(* applied with its answer lost.  The reminder-rule and presentation CLIs  *)
(* take no lock: they commit between any two steps of a batch.             *)
(*                                                                         *)
(* A payload is the pair of the event's content and the presentation rule  *)
(* in force when it was rendered; its SHA-256 is represented by the pair.  *)
(***************************************************************************)
EXTENDS Naturals, FiniteSets

CONSTANTS
    Events,         \* canonical sports events
    Contents,       \* the Outlook-visible states of an event
    Cancelled,      \* the contents whose status is "cancelled"
    Rules,          \* presentations: effective reminder rule and template
    Appointments,   \* Outlook event IDs Graph can hand out
    Transactions,   \* the UUIDs uuid4 can return
    None,           \* SQL NULL, Python None
    Limit,          \* SYNCHRONIZATION_BATCH_LIMIT
    Rank,           \* the order by start_time, id
    Faults,         \* the faults a behaviour may contain
    MaxRevision,    \* bound on sports_events.sync_revision
    MaxPresentation \* bound on presentation_revision

ASSUME CancelledAssumption == Cancelled \subseteq Contents
ASSUME NoneAssumption ==
    None \notin Appointments \cup Transactions \cup Contents
ASSUME RankAssumption ==
    /\ Rank \in [Events -> Nat]
    /\ \A e, f \in Events : Rank[e] = Rank[f] => e = f
ASSUME BoundAssumption ==
    /\ Limit \in Nat \ {0}
    /\ MaxRevision \in Nat
    /\ MaxPresentation \in Nat
ASSUME FaultAssumption ==
    Faults \subseteq {"reject", "lost", "database", "render", "crash", "user"}

VARIABLES
    \* sports_events: NULL content is a fixture no provider has delivered yet
    content, deleted, revision,
    \* events covered by a retired scope (scope_retirements)
    retired,
    \* the presentation in force for each event (reminder_rules, template)
    rule,
    \* calendar_event_mappings, one column each; "absent" is a missing row
    status, transaction, outlookId, contentHash,
    lastSynced, presentation, lastPresentation,
    older,            \* order of last_synced_at: <<e, f>> if e was synced before f
    \* the Outlook calendar
    appointment,      \* "unused", "live" or "gone"
    owner,            \* the transactionId an appointment was created with
    body,             \* the payload it shows
    \* the synchronizing process
    pc,
    batch,            \* candidate snapshots not yet taken up
    work,             \* the candidate in progress: its snapshot and local results
    \* history: events with a Graph write the database has not recorded
    unrecorded

eventVars   == <<content, deleted, revision, retired>>
identity    == <<transaction, outlookId, contentHash>>
progress    == <<lastSynced, lastPresentation, older>>
mappingVars == <<status, identity, progress, presentation>>
graphVars   == <<appointment, owner, body>>
processVars == <<pc, batch, work>>
vars == <<eventVars, rule, mappingVars, graphVars, processVars, unrecorded>>

-----------------------------------------------------------------------------

Payloads == Contents \X Rules
Statuses == {"absent", "pending", "synced", "failed", "delete_pending", "deleted"}
Retryable == {"pending", "failed", "synced"}

(* What get_candidates loads for one event (SynchronizationEvent: the event *)
(* and its mapping row), with the local results of the synchronizer: the    *)
(* rendered payload, the returned Outlook reference, and whether the        *)
(* request it answers wrote the payload.                                    *)
Candidates == [
    event: Events, content: Contents, deleted: BOOLEAN, revision: Nat,
    status: Statuses, outlookId: Appointments \cup {None},
    contentHash: Payloads \cup {None},
    presentation: Nat, lastPresentation: Nat,
    payload: Payloads \cup {None}, reference: Appointments \cup {None},
    wrote: BOOLEAN]

\* Where the process is inside synchronize_event.
Working == {"deleting", "removed", "reload", "render", "prepare", "create",
            "created", "update", "updated", "check", "fail"}

TypeOK ==
    /\ content \in [Events -> Contents \cup {None}]
    /\ deleted \in [Events -> BOOLEAN]
    /\ revision \in [Events -> Nat]
    /\ retired \in SUBSET Events
    /\ rule \in [Events -> Rules]
    /\ status \in [Events -> Statuses]
    /\ transaction \in [Events -> Transactions \cup {None}]
    /\ outlookId \in [Events -> Appointments \cup {None}]
    /\ contentHash \in [Events -> Payloads \cup {None}]
    /\ lastSynced \in [Events -> Nat]
    /\ presentation \in [Events -> Nat]
    /\ lastPresentation \in [Events -> Nat]
    /\ older \in SUBSET (Events \X Events)
    /\ appointment \in [Appointments -> {"unused", "live", "gone"}]
    /\ owner \in [Appointments -> Transactions \cup {None}]
    /\ body \in [Appointments -> Payloads \cup {None}]
    /\ pc \in {"stopped", "idle", "batch"} \cup Working
    /\ batch \in SUBSET Candidates
    /\ pc \in Working => work \in Candidates
    /\ unrecorded \in SUBSET Events

Init ==
    /\ content = [e \in Events |-> None]
    /\ deleted = [e \in Events |-> FALSE]
    /\ revision = [e \in Events |-> 0]
    /\ retired = {}
    /\ rule \in [Events -> Rules]
    /\ status = [e \in Events |-> "absent"]
    /\ transaction = [e \in Events |-> None]
    /\ outlookId = [e \in Events |-> None]
    /\ contentHash = [e \in Events |-> None]
    /\ lastSynced = [e \in Events |-> 0]
    /\ presentation = [e \in Events |-> 1]
    /\ lastPresentation = [e \in Events |-> 0]
    /\ older = {}
    /\ appointment = [a \in Appointments |-> "unused"]
    /\ owner = [a \in Appointments |-> None]
    /\ body = [a \in Appointments |-> None]
    /\ pc = "stopped"
    /\ batch = {}
    /\ work = None
    /\ unrecorded = {}

-----------------------------------------------------------------------------
(* Provider and manual imports: FixtureImportRepository commits the event   *)
(* rows of one observation; the triggers of migration 008 raise             *)
(* sync_revision.  They run on the scheduler thread, hence between batches, *)
(* and not in a retired scope.                                              *)

Importing(e) == pc = "idle" /\ e \notin retired /\ revision[e] < MaxRevision

ImportUnchangedVars == <<retired, rule, mappingVars, graphVars, processVars,
                         unrecorded>>

\* A fixture is delivered for the first time, or with other content, or
\* reappears after its removal: target_values always clears deleted_at.
ImportFixture(e, c) ==
    /\ Importing(e)
    /\ content[e] # c \/ deleted[e]
    /\ content' = [content EXCEPT ![e] = c]
    /\ deleted' = [deleted EXCEPT ![e] = FALSE]
    /\ revision' = [revision EXCEPT ![e] = @ + 1]
    /\ UNCHANGED ImportUnchangedVars

\* A second complete observation without the fixture confirms its removal.
RemoveFixture(e) ==
    /\ Importing(e)
    /\ content[e] # None
    /\ ~deleted[e]
    /\ deleted' = [deleted EXCEPT ![e] = TRUE]
    /\ revision' = [revision EXCEPT ![e] = @ + 1]
    /\ UNCHANGED <<content, ImportUnchangedVars>>

-----------------------------------------------------------------------------
(* The command-line tools that run beside the owning process.              *)

\* The mappings whose presentation a mutation of this scope invalidates.
Invalidated(scope) ==
    {e \in scope : status[e] \in Retryable /\ ~deleted[e]}

\* A reminder rule is set, disabled or deleted, or every presentation is
\* invalidated after a template change.  A rule masked by a more specific one
\* changes no effective presentation and still invalidates its scope.
ChangePresentation(scope, new) ==
    /\ \A e \in Invalidated(scope) : presentation[e] < MaxPresentation
    /\ rule' = [e \in Events |-> IF e \in scope THEN new[e] ELSE rule[e]]
    /\ presentation' = [e \in Events |->
          IF e \in Invalidated(scope) THEN presentation[e] + 1
                                      ELSE presentation[e]]
    /\ UNCHANGED <<eventVars, status, identity, progress, graphVars,
                   processVars, unrecorded>>

-----------------------------------------------------------------------------
(* The process: start, orderly stop between jobs, and death at any step.    *)

Start ==
    /\ pc = "stopped"
    /\ pc' = "idle"
    /\ UNCHANGED <<eventVars, rule, mappingVars, graphVars, batch, work,
                   unrecorded>>

Halt ==
    /\ pc' = "stopped"
    /\ batch' = {}
    /\ work' = None
    /\ UNCHANGED <<eventVars, rule, mappingVars, graphVars, unrecorded>>

\* SIGTERM only sets the stop event, which the scheduler reads between jobs.
Stop == pc = "idle" /\ Halt

Crash == "crash" \in Faults /\ pc \notin {"stopped", "idle"} /\ Halt

\* season_retirement takes the instance lock, so the process is stopped.  The
\* preview blocks while any event of the scope has calendar work left.
CalendarWorkDone(e) ==
    IF deleted[e] THEN status[e] \in {"absent", "deleted"}
                  ELSE /\ status[e] = "synced"
                       /\ lastSynced[e] >= revision[e]
                       /\ lastPresentation[e] >= presentation[e]

Retire(e) ==
    /\ pc = "stopped"
    /\ e \notin retired
    /\ content[e] # None
    /\ CalendarWorkDone(e)
    /\ retired' = retired \cup {e}
    /\ UNCHANGED <<content, deleted, revision, rule, mappingVars, graphVars,
                   processVars, unrecorded>>

Reactivate(e) ==
    /\ pc = "stopped"
    /\ e \in retired
    /\ retired' = retired \ {e}
    /\ UNCHANGED <<content, deleted, revision, rule, mappingVars, graphVars,
                   processVars, unrecorded>>

-----------------------------------------------------------------------------
(* Selecting a batch (SynchronizationQueryRepository.get_candidates).      *)

\* Mutant: the query forgets the retired scopes.
SelectableRetired(e) ==
    /\ content[e] # None
    /\ \/ status[e] = "absent" /\ ~deleted[e]
       \/ status[e] \in Retryable \cup {"delete_pending"}
       \/ status[e] = "deleted" /\ ~deleted[e]

\* Mutant: the query forgets the failed rows.
SelectableUnfailed(e) ==
    /\ content[e] # None
    /\ e \notin retired
    /\ \/ status[e] = "absent" /\ ~deleted[e]
       \/ status[e] \in {"pending", "synced", "delete_pending"}
       \/ status[e] = "deleted" /\ ~deleted[e]

Selectable(e) ==
    /\ content[e] # None
    /\ e \notin retired
    /\ \/ status[e] = "absent" /\ ~deleted[e]
       \/ status[e] \in Retryable \cup {"delete_pending"}
       \/ status[e] = "deleted" /\ ~deleted[e]

\* An unfinished attachment also gives priority 1; attachments are EventMedia's.
Priority(e) ==
    IF status[e] # "synced" \/ revision[e] > lastSynced[e] THEN 0
    ELSE IF presentation[e] > lastPresentation[e] THEN 1 ELSE 2

\* Among equal priorities: unsynced rows (NULL) first, then the oldest
\* last_synced_at, then start_time and id.
Precedes(e, f) ==
    \/ Priority(e) < Priority(f)
    \/ /\ Priority(e) = Priority(f)
       /\ \/ status[e] # "synced" /\ status[f] = "synced"
          \/ /\ (status[e] = "synced") <=> (status[f] = "synced")
             /\ IF status[e] = "synced" THEN <<e, f>> \in older
                                        ELSE Rank[e] < Rank[f]

Selections ==
    LET selectable == {e \in Events : Selectable(e)}
    IN  {S \in SUBSET selectable :
            /\ \A e \in S, f \in selectable \ S : Precedes(e, f)
            /\ \/ Cardinality(S) = Limit
               \/ S = selectable /\ Cardinality(S) < Limit}

Snapshot(e) == [
    event |-> e, content |-> content[e], deleted |-> deleted[e],
    revision |-> revision[e], status |-> status[e],
    outlookId |-> outlookId[e], contentHash |-> contentHash[e],
    presentation |-> presentation[e], lastPresentation |-> lastPresentation[e],
    payload |-> None, reference |-> None, wrote |-> FALSE]

\* The query and the reads of the selected rows are one step: a tool that
\* commits between them only makes the snapshot of its rows a later one.
StartBatch ==
    /\ pc = "idle"
    /\ \E S \in Selections :
          /\ S # {}
          /\ batch' = {Snapshot(e) : e \in S}
    /\ pc' = "batch"
    /\ UNCHANGED <<eventVars, rule, mappingVars, graphVars, work, unrecorded>>

EndBatch ==
    /\ pc = "batch"
    /\ batch = {}
    /\ pc' = "idle"
    /\ UNCHANGED <<eventVars, rule, mappingVars, graphVars, batch, work,
                   unrecorded>>

-----------------------------------------------------------------------------
(* Taking up one candidate: the branches of _synchronize_core up to the     *)
(* first Graph request.                                                     *)

TakeUp(c, next, state) ==
    /\ pc = "batch"
    /\ batch' = batch \ {c}
    /\ pc' = state
    /\ work' = IF state = "batch" THEN None ELSE next

\* Mutant: any removed event is closed without a Graph request.
FinalizeSent(c) ==
    /\ c.deleted
    /\ TakeUp(c, c, "batch")
    /\ status' = [status EXCEPT ![c.event] = "deleted"]
    /\ UNCHANGED <<eventVars, rule, identity, progress, presentation,
                   graphVars, unrecorded>>

\* An event removed before Outlook ever answered for it: nothing to delete.
FinalizeUnsent(c) ==
    /\ c.deleted
    /\ c.outlookId = None
    /\ TakeUp(c, c, "batch")
    /\ status' = [status EXCEPT ![c.event] = "deleted"]
    /\ UNCHANGED <<eventVars, rule, identity, progress, presentation,
                   graphVars, unrecorded>>

MarkDeletePending(c) ==
    /\ c.deleted
    /\ c.outlookId # None
    /\ c.status # "delete_pending"
    /\ TakeUp(c, [c EXCEPT !.status = "delete_pending"], "deleting")
    /\ status' = [status EXCEPT ![c.event] = "delete_pending"]
    /\ UNCHANGED <<eventVars, rule, identity, progress, presentation,
                   graphVars, unrecorded>>

\* A pending deletion is finished first, even if the event has reappeared.
ResumeDelete(c) ==
    /\ c.status = "delete_pending"
    /\ TakeUp(c, c, "deleting")
    /\ UNCHANGED <<eventVars, rule, mappingVars, graphVars, unrecorded>>

SkipCancelled(c) ==
    /\ ~c.deleted
    /\ c.status = "absent"
    /\ c.content \in Cancelled
    /\ TakeUp(c, c, "batch")
    /\ UNCHANGED <<eventVars, rule, mappingVars, graphVars, unrecorded>>

\* A UUID that no mapping and no request has carried.
FreshTransactions ==
    {t \in Transactions : /\ \A e \in Events : transaction[e] # t
                          /\ \A a \in Appointments : owner[a] # t}

CreatePending(c) ==
    /\ ~c.deleted
    /\ c.status = "absent"
    /\ c.content \notin Cancelled
    /\ TakeUp(c, [c EXCEPT !.status = "pending"], "reload")
    /\ status' = [status EXCEPT ![c.event] = "pending"]
    /\ FreshTransactions # {}
    /\ transaction' = [transaction EXCEPT
          ![c.event] = CHOOSE t \in FreshTransactions : TRUE]
    /\ UNCHANGED <<eventVars, rule, outlookId, contentHash, progress,
                   presentation, graphVars, unrecorded>>

\* revive_deleted forgets the Outlook ID and keeps the transaction ID.
ReviveDeleted(c) ==
    /\ ~c.deleted
    /\ c.status = "deleted"
    /\ TakeUp(c, [c EXCEPT !.status = "pending", !.outlookId = None,
                           !.contentHash = None], "reload")
    /\ status' = [status EXCEPT ![c.event] = "pending"]
    /\ outlookId' = [outlookId EXCEPT ![c.event] = None]
    /\ contentHash' = [contentHash EXCEPT ![c.event] = None]
    /\ lastSynced' = [lastSynced EXCEPT ![c.event] = 0]
    /\ lastPresentation' = [lastPresentation EXCEPT ![c.event] = 0]
    /\ UNCHANGED <<eventVars, rule, transaction, older, presentation,
                   graphVars, unrecorded>>

\* Mutant: the removal of the event is not looked at.
UseAnyMapping(c) ==
    /\ c.status \in Retryable
    /\ TakeUp(c, c, "render")
    /\ UNCHANGED <<eventVars, rule, mappingVars, graphVars, unrecorded>>

UseMapping(c) ==
    /\ ~c.deleted
    /\ c.status \in Retryable
    /\ TakeUp(c, c, "render")
    /\ UNCHANGED <<eventVars, rule, mappingVars, graphVars, unrecorded>>

\* The first write of the candidate raises (database locked by a tool): the
\* orchestrator counts a failure and goes on; no row has changed.
TakeUpFails(c) ==
    /\ "database" \in Faults
    /\ \/ c.deleted /\ c.status # "delete_pending"
       \/ ~c.deleted /\ c.status = "deleted"
       \/ ~c.deleted /\ c.status = "absent" /\ c.content \notin Cancelled
    /\ TakeUp(c, c, "batch")
    /\ UNCHANGED <<eventVars, rule, mappingVars, graphVars, unrecorded>>

-----------------------------------------------------------------------------
(* The steps of the candidate in progress.                                 *)

Goto(state) == pc' = state /\ UNCHANGED <<batch, work>>
Done == pc' = "batch" /\ work' = None /\ UNCHANGED batch
UnchangedStores == UNCHANGED <<eventVars, rule, mappingVars, graphVars, unrecorded>>

\* The inserted or revived row is read back on a connection of its own.
Reload ==
    /\ pc = "reload"
    /\ work' = [work EXCEPT !.presentation = presentation[work.event],
                            !.lastPresentation = lastPresentation[work.event]]
    /\ pc' = "render"
    /\ UNCHANGED batch
    /\ UnchangedStores

\* The payload is built from the snapshot's event and the rules as they are
\* now, and decides between create, mark_checked and update.
Rendered == <<work.content, rule[work.event]>>

AfterRender ==
    IF work.outlookId = None
    THEN IF work.status = "failed" THEN "prepare" ELSE "create"
    ELSE IF work.contentHash = Rendered THEN "check" ELSE "update"

Render ==
    /\ pc = "render"
    /\ work' = [work EXCEPT !.payload = Rendered]
    /\ pc' = AfterRender
    /\ UNCHANGED batch
    /\ UnchangedStores

RenderFails == "render" \in Faults /\ pc = "render" /\ Goto("fail") /\ UnchangedStores

\* Mutant: each retry of a creation takes a new transaction ID.
MarkPendingAnew ==
    /\ pc = "prepare"
    /\ status' = [status EXCEPT ![work.event] = "pending"]
    /\ FreshTransactions # {}
    /\ transaction' = [transaction EXCEPT
          ![work.event] = CHOOSE t \in FreshTransactions : TRUE]
    /\ Goto("create")
    /\ UNCHANGED <<eventVars, rule, outlookId, contentHash, progress,
                   presentation, graphVars, unrecorded>>

\* A failed creation is retried as pending.
MarkPending ==
    /\ pc = "prepare"
    /\ status' = [status EXCEPT ![work.event] = "pending"]
    /\ Goto("create")
    /\ UNCHANGED <<eventVars, rule, identity, progress, presentation,
                   graphVars, unrecorded>>

\* Outlook: a create request whose transactionId has a live appointment
\* returns that appointment as it is; otherwise a new one shows the payload.
Existing(t) == {a \in Appointments : appointment[a] = "live" /\ owner[a] = t}

\* Which unused ID Graph hands out makes no difference: one of them is chosen.
UnusedIds == {a \in Appointments : appointment[a] = "unused"}

GraphCreate(t, p, a) ==
    IF Existing(t) # {}
    THEN a \in Existing(t) /\ UNCHANGED graphVars
    ELSE /\ a \in UnusedIds /\ a = CHOOSE b \in UnusedIds : TRUE
         /\ appointment' = [appointment EXCEPT ![a] = "live"]
         /\ owner' = [owner EXCEPT ![a] = t]
         /\ body' = [body EXCEPT ![a] = p]

CreateUnchanged == UNCHANGED <<eventVars, rule, mappingVars, batch>>

CreateEvent ==
    /\ pc = "create"
    /\ \E a \in Appointments :
          /\ GraphCreate(transaction[work.event], work.payload, a)
          /\ work' = [work EXCEPT !.reference = a,
                         !.wrote = (Existing(transaction[work.event]) = {})]
    /\ pc' = "created"
    /\ unrecorded' = unrecorded \cup {work.event}
    /\ CreateUnchanged

CreateLost ==
    /\ "lost" \in Faults
    /\ pc = "create"
    /\ \E a \in Appointments :
          GraphCreate(transaction[work.event], work.payload, a)
    /\ pc' = "fail"
    /\ unrecorded' = unrecorded \cup {work.event}
    /\ UNCHANGED work
    /\ CreateUnchanged

\* A request Graph refuses or that never reaches it.
Rejected ==
    /\ "reject" \in Faults
    /\ pc \in {"create", "update"}
    /\ Goto("fail")
    /\ UnchangedStores

PatchBody ==
    /\ appointment[work.outlookId] = "live"
    /\ body' = [body EXCEPT ![work.outlookId] = work.payload]
    /\ unrecorded' = unrecorded \cup {work.event}
    /\ UNCHANGED <<eventVars, rule, mappingVars, appointment, owner, batch>>

UpdateEvent ==
    /\ pc = "update"
    /\ PatchBody
    /\ pc' = "updated"
    /\ work' = [work EXCEPT !.reference = work.outlookId, !.wrote = TRUE]

UpdateLost ==
    /\ "lost" \in Faults
    /\ pc = "update"
    /\ PatchBody
    /\ pc' = "fail"
    /\ UNCHANGED work

\* HTTP 404: the appointment was removed in Outlook.  The error is handled
\* like any other, so the mapping keeps the dead Outlook ID.
UpdateMissing ==
    /\ pc = "update"
    /\ appointment[work.outlookId] = "gone"
    /\ Goto("fail")
    /\ UnchangedStores

\* Mutant: the revisions are those at the write, not those captured.
RecordLatestRevisions(e) ==
    /\ status' = [status EXCEPT ![e] = "synced"]
    /\ lastSynced' = [lastSynced EXCEPT ![e] = revision[e]]
    /\ lastPresentation' = [lastPresentation EXCEPT ![e] = presentation[e]]
    /\ older' = {p \in older : p[1] # e} \cup {<<f, e>> : f \in Events \ {e}}

\* mark_synced and mark_checked record the captured revisions; the row is
\* "synced" only if both are still the current ones.
RecordRevisions(e) ==
    /\ status' = [status EXCEPT ![e] =
          IF work.revision = revision[e] /\ work.presentation = presentation[e]
          THEN "synced" ELSE "pending"]
    /\ lastSynced' = [lastSynced EXCEPT ![e] = work.revision]
    /\ lastPresentation' = [lastPresentation EXCEPT ![e] = work.presentation]
    /\ older' = {p \in older : p[1] # e} \cup {<<f, e>> : f \in Events \ {e}}

RecordSynced ==
    /\ pc \in {"created", "updated"}
    /\ RecordRevisions(work.event)
    /\ outlookId' = [outlookId EXCEPT ![work.event] = work.reference]
    /\ contentHash' = [contentHash EXCEPT ![work.event] = work.payload]
    /\ unrecorded' = IF work.wrote THEN unrecorded \ {work.event} ELSE unrecorded
    /\ UNCHANGED <<eventVars, rule, transaction, presentation, graphVars>>

MarkSynced == RecordSynced /\ Done

\* The row is written and reading it back raises: the event is marked failed.
MarkSyncedUnread == "database" \in Faults /\ RecordSynced /\ Goto("fail")

MarkSyncedFails ==
    /\ "database" \in Faults
    /\ pc \in {"created", "updated"}
    /\ Goto("fail")
    /\ UnchangedStores

MarkChecked ==
    /\ pc = "check"
    /\ RecordRevisions(work.event)
    /\ Done
    /\ UNCHANGED <<eventVars, rule, identity, presentation, graphVars, unrecorded>>

\* request_presentation_refresh could not be stored.
RefreshFails ==
    /\ "database" \in Faults
    /\ pc = "check"
    /\ work.presentation > work.lastPresentation
    /\ Goto("fail")
    /\ UnchangedStores

\* Mutant: a failure also stores the hash of the payload it attempted.
MarkFailedWithHash ==
    /\ pc = "fail"
    /\ status' = [status EXCEPT ![work.event] = "failed"]
    /\ contentHash' = [contentHash EXCEPT ![work.event] = work.payload]
    /\ Done
    /\ UNCHANGED <<eventVars, rule, transaction, outlookId, progress,
                   presentation, graphVars, unrecorded>>

MarkFailed ==
    /\ pc = "fail"
    /\ status' = [status EXCEPT ![work.event] = "failed"]
    /\ Done
    /\ UNCHANGED <<eventVars, rule, identity, progress, presentation,
                   graphVars, unrecorded>>

\* DELETE; 404 counts as success.
DeleteEvent ==
    /\ pc = "deleting"
    /\ appointment' = [appointment EXCEPT ![work.outlookId] = "gone"]
    /\ Goto("removed")
    /\ UNCHANGED <<eventVars, rule, mappingVars, owner, body, unrecorded>>

DeleteLost ==
    /\ "lost" \in Faults
    /\ pc = "deleting"
    /\ appointment' = [appointment EXCEPT ![work.outlookId] = "gone"]
    /\ Done
    /\ UNCHANGED <<eventVars, rule, mappingVars, owner, body, unrecorded>>

\* mark_delete_failed leaves the row delete_pending.
DeleteRejected ==
    /\ "reject" \in Faults
    /\ pc = "deleting"
    /\ Done
    /\ UnchangedStores

MarkDeleted ==
    /\ pc = "removed"
    /\ status' = [status EXCEPT ![work.event] = "deleted"]
    /\ Done
    /\ UNCHANGED <<eventVars, rule, identity, progress, presentation,
                   graphVars, unrecorded>>

\* A write raises that no mark_failed follows, or reading its row back does.
WriteFails ==
    /\ "database" \in Faults
    /\ \/ pc \in {"reload", "prepare", "check", "fail", "deleting", "removed"}
       \/ pc = "create" /\ work.status = "failed"
    /\ Done
    /\ UnchangedStores

-----------------------------------------------------------------------------
\* The user deletes an appointment in Outlook.
UserRemoves(a) ==
    /\ "user" \in Faults
    /\ appointment[a] = "live"
    /\ appointment' = [appointment EXCEPT ![a] = "gone"]
    /\ UNCHANGED <<eventVars, rule, mappingVars, owner, body, processVars,
                   unrecorded>>

Import == \E e \in Events :
    \/ \E c \in Contents : ImportFixture(e, c)
    \/ RemoveFixture(e)

Tools ==
    \/ \E scope \in SUBSET Events, new \in [Events -> Rules] :
          scope # {} /\ ChangePresentation(scope, new)
    \/ \E e \in Events : Retire(e) \/ Reactivate(e)

TakeUpCandidate == \E c \in batch :
    \/ FinalizeUnsent(c)
    \/ MarkDeletePending(c)
    \/ ResumeDelete(c)
    \/ SkipCancelled(c)
    \/ CreatePending(c)
    \/ ReviveDeleted(c)
    \/ UseMapping(c)
    \/ TakeUpFails(c)

Progress ==
    \/ Reload \/ Render \/ MarkPending
    \/ CreateEvent \/ UpdateEvent \/ UpdateMissing
    \/ MarkSynced \/ MarkChecked \/ MarkFailed
    \/ DeleteEvent \/ MarkDeleted

Fault ==
    \/ RenderFails \/ Rejected \/ CreateLost \/ UpdateLost
    \/ MarkSyncedFails \/ MarkSyncedUnread \/ RefreshFails
    \/ DeleteLost \/ DeleteRejected \/ WriteFails
    \/ \E a \in Appointments : UserRemoves(a)

Next ==
    \/ Import \/ Tools
    \/ Start \/ Stop \/ Crash
    \/ StartBatch \/ EndBatch
    \/ TakeUpCandidate \/ Progress \/ Fault

Spec == Init /\ [][Next]_vars

\* The supervisor restarts the container, the scheduler starts a batch again
\* and again and runs it to its end, and Graph does not refuse every request
\* for ever.
Fairness ==
    /\ WF_vars(Start)
    /\ SF_vars(StartBatch)
    /\ WF_vars(EndBatch \/ TakeUpCandidate \/ Progress)
    /\ SF_vars(CreateEvent \/ UpdateEvent \/ DeleteEvent)

FairSpec == Spec /\ Fairness

-----------------------------------------------------------------------------
(* Safety.                                                                 *)

\* A live mapping the candidate query would treat as behind.
Actionable(e) ==
    \/ status[e] # "synced"
    \/ revision[e] > lastSynced[e]
    \/ presentation[e] > lastPresentation[e]

\* No update is lost: a mapping that no longer asks for work carries the hash
\* of what the event and its rule would render now, whatever was committed by
\* a tool while its batch was running.
NoLostUpdate == \A e \in Events :
    status[e] # "absent" /\ ~Actionable(e)
        => contentHash[e] = <<content[e], rule[e]>>

\* The stored hash is that of the body Outlook shows, unless a Graph write
\* was applied whose outcome the database never recorded.
HashIsShown == \A e \in Events :
    /\ outlookId[e] # None
    /\ e \notin unrecorded
    => \/ appointment[outlookId[e]] = "gone"
       \/ body[outlookId[e]] = contentHash[e]

\* Whatever is lost, retried or interrupted, the calendar holds at most one
\* appointment for an event, and none that no mapping can find again by its
\* transaction ID.
OneAppointmentPerEvent == \A a \in Appointments :
    appointment[a] = "live" =>
        /\ \E e \in Events : status[e] # "absent" /\ transaction[e] = owner[a]
        /\ \A b \in Appointments :
              appointment[b] = "live" /\ owner[b] = owner[a] => b = a

\* A deletion is recorded only once the appointment is gone, for every mapping
\* that knows its Outlook ID.
DeletedMeansGone == \A e \in Events :
    status[e] = "deleted" /\ outlookId[e] # None => Existing(transaction[e]) = {}

WritesNoRetired ==
    \A e \in retired \cap retired' :
        /\ <<status[e], outlookId[e], contentHash[e], lastSynced[e]>>' =
              <<status[e], outlookId[e], contentHash[e], lastSynced[e]>>
        /\ \A a \in Appointments :
              owner'[a] = transaction[e] /\ transaction[e] # None =>
                  owner[a] = owner'[a] /\ body'[a] = body[a]

\* The synchronizer writes nothing, neither rows nor appointments, for an
\* event in a retired scope.
RetiredFrozen == [][WritesNoRetired]_vars

CreatesForPresent ==
    \A a \in Appointments :
        appointment[a] = "unused" /\ appointment'[a] = "live" =>
            \E e \in Events : transaction[e] = owner'[a] /\ ~deleted[e]

\* No appointment appears for an event that is removed at that moment, however
\* many cycles ago its creation was first tried.
NothingAppearsForRemoved == [][CreatesForPresent]_vars

-----------------------------------------------------------------------------
(* Liveness, under FairSpec.                                               *)

\* Outlook agrees with the database about e and the mapping says so.
Settled(e) ==
    \/ content[e] = None
    \/ e \in retired
    \/ /\ deleted[e]
       /\ status[e] \in {"absent", "deleted"}
       /\ Existing(transaction[e]) = {}
    \/ content[e] \in Cancelled /\ status[e] = "absent"
    \/ /\ ~deleted[e]
       /\ ~Actionable(e)
       /\ \E a \in Existing(transaction[e]) : body[a] = <<content[e], rule[e]>>

\* Once imports and tools pause, refused requests, pending deletions, revivals
\* and a batch smaller than the backlog all work out.
EventuallySettled == \A e \in Events : <>[]Settled(e)

\* A scheduled fixture without an appointment gets one, unless it is cancelled,
\* removed or retired first.
EveryFixtureIsCreated == \A e \in Events :
    (/\ content[e] \in Contents \ Cancelled
     /\ ~deleted[e] /\ e \notin retired /\ outlookId[e] = None)
    ~> (\/ outlookId[e] # None
        \/ content[e] \in Cancelled \/ deleted[e] \/ e \in retired)

=============================================================================
