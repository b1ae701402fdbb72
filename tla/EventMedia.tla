----------------------------- MODULE EventMedia -----------------------------
(***************************************************************************)
(* Inline images of one Outlook appointment                                *)
(* (app/synchronization/event_media_synchronizer.py), the rows that        *)
(* remember them (app/database/event_asset_attachments_repository.py) and  *)
(* the library of approved images they are chosen from                     *)
(* (app/database/media_assets_repository.py, app/media).                   *)
(*                                                                         *)
(* The synchronizing process works through one event at a time: the text   *)
(* of the appointment first, then its images, one Graph request or         *)
(* transaction after the other.  The library's command line commits        *)
(* between any two of them.  A request may be refused, may be applied with *)
(* its answer lost, or may be the last thing the process does.             *)
(***************************************************************************)
EXTENDS Naturals, FiniteSets

CONSTANTS
    Slots,         \* places for images, numbered in the order of MEDIA_SLOTS
    Assets,        \* versions of images
    Stored,        \* versions imported before
    Key,           \* the family (asset_key) of a version
    Role,          \* owner and variant of a family
    Sha,           \* the digest of the stored bytes
    Contents,      \* states of the canonical event that the text shows
    Candidates,    \* roles an event in this state tries for a slot, by rank
    Affected,      \* roles whose owner an event in this state refers to
    ContentIds,    \* the values uuid4 can return
    Attachments,   \* attachment IDs Graph can hand out
    None,          \* SQL NULL, Python None
    Faults,        \* the faults a behaviour may contain
    Fragile,       \* bound: digests whose stored file may be lost
    Rewrites,      \* bound: the changes <<from, to>> imports make to the text
    MaxPresentation \* bound on presentation_revision, by state of the event

ASSUME SlotAssumption == Slots \subseteq Nat /\ IsFiniteSet(Slots)
ASSUME LibraryAssumption ==
    /\ Stored \subseteq Assets
    /\ DOMAIN Key = Assets
    /\ DOMAIN Sha = Assets
    /\ \A x \in Assets : Key[x] \in DOMAIN Role
ASSUME FileAssumption == Fragile \subseteq {Sha[x] : x \in Assets}
ASSUME IdAssumption == ContentIds \subseteq Nat /\ Attachments \subseteq Nat
ASSUME NoneAssumption ==
    /\ None \notin Assets \cup ContentIds \cup Attachments \cup Contents
    /\ \A x \in Assets : Sha[x] # None
ASSUME FaultAssumption ==
    Faults \subseteq {"refused", "lost", "repeated", "died", "unrecorded", "user"}
ASSUME BoundAssumption ==
    /\ Rewrites \subseteq Contents \X Contents
    /\ MaxPresentation \in [Contents -> Nat \ {0}]

VARIABLES
    \* media_assets
    imported, active,
    \* the digests whose file is stored
    files,
    \* the canonical event, as provider imports leave it
    content, removed,
    \* calendar_event_mappings: its state, the hash of the text last recorded,
    \* presentation_revision and last_synced_presentation_revision
    mapping, hash, presentation, acknowledged,
    \* calendar_event_asset_attachments, one row per slot, None without one
    row,
    \* the appointment: its attachments and the images its body refers to, None
    \* without one
    remote, body,
    \* the process: what it does next, the slots it still has to, the snapshot
    \* it works from, whether it has just rewritten the text
    pc, todo, snapshot, written,
    \* history: the body is in a state that no row describes, because it lost an
    \* image outside the protocol, was changed without a record of it, or the
    \* record that it has to be written again is gone
    damaged

libraryVars == <<imported, active, files>>
eventVars   == <<content, removed>>
mappingVars == <<mapping, hash, presentation, acknowledged>>
graphVars   == <<remote, body>>
processVars == <<pc, todo, snapshot, written>>
vars == <<libraryVars, eventVars, mappingVars, row, graphVars, processVars,
          damaged>>

-----------------------------------------------------------------------------

\* What a row remembers of one uploaded (or intended) image.
Images == [asset: Assets, cid: ContentIds, attachment: Attachments \cup {None}]
Statuses == {"pending", "uploaded", "synced", "failed", "cleanup_pending",
             "event_deleted"}
Rows == [desired: Assets \cup {None}, synced: Images \cup {None},
         pending: Images \cup {None}, obsolete: Attachments \cup {None},
         status: Statuses]

NoImages == [s \in Slots |-> None]
Bodies == [images: [Slots -> ContentIds \cup {None}]]
Text == [images |-> NoImages]

ASSUME RowAssumption == None \notin Rows \cup Images \cup Bodies

Steps == {"idle", "text", "text_sent", "queued", "deleted", "unmapped",
          "refresh", "clean", "audit", "select", "reclean", "prepare",
          "upload", "finish"}

Init ==
    /\ imported = Stored /\ active = {} /\ files = {Sha[x] : x \in Stored}
    /\ content \in Contents /\ removed = FALSE
    /\ mapping = "absent" /\ hash = None
    /\ presentation = 1 /\ acknowledged = 0
    /\ row = NoImages
    /\ remote = {} /\ body = None
    /\ pc = "idle" /\ todo = {} /\ snapshot = None /\ written = FALSE
    /\ damaged = FALSE

-----------------------------------------------------------------------------
(* The library's command line: import, approve, disable.                   *)

LibraryUnchanged == UNCHANGED <<eventVars, mapping, hash, acknowledged, row,
                                graphVars, processVars, damaged>>

\* A changed image of an owner raises presentation_revision of the mappings of
\* its events, whatever their state.
Invalidate(x) ==
    IF mapping # "absent" /\ Role[Key[x]] \in Affected[content]
    THEN /\ presentation < MaxPresentation[content]
         /\ presentation' = presentation + 1
    ELSE UNCHANGED presentation

StoreFile(x) == files' = files \cup {Sha[x]}

CreatePending(x) == imported' = imported \cup {x}

\* import and replace: the file first, then a version of the family; the same
\* bytes with the same rights again are the same version, and their file is put
\* back where it is gone.
ImportAsset(x) ==
    /\ x \notin imported \/ Sha[x] \notin files
    /\ StoreFile(x)
    /\ CreatePending(x) \/ ("died" \in Faults /\ UNCHANGED imported)
    /\ UNCHANGED <<active, presentation>>
    /\ LibraryUnchanged

\* The stored file is there, with the size and the digest of the version.
Verified(x) == Sha[x] \in files

\* A stored file is lost.
LoseFile(h) ==
    /\ h \in files \cap Fragile
    /\ files' = files \ {h}
    /\ UNCHANGED <<imported, active, presentation>>
    /\ LibraryUnchanged

\* approve: the file is verified, the active version of the family superseded.
Approve(x) ==
    /\ x \in imported \ active
    /\ Verified(x)
    /\ active' = {y \in active : Key[y] # Key[x]} \cup {x}
    /\ Invalidate(x)
    /\ UNCHANGED <<imported, files>>
    /\ LibraryUnchanged

Disable(x) ==
    /\ x \in active
    /\ active' = active \ {x}
    /\ Invalidate(x)
    /\ UNCHANGED <<imported, files>>
    /\ LibraryUnchanged

\* get_active_for_owner_variant: two families may claim one role.
Claims(role) == {x \in active : Role[Key[x]] = role}

\* EventAssetSelector.select, for a slot: the first role with an active image.
FirstClaimed(c, s) ==
    {i \in DOMAIN Candidates[c][s] :
        /\ Claims(Candidates[c][s][i]) # {}
        /\ \A j \in 1 .. i - 1 : Claims(Candidates[c][s][j]) = {}}

Selection(c, s) == UNION {Claims(Candidates[c][s][i]) : i \in FirstClaimed(c, s)}

Ambiguous(c) == \E s \in Slots : Cardinality(Selection(c, s)) > 1

Selected(c, s) ==
    IF Selection(c, s) = {} THEN None ELSE CHOOSE x \in Selection(c, s) : TRUE

-----------------------------------------------------------------------------
(* Provider imports, between batches.                                      *)

ImportEvent(c, gone) ==
    /\ pc = "idle"
    /\ <<c, gone>> # <<content, removed>>
    /\ gone => c = content
    /\ c # content => /\ <<content, c>> \in Rewrites
                      /\ presentation <= MaxPresentation[c]
    /\ content' = c
    /\ removed' = gone
    /\ UNCHANGED <<libraryVars, mappingVars, row, graphVars, processVars, damaged>>

\* A person removes an attachment in Outlook.
UserRemoves(a) ==
    /\ "user" \in Faults
    /\ a \in remote
    /\ remote' = remote \ {a}
    /\ damaged' = TRUE
    /\ UNCHANGED <<libraryVars, eventVars, mappingVars, row, body, processVars>>

-----------------------------------------------------------------------------
(* The text of the appointment (EventSynchronizer._synchronize_core), as    *)
(* far as the images depend on it.  CalendarSync has the whole of it.       *)

Goto(step, slots) == pc' = step /\ todo' = slots
Done == Goto("idle", {}) /\ snapshot' = None /\ written' = FALSE
Stay == UNCHANGED <<snapshot, written>>

Begin ==
    /\ pc = "idle"
    /\ removed => mapping = "live"
    /\ Goto("text", {})
    /\ snapshot' = [content |-> content, removed |-> removed,
                    presentation |-> presentation]
    /\ UNCHANGED <<libraryVars, eventVars, mappingVars, row, graphVars, written,
                   damaged>>

\* get_candidates has nothing to do for a removed event without appointment.
LeaveOut ==
    /\ pc = "idle" /\ removed /\ mapping # "live"
    /\ UNCHANGED vars

\* The process dies, and starts again with the next batch.
Die ==
    /\ "died" \in Faults
    /\ pc # "idle"
    /\ Done
    /\ damaged' = (damaged \/ pc \in {"text_sent", "unmapped"}
                           \/ (pc = "refresh" /\ written))
    /\ UNCHANGED <<libraryVars, eventVars, mappingVars, row, graphVars>>

\* Every image the body refers to is attached.
Attached(b) ==
    \A s \in Slots : b.images[s] # None => \E a \in remote : a.cid = b.images[s]

\* The attachments the rows believe in are there.
RowsIntact(attachments) ==
    \A s \in Slots : row[s] # None =>
        \A i \in {row[s].synced, row[s].pending} \ {None} :
            i.attachment # None =>
                [id |-> i.attachment, cid |-> i.cid] \in attachments

TextChanged == mapping # "live" \/ hash # snapshot.content

\* The process died between the deletion and its record, and the event is back:
\* every request for its appointment is answered with 404.
Gone == mapping = "live" /\ body = None

\* POST of a new appointment or PATCH of the present one; both carry the text
\* without images, and a new appointment has no attachments.
WriteText ==
    /\ pc = "text" /\ ~snapshot.removed /\ TextChanged /\ ~Gone
    /\ body' = Text
    /\ remote' = IF mapping = "live" THEN remote ELSE {}
    /\ damaged' = (damaged /\ ~RowsIntact(remote'))
    /\ Goto("text_sent", {})
    /\ Stay
    /\ UNCHANGED <<libraryVars, eventVars, mappingVars, row>>

RecordText ==
    /\ pc = "text_sent"
    /\ mapping' = "live"
    /\ hash' = snapshot.content
    /\ acknowledged' = snapshot.presentation
    /\ Goto("refresh", {})
    /\ written' = TRUE
    /\ UNCHANGED <<libraryVars, eventVars, presentation, row, graphVars, snapshot,
                   damaged>>

\* Graph refuses the request, or a person edits nothing: the cycle ends.
RefuseText ==
    /\ pc = "text" /\ (snapshot.removed \/ TextChanged)
    /\ Done
    /\ UNCHANGED <<libraryVars, eventVars, mappingVars, row, graphVars, damaged>>

\* mark_body_refresh_required
Refreshed(r) ==
    IF r = None THEN None
    ELSE IF r.status = "event_deleted" THEN r ELSE [r EXCEPT !.status = "failed"]

\* The text is unchanged; a newer presentation is queued for the images before
\* mark_checked acknowledges it.
QueueRefresh ==
    /\ pc = "text" /\ ~snapshot.removed /\ ~TextChanged
    /\ row' = IF snapshot.presentation > acknowledged
              THEN [s \in Slots |-> Refreshed(row[s])] ELSE row
    /\ Goto("queued", {})
    /\ Stay
    /\ UNCHANGED <<libraryVars, eventVars, mappingVars, graphVars, damaged>>

MarkChecked ==
    /\ pc = "queued"
    /\ acknowledged' = snapshot.presentation
    /\ Goto("refresh", {})
    /\ Stay
    /\ UNCHANGED <<libraryVars, eventVars, mapping, hash, presentation, row,
                   graphVars, damaged>>

DeleteEvent ==
    /\ pc = "text" /\ snapshot.removed
    /\ remote' = {} /\ body' = None
    /\ Goto("deleted", {})
    /\ Stay
    /\ UNCHANGED <<libraryVars, eventVars, mappingVars, row, damaged>>

MarkDeleted ==
    /\ pc = "deleted"
    /\ mapping' = "deleted"
    /\ Goto("unmapped", {})
    /\ Stay
    /\ UNCHANGED <<libraryVars, eventVars, hash, presentation, acknowledged, row,
                   graphVars, damaged>>

Forgotten == [desired |-> None, synced |-> None, pending |-> None,
              obsolete |-> None, status |-> "event_deleted"]

MarkEventDeleted ==
    /\ pc = "unmapped"
    /\ row' = [s \in Slots |-> IF row[s] = None THEN None ELSE Forgotten]
    /\ Done
    /\ UNCHANGED <<libraryVars, eventVars, mappingVars, graphVars, damaged>>

-----------------------------------------------------------------------------
(* EventMediaSynchronizer.reconcile.  A request has one of these outcomes:  *)
(* answered, refused, applied with its answer lost, applied twice with the  *)
(* answers lost, or applied as the process dies.                            *)

Outcomes == {"answered"} \cup (Faults \cap {"refused", "lost", "repeated", "died"})
Applied(o) == o # "refused"

Existing == {s \in Slots : row[s] # None}
ShaOf(x) == IF x = None THEN None ELSE Sha[x]
CidOf(i) == IF i = None THEN None ELSE i.cid
ImageSha(i) == IF i = None THEN None ELSE Sha[i.asset]
Failed(r) == [r EXCEPT !.status = "failed"]
Obsolete == {s \in Existing : row[s].obsolete # None}
Synchronized == {s \in Existing : row[s].synced # None}

MediaUnchanged == <<libraryVars, eventVars, mappingVars>>

\* After the text was rewritten every image has to be shown anew.
StartReconcile ==
    /\ pc = "refresh"
    /\ row' = IF written THEN [s \in Slots |-> Refreshed(row[s])] ELSE row
    /\ Goto("clean", Obsolete)
    /\ Stay
    /\ UNCHANGED <<MediaUnchanged, graphVars, damaged>>

\* mark_cleanup_complete
Cleaned(r) == [r EXCEPT !.obsolete = None,
                        !.status = IF ShaOf(r.desired) = ImageSha(r.synced)
                                   THEN "synced" ELSE "pending"]

\* A row that says "synced" of an image the body does not show: mark_cleanup_complete
\* and reconcile_desired write it over a refresh queued before, and unless the
\* body is written in this cycle the refresh is forgotten (README, section 13).
Overwritten(r, s) ==
    /\ r.status = "synced"
    /\ body # None /\ body.images[s] # CidOf(r.synced)

\* _cleanup_obsolete, one slot: an attachment that is gone already is fine.
Clean(s, o) ==
    /\ pc \in {"clean", "reclean", "finish"}
    /\ s \in todo /\ \A t \in todo : s <= t
    /\ remote' = IF Applied(o) THEN {a \in remote : a.id # row[s].obsolete}
                               ELSE remote
    /\ row' = CASE o = "answered" -> [row EXCEPT ![s] = Cleaned(@)]
                [] o = "died"     -> row
                [] OTHER          -> [row EXCEPT ![s] = Failed(@)]
    /\ IF o = "died" THEN Done ELSE Goto(pc, todo \ {s}) /\ Stay
    /\ damaged' = (damaged \/ (o = "answered" /\ Overwritten(Cleaned(row[s]), s)))
    /\ UNCHANGED <<MediaUnchanged, body>>

\* What an unfinished cleanup, or a body to be shown anew, does next.
NeedsAudit ==
    /\ written \/ \E s \in Synchronized : row[s].status = "failed"
    /\ Synchronized # {}

EndClean ==
    /\ pc = "clean" /\ todo = {}
    /\ IF Obsolete # {} THEN Done
       ELSE Goto(IF NeedsAudit THEN "audit" ELSE "select", {}) /\ Stay
    /\ UNCHANGED <<MediaUnchanged, row, graphVars, damaged>>

\* mark_remote_missing
Missing(r) == [r EXCEPT !.synced = None,
                        !.status = IF r.desired = None THEN "synced" ELSE "pending"]

Present(i) == [id |-> i.attachment, cid |-> i.cid] \in remote

\* _recover_missing_remote: the attachments the rows believe in are listed.
Audit ==
    /\ pc = "audit" /\ ~Gone
    /\ row' = [s \in Slots |->
          IF s \in Synchronized /\ ~Present(row[s].synced) THEN Missing(row[s])
                                                           ELSE row[s]]
    /\ Goto("select", {})
    /\ Stay
    /\ UNCHANGED <<MediaUnchanged, graphVars, damaged>>

AuditRefused ==
    /\ pc = "audit"
    /\ row' = [s \in Slots |-> IF s \in Synchronized THEN Failed(row[s])
                                                     ELSE row[s]]
    /\ Done
    /\ UNCHANGED <<MediaUnchanged, graphVars, damaged>>

\* reconcile_desired, one slot.
Desire(r, x) ==
    IF r = None
    THEN IF x = None THEN None
         ELSE [desired |-> x, synced |-> None, pending |-> None,
               obsolete |-> None, status |-> "pending"]
    ELSE IF r.desired = x THEN r
    ELSE LET kept  == ImageSha(r.pending) = ShaOf(x)
             moved == IF r.pending = None \/ kept THEN r.obsolete
                      ELSE IF r.pending.attachment = None THEN r.obsolete
                      ELSE r.pending.attachment
         IN  [r EXCEPT !.desired = x,
                       !.pending = IF kept THEN @ ELSE None,
                       !.obsolete = moved,
                       !.status = IF moved # None THEN "cleanup_pending"
                                  ELSE IF ShaOf(x) = ImageSha(r.synced)
                                  THEN "synced" ELSE "pending"]

Reconciled == [s \in Slots |-> Desire(row[s], Selected(snapshot.content, s))]

\* Images are chosen, and the choice is recorded.
SelectImages ==
    /\ pc = "select" /\ ~Ambiguous(snapshot.content)
    /\ row' = Reconciled
    /\ Goto("reclean", {s \in Slots : Reconciled[s] # None
                                      /\ Reconciled[s].obsolete # None})
    /\ Stay
    /\ damaged' = (damaged \/ \E s \in Slots : /\ Reconciled[s] # row[s]
                                             /\ Overwritten(Reconciled[s], s))
    /\ UNCHANGED <<MediaUnchanged, graphVars>>

\* Two families claim one role: the event's images are left as they are.
SelectAmbiguous ==
    /\ pc = "select" /\ Ambiguous(snapshot.content)
    /\ Done
    /\ UNCHANGED <<MediaUnchanged, row, graphVars, damaged>>

\* Mutant: a failed upload is not taken up again.
PreparableOnce(s) ==
    /\ s \in Existing
    /\ row[s].desired # None
    /\ row[s].status = "pending"
    /\ row[s].pending = None
    /\ row[s].obsolete = None

\* _prepare_uploads: rows whose image has to be uploaded.
Preparable(s) ==
    /\ s \in Existing
    /\ row[s].desired # None
    /\ Sha[row[s].desired] # ImageSha(row[s].synced)
    /\ row[s].pending = None \/ row[s].pending.attachment = None
    /\ row[s].obsolete = None

\* uuid4 and Graph return values that nobody knows yet; which ones makes no
\* difference, so it is the lowest.
KnownContentIds ==
    {a.cid : a \in remote}
    \cup {row[s].pending.cid : s \in {t \in Existing : row[t].pending # None}}
    \cup {row[s].synced.cid : s \in Synchronized}
    \cup (IF body = None THEN {} ELSE {body.images[s] : s \in Slots})
KnownAttachments ==
    {a.id : a \in remote}
    \cup {row[s].pending.attachment : s \in {t \in Existing : row[t].pending # None}}
    \cup {row[s].synced.attachment : s \in Synchronized}
    \cup {row[s].obsolete : s \in Obsolete}
Fresh(pool, known, x) ==
    x \in pool \ known /\ \A y \in pool \ known : x <= y

EndReclean ==
    /\ pc = "reclean" /\ todo = {}
    /\ Goto("prepare", {s \in Slots : Preparable(s)})
    /\ Stay
    /\ UNCHANGED <<MediaUnchanged, row, graphVars, damaged>>

\* prepare_upload, one slot: an unfinished upload of the same bytes keeps its
\* content ID.
Prepare(s) ==
    /\ pc = "prepare" /\ s \in todo /\ \A t \in todo : s <= t
    /\ \E cid \in ContentIds :
          /\ IF ImageSha(row[s].pending) = Sha[row[s].desired]
             THEN cid = row[s].pending.cid
             ELSE Fresh(ContentIds, KnownContentIds, cid)
          /\ row' = [row EXCEPT ![s].pending = [asset |-> row[s].desired,
                                               cid |-> cid, attachment |-> None],
                                ![s].status = "pending"]
    /\ Goto("prepare", todo \ {s})
    /\ Stay
    /\ UNCHANGED <<MediaUnchanged, graphVars, damaged>>

Awaiting == {s \in Existing : /\ row[s].pending # None
                              /\ row[s].pending.attachment = None}
\* Mutant: a row whose recovery failed is uploaded all the same.
UploadableFailed(r) == r.obsolete = None
Uploadable(r) == r.obsolete = None /\ r.status # "failed"

\* _recover_pending: an upload whose answer was lost is found by its content ID,
\* unless it is there twice.
Found(s) == {a \in remote : a.cid = row[s].pending.cid}

Recovered(s) ==
    CASE Found(s) = {} -> row[s]
      [] Cardinality(Found(s)) = 1 ->
            [row[s] EXCEPT !.pending.attachment = (CHOOSE a \in Found(s) : TRUE).id,
                           !.status = "uploaded"]
      [] OTHER -> Failed(row[s])

Recover ==
    /\ pc = "prepare" /\ todo = {} /\ (Gone => Awaiting = {})
    /\ row' = [s \in Slots |-> IF s \in Awaiting THEN Recovered(s) ELSE row[s]]
    /\ Goto("upload", {s \in Awaiting : Cardinality(Found(s)) # 1
                                       /\ Uploadable(Recovered(s))})
    /\ Stay
    /\ UNCHANGED <<MediaUnchanged, graphVars, damaged>>

RecoverRefused ==
    /\ pc = "prepare" /\ todo = {} /\ Awaiting # {}
    /\ row' = [s \in Slots |-> IF s \in Awaiting THEN Failed(row[s]) ELSE row[s]]
    /\ Goto("upload", {s \in Awaiting : Uploadable(Failed(row[s]))})
    /\ Stay
    /\ UNCHANGED <<MediaUnchanged, graphVars, damaged>>

\* read_active_content: the image is not sent where its stored file is gone; the
\* version was active when it was selected.
UploadUnread(s) ==
    /\ pc = "upload"
    /\ s \in todo /\ \A t \in todo : s <= t
    /\ ~Verified(row[s].desired)
    /\ row' = [row EXCEPT ![s] = Failed(@)]
    /\ Goto("upload", todo \ {s})
    /\ Stay
    /\ UNCHANGED <<MediaUnchanged, graphVars, damaged>>

\* _upload_pending, one slot.  A request that a gateway timed out is repeated by
\* the client, although it may have been applied.
Upload(s, o) ==
    /\ pc = "upload"
    /\ s \in todo /\ \A t \in todo : s <= t
    /\ Verified(row[s].desired)
    /\ Gone => o = "refused"
    /\ \E id, again \in Attachments :
          /\ Fresh(Attachments, KnownAttachments, id)
          /\ IF o = "repeated" THEN Fresh(Attachments, KnownAttachments \cup {id}, again)
                               ELSE again = id
          /\ remote' = IF Applied(o)
                       THEN remote \cup {[id |-> i, cid |-> row[s].pending.cid] :
                                             i \in {id, again}}
                       ELSE remote
          /\ row' = CASE o = "answered" ->
                           [row EXCEPT ![s].pending.attachment = id,
                                       ![s].status = "uploaded"]
                      [] o = "died"     -> row
                      [] OTHER          -> [row EXCEPT ![s] = Failed(@)]
    /\ IF o = "died" THEN Done ELSE Goto("upload", todo \ {s}) /\ Stay
    /\ UNCHANGED <<MediaUnchanged, body, damaged>>

\* Mutant: the body refers to an image before it is uploaded.
TargetPlanned(r) ==
    IF r.desired = None THEN None
    ELSE IF r.pending # None /\ ImageSha(r.pending) = Sha[r.desired] THEN r.pending
    ELSE r.synced

\* _effective_attachments: the new image once it is there, until then the old.
Target(r) ==
    IF r.desired = None THEN None
    ELSE IF /\ r.pending # None
            /\ r.pending.attachment # None
            /\ ImageSha(r.pending) = Sha[r.desired] THEN r.pending
    ELSE r.synced

AttachmentOf(i) == IF i = None THEN None ELSE i.attachment
Switches(s) == AttachmentOf(Target(row[s])) # AttachmentOf(row[s].synced)

\* Mutant: every cycle rewrites the body.
BodyAlwaysDue == Existing # {}

\* _body_transition_required
BodyDue ==
    /\ Existing # {}
    /\ \/ written
       \/ \E s \in Existing :
             \/ row[s].status = "failed" /\ row[s].synced # None
             \/ Switches(s)

\* apply_body, one slot; it refuses a second obsolete attachment.
Overfull(s) ==
    /\ Switches(s) /\ row[s].synced # None
    /\ row[s].obsolete \notin {None, row[s].synced.attachment}

Shown(r) ==
    LET t == Target(r)
        obsolete == IF r.synced # None /\ AttachmentOf(t) # r.synced.attachment
                    THEN r.synced.attachment ELSE r.obsolete
    IN  [r EXCEPT !.synced = t,
                  !.pending = IF t # None /\ r.pending = t THEN None ELSE @,
                  !.obsolete = obsolete,
                  !.status = IF obsolete # None THEN "cleanup_pending"
                             ELSE IF ShaOf(r.desired) = ImageSha(t)
                             THEN "synced" ELSE "pending"]

NewBody ==
    [images |-> [s \in Slots |-> IF row[s] = None THEN None
                                 ELSE CidOf(Target(row[s]))]]

SkipBody ==
    /\ pc = "upload" /\ todo = {} /\ ~BodyDue
    /\ Done
    /\ UNCHANGED <<MediaUnchanged, row, graphVars, damaged>>

PatchBody ==
    /\ pc = "upload" /\ todo = {} /\ BodyDue /\ ~Gone
    /\ ~\E s \in Existing : Overfull(s)
    /\ body' = NewBody
    /\ row' = [s \in Slots |-> IF row[s] = None THEN None ELSE Shown(row[s])]
    /\ Goto("finish", {s \in Existing : Shown(row[s]).obsolete # None})
    /\ Stay
    /\ damaged' = (damaged /\ ~(Attached(NewBody) /\ RowsIntact(remote)))
    /\ UNCHANGED <<MediaUnchanged, remote>>

\* A slot already waits for a deletion: the body is switched, and its record is
\* rolled back (README, section 13).
PatchOverfull ==
    /\ pc = "upload" /\ todo = {} /\ BodyDue /\ ~Gone
    /\ \E s \in Existing : Overfull(s)
    /\ body' = NewBody
    /\ damaged' = TRUE
    /\ Done
    /\ UNCHANGED <<MediaUnchanged, row, remote>>

Unswitched ==
    [s \in Slots |-> IF s \in Existing /\ (written \/ Switches(s))
                     THEN Failed(row[s]) ELSE row[s]]

PatchRefused ==
    /\ pc = "upload" /\ todo = {} /\ BodyDue
    /\ row' = Unswitched
    /\ Done
    /\ UNCHANGED <<MediaUnchanged, graphVars, damaged>>

\* The body is switched, and nobody records it: the answer is lost, or the process
\* dies before apply_body.
PatchUnrecorded ==
    /\ pc = "upload" /\ todo = {} /\ BodyDue /\ ~Gone
    /\ body' = NewBody
    /\ \/ "unrecorded" \in Faults /\ row' = Unswitched
       \/ "died" \in Faults /\ row' = row
    /\ damaged' = TRUE
    /\ Done
    /\ UNCHANGED <<MediaUnchanged, remote>>

EndFinish ==
    /\ pc = "finish" /\ todo = {}
    /\ Done
    /\ UNCHANGED <<MediaUnchanged, row, graphVars, damaged>>

-----------------------------------------------------------------------------

Library == \E x \in Assets : ImportAsset(x) \/ Approve(x) \/ Disable(x)

Imports == \E c \in Contents, gone \in BOOLEAN : ImportEvent(c, gone)

Refused == RefuseText \/ AuditRefused \/ RecoverRefused \/ PatchRefused

\* The process at work, with every request answered.
Work ==
    \/ Begin
    \/ WriteText \/ RecordText \/ QueueRefresh \/ MarkChecked
    \/ DeleteEvent \/ MarkDeleted \/ MarkEventDeleted
    \/ StartReconcile \/ EndClean \/ Audit \/ SelectImages \/ SelectAmbiguous
    \/ EndReclean \/ Recover \/ SkipBody \/ PatchBody \/ PatchOverfull \/ EndFinish
    \/ \E s \in Slots : Prepare(s) \/ Clean(s, "answered") \/ UploadUnread(s)
                       \/ Upload(s, "answered")
    \/ Gone /\ (Refused \/ \E s \in Slots : Upload(s, "refused"))

\* What Graph, the disk, a person or the operating system does to it.
Fault ==
    \/ Die
    \/ "refused" \in Faults /\ Refused
    \/ PatchUnrecorded
    \/ \E a \in remote : UserRemoves(a)
    \/ \E h \in files : LoseFile(h)
    \/ \E s \in Slots, o \in Outcomes \ {"answered"} : Clean(s, o) \/ Upload(s, o)

Next == Library \/ Imports \/ LeaveOut \/ Work \/ Fault

\* The scheduler comes round again and again, and a batch runs to its end.
Spec == Init /\ [][Next]_vars /\ WF_vars(Work)

-----------------------------------------------------------------------------
(* Safety.                                                                 *)

\* Every image the body refers to is attached to the appointment, although
\* body, attachments and rows are changed by separate requests.
NoDanglingImage == damaged \/ body = None \/ Attached(body)

\* No upload is repeated that Graph already has, whatever answers were lost.
NoDuplicateUpload == \A a, b \in remote : a.cid = b.cid => a = b

\* The body shows the images chosen for the event, and nothing is left over.
Illustrated ==
    /\ mapping = "live" /\ body # None /\ ~removed /\ hash = content
    /\ \A s \in Slots :
          IF row[s] = None
          THEN Selected(content, s) = None /\ body.images[s] = None
          ELSE /\ row[s].desired = Selected(content, s)
               /\ ImageSha(row[s].synced) = ShaOf(row[s].desired)
               /\ row[s].obsolete = None
               /\ body.images[s] = CidOf(row[s].synced)

Converged ==
    /\ Illustrated /\ ~Ambiguous(content)
    /\ \A s \in Existing : row[s].status = "synced"

\* A cycle sends the body with its images, whatever becomes of the request.
SendsBody == PatchBody \/ PatchOverfull \/ PatchUnrecorded \/ PatchRefused

\* Once the appointment shows what it should and the rows say so, no cycle
\* performs an upload, an event patch or a deletion, unless it has just rewritten
\* the text.
QuietCycle ==
    [][Converged /\ processVars' # processVars =>
          UNCHANGED graphVars /\ (SendsBody => written)]_vars

\* Once requests are answered and the event stays as it is, the appointment comes
\* to show the approved images chosen for it: after refused and lost uploads,
\* deletions and audits, rewritten texts, crashes, and stored files that were lost
\* and imported again.  It need not where no row says that the body has to be
\* written (`damaged`: changed or crashed without a record, or a queued refresh
\* overwritten by "synced" before the body was written), and an appointment that
\* is gone with its deletion unrecorded stays away (CalendarSync).
EventuallyIllustrated ==
    <>[][Library \/ Work]_vars =>
        <>[](\/ damaged \/ removed \/ Gone \/ Ambiguous(content) \/ Illustrated
            \/ \E s \in Slots : /\ Selected(content, s) # None
                               /\ ~Verified(Selected(content, s)))

=============================================================================
