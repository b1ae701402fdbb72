------------------------ MODULE CalendarSyncInvariant ------------------------
(***************************************************************************)
(* The inductive strengthening of the safety invariants of CalendarSync:   *)
(* what holds between the steps of a batch, while its snapshots age.       *)
(***************************************************************************)
EXTENDS CalendarSync

\* The steps that end in mark_synced, mark_checked or mark_failed.
Writing == {"reload", "render", "prepare", "create", "created", "update",
            "updated", "check", "fail"}

\* Only a tool's commit makes a snapshot older than its rows, and it reaches
\* nothing of them but the presentation revision.
Fresh(c) ==
    /\ c.event \notin retired
    /\ content[c.event] = c.content
    /\ deleted[c.event] = c.deleted
    /\ revision[c.event] = c.revision
    /\ c.presentation <= presentation[c.event]

SameMapping(c) ==
    /\ outlookId[c.event] = c.outlookId
    /\ contentHash[c.event] = c.contentHash

BatchInv ==
    /\ pc \in {"stopped", "idle"} => batch = {}
    /\ \A c \in batch :
          /\ Fresh(c)
          /\ SameMapping(c)
          /\ status[c.event] = c.status
          /\ c.status = "deleted" => ~c.deleted
          /\ c.status = "absent" => ~c.deleted
          /\ \A d \in batch : c.event = d.event => c = d

WorkInv == pc \in Working =>
    /\ Fresh(work)
    /\ \A c \in batch : c.event # work.event
    /\ pc # "fail" => SameMapping(work)
    /\ pc \in Writing => /\ ~work.deleted
                         /\ status[work.event] \in Retryable
    /\ pc \in {"deleting", "removed"} =>
          /\ status[work.event] = "delete_pending"
          /\ work.outlookId # None
    /\ pc \in {"reload", "prepare", "create", "created"} => work.outlookId = None
    /\ pc \in {"update", "updated", "check"} => work.outlookId # None
    /\ pc \in {"created", "updated"} => work.reference # None
    /\ pc = "updated" => work.reference = work.outlookId

\* A rendered payload is the current one as long as no tool has moved the
\* presentation revision past the captured one.
RenderInv ==
    /\ pc \in {"prepare", "create", "created", "update", "updated", "check"} =>
          (work.presentation = presentation[work.event] =>
             work.payload = <<content[work.event], rule[work.event]>>)
    /\ pc = "check" => contentHash[work.event] = work.payload

\* The recorded revisions never run ahead, and while they are the current ones
\* the recorded hash is that of the current payload.
MappingInv == \A e \in Events :
    /\ content[e] # None => revision[e] > 0
    /\ status[e] # "absent" => content[e] # None
    /\ status[e] = "absent" => lastSynced[e] = 0 /\ lastPresentation[e] = 0
                               /\ outlookId[e] = None
    /\ status[e] = "delete_pending" => outlookId[e] # None
    /\ status[e] \in Retryable \cup {"absent"} =>
          /\ lastSynced[e] <= revision[e]
          /\ lastPresentation[e] <= presentation[e]
    /\ status[e] \in Retryable =>
          /\ deleted[e] => lastSynced[e] < revision[e]
          /\ lastSynced[e] = revision[e] /\ lastPresentation[e] = presentation[e]
                => contentHash[e] = <<content[e], rule[e]>>

\* A mapping keeps one transaction for life, and no other mapping has it.
TransactionInv ==
    /\ \A e \in Events : status[e] = "absent" <=> transaction[e] = None
    /\ \A e, f \in Events :
          transaction[e] = transaction[f] /\ transaction[e] # None => e = f

\* The appointments of an event are those created with its transaction; the
\* Outlook ID of a mapping is one of them, and no other one is live.
AppointmentInv ==
    /\ \A a \in Appointments : appointment[a] = "unused" <=> owner[a] = None
    /\ \A e \in Events : outlookId[e] # None =>
          /\ owner[outlookId[e]] = transaction[e]
          /\ \A a \in Existing(transaction[e]) : a = outlookId[e]
          /\ status[e] = "deleted" => appointment[outlookId[e]] = "gone"
    /\ pc \in {"created", "updated"} =>
          /\ owner[work.reference] = transaction[work.event]
          /\ \A a \in Existing(transaction[work.event]) : a = work.reference
    /\ pc = "removed" => appointment[work.outlookId] = "gone"

BodyInv ==
    /\ HashIsShown
    /\ pc \in {"created", "updated"} =>
          /\ work.event \in unrecorded
          /\ work.wrote => \/ appointment[work.reference] = "gone"
                           \/ body[work.reference] = work.payload

IInv ==
    /\ TypeOK
    /\ BatchInv
    /\ WorkInv
    /\ RenderInv
    /\ MappingInv
    /\ TransactionInv
    /\ AppointmentInv
    /\ OneAppointmentPerEvent
    /\ BodyInv

=============================================================================
