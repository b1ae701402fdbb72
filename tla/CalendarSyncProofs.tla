------------------------- MODULE CalendarSyncProofs -------------------------
(***************************************************************************)
(* Proofs, for every instance of the constants, of the safety of           *)
(* CalendarSync.                                                           *)
(***************************************************************************)
EXTENDS CalendarSyncInvariant, TLAPS

USE DEF vars, eventVars, mappingVars, identity, progress, graphVars,
        processVars, ImportUnchangedVars, UnchangedStores, CreateUnchanged

\* The batch query returns candidates.
LEMMA SnapshotType ==
    ASSUME TypeOK, NEW e \in Events, content[e] # None
    PROVE  Snapshot(e) \in Candidates
<1>1. /\ content[e] \in Contents
      /\ deleted[e] \in BOOLEAN
      /\ revision[e] \in Nat /\ presentation[e] \in Nat
      /\ lastPresentation[e] \in Nat
      /\ status[e] \in Statuses
      /\ outlookId[e] \in Appointments \cup {None}
      /\ contentHash[e] \in Payloads \cup {None}
  BY DEF TypeOK
<1> QED
  BY <1>1, Zenon DEF Snapshot, Candidates

\* The initial rows, calendar and process have their types.
LEMMA TypeInit == Init => TypeOK
BY DEF Init, TypeOK, Working, Statuses

\* Every step keeps the types.
LEMMA TypeStep == TypeOK /\ [Next]_vars => TypeOK'
<1> SUFFICES ASSUME TypeOK, [Next]_vars PROVE TypeOK'
  OBVIOUS
<1>1. ASSUME NEW e \in Events, NEW c \in Contents, ImportFixture(e, c)
      PROVE  TypeOK'
  BY <1>1 DEF ImportFixture, Importing, TypeOK
<1>2. ASSUME NEW e \in Events, RemoveFixture(e)
      PROVE  TypeOK'
  BY <1>2 DEF RemoveFixture, Importing, TypeOK
<1>3. ASSUME NEW scope \in SUBSET Events, NEW new \in [Events -> Rules],
             ChangePresentation(scope, new)
      PROVE  TypeOK'
  BY <1>3 DEF ChangePresentation, TypeOK
<1>4. ASSUME NEW e \in Events, Retire(e) \/ Reactivate(e)
      PROVE  TypeOK'
  BY <1>4 DEF Retire, Reactivate, TypeOK
<1>5. CASE Start \/ Stop \/ Crash
  BY <1>5 DEF Start, Stop, Crash, Halt, TypeOK, Working
<1>6. CASE StartBatch
  BY <1>6, SnapshotType DEF StartBatch, Selections, Selectable, TypeOK, Working
<1>7. CASE EndBatch
  BY <1>7 DEF EndBatch, TypeOK, Working
<1>8. ASSUME NEW c \in batch,
             \/ FinalizeUnsent(c) \/ MarkDeletePending(c) \/ ResumeDelete(c)
             \/ SkipCancelled(c) \/ UseMapping(c) \/ TakeUpFails(c)
      PROVE  TypeOK'
  <2> c \in Candidates
    BY DEF TypeOK
  <2> QED
    BY <1>8 DEF FinalizeUnsent, MarkDeletePending, ResumeDelete, SkipCancelled,
                UseMapping, TakeUpFails, TakeUp, TypeOK, Candidates, Statuses,
                Working
<1>9. ASSUME NEW c \in batch, CreatePending(c)
      PROVE  TypeOK'
  <2>1. /\ c \in Candidates
        /\ (CHOOSE t \in FreshTransactions : TRUE) \in Transactions
    BY <1>9 DEF TypeOK, CreatePending, FreshTransactions
  <2> QED
    BY <1>9, <2>1 DEF CreatePending, TakeUp, TypeOK, Candidates, Statuses,
                      Working
<1>10. ASSUME NEW c \in batch, ReviveDeleted(c)
       PROVE  TypeOK'
  <2> c \in Candidates
    BY DEF TypeOK
  <2> QED
    BY <1>10 DEF ReviveDeleted, TakeUp, TypeOK, Candidates, Statuses, Working
<1>11. CASE Reload
  BY <1>11 DEF Reload, TypeOK, Candidates, Working
<1>12. CASE Render
  BY <1>12 DEF Render, Rendered, AfterRender, TypeOK, Candidates, Payloads,
               Working
<1>13. CASE MarkPending \/ MarkFailed \/ MarkDeleted
  BY <1>13 DEF MarkPending, MarkFailed, MarkDeleted, Goto, Done, TypeOK,
               Candidates, Statuses, Working
<1>14. CASE CreateEvent \/ CreateLost
  <2>1. PICK a \in Appointments :
           /\ GraphCreate(transaction[work.event], work.payload, a)
           /\ \/ work' = [work EXCEPT !.reference = a,
                       !.wrote = (Existing(transaction[work.event]) = {})]
              \/ UNCHANGED work
    BY <1>14 DEF CreateEvent, CreateLost
  <2>2. pc = "create" /\ pc' \in {"created", "fail"}
    BY <1>14 DEF CreateEvent, CreateLost
  <2>3. work \in Candidates
    BY <2>2 DEF TypeOK, Working
  <2>4. work' \in Candidates
    BY <2>1, <2>3 DEF Candidates
  <2>5. /\ appointment' \in [Appointments -> {"unused", "live", "gone"}]
        /\ owner' \in [Appointments -> Transactions \cup {None}]
        /\ body' \in [Appointments -> Payloads \cup {None}]
    BY <2>1, <2>3 DEF GraphCreate, TypeOK, Candidates
  <2> QED
    BY <1>14, <2>2, <2>3, <2>4, <2>5
       DEF CreateEvent, CreateLost, TypeOK, Candidates, Working
<1>15. CASE UpdateEvent \/ UpdateLost
  BY <1>15 DEF UpdateEvent, UpdateLost, PatchBody, TypeOK, Candidates, Working
<1>16. CASE MarkSynced \/ MarkSyncedUnread \/ MarkChecked
  BY <1>16 DEF MarkSynced, MarkSyncedUnread, MarkChecked, RecordSynced,
               RecordRevisions, Goto, Done, TypeOK, Candidates, Statuses, Working
<1>17. CASE DeleteEvent \/ DeleteLost
  BY <1>17 DEF DeleteEvent, DeleteLost, Goto, Done, TypeOK, Working
<1>18. CASE \/ UpdateMissing \/ RenderFails \/ Rejected \/ MarkSyncedFails
            \/ RefreshFails \/ DeleteRejected \/ WriteFails
  BY <1>18 DEF UpdateMissing, RenderFails, Rejected, MarkSyncedFails,
               RefreshFails, DeleteRejected, WriteFails, Goto, Done, TypeOK,
               Working
<1>19. ASSUME NEW a \in Appointments, UserRemoves(a)
       PROVE  TypeOK'
  BY <1>19 DEF UserRemoves, TypeOK
<1>20. CASE UNCHANGED vars
  BY <1>20 DEF TypeOK
<1> QED
  BY <1>1, <1>2, <1>3, <1>4, <1>5, <1>6, <1>7, <1>8, <1>9, <1>10, <1>11, <1>12,
     <1>13, <1>14, <1>15, <1>16, <1>17, <1>18, <1>19, <1>20
     DEF Next, Import, Tools, TakeUpCandidate, Progress, Fault

\* Every variable keeps its type, for any fixtures, tools and faults.
THEOREM TypeCorrect == Spec => []TypeOK
  BY TypeInit, TypeStep, PTL DEF Spec

-----------------------------------------------------------------------------
(* Frames: what a kind of step leaves alone.                               *)

\* A step that requests, records or fails touches the row of its own event
\* alone, and no row of another table.
Row(e) == <<status[e], outlookId[e], contentHash[e], lastSynced[e],
            lastPresentation[e]>>

SynchronizerStep == Progress \/ Fault

\* A step of the synchronizer writes the row of its candidate and no event.
LEMMA StepFrame ==
    ASSUME TypeOK, SynchronizerStep
    PROVE  /\ UNCHANGED <<content, deleted, revision, retired, rule,
                          transaction, presentation, batch>>
           /\ \/ /\ pc \in Working /\ pc' \in Working \cup {"batch"}
                 /\ \A e \in Events \ {work.event} : Row(e)' = Row(e)
                 /\ pc' = "batch" \/ work'.event = work.event
              \/ UNCHANGED <<mappingVars, pc, work>>
<1> USE DEF Row
<1>1. CASE Reload \/ Render
  BY <1>1 DEF Reload, Render, AfterRender, Working, TypeOK, Candidates
<1>2. CASE MarkPending \/ MarkFailed \/ MarkDeleted
  BY <1>2 DEF MarkPending, MarkFailed, MarkDeleted, Goto, Done, Working, TypeOK
<1>3. CASE CreateEvent \/ CreateLost
  BY <1>3 DEF CreateEvent, CreateLost, Working, TypeOK, Candidates
<1>4. CASE UpdateEvent \/ UpdateLost
  BY <1>4 DEF UpdateEvent, UpdateLost, PatchBody, Working, TypeOK, Candidates
<1>5. CASE MarkSynced \/ MarkSyncedUnread \/ MarkChecked
  BY <1>5 DEF MarkSynced, MarkSyncedUnread, MarkChecked, RecordSynced,
              RecordRevisions, Goto, Done, Working, TypeOK
<1>6. CASE \/ UpdateMissing \/ RenderFails \/ Rejected \/ MarkSyncedFails
           \/ RefreshFails \/ DeleteRejected \/ WriteFails \/ DeleteEvent
           \/ DeleteLost
  BY <1>6 DEF UpdateMissing, RenderFails, Rejected, MarkSyncedFails,
              RefreshFails, DeleteRejected, WriteFails, DeleteEvent, DeleteLost,
              Goto, Done, Working, TypeOK
<1>7. ASSUME NEW a \in Appointments, UserRemoves(a)
      PROVE  UNCHANGED <<eventVars, rule, mappingVars, processVars>>
  BY <1>7 DEF UserRemoves
<1> QED
  BY <1>1, <1>2, <1>3, <1>4, <1>5, <1>6, <1>7
     DEF SynchronizerStep, Progress, Fault

\* Taking up a candidate touches the row of its event alone.
TakeUpStep(c) ==
    \/ FinalizeUnsent(c) \/ MarkDeletePending(c) \/ ResumeDelete(c)
    \/ SkipCancelled(c) \/ CreatePending(c) \/ ReviveDeleted(c)
    \/ UseMapping(c) \/ TakeUpFails(c)

\* Taking up a candidate removes it from the batch and writes only its row.
LEMMA TakeUpFrame ==
    ASSUME TypeOK, NEW c \in batch, TakeUpStep(c)
    PROVE  /\ UNCHANGED <<content, deleted, revision, retired, rule,
                          presentation, graphVars, unrecorded>>
           /\ c \in Candidates
           /\ pc = "batch" /\ batch' = batch \ {c}
           /\ pc' \in {"batch", "deleting", "reload", "render"}
           /\ pc' # "batch" => work' \in Candidates /\ work'.event = c.event
           /\ \A e \in Events \ {c.event} :
                 Row(e)' = Row(e) /\ transaction'[e] = transaction[e]
<1> c \in Candidates
  BY DEF TypeOK
<1> USE DEF Row, TakeUp
<1>1. CASE FinalizeUnsent(c) \/ ResumeDelete(c) \/ SkipCancelled(c)
           \/ UseMapping(c) \/ TakeUpFails(c)
  BY <1>1 DEF FinalizeUnsent, ResumeDelete, SkipCancelled, UseMapping,
              TakeUpFails, TypeOK
<1>2. CASE MarkDeletePending(c)
  BY <1>2 DEF MarkDeletePending, TypeOK, Candidates, Statuses
<1>3. CASE CreatePending(c)
  BY <1>3 DEF CreatePending, TypeOK, Candidates, Statuses
<1>4. CASE ReviveDeleted(c)
  BY <1>4 DEF ReviveDeleted, TypeOK, Candidates, Statuses
<1> QED
  BY <1>1, <1>2, <1>3, <1>4 DEF TakeUpStep

\* The steps outside a batch find no snapshot and no candidate in progress.
LEMMA OutsideFrame ==
    ASSUME TypeOK, BatchInv,
           \/ \E e \in Events : \/ \E c \in Contents : ImportFixture(e, c)
                               \/ RemoveFixture(e) \/ Retire(e) \/ Reactivate(e)
           \/ Start \/ Stop \/ Crash
    PROVE  batch' = {} /\ pc' \in {"stopped", "idle"}
BY DEF ImportFixture, RemoveFixture, Importing, Retire, Reactivate, Start, Stop,
       Crash, Halt, BatchInv

\* A presentation tool raises revisions and touches nothing else.
LEMMA ToolFrame ==
    ASSUME TypeOK, NEW scope \in SUBSET Events, NEW new \in [Events -> Rules],
           ChangePresentation(scope, new)
    PROVE  /\ UNCHANGED <<eventVars, status, identity, progress, graphVars,
                          processVars, unrecorded>>
           /\ \A e \in Events : presentation[e] <= presentation'[e]
           /\ \A e \in Events :
                 status[e] \in Retryable /\ ~deleted[e] /\ rule'[e] # rule[e] =>
                    presentation'[e] = presentation[e] + 1
BY DEF ChangePresentation, Invalidated, TypeOK

-----------------------------------------------------------------------------
(* The snapshots of the batch.                                             *)

\* A batch starts with the snapshots of selectable events.
LEMMA StartFrame ==
    ASSUME TypeOK, StartBatch
    PROVE  /\ \A c \in batch' : \E e \in Events : c = Snapshot(e) /\ Selectable(e)
           /\ pc' = "batch"
           /\ UNCHANGED <<eventVars, rule, mappingVars, graphVars, unrecorded>>
BY DEF StartBatch, Selections

\* No step invalidates the snapshots that wait.
LEMMA BatchStep == IInv /\ [Next]_vars => BatchInv'
<1> SUFFICES ASSUME IInv, [Next]_vars PROVE BatchInv'
  OBVIOUS
<1> TypeOK /\ BatchInv /\ WorkInv
  BY DEF IInv
<1> TypeOK'
  BY TypeStep
<1>1. CASE \/ \E e \in Events : \/ \E c \in Contents : ImportFixture(e, c)
                               \/ RemoveFixture(e) \/ Retire(e) \/ Reactivate(e)
           \/ Start \/ Stop \/ Crash
  BY <1>1, OutsideFrame DEF BatchInv
<1>2. ASSUME NEW scope \in SUBSET Events, NEW new \in [Events -> Rules],
             ChangePresentation(scope, new)
      PROVE  BatchInv'
  <2>1. ASSUME NEW c \in batch PROVE Fresh(c)'
    <3>1. c.event \in Events /\ c.presentation \in Nat
      BY DEF TypeOK, Candidates
    <3>2. Fresh(c)
      BY DEF BatchInv
    <3>3. /\ UNCHANGED eventVars
          /\ presentation[c.event] <= presentation'[c.event]
      BY <1>2, <3>1, ToolFrame
    <3>4. c.presentation <= presentation'[c.event]
      BY <3>1, <3>2, <3>3 DEF Fresh, TypeOK
    <3> QED
      BY <3>2, <3>3, <3>4 DEF Fresh
  <2> QED
    BY <1>2, <2>1, ToolFrame DEF BatchInv, SameMapping
<1>3. CASE StartBatch
  <2>1. ASSUME NEW e \in Events, NEW c, c = Snapshot(e), Selectable(e)
        PROVE  /\ Fresh(c)' /\ SameMapping(c)' /\ status'[c.event] = c.status
               /\ c.status \in {"deleted", "absent"} => ~c.deleted
               /\ c = Snapshot(c.event)
    BY <1>3, <2>1, StartFrame
       DEF Fresh, SameMapping, Snapshot, Selectable, TypeOK, Retryable
  <2>3. ASSUME NEW c \in batch'
        PROVE  \E e \in Events : c = Snapshot(e) /\ Selectable(e)
    BY <1>3, StartFrame
  <2>4. pc' = "batch"
    BY <1>3, StartFrame
  <2>5. ASSUME NEW c \in batch'
        PROVE  /\ Fresh(c)' /\ SameMapping(c)' /\ status'[c.event] = c.status
               /\ c.status = "deleted" => ~c.deleted
               /\ c.status = "absent" => ~c.deleted
               /\ c = Snapshot(c.event)
    BY <1>3, <2>1, <2>3
  <2>6. ASSUME NEW c \in batch', NEW d \in batch', c.event = d.event
        PROVE  c = d
    BY <2>5, <2>6
  <2> QED
    BY <2>4, <2>5, <2>6 DEF BatchInv
<1>4. CASE EndBatch
  BY <1>4 DEF EndBatch, BatchInv
<1>5. ASSUME NEW c \in batch, TakeUpStep(c)
      PROVE  BatchInv'
  <2>1. ASSUME NEW d \in batch'
        PROVE  d \in batch /\ d \in Candidates /\ d.event \in Events \ {c.event}
    BY <1>5, TakeUpFrame DEF BatchInv, TypeOK, Candidates
  <2> QED
    BY <1>5, <2>1, TakeUpFrame DEF BatchInv, Fresh, SameMapping, Row
<1>6. CASE SynchronizerStep
  <2>1. ASSUME NEW c \in batch
        PROVE  /\ c.event \in Events
               /\ pc \in Working => c.event # work.event
    BY DEF TypeOK, WorkInv, Candidates
  <2>2. /\ batch' = batch
        /\ pc' \notin {"stopped", "idle"} \/ pc' = pc
    BY <1>6, StepFrame DEF Working
  <2>3. ASSUME NEW c \in batch'
        PROVE  /\ Fresh(c)' /\ SameMapping(c)' /\ status'[c.event] = c.status
               /\ c.status = "deleted" => ~c.deleted
               /\ c.status = "absent" => ~c.deleted
               /\ \A d \in batch : c.event = d.event => c = d
    BY <1>6, <2>1, <2>2, StepFrame DEF BatchInv, Fresh, SameMapping, Row
  <2> QED
    BY <2>2, <2>3 DEF BatchInv
<1>7. CASE UNCHANGED vars
  BY <1>7 DEF BatchInv, Fresh, SameMapping
<1> QED
  BY <1>1, <1>2, <1>3, <1>4, <1>5, <1>6, <1>7
     DEF Next, Import, Tools, TakeUpCandidate, TakeUpStep, SynchronizerStep

-----------------------------------------------------------------------------
(* The candidate in progress.                                              *)

\* A candidate taken up agrees with its row.
LEMMA WorkTakenUp ==
    ASSUME IInv, NEW c \in batch, TakeUpStep(c)
    PROVE  WorkInv'
<1> /\ TypeOK /\ BatchInv /\ WorkInv /\ MappingInv
    /\ c \in Candidates /\ c.event \in Events
    /\ Fresh(c) /\ SameMapping(c) /\ status[c.event] = c.status
    /\ \A d \in batch : d # c => d.event # c.event
  BY DEF IInv, TypeOK, BatchInv, Candidates
<1> USE DEF TakeUp
<1>1. CASE FinalizeUnsent(c) \/ SkipCancelled(c) \/ TakeUpFails(c)
  BY <1>1 DEF FinalizeUnsent, SkipCancelled, TakeUpFails, WorkInv, Working
<1>2. CASE MarkDeletePending(c)
  <2>1. /\ work' = [c EXCEPT !.status = "delete_pending"] /\ pc' = "deleting"
        /\ work'.event = c.event /\ work'.content = c.content
        /\ work'.deleted = c.deleted /\ work'.revision = c.revision
        /\ work'.presentation = c.presentation
        /\ work'.outlookId = c.outlookId /\ work'.contentHash = c.contentHash
        /\ c.outlookId # None
    BY <1>2 DEF MarkDeletePending, Candidates
  <2>2. status'[c.event] = "delete_pending"
    BY <1>2 DEF MarkDeletePending, TypeOK
  <2> QED
    BY <1>2, <2>1, <2>2 DEF MarkDeletePending, WorkInv, Fresh, SameMapping,
                            Working, Writing
<1>3. CASE ResumeDelete(c)
  BY <1>3 DEF ResumeDelete, WorkInv, MappingInv, Fresh, SameMapping, Working,
              Writing
<1>4. CASE CreatePending(c)
  <2>1. /\ work' = [c EXCEPT !.status = "pending"] /\ pc' = "reload"
        /\ work'.event = c.event /\ work'.content = c.content
        /\ work'.deleted = c.deleted /\ work'.revision = c.revision
        /\ work'.presentation = c.presentation
        /\ work'.outlookId = c.outlookId /\ work'.contentHash = c.contentHash
        /\ ~c.deleted
    BY <1>4 DEF CreatePending, Candidates
  <2>2. status'[c.event] = "pending" /\ outlookId[c.event] = None
    BY <1>4 DEF CreatePending, TypeOK, MappingInv
  <2> QED
    BY <1>4, <2>1, <2>2 DEF CreatePending, WorkInv, Fresh, SameMapping,
                            Working, Writing, Retryable
<1>5. CASE ReviveDeleted(c)
  <2>1. /\ work' = [c EXCEPT !.status = "pending", !.outlookId = None,
                             !.contentHash = None]
        /\ pc' = "reload"
        /\ work'.event = c.event /\ work'.content = c.content
        /\ work'.deleted = c.deleted /\ work'.revision = c.revision
        /\ work'.presentation = c.presentation
        /\ work'.outlookId = None /\ work'.contentHash = None
        /\ ~c.deleted
    BY <1>5 DEF ReviveDeleted, Candidates
  <2>2. /\ status'[c.event] = "pending" /\ outlookId'[c.event] = None
        /\ contentHash'[c.event] = None
    BY <1>5 DEF ReviveDeleted, TypeOK
  <2> QED
    BY <1>5, <2>1, <2>2 DEF ReviveDeleted, WorkInv, Fresh, SameMapping,
                            Working, Writing, Retryable
<1>6. CASE UseMapping(c)
  BY <1>6 DEF UseMapping, WorkInv, Fresh, SameMapping, Working, Writing
<1> QED
  BY <1>1, <1>2, <1>3, <1>4, <1>5, <1>6 DEF TakeUpStep

\* The candidate in progress goes on agreeing with its row.
LEMMA WorkProgress ==
    ASSUME IInv, SynchronizerStep
    PROVE  WorkInv'
<1> /\ TypeOK /\ WorkInv /\ MappingInv
    /\ UNCHANGED <<eventVars, presentation, batch>>
  BY StepFrame DEF IInv
<1>w. pc \in Working => work \in Candidates /\ work.event \in Events
  BY DEF TypeOK, Candidates
<1>1. CASE Reload
  <2>1. /\ work' = [work EXCEPT !.presentation = presentation[work.event],
                        !.lastPresentation = lastPresentation[work.event]]
        /\ pc = "reload" /\ pc' = "render" /\ pc \in Working
    BY <1>1 DEF Reload, Working
  <2>2. /\ work'.event = work.event /\ work'.content = work.content
        /\ work'.deleted = work.deleted /\ work'.revision = work.revision
        /\ work'.presentation = presentation[work.event]
        /\ work'.outlookId = work.outlookId
        /\ work'.contentHash = work.contentHash
    BY <1>w, <2>1 DEF Candidates
  <2> QED
    BY <1>1, <1>w, <2>1, <2>2 DEF Reload, WorkInv, Fresh, SameMapping, Writing,
                                  Working, TypeOK
<1>2. CASE Render
  <2>1. /\ work' = [work EXCEPT !.payload = Rendered]
        /\ pc = "render" /\ pc' = AfterRender /\ pc \in Working
    BY <1>2 DEF Render, Working
  <2>2. /\ work'.event = work.event /\ work'.content = work.content
        /\ work'.deleted = work.deleted /\ work'.revision = work.revision
        /\ work'.presentation = work.presentation
        /\ work'.outlookId = work.outlookId
        /\ work'.contentHash = work.contentHash
    BY <1>w, <2>1 DEF Candidates
  <2>3. /\ pc' \in {"prepare", "create", "check", "update"}
        /\ pc' \in {"prepare", "create"} => work.outlookId = None
        /\ pc' \in {"check", "update"} => work.outlookId # None
    BY <2>1 DEF AfterRender
  <2> QED
    BY <1>2, <1>w, <2>1, <2>2, <2>3 DEF Render, WorkInv, Fresh, SameMapping,
                                        Writing, Working
<1>3. CASE MarkPending
  BY <1>3, <1>w DEF MarkPending, Goto, WorkInv, Fresh, SameMapping, Writing,
                    Working, Retryable, TypeOK
<1>4. CASE CreateEvent
  <2>1. PICK a \in Appointments :
           work' = [work EXCEPT !.reference = a,
                       !.wrote = (Existing(transaction[work.event]) = {})]
    BY <1>4 DEF CreateEvent
  <2>2. pc = "create" /\ pc \in Working
    BY <1>4 DEF CreateEvent, Working
  <2>3. /\ work'.event = work.event /\ work'.content = work.content
        /\ work'.deleted = work.deleted /\ work'.revision = work.revision
        /\ work'.presentation = work.presentation
        /\ work'.outlookId = work.outlookId
        /\ work'.contentHash = work.contentHash /\ work'.reference = a
    BY <1>w, <2>1, <2>2 DEF Candidates
  <2>4. a # None
    BY NoneAssumption
  <2> QED
    BY <1>4, <1>w, <2>2, <2>3, <2>4 DEF CreateEvent, WorkInv, Fresh,
                                        SameMapping, Writing, Working
<1>5. CASE UpdateEvent
  <2>1. /\ work' = [work EXCEPT !.reference = work.outlookId, !.wrote = TRUE]
        /\ pc = "update" /\ pc \in Working
    BY <1>5 DEF UpdateEvent, Working
  <2>2. /\ work'.event = work.event /\ work'.content = work.content
        /\ work'.deleted = work.deleted /\ work'.revision = work.revision
        /\ work'.presentation = work.presentation
        /\ work'.outlookId = work.outlookId
        /\ work'.contentHash = work.contentHash
        /\ work'.reference = work.outlookId
    BY <1>w, <2>1 DEF Candidates
  <2> QED
    BY <1>5, <1>w, <2>1, <2>2 DEF UpdateEvent, PatchBody, WorkInv, Fresh,
                                  SameMapping, Writing, Working
<1>6. CASE CreateLost \/ UpdateLost
  BY <1>6 DEF CreateLost, UpdateLost, PatchBody, WorkInv, Fresh, Writing, Working
<1>7. CASE MarkSyncedUnread
  BY <1>7, <1>w DEF MarkSyncedUnread, RecordSynced, RecordRevisions, Goto,
                    WorkInv, Fresh, Writing, Working, Retryable, TypeOK
<1>8. CASE DeleteEvent
  BY <1>8 DEF DeleteEvent, Goto, WorkInv, Fresh, SameMapping, Writing, Working
<1>9. CASE \/ MarkSynced \/ MarkChecked \/ MarkFailed \/ MarkDeleted
           \/ DeleteLost \/ DeleteRejected \/ WriteFails
  BY <1>9 DEF MarkSynced, MarkChecked, MarkFailed, MarkDeleted, DeleteLost,
              DeleteRejected, WriteFails, Done, WorkInv, Working
<1>10. CASE \/ UpdateMissing \/ RenderFails \/ Rejected \/ MarkSyncedFails
            \/ RefreshFails
  BY <1>10 DEF UpdateMissing, RenderFails, Rejected, MarkSyncedFails,
               RefreshFails, Goto, WorkInv, Fresh, Writing, Working
<1>11. ASSUME NEW a \in Appointments, UserRemoves(a)
       PROVE  WorkInv'
  BY <1>11 DEF UserRemoves, WorkInv, Fresh, SameMapping
<1> QED
  BY <1>1, <1>2, <1>3, <1>4, <1>5, <1>6, <1>7, <1>8, <1>9, <1>10, <1>11
     DEF SynchronizerStep, Progress, Fault

\* No step invalidates the candidate in progress.
LEMMA WorkStep == IInv /\ [Next]_vars => WorkInv'
<1> SUFFICES ASSUME IInv, [Next]_vars PROVE WorkInv'
  OBVIOUS
<1> TypeOK /\ BatchInv /\ WorkInv
  BY DEF IInv
<1>1. CASE \/ \E e \in Events : \/ \E c \in Contents : ImportFixture(e, c)
                               \/ RemoveFixture(e) \/ Retire(e) \/ Reactivate(e)
           \/ Start \/ Stop \/ Crash
  BY <1>1, OutsideFrame DEF WorkInv, Working
<1>2. ASSUME NEW scope \in SUBSET Events, NEW new \in [Events -> Rules],
             ChangePresentation(scope, new)
      PROVE  WorkInv'
  <2>1. ASSUME pc \in Working PROVE Fresh(work)'
    <3>1. work.event \in Events /\ work.presentation \in Nat
      BY <2>1 DEF TypeOK, Candidates
    <3>2. /\ UNCHANGED <<eventVars, work>>
          /\ presentation[work.event] <= presentation'[work.event]
          /\ presentation'[work.event] \in Nat
      BY <1>2, <3>1, ToolFrame, TypeStep DEF TypeOK
    <3>3. work.presentation <= presentation'[work.event]
      BY <2>1, <3>1, <3>2 DEF WorkInv, Fresh, TypeOK
    <3> QED
      BY <2>1, <3>2, <3>3 DEF WorkInv, Fresh
  <2> QED
    BY <1>2, <2>1, ToolFrame DEF WorkInv, SameMapping
<1>3. CASE StartBatch \/ EndBatch
  BY <1>3 DEF StartBatch, EndBatch, WorkInv, Working
<1>4. ASSUME NEW c \in batch, TakeUpStep(c)
      PROVE  WorkInv'
  BY <1>4, WorkTakenUp
<1>5. CASE SynchronizerStep
  BY <1>5, WorkProgress
<1>6. CASE UNCHANGED vars
  BY <1>6 DEF WorkInv, Fresh, SameMapping
<1> QED
  BY <1>1, <1>2, <1>3, <1>4, <1>5, <1>6
     DEF Next, Import, Tools, TakeUpCandidate, TakeUpStep, SynchronizerStep

-----------------------------------------------------------------------------
(* The rendered payload.                                                   *)

\* A rendered payload stays current until the revision moves.
LEMMA RenderStep == IInv /\ [Next]_vars => RenderInv'
<1> SUFFICES ASSUME IInv, [Next]_vars PROVE RenderInv'
  OBVIOUS
<1> DEFINE Held == {"prepare", "create", "created", "update", "updated", "check"}
<1> TypeOK /\ BatchInv /\ WorkInv /\ RenderInv
  BY DEF IInv
<1>w. pc \in Working => work \in Candidates /\ work.event \in Events
  BY DEF TypeOK, Candidates
<1>1. CASE pc' \notin Held
  BY <1>1 DEF RenderInv
<1>2. CASE pc' \in Held /\ UNCHANGED <<content, rule, contentHash, presentation,
                                      pc, work>>
  BY <1>2 DEF RenderInv
<1>3. ASSUME NEW scope \in SUBSET Events, NEW new \in [Events -> Rules],
             ChangePresentation(scope, new), pc' \in Held
      PROVE  RenderInv'
  <2>1. /\ UNCHANGED <<eventVars, status, identity, processVars>>
        /\ pc \in Held /\ pc \in Working /\ pc \in Writing
    BY <1>3, ToolFrame DEF Working, Writing
  <2> DEFINE e == work.event
  <2>2. /\ e \in Events /\ work.presentation \in Nat
        /\ presentation[e] \in Nat /\ presentation'[e] \in Nat
        /\ work.presentation <= presentation[e]
        /\ presentation[e] <= presentation'[e]
        /\ status[e] \in Retryable /\ ~deleted[e]
    BY <1>3, <1>w, <2>1, ToolFrame, TypeStep DEF TypeOK, WorkInv, Fresh, Candidates
  <2>3. ASSUME work.presentation = presentation'[e]
        PROVE  work.payload = <<content[e], rule'[e]>>
    <3>1. presentation'[e] = presentation[e]
      BY <2>2, <2>3
    <3>2. rule'[e] = rule[e]
      BY <1>3, <2>2, <3>1, ToolFrame
    <3> QED
      BY <2>1, <2>3, <3>1, <3>2 DEF RenderInv
  <2> QED
    BY <2>1, <2>3 DEF RenderInv
<1>4. CASE Render
  <2>1. /\ work' = [work EXCEPT !.payload = Rendered]
        /\ pc = "render" /\ pc' = AfterRender /\ pc \in Working
        /\ UNCHANGED <<content, rule, contentHash, presentation>>
    BY <1>4 DEF Render, Working
  <2>2. /\ work'.event = work.event /\ work'.presentation = work.presentation
        /\ work'.payload = Rendered
    BY <1>w, <2>1 DEF Candidates
  <2>3. /\ content[work.event] = work.content
        /\ contentHash[work.event] = work.contentHash
    BY <2>1 DEF WorkInv, Fresh, SameMapping
  <2>4. pc' = "check" => work.contentHash = Rendered
    BY <2>1 DEF AfterRender
  <2> QED
    BY <2>1, <2>2, <2>3, <2>4 DEF RenderInv, Rendered
<1>5. CASE MarkPending
  BY <1>5 DEF MarkPending, Goto, RenderInv
<1>6. CASE CreateEvent \/ UpdateEvent
  <2>1. /\ \E a \in Appointments \cup {None}, wrote \in BOOLEAN :
              work' = [work EXCEPT !.reference = a, !.wrote = wrote]
        /\ pc \in {"create", "update"} /\ pc' \in {"created", "updated"}
        /\ UNCHANGED <<content, rule, contentHash, presentation>>
    BY <1>6, <1>w DEF CreateEvent, UpdateEvent, PatchBody, Working, Candidates
  <2>2. /\ work'.event = work.event /\ work'.presentation = work.presentation
        /\ work'.payload = work.payload
    BY <1>w, <2>1 DEF Candidates, Working
  <2> QED
    BY <2>1, <2>2 DEF RenderInv
<1>7. CASE SynchronizerStep /\ ~(Render \/ MarkPending \/ CreateEvent \/ UpdateEvent)
  BY <1>7, <1>1, <1>2
     DEF SynchronizerStep, Progress, Fault, Reload, UpdateMissing, MarkSynced,
         MarkChecked, MarkFailed, DeleteEvent, MarkDeleted, RenderFails,
         Rejected, CreateLost, UpdateLost, MarkSyncedFails, MarkSyncedUnread,
         RefreshFails, DeleteLost, DeleteRejected, WriteFails, UserRemoves,
         Goto, Done
<1>8. CASE \/ \E e \in Events : \/ \E c \in Contents : ImportFixture(e, c)
                               \/ RemoveFixture(e) \/ Retire(e) \/ Reactivate(e)
           \/ Start \/ Stop \/ Crash
  BY <1>8, <1>1, OutsideFrame
<1>9. ASSUME StartBatch \/ EndBatch \/ \E c \in batch : TakeUpStep(c)
      PROVE  RenderInv'
  <2> pc' \notin Held
    BY <1>9, TakeUpFrame DEF StartBatch, EndBatch
  <2> QED
    BY <1>1
<1>10. CASE UNCHANGED vars
  BY <1>10, <1>1, <1>2
<1> QED
  BY <1>1, <1>3, <1>4, <1>5, <1>6, <1>7, <1>8, <1>9, <1>10
     DEF Next, Import, Tools, TakeUpCandidate, TakeUpStep, SynchronizerStep

-----------------------------------------------------------------------------
(* The recorded revisions and hashes.                                      *)

\* Recording the captured revisions is right, since the payload is of them.
LEMMA RecordRevisionsMapping ==
    ASSUME IInv, pc \in Writing, pc \in Working, RecordRevisions(work.event),
           UNCHANGED <<eventVars, rule, presentation>>,
           \A e \in Events \ {work.event} : Row(e)' = Row(e),
           contentHash'[work.event] = work.payload,
           work.presentation = presentation[work.event] =>
                work.payload = <<content[work.event], rule[work.event]>>
    PROVE  MappingInv'
<1> DEFINE w == work.event
<1> TypeOK /\ WorkInv /\ MappingInv
  BY DEF IInv
<1>1. w \in Events /\ work.revision \in Nat /\ work.presentation \in Nat
  BY DEF TypeOK, Candidates
<1>2. /\ status'[w] \in {"synced", "pending"}
      /\ lastSynced'[w] = work.revision
      /\ lastPresentation'[w] = work.presentation
  BY <1>1 DEF RecordRevisions, TypeOK
<1>3. /\ work.revision = revision[w] /\ work.presentation <= presentation[w]
      /\ ~deleted[w] /\ status[w] \in Retryable
  BY DEF WorkInv, Fresh
<1>4. /\ content[w] # None /\ revision[w] > 0
      /\ revision[w] \in Nat /\ presentation[w] \in Nat
  BY <1>1, <1>3 DEF MappingInv, Retryable, TypeOK
<1>5. ASSUME NEW e \in Events, e # w
      PROVE  /\ status'[e] = status[e] /\ outlookId'[e] = outlookId[e]
             /\ contentHash'[e] = contentHash[e]
             /\ lastSynced'[e] = lastSynced[e]
             /\ lastPresentation'[e] = lastPresentation[e]
  BY <1>5 DEF Row
<1> QED
  BY <1>1, <1>2, <1>3, <1>4, <1>5 DEF MappingInv, Retryable

\* Recorded revisions never run ahead of what their hash shows.
LEMMA MappingStep == IInv /\ [Next]_vars => MappingInv'
<1> SUFFICES ASSUME IInv, [Next]_vars PROVE MappingInv'
  OBVIOUS
<1> TypeOK /\ BatchInv /\ WorkInv /\ RenderInv /\ MappingInv
  BY DEF IInv
<1>w. pc \in Working => work \in Candidates /\ work.event \in Events
  BY DEF TypeOK, Candidates
<1>1. CASE UNCHANGED <<eventVars, rule, mappingVars>>
  BY <1>1 DEF MappingInv
<1>2. ASSUME NEW e \in Events, NEW c \in Contents, ImportFixture(e, c)
      PROVE  MappingInv'
  BY <1>2, NoneAssumption DEF ImportFixture, Importing, MappingInv, TypeOK
<1>3. ASSUME NEW e \in Events, RemoveFixture(e)
      PROVE  MappingInv'
  BY <1>3 DEF RemoveFixture, Importing, MappingInv, TypeOK
<1>4. ASSUME NEW e \in Events, Retire(e) \/ Reactivate(e)
      PROVE  MappingInv'
  BY <1>4 DEF Retire, Reactivate, MappingInv
<1>5. CASE Start \/ Stop \/ Crash \/ StartBatch \/ EndBatch
  BY <1>5, <1>1 DEF Start, Stop, Crash, Halt, StartBatch, EndBatch
<1>6. ASSUME NEW scope \in SUBSET Events, NEW new \in [Events -> Rules],
             ChangePresentation(scope, new)
      PROVE  MappingInv'
  <2> SUFFICES ASSUME NEW e \in Events, status[e] \in Retryable \cup {"absent"}
               PROVE  /\ lastPresentation[e] <= presentation'[e]
                      /\ /\ status[e] \in Retryable
                         /\ lastSynced[e] = revision[e]
                         /\ lastPresentation[e] = presentation'[e]
                         => contentHash[e] = <<content[e], rule'[e]>>
    BY <1>6, ToolFrame DEF MappingInv
  <2>1. /\ lastPresentation[e] <= presentation[e]
        /\ presentation[e] <= presentation'[e]
        /\ lastPresentation[e] \in Nat /\ presentation[e] \in Nat
        /\ presentation'[e] \in Nat
        /\ lastSynced[e] \in Nat /\ revision[e] \in Nat
    BY <1>6, ToolFrame, TypeStep DEF MappingInv, TypeOK
  <2>2. ASSUME status[e] \in Retryable, lastSynced[e] = revision[e],
               lastPresentation[e] = presentation'[e]
        PROVE  contentHash[e] = <<content[e], rule'[e]>>
    <3>1. ~deleted[e]
      BY <2>1, <2>2 DEF MappingInv
    <3>2. presentation'[e] = presentation[e]
      BY <2>1, <2>2
    <3>3. rule'[e] = rule[e]
      BY <1>6, <2>1, <2>2, <3>1, <3>2, ToolFrame
    <3> QED
      BY <2>2, <3>2, <3>3 DEF MappingInv
  <2> QED
    BY <2>1, <2>2
<1>7. ASSUME NEW c \in batch, TakeUpStep(c)
      PROVE  MappingInv'
  <2>1. /\ c \in Candidates /\ c.event \in Events /\ c.content \in Contents
        /\ content[c.event] = c.content /\ deleted[c.event] = c.deleted
        /\ status[c.event] = c.status /\ outlookId[c.event] = c.outlookId
        /\ content[c.event] # None
        /\ c.status = "deleted" => ~c.deleted
        /\ c.status = "absent" => ~c.deleted
    BY NoneAssumption DEF TypeOK, BatchInv, Fresh, SameMapping, Candidates
  <2>2. CASE FinalizeUnsent(c)
    BY <2>1, <2>2 DEF FinalizeUnsent, MappingInv, TypeOK, Retryable
  <2>3. CASE MarkDeletePending(c)
    BY <2>1, <2>3 DEF MarkDeletePending, MappingInv, TypeOK, Retryable
  <2>4. CASE CreatePending(c)
    BY <2>1, <2>4 DEF CreatePending, MappingInv, TypeOK, Retryable
  <2>5. CASE ReviveDeleted(c)
    BY <2>1, <2>5 DEF ReviveDeleted, MappingInv, TypeOK, Retryable
  <2>6. CASE ResumeDelete(c) \/ SkipCancelled(c) \/ UseMapping(c) \/ TakeUpFails(c)
    BY <2>6, <1>1 DEF ResumeDelete, SkipCancelled, UseMapping, TakeUpFails
  <2> QED
    BY <1>7, <2>2, <2>3, <2>4, <2>5, <2>6 DEF TakeUpStep
<1>8. CASE MarkPending \/ MarkFailed
  BY <1>8, <1>w DEF MarkPending, MarkFailed, WorkInv, Writing, Working,
                    MappingInv, TypeOK, Retryable
<1>9. CASE MarkDeleted
  BY <1>9, <1>w DEF MarkDeleted, WorkInv, Working, MappingInv, TypeOK, Retryable
<1>10. CASE RecordSynced
  <2>1. /\ pc \in {"created", "updated"} /\ RecordRevisions(work.event)
        /\ UNCHANGED <<eventVars, rule, presentation>>
        /\ contentHash'[work.event] = work.payload
        /\ \A e \in Events \ {work.event} : Row(e)' = Row(e)
    BY <1>10, <1>w DEF RecordSynced, RecordRevisions, Working, TypeOK, Row
  <2> QED
    BY <2>1, RecordRevisionsMapping DEF RenderInv, Writing, Working
<1>11. CASE MarkChecked
  <2>1. /\ pc = "check" /\ RecordRevisions(work.event)
        /\ UNCHANGED <<eventVars, rule, presentation>>
        /\ contentHash'[work.event] = contentHash[work.event]
        /\ \A e \in Events \ {work.event} : Row(e)' = Row(e)
    BY <1>11, <1>w DEF MarkChecked, RecordRevisions, Working, TypeOK, Row
  <2> QED
    BY <2>1, RecordRevisionsMapping DEF RenderInv, Writing, Working
<1>12. CASE /\ SynchronizerStep
            /\ ~(MarkPending \/ MarkFailed \/ MarkDeleted \/ RecordSynced
                  \/ MarkChecked)
  BY <1>12, <1>1
     DEF SynchronizerStep, Progress, Fault, Reload, Render, CreateEvent,
         UpdateEvent, UpdateMissing, MarkSynced, DeleteEvent, RenderFails,
         Rejected, CreateLost, UpdateLost, PatchBody, MarkSyncedFails,
         MarkSyncedUnread, RefreshFails, DeleteLost, DeleteRejected, WriteFails,
         UserRemoves
<1>13. CASE UNCHANGED vars
  BY <1>13, <1>1
<1> QED
  BY <1>2, <1>3, <1>4, <1>5, <1>6, <1>7, <1>8, <1>9, <1>10, <1>11, <1>12, <1>13
     DEF Next, Import, Tools, TakeUpCandidate, TakeUpStep, SynchronizerStep

-----------------------------------------------------------------------------
(* Transaction IDs.                                                        *)

\* A step gives a mapping its transaction or leaves it; none loses its row.
LEMMA TransactionFrame ==
    ASSUME IInv, [Next]_vars, ~\E c \in batch : CreatePending(c)
    PROVE  /\ transaction' = transaction
           /\ \A e \in Events : status'[e] = "absent" <=> status[e] = "absent"
<1> TypeOK /\ BatchInv /\ WorkInv
  BY DEF IInv
<1>w. pc \in Working => work.event \in Events
  BY DEF TypeOK, Candidates
<1>1. CASE Import \/ Tools \/ Start \/ Stop \/ Crash \/ StartBatch \/ EndBatch
  BY <1>1 DEF Import, Tools, ImportFixture, RemoveFixture, ChangePresentation,
              Retire, Reactivate, Start, Stop, Crash, Halt, StartBatch, EndBatch
<1>2. ASSUME NEW c \in batch, TakeUpStep(c)
      PROVE  /\ transaction' = transaction
             /\ \A e \in Events : status'[e] = "absent" <=> status[e] = "absent"
  BY <1>2 DEF TakeUpStep, FinalizeUnsent, MarkDeletePending, ResumeDelete,
              SkipCancelled, ReviveDeleted, UseMapping, TakeUpFails, BatchInv,
              TypeOK
<1>3. CASE SynchronizerStep
  <2>1. transaction' = transaction
    BY <1>3, StepFrame
  <2>2. CASE status' = status
    BY <2>1, <2>2
  <2>3. CASE MarkPending \/ MarkFailed \/ MarkDeleted \/ RecordSynced \/ MarkChecked
    BY <2>1, <2>3, <1>w
       DEF MarkPending, MarkFailed, MarkDeleted, RecordSynced, MarkChecked,
           RecordRevisions, WorkInv, Working, Writing, TypeOK, Retryable
  <2> QED
    BY <1>3, <2>2, <2>3
       DEF SynchronizerStep, Progress, Fault, Reload, Render, CreateEvent,
           UpdateEvent, UpdateMissing, MarkSynced, DeleteEvent, RenderFails,
           Rejected, CreateLost, UpdateLost, PatchBody, MarkSyncedFails,
           MarkSyncedUnread, RefreshFails, DeleteLost, DeleteRejected,
           WriteFails, UserRemoves
<1>4. CASE UNCHANGED vars
  BY <1>4
<1> QED
  BY <1>1, <1>2, <1>3, <1>4 DEF Next, TakeUpCandidate, TakeUpStep, SynchronizerStep

\* A new mapping gets a transaction no other mapping has.
LEMMA CreatePendingFrame ==
    ASSUME IInv, NEW c \in batch, CreatePending(c)
    PROVE  /\ c.event \in Events
           /\ status[c.event] = "absent" /\ status'[c.event] = "pending"
           /\ transaction'[c.event] \in Transactions
           /\ transaction'[c.event] # None
           /\ \A e \in Events : transaction[e] # transaction'[c.event]
           /\ \A a \in Appointments : owner[a] # transaction'[c.event]
           /\ \A e \in Events \ {c.event} :
                 transaction'[e] = transaction[e] /\ status'[e] = status[e]
           /\ outlookId[c.event] = None
           /\ UNCHANGED <<outlookId, contentHash, graphVars, unrecorded>>
<1> TypeOK /\ BatchInv /\ MappingInv
  BY DEF IInv
<1>1. (CHOOSE t \in FreshTransactions : TRUE) \in FreshTransactions
  BY DEF CreatePending
<1> QED
  BY <1>1, NoneAssumption
     DEF CreatePending, FreshTransactions, BatchInv, MappingInv, TypeOK, Candidates

\* Transactions go on identifying mappings.
LEMMA TransactionStep == IInv /\ [Next]_vars => TransactionInv'
<1> SUFFICES ASSUME IInv, [Next]_vars PROVE TransactionInv'
  OBVIOUS
<1> TransactionInv
  BY DEF IInv
<1>1. CASE \E c \in batch : CreatePending(c)
  BY <1>1, CreatePendingFrame DEF TransactionInv
<1>2. CASE ~\E c \in batch : CreatePending(c)
  BY <1>2, TransactionFrame DEF TransactionInv
<1> QED
  BY <1>1, <1>2

-----------------------------------------------------------------------------
(* Appointments.                                                           *)

\* Only the end of a creation or an update records an Outlook ID and a hash;
\* every other step keeps them or forgets the Outlook ID.
LEMMA OutlookIdFrame ==
    ASSUME IInv, [Next]_vars, ~RecordSynced, NEW e \in Events, outlookId'[e] # None
    PROVE  /\ outlookId'[e] = outlookId[e] /\ contentHash'[e] = contentHash[e]
           /\ status'[e] = "deleted" /\ ~MarkDeleted => status[e] = "deleted"
<1> TypeOK /\ BatchInv /\ WorkInv
  BY DEF IInv
<1>1. CASE Import \/ Tools \/ Start \/ Stop \/ Crash \/ StartBatch \/ EndBatch
  BY <1>1 DEF Import, Tools, ImportFixture, RemoveFixture, ChangePresentation,
              Retire, Reactivate, Start, Stop, Crash, Halt, StartBatch, EndBatch
<1>2. ASSUME NEW c \in batch, TakeUpStep(c)
      PROVE  /\ outlookId'[e] = outlookId[e] /\ contentHash'[e] = contentHash[e]
             /\ status'[e] = "deleted" => status[e] = "deleted"
  <2> c \in Candidates /\ outlookId[c.event] = c.outlookId /\ c.event \in Events
    BY DEF TypeOK, BatchInv, SameMapping, Candidates
  <2> QED
    BY <1>2 DEF TakeUpStep, FinalizeUnsent, MarkDeletePending, ResumeDelete,
                SkipCancelled, CreatePending, ReviveDeleted, UseMapping,
                TakeUpFails, TypeOK
<1>3. CASE MarkChecked \/ MarkPending \/ MarkFailed
  BY <1>3 DEF MarkChecked, RecordRevisions, MarkPending, MarkFailed, TypeOK
<1>4. CASE MarkDeleted
  BY <1>4 DEF MarkDeleted
<1>5. CASE SynchronizerStep /\ ~(MarkChecked \/ MarkPending \/ MarkFailed \/ MarkDeleted)
  BY <1>5
     DEF SynchronizerStep, Progress, Fault, Reload, Render, CreateEvent,
         UpdateEvent, UpdateMissing, MarkSynced, DeleteEvent, RenderFails,
         Rejected, CreateLost, UpdateLost, PatchBody, MarkSyncedFails,
         MarkSyncedUnread, RefreshFails, DeleteLost, DeleteRejected,
         WriteFails, UserRemoves
<1>6. CASE UNCHANGED vars
  BY <1>6
<1> QED
  BY <1>1, <1>2, <1>3, <1>4, <1>5, <1>6
     DEF Next, TakeUpCandidate, TakeUpStep, SynchronizerStep

\* Nothing but a creation or an update writes an appointment, and nothing but
\* their recording forgets that they did; a deletion reaches an appointment
\* that was created.
LEMMA CalendarFrame ==
    ASSUME IInv, [Next]_vars,
           ~(CreateEvent \/ CreateLost \/ UpdateEvent \/ UpdateLost)
    PROVE  /\ UNCHANGED <<owner, body>>
           /\ \/ unrecorded' = unrecorded
              \/ RecordSynced /\ pc' \in {"batch", "fail"}
           /\ \A a \in Appointments :
                 \/ appointment'[a] = appointment[a]
                 \/ appointment'[a] = "gone" /\ owner[a] # None
           /\ DeleteEvent => appointment'[work.outlookId] = "gone"
<1> TypeOK /\ WorkInv /\ AppointmentInv /\ MappingInv /\ TransactionInv
  BY DEF IInv
<1>1. CASE Import \/ Tools \/ Start \/ Stop \/ Crash \/ StartBatch \/ EndBatch
  BY <1>1 DEF Import, Tools, ImportFixture, RemoveFixture, ChangePresentation,
              Retire, Reactivate, Start, Stop, Crash, Halt, StartBatch, EndBatch,
              DeleteEvent, Goto
<1>2. ASSUME NEW c \in batch, TakeUpStep(c)
      PROVE  UNCHANGED <<graphVars, unrecorded>> /\ ~DeleteEvent
  BY <1>2, TakeUpFrame DEF DeleteEvent
<1>3. CASE DeleteEvent \/ DeleteLost
  <2>1. /\ work.outlookId \in Appointments /\ owner[work.outlookId] # None
        /\ appointment' = [appointment EXCEPT ![work.outlookId] = "gone"]
        /\ UNCHANGED <<owner, body, unrecorded>>
    BY <1>3 DEF DeleteEvent, DeleteLost, WorkInv, SameMapping, AppointmentInv,
                TransactionInv, Working, TypeOK, Candidates
  <2> QED
    BY <2>1 DEF TypeOK
<1>4. ASSUME NEW a \in Appointments, UserRemoves(a)
      PROVE  /\ UNCHANGED <<owner, body, unrecorded, pc>>
             /\ \A b \in Appointments :
                   \/ appointment'[b] = appointment[b]
                   \/ appointment'[b] = "gone" /\ owner[b] # None
             /\ ~DeleteEvent
  <2> pc' = pc
    BY <1>4 DEF UserRemoves
  <2> QED
    BY <1>4 DEF UserRemoves, AppointmentInv, TypeOK, DeleteEvent, Goto
<1>5. CASE MarkSynced \/ MarkSyncedUnread
  <2>1. RecordSynced /\ pc' \in {"batch", "fail"}
    BY <1>5 DEF MarkSynced, MarkSyncedUnread, Done, Goto
  <2> QED
    BY <2>1 DEF RecordSynced, DeleteEvent
<1>6. CASE /\ SynchronizerStep
           /\ ~(\/ DeleteEvent \/ DeleteLost \/ MarkSynced \/ MarkSyncedUnread
                \/ \E a \in Appointments : UserRemoves(a))
  BY <1>6
     DEF SynchronizerStep, Progress, Fault, Reload, Render, MarkPending,
         UpdateMissing, MarkChecked, MarkFailed, MarkDeleted, RenderFails,
         Rejected, MarkSyncedFails, RefreshFails, DeleteRejected, WriteFails
<1>7. CASE UNCHANGED vars
  BY <1>7 DEF DeleteEvent, Goto
<1> QED
  BY <1>1, <1>2, <1>3, <1>4, <1>5, <1>6, <1>7
     DEF Next, TakeUpCandidate, TakeUpStep, SynchronizerStep

\* The answer to a request is held until the row is written.
LEMMA AnswerFrame ==
    ASSUME IInv, [Next]_vars
    PROVE  /\ pc' \in {"created", "updated"} =>
                 CreateEvent \/ UpdateEvent \/ UNCHANGED <<pc, work>>
           /\ pc' = "removed" => DeleteEvent \/ UNCHANGED <<pc, work>>
<1> TypeOK /\ BatchInv
  BY DEF IInv
<1>1. CASE \/ \E e \in Events : \/ \E c \in Contents : ImportFixture(e, c)
                               \/ RemoveFixture(e) \/ Retire(e) \/ Reactivate(e)
           \/ Start \/ Stop \/ Crash
  BY <1>1, OutsideFrame
<1>2. ASSUME NEW scope \in SUBSET Events, NEW new \in [Events -> Rules],
             ChangePresentation(scope, new)
      PROVE  UNCHANGED <<pc, work>>
  BY <1>2, ToolFrame
<1>3. ASSUME StartBatch \/ EndBatch \/ \E c \in batch : TakeUpStep(c)
      PROVE  pc' \notin {"created", "updated", "removed"}
  BY <1>3, TakeUpFrame DEF StartBatch, EndBatch
<1>4. CASE Render
  BY <1>4 DEF Render, AfterRender
<1>5. CASE \/ Reload \/ MarkPending \/ CreateLost \/ UpdateLost \/ UpdateMissing
           \/ RenderFails \/ Rejected \/ MarkSyncedFails \/ MarkSyncedUnread
           \/ RefreshFails
  BY <1>5 DEF Reload, MarkPending, CreateLost, UpdateLost, UpdateMissing,
              RenderFails, Rejected, MarkSyncedFails, MarkSyncedUnread,
              RefreshFails, Goto
<1>6. CASE \/ MarkSynced \/ MarkChecked \/ MarkFailed \/ MarkDeleted
           \/ DeleteLost \/ DeleteRejected \/ WriteFails
  BY <1>6 DEF MarkSynced, MarkChecked, MarkFailed, MarkDeleted, DeleteLost,
              DeleteRejected, WriteFails, Done
<1>7. ASSUME NEW a \in Appointments, UserRemoves(a)
      PROVE  UNCHANGED <<pc, work>>
  BY <1>7 DEF UserRemoves
<1>8. CASE CreateEvent \/ UpdateEvent \/ DeleteEvent
  BY <1>8 DEF CreateEvent, UpdateEvent, DeleteEvent, Goto
<1>9. CASE UNCHANGED vars
  BY <1>9
<1> QED
  BY <1>1, <1>2, <1>3, <1>4, <1>5, <1>6, <1>7, <1>8, <1>9
     DEF Next, Import, Tools, TakeUpCandidate, TakeUpStep, Progress, Fault

\* Outlook answers a creation with the only live appointment of the transaction.
LEMMA CreateFrame ==
    ASSUME IInv, CreateEvent \/ CreateLost
    PROVE  /\ pc = "create" /\ work.event \in Events
           /\ transaction[work.event] # None /\ outlookId[work.event] = None
           /\ status[work.event] # "absent"
           /\ UNCHANGED <<mappingVars, eventVars, rule>>
           /\ unrecorded' = unrecorded \cup {work.event}
           /\ \E a \in Appointments :
                 /\ owner'[a] = transaction[work.event]
                 /\ appointment'[a] = "live"
                 /\ \A b \in Appointments \ {a} :
                       /\ owner'[b] = owner[b] /\ body'[b] = body[b]
                       /\ appointment'[b] = appointment[b]
                 /\ \A b \in Appointments :
                       appointment[b] = "live" /\ owner[b] = transaction[work.event]
                          => b = a
                 /\ \/ /\ Existing(transaction[work.event]) # {}
                       /\ UNCHANGED graphVars
                    \/ /\ Existing(transaction[work.event]) = {}
                       /\ owner[a] = None /\ appointment[a] = "unused"
                       /\ body'[a] = work.payload
                 /\ CreateEvent =>
                       /\ work'.event = work.event /\ work'.payload = work.payload
                       /\ work'.reference = a /\ pc' = "created"
                       /\ work'.wrote = (Existing(transaction[work.event]) = {})
<1> /\ TypeOK /\ WorkInv /\ AppointmentInv /\ MappingInv /\ TransactionInv
    /\ OneAppointmentPerEvent
  BY DEF IInv
<1> DEFINE t == transaction[work.event]
<1>1. pc = "create" /\ work \in Candidates /\ work.event \in Events
  BY DEF CreateEvent, CreateLost, TypeOK, Working, Candidates
<1>2. /\ status[work.event] # "absent" /\ t # None
      /\ outlookId[work.event] = None
  BY <1>1 DEF WorkInv, SameMapping, TransactionInv, Working, Writing, Retryable
<1>3. PICK a \in Appointments :
         /\ GraphCreate(t, work.payload, a)
         /\ CreateEvent => work' = [work EXCEPT !.reference = a,
                                       !.wrote = (Existing(t) = {})]
  BY DEF CreateEvent, CreateLost
<1>4. CreateEvent => /\ work'.event = work.event /\ work'.payload = work.payload
                     /\ work'.reference = a /\ work'.wrote = (Existing(t) = {})
                     /\ pc' = "created"
  BY <1>1, <1>3 DEF Candidates, CreateEvent
<1>5. CASE Existing(t) # {}
  <2>1. a \in Existing(t) /\ UNCHANGED graphVars
    BY <1>3, <1>5 DEF GraphCreate
  <2>2. \A b \in Appointments : appointment[b] = "live" /\ owner[b] = t => b = a
    BY <2>1 DEF Existing, OneAppointmentPerEvent
  <2> QED
    BY <1>1, <1>2, <1>4, <1>5, <2>1, <2>2 DEF Existing, CreateEvent, CreateLost
<1>6. CASE Existing(t) = {}
  <2>1. /\ appointment[a] = "unused"
        /\ appointment' = [appointment EXCEPT ![a] = "live"]
        /\ owner' = [owner EXCEPT ![a] = t]
        /\ body' = [body EXCEPT ![a] = work.payload]
    BY <1>3, <1>6 DEF GraphCreate, UnusedIds
  <2>2. \A b \in Appointments : ~(appointment[b] = "live" /\ owner[b] = t)
    BY <1>6 DEF Existing
  <2>3. /\ owner[a] = None /\ owner'[a] = t /\ appointment'[a] = "live"
        /\ body'[a] = work.payload
        /\ \A b \in Appointments \ {a} :
              /\ owner'[b] = owner[b] /\ body'[b] = body[b]
              /\ appointment'[b] = appointment[b]
    BY <2>1 DEF TypeOK, AppointmentInv
  <2>4. /\ UNCHANGED <<mappingVars, eventVars, rule>>
        /\ unrecorded' = unrecorded \cup {work.event}
    BY DEF CreateEvent, CreateLost
  <2> QED
    BY <1>1, <1>2, <1>4, <1>6, <2>1, <2>2, <2>3, <2>4, Zenon
<1> QED
  BY <1>5, <1>6

\* A PATCH changes the body of the mapped appointment and nothing else.
LEMMA UpdateFrame ==
    ASSUME IInv, UpdateEvent \/ UpdateLost
    PROVE  /\ pc = "update" /\ work.event \in Events
           /\ outlookId[work.event] = work.outlookId
           /\ work.outlookId \in Appointments
           /\ UNCHANGED <<mappingVars, eventVars, rule, appointment, owner>>
           /\ unrecorded' = unrecorded \cup {work.event}
           /\ body'[work.outlookId] = work.payload
           /\ \A a \in Appointments \ {work.outlookId} : body'[a] = body[a]
           /\ UpdateEvent =>
                 /\ work'.event = work.event /\ work'.payload = work.payload
                 /\ work'.reference = work.outlookId /\ pc' = "updated"
<1> TypeOK /\ WorkInv
  BY DEF IInv
<1>1. pc = "update" /\ work \in Candidates /\ work.event \in Events
  BY DEF UpdateEvent, UpdateLost, TypeOK, Working, Candidates
<1>2. /\ outlookId[work.event] = work.outlookId
      /\ work.outlookId \in Appointments
  BY <1>1 DEF WorkInv, SameMapping, Working, Candidates
<1>3. UpdateEvent => /\ work'.event = work.event /\ work'.payload = work.payload
                     /\ work'.reference = work.outlookId /\ pc' = "updated"
  BY <1>1 DEF Candidates, UpdateEvent
<1> QED
  BY <1>1, <1>2, <1>3 DEF UpdateEvent, UpdateLost, PatchBody, TypeOK

\* Recording an answer points the mapping at the appointment of the answer.
LEMMA RecordFrame ==
    ASSUME IInv, RecordSynced
    PROVE  /\ pc \in {"created", "updated"} /\ work.event \in Events
           /\ UNCHANGED <<transaction, graphVars>>
           /\ outlookId'[work.event] = work.reference
           /\ work.reference \in Appointments
           /\ contentHash'[work.event] = work.payload
           /\ status'[work.event] # "deleted"
           /\ unrecorded' = IF work.wrote THEN unrecorded \ {work.event}
                                          ELSE unrecorded
           /\ \A e \in Events \ {work.event} :
                 /\ outlookId'[e] = outlookId[e]
                 /\ contentHash'[e] = contentHash[e]
                 /\ status'[e] = status[e]
<1>1. TypeOK /\ WorkInv
  BY DEF IInv
<1>2. /\ work \in Candidates /\ work.event \in Events
      /\ work.reference \in Appointments
  BY <1>1 DEF RecordSynced, TypeOK, WorkInv, Working, Candidates
<1> QED
  BY <1>1, <1>2 DEF RecordSynced, RecordRevisions, TypeOK

\* A deletion is recorded after its request, with the Outlook ID kept.
LEMMA DeletedFrame ==
    ASSUME IInv, MarkDeleted
    PROVE  /\ work.event \in Events /\ UNCHANGED <<identity, graphVars>>
           /\ outlookId[work.event] = work.outlookId
           /\ pc = "removed"
           /\ \A e \in Events \ {work.event} : status'[e] = status[e]
BY DEF MarkDeleted, IInv, TypeOK, WorkInv, SameMapping, Working, Candidates

\* No step adds a live appointment to a transaction, except the creation for it.
LEMMA ExistingFrame ==
    ASSUME IInv, [Next]_vars, NEW t, t # None,
           CreateEvent \/ CreateLost => transaction[work.event] # t
    PROVE  Existing(t)' \subseteq Existing(t)
<1> TypeOK /\ AppointmentInv
  BY DEF IInv
<1>1. CASE CreateEvent \/ CreateLost
  BY <1>1, CreateFrame DEF Existing
<1>2. CASE UpdateEvent \/ UpdateLost
  BY <1>2, UpdateFrame DEF Existing
<1>3. CASE ~(CreateEvent \/ CreateLost \/ UpdateEvent \/ UpdateLost)
  BY <1>3, CalendarFrame DEF Existing
<1> QED
  BY <1>1, <1>2, <1>3

\* An appointment that was handed out stays with its transaction, and one that
\* is gone stays gone.
LEMMA OwnerFrame ==
    ASSUME IInv, [Next]_vars, NEW a \in Appointments, owner[a] # None
    PROVE  /\ owner'[a] = owner[a]
           /\ appointment[a] = "gone" => appointment'[a] = "gone"
<1> AppointmentInv /\ TypeOK
  BY DEF IInv
<1>1. CASE CreateEvent \/ CreateLost
  <2>1. PICK b \in Appointments :
           /\ owner'[b] = transaction[work.event]
           /\ \A d \in Appointments \ {b} :
                 owner'[d] = owner[d] /\ appointment'[d] = appointment[d]
           /\ UNCHANGED graphVars \/ owner[b] = None
    BY <1>1, CreateFrame
  <2> QED
    BY <2>1
<1>2. CASE UpdateEvent \/ UpdateLost
  BY <1>2, UpdateFrame
<1>3. CASE ~(CreateEvent \/ CreateLost \/ UpdateEvent \/ UpdateLost)
  BY <1>3, CalendarFrame
<1> QED
  BY <1>1, <1>2, <1>3

\* The calendar and the Outlook IDs of the mappings go on agreeing.
LEMMA AppointmentStep == IInv /\ [Next]_vars => AppointmentInv'
<1> SUFFICES ASSUME IInv, [Next]_vars PROVE AppointmentInv'
  OBVIOUS
<1> /\ TypeOK /\ WorkInv /\ MappingInv /\ TransactionInv /\ AppointmentInv
    /\ OneAppointmentPerEvent
  BY DEF IInv
<1>t. /\ \A e \in Events : outlookId[e] # None =>
            /\ outlookId[e] \in Appointments
            /\ transaction[e] # None /\ status[e] # "absent"
      /\ \A e \in Events : status[e] # "absent" =>
            transaction'[e] = transaction[e] /\ transaction[e] # None
  BY TransactionFrame, CreatePendingFrame DEF MappingInv, TransactionInv, TypeOK
<1>1. ASSUME NEW a \in Appointments
      PROVE  appointment'[a] = "unused" <=> owner'[a] = None
  <2>1. CASE CreateEvent \/ CreateLost
    BY <2>1, CreateFrame DEF AppointmentInv
  <2>2. CASE UpdateEvent \/ UpdateLost
    BY <2>2, UpdateFrame DEF AppointmentInv
  <2>3. CASE ~(CreateEvent \/ CreateLost \/ UpdateEvent \/ UpdateLost)
    BY <2>3, CalendarFrame DEF AppointmentInv
  <2> QED
    BY <2>1, <2>2, <2>3
<1>2. ASSUME NEW e \in Events, outlookId'[e] # None
      PROVE  /\ owner'[outlookId'[e]] = transaction'[e]
             /\ \A a \in Existing(transaction[e])' : a = outlookId'[e]
             /\ status'[e] = "deleted" => appointment'[outlookId'[e]] = "gone"
  <2>1. CASE RecordSynced /\ e = work.event
    <3>1. /\ status[e] # "absent"
          /\ owner[work.reference] = transaction[e]
          /\ \A a \in Existing(transaction[e]) : a = work.reference
      BY <2>1, RecordFrame
         DEF AppointmentInv, WorkInv, Working, Writing, Retryable
    <3> QED
      BY <2>1, <3>1, <1>t, RecordFrame DEF Existing
  <2>2. CASE ~(RecordSynced /\ e = work.event)
    <3>1. /\ outlookId'[e] = outlookId[e]
          /\ status'[e] = "deleted" /\ ~MarkDeleted => status[e] = "deleted"
      BY <1>2, <2>2, OutlookIdFrame, RecordFrame
    <3>2. /\ transaction'[e] = transaction[e] /\ transaction[e] # None
          /\ outlookId[e] \in Appointments
          /\ owner[outlookId[e]] = transaction[e]
          /\ \A a \in Existing(transaction[e]) : a = outlookId[e]
      BY <1>2, <3>1, <1>t DEF AppointmentInv
    <3>3. CreateEvent \/ CreateLost => transaction[work.event] # transaction[e]
      BY <1>2, <3>1, <3>2, CreateFrame DEF TransactionInv
    <3>4. owner'[outlookId[e]] = transaction[e]
      BY <3>2, OwnerFrame
    <3>5. \A a \in Existing(transaction[e])' : a = outlookId'[e]
      <4>1. ASSUME NEW t, t = transaction[e]
            PROVE  Existing(t)' \subseteq Existing(t)
        BY <4>1, <3>2, <3>3, ExistingFrame
      <4> QED
        BY <4>1, <3>1, <3>2 DEF Existing
    <3>6. ASSUME status'[e] = "deleted" PROVE appointment'[outlookId[e]] = "gone"
      <4>1. CASE status[e] = "deleted"
        BY <1>2, <3>1, <3>2, <4>1, OwnerFrame DEF AppointmentInv
      <4>2. CASE status[e] # "deleted"
        BY <3>1, <3>2, <3>6, <4>2, DeletedFrame, OwnerFrame DEF AppointmentInv
      <4> QED
        BY <4>1, <4>2
    <3> QED
      BY <3>1, <3>2, <3>4, <3>5, <3>6
  <2> QED
    BY <2>1, <2>2
<1>3. ASSUME pc' \in {"created", "updated"}
      PROVE  /\ owner'[work'.reference] = transaction'[work'.event]
             /\ \A a \in Existing(transaction[work.event])' : a = work'.reference
  <2>1. CASE CreateEvent
    BY <2>1, <1>t, CreateFrame DEF Existing
  <2>2. CASE UpdateEvent
    BY <2>2, <1>t, UpdateFrame, NoneAssumption DEF AppointmentInv, Existing
  <2>3. CASE UNCHANGED <<pc, work>>
    <3>1. /\ work.event \in Events /\ work.reference \in Appointments
          /\ status[work.event] # "absent"
      BY <1>3, <2>3
         DEF TypeOK, WorkInv, Working, Writing, Candidates, Retryable
    <3>2. /\ owner[work.reference] = transaction[work.event]
          /\ \A a \in Existing(transaction[work.event]) : a = work.reference
      BY <1>3, <2>3 DEF AppointmentInv
    <3>3. ~(CreateEvent \/ CreateLost)
      BY <1>3, <2>3, CreateFrame
    <3>4. ASSUME NEW t, t = transaction[work.event]
          PROVE  Existing(t)' \subseteq Existing(t)
      BY <1>t, <3>1, <3>3, <3>4, ExistingFrame
    <3> QED
      BY <1>t, <2>3, <3>1, <3>2, <3>4, OwnerFrame DEF Existing
  <2> QED
    BY <1>3, <2>1, <2>2, <2>3, AnswerFrame
<1>4. ASSUME pc' = "removed" PROVE appointment'[work'.outlookId] = "gone"
  <2>1. CASE DeleteEvent
    <3>1. work' = work
      BY <2>1 DEF DeleteEvent, Goto
    <3>2. ~(CreateEvent \/ CreateLost \/ UpdateEvent \/ UpdateLost)
      BY <2>1, CreateFrame, UpdateFrame DEF DeleteEvent
    <3> QED
      BY <2>1, <3>1, <3>2, CalendarFrame
  <2>2. CASE UNCHANGED <<pc, work>>
    <3>1. /\ work.outlookId \in Appointments
          /\ owner[work.outlookId] # None
          /\ appointment[work.outlookId] = "gone"
      BY <1>4, <2>2, <1>t
         DEF AppointmentInv, WorkInv, SameMapping, Working, TypeOK, Candidates
    <3> QED
      BY <2>2, <3>1, OwnerFrame
  <2> QED
    BY <1>4, <2>1, <2>2, AnswerFrame
<1> QED
  BY <1>1, <1>2, <1>3, <1>4 DEF AppointmentInv

\* No step adds a second appointment of an event.
LEMMA OneAppointmentStep == IInv /\ [Next]_vars => OneAppointmentPerEvent'
<1> SUFFICES ASSUME IInv, [Next]_vars PROVE OneAppointmentPerEvent'
  OBVIOUS
<1> TypeOK /\ TransactionInv /\ AppointmentInv /\ OneAppointmentPerEvent
  BY DEF IInv
<1>t. \A e \in Events : status[e] # "absent" =>
         transaction'[e] = transaction[e] /\ status'[e] # "absent"
  BY TransactionFrame, CreatePendingFrame
<1>1. CASE CreateEvent \/ CreateLost
  <2>1. PICK n \in Appointments :
           /\ owner'[n] = transaction[work.event]
           /\ \A b \in Appointments \ {n} :
                 owner'[b] = owner[b] /\ appointment'[b] = appointment[b]
           /\ \A b \in Appointments :
                 appointment[b] = "live" /\ owner[b] = transaction[work.event]
                    => b = n
    BY <1>1, CreateFrame
  <2>2. work.event \in Events /\ status[work.event] # "absent"
    BY <1>1, CreateFrame
  <2> QED
    BY <1>t, <2>1, <2>2 DEF OneAppointmentPerEvent
<1>2. CASE UpdateEvent \/ UpdateLost
  BY <1>2, <1>t, UpdateFrame DEF OneAppointmentPerEvent
<1>3. CASE ~(CreateEvent \/ CreateLost \/ UpdateEvent \/ UpdateLost)
  BY <1>3, <1>t, CalendarFrame DEF OneAppointmentPerEvent
<1> QED
  BY <1>1, <1>2, <1>3

-----------------------------------------------------------------------------
(* Bodies and hashes.                                                      *)

\* Stored hashes go on being those of the bodies shown.
LEMMA BodyStep == IInv /\ [Next]_vars => BodyInv'
<1> SUFFICES ASSUME IInv, [Next]_vars PROVE BodyInv'
  OBVIOUS
<1> /\ TypeOK /\ WorkInv /\ MappingInv /\ TransactionInv /\ AppointmentInv
    /\ BodyInv
  BY DEF IInv
<1>t. \A e \in Events : outlookId[e] # None =>
         /\ outlookId[e] \in Appointments
         /\ owner[outlookId[e]] = transaction[e]
         /\ transaction[e] # None
  BY DEF AppointmentInv, MappingInv, TransactionInv, TypeOK
<1>1. ASSUME NEW e \in Events, outlookId'[e] # None, e \notin unrecorded'
      PROVE  \/ appointment'[outlookId'[e]] = "gone"
             \/ body'[outlookId'[e]] = contentHash'[e]
  <2>1. CASE RecordSynced /\ e = work.event
    BY <1>1, <2>1, RecordFrame DEF BodyInv
  <2>2. CASE ~(RecordSynced /\ e = work.event)
    <3>1. outlookId'[e] = outlookId[e] /\ contentHash'[e] = contentHash[e]
      BY <1>1, <2>2, OutlookIdFrame, RecordFrame
    <3>2. CASE CreateEvent \/ CreateLost
      BY <1>1, <1>t, <3>1, <3>2, CreateFrame DEF BodyInv, HashIsShown
    <3>3. CASE UpdateEvent \/ UpdateLost
      <4>1. e # work.event /\ e \notin unrecorded
        BY <1>1, <3>3, UpdateFrame
      <4>2. outlookId[e] # work.outlookId
        BY <1>1, <1>t, <3>1, <3>3, <4>1, UpdateFrame DEF TransactionInv
      <4> QED
        BY <1>1, <1>t, <3>1, <3>3, <4>1, <4>2, UpdateFrame DEF BodyInv, HashIsShown
    <3>4. CASE ~(CreateEvent \/ CreateLost \/ UpdateEvent \/ UpdateLost)
      <4>1. e \notin unrecorded
        BY <1>1, <2>2, <3>4, CalendarFrame, RecordFrame
      <4> QED
        BY <1>1, <1>t, <3>1, <3>4, <4>1, CalendarFrame DEF BodyInv, HashIsShown
    <3> QED
      BY <3>2, <3>3, <3>4
  <2> QED
    BY <2>1, <2>2
<1>2. ASSUME pc' \in {"created", "updated"}
      PROVE  /\ work'.event \in unrecorded'
             /\ work'.wrote => \/ appointment'[work'.reference] = "gone"
                              \/ body'[work'.reference] = work'.payload
  <2>1. CASE CreateEvent
    <3>1. PICK a \in Appointments :
             /\ \/ Existing(transaction[work.event]) # {}
                \/ body'[a] = work.payload
             /\ work'.event = work.event /\ work'.payload = work.payload
             /\ work'.reference = a
             /\ work'.wrote = (Existing(transaction[work.event]) = {})
      BY <2>1, CreateFrame
    <3> QED
      BY <2>1, <3>1, CreateFrame
  <2>2. CASE UpdateEvent
    BY <2>2, UpdateFrame
  <2>3. CASE UNCHANGED <<pc, work>>
    <3>1. /\ work.event \in unrecorded /\ work.reference \in Appointments
          /\ owner[work.reference] # None
          /\ work.wrote => \/ appointment[work.reference] = "gone"
                           \/ body[work.reference] = work.payload
      BY <1>2, <2>3 DEF BodyInv, AppointmentInv, TransactionInv, TypeOK, WorkInv,
                        Working, Writing, Candidates, Retryable
    <3>2. pc' \notin {"batch", "fail"} /\ pc \in {"created", "updated"}
      BY <1>2, <2>3
    <3>3. ~(CreateEvent \/ CreateLost \/ UpdateEvent \/ UpdateLost)
      BY <3>2, CreateFrame, UpdateFrame
    <3> QED
      BY <2>3, <3>1, <3>2, <3>3, CalendarFrame
  <2> QED
    BY <1>2, <2>1, <2>2, <2>3, AnswerFrame
<1> QED
  BY <1>1, <1>2 DEF BodyInv, HashIsShown

-----------------------------------------------------------------------------

\* The invariant holds initially.
LEMMA IInvInit == Init => IInv
<1> SUFFICES ASSUME Init PROVE IInv
  OBVIOUS
<1>1. TypeOK
  BY TypeInit
<1>2. BatchInv /\ WorkInv /\ RenderInv /\ TransactionInv
  BY DEF Init, BatchInv, WorkInv, RenderInv, TransactionInv, Working
<1>3. MappingInv
  BY DEF Init, MappingInv, Retryable
<1>4. AppointmentInv /\ OneAppointmentPerEvent /\ BodyInv
  BY DEF Init, AppointmentInv, OneAppointmentPerEvent, BodyInv, HashIsShown
<1> QED
  BY <1>1, <1>2, <1>3, <1>4 DEF IInv

\* The invariant is inductive.
LEMMA IInvStep == IInv /\ [Next]_vars => IInv'
<1> SUFFICES ASSUME IInv, [Next]_vars PROVE IInv'
  OBVIOUS
<1>1. TypeOK'
  BY TypeStep DEF IInv
<1> QED
  BY <1>1, BatchStep, WorkStep, RenderStep, MappingStep, TransactionStep,
     AppointmentStep, OneAppointmentStep, BodyStep DEF IInv

\* The inductive invariant holds in every reachable state: what the snapshots
\* of a running batch may be missing, and what the rows and the calendar say.
THEOREM Inductive == Spec => []IInv
  BY IInvInit, IInvStep, PTL DEF Spec

\* Whatever a reminder or template tool commits while a batch is running,
\* mark_synced and mark_checked never let a row rest with the hash of an older
\* event or presentation.
THEOREM UpdatesAreNotLost == Spec => []NoLostUpdate
<1>1. IInv => NoLostUpdate
  <2> SUFFICES ASSUME IInv, NEW e \in Events, status[e] = "synced",
                      ~(revision[e] > lastSynced[e]),
                      ~(presentation[e] > lastPresentation[e])
               PROVE  contentHash[e] = <<content[e], rule[e]>>
    BY DEF NoLostUpdate, Actionable
  <2>1. /\ revision[e] \in Nat /\ lastSynced[e] \in Nat
        /\ presentation[e] \in Nat /\ lastPresentation[e] \in Nat
    BY DEF IInv, TypeOK
  <2>2. lastSynced[e] <= revision[e] /\ lastPresentation[e] <= presentation[e]
    BY DEF IInv, MappingInv, Retryable
  <2>3. lastSynced[e] = revision[e] /\ lastPresentation[e] = presentation[e]
    BY <2>1, <2>2
  <2> QED
    BY <2>3 DEF IInv, MappingInv, Retryable
<1> QED
  BY <1>1, Inductive, PTL

\* The content hash the synchronizer compares with is that of the body Outlook
\* shows, after any crash, failed write or user deletion, unless a request was
\* applied whose answer the database never recorded.
THEOREM HashesAreShown == Spec => []HashIsShown
<1>1. IInv => HashIsShown
  BY DEF IInv, BodyInv
<1> QED
  BY <1>1, Inductive, PTL

\* The transaction ID of create_pending makes every retried creation find the
\* appointment of the first: no duplicate and no appointment without a mapping.
THEOREM NoDuplicateAppointments == Spec => []OneAppointmentPerEvent
<1>1. IInv => OneAppointmentPerEvent
  BY DEF IInv
<1> QED
  BY <1>1, Inductive, PTL

\* mark_deleted is reached only with the appointment gone, and no later step
\* brings an appointment back to a deleted mapping that kept its Outlook ID.
THEOREM DeletionsAreDone == Spec => []DeletedMeansGone
<1>1. IInv => DeletedMeansGone
  BY DEF IInv, AppointmentInv, DeletedMeansGone, Existing
<1> QED
  BY <1>1, Inductive, PTL

\* The step of the next theorem, from the invariant: every row a step touches
\* is that of a snapshot, and no snapshot is of a retired scope.
LEMMA RetiredStep == IInv /\ [Next]_vars => WritesNoRetired \/ UNCHANGED vars
<1> SUFFICES ASSUME IInv, [Next]_vars, NEW e \in retired \cap retired'
             PROVE  /\ Row(e)' = Row(e)
                    /\ \A a \in Appointments :
                          owner'[a] = transaction[e] /\ transaction[e] # None =>
                             owner[a] = owner'[a] /\ body'[a] = body[a]
  BY DEF WritesNoRetired, Row
<1> /\ TypeOK /\ BatchInv /\ WorkInv /\ TransactionInv /\ AppointmentInv
    /\ e \in Events
  BY DEF IInv, TypeOK
<1>1. Row(e)' = Row(e)
  <2>1. CASE Import \/ Tools \/ Start \/ Stop \/ Crash \/ StartBatch \/ EndBatch
    BY <2>1 DEF Import, Tools, ImportFixture, RemoveFixture, ChangePresentation,
                Retire, Reactivate, Start, Stop, Crash, Halt, StartBatch,
                EndBatch, Row
  <2>2. ASSUME NEW c \in batch, TakeUpStep(c)
        PROVE  Row(e)' = Row(e)
    BY <2>2, TakeUpFrame DEF BatchInv, Fresh
  <2>3. CASE SynchronizerStep
    BY <2>3, StepFrame DEF WorkInv, Fresh, Row
  <2>4. CASE UNCHANGED vars
    BY <2>4 DEF Row
  <2> QED
    BY <2>1, <2>2, <2>3, <2>4
       DEF Next, TakeUpCandidate, TakeUpStep, SynchronizerStep
<1>2. ASSUME NEW a \in Appointments, owner'[a] = transaction[e],
             transaction[e] # None
      PROVE  owner[a] = owner'[a] /\ body'[a] = body[a]
  <2>1. CASE CreateEvent \/ CreateLost
    <3>1. transaction[work.event] # transaction[e]
      BY <1>2, <2>1, CreateFrame DEF WorkInv, Fresh, Working, TransactionInv
    <3> QED
      BY <1>2, <2>1, <3>1, CreateFrame
  <2>2. CASE UpdateEvent \/ UpdateLost
    <3>1. /\ work.event # e
          /\ owner[work.outlookId] = transaction[work.event]
      BY <2>2, UpdateFrame, NoneAssumption
         DEF WorkInv, Fresh, Working, AppointmentInv
    <3> QED
      BY <1>2, <2>2, <3>1, UpdateFrame DEF TransactionInv
  <2>3. CASE ~(CreateEvent \/ CreateLost \/ UpdateEvent \/ UpdateLost)
    BY <2>3, CalendarFrame
  <2> QED
    BY <2>1, <2>2, <2>3
<1> QED
  BY <1>1, <1>2

\* A retired scope is left alone: get_candidates excludes it and retirement
\* waits for the process to end, so no batch that is running reaches it.
THEOREM RetiredScopesAreFrozen == Spec => RetiredFrozen
  BY RetiredStep, Inductive, PTL DEF Spec, RetiredFrozen

\* An appointment appears only for an event that is present.
LEMMA PresentStep == IInv /\ [Next]_vars => CreatesForPresent
<1> SUFFICES ASSUME IInv, [Next]_vars, NEW a \in Appointments,
                    appointment[a] = "unused", appointment'[a] = "live"
             PROVE  \E e \in Events : transaction[e] = owner'[a] /\ ~deleted[e]
  BY DEF CreatesForPresent
<1>1. CreateEvent \/ CreateLost
  BY CalendarFrame, UpdateFrame
<1>2. work.event \in Events /\ ~deleted[work.event]
  BY <1>1, CreateFrame DEF IInv, WorkInv, Fresh, Working, Writing
<1>3. owner'[a] = transaction[work.event]
  BY <1>1, CreateFrame
<1> QED
  BY <1>2, <1>3

\* A creation is requested only for an event that is not removed: imports and
\* batches exclude each other, so no snapshot outlives a removal.
THEOREM NothingIsCreatedForRemoved == Spec => NothingAppearsForRemoved
  BY PresentStep, Inductive, PTL DEF Spec, NothingAppearsForRemoved

=============================================================================
