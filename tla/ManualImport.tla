---------------------------- MODULE ManualImport ----------------------------
(***************************************************************************)
(* Packages of fixtures that an operator submits, reviews and approves     *)
(* (app/imports/manual_inbox.py), and the worker that applies them         *)
(* (app/application/manual_import_worker.py, manual_import_service.py,     *)
(* app/database/manual_import_repository.py).                              *)
(*                                                                         *)
(* Commands only write request files; one scheduled job takes at most      *)
(* PerRun of them, in the order of their names from a rotating cursor, and *)
(* then projects the review appointments (ManualReview, which has the      *)
(* faults of that half).  A request goes through one transaction, or two,  *)
(* before its result is published and it is archived; the process may die  *)
(* between any two of these steps.                                         *)
(***************************************************************************)
EXTENDS ManualReview, Sequences

CONSTANTS
    Packages,      \* manifests, byte by byte
    Submission,    \* the submission ID a manifest carries
    PlanOf,        \* the review plan a manifest carries
    Unacceptable,  \* <<package, database>> that a preview rejects
    Names,         \* the names of new requests, as ranks among their digests
    Strays,        \* files somebody else left in the inbox
    PerRun,        \* requests of one run
    ImportFaults,  \* the faults a behaviour may contain
    MaxDatabase    \* bound on changes of the database

ASSUME PackageAssumption ==
    DOMAIN Submission = Packages /\ PlanOf \in [Packages -> Plans]
ASSUME ImportNoneAssumption == None \notin Packages
ASSUME NameAssumption ==
    /\ Names \in Seq(Nat \ {0})
    /\ \A i, j \in DOMAIN Names : Names[i] = Names[j] => i = j
    /\ Strays \subseteq [name: Nat \ {0}, action: {"malformed", "unreadable"}]
    /\ \A r \in Strays, i \in DOMAIN Names : r.name # Names[i]
ASSUME RunAssumption == PerRun \in Nat \ {0}
ASSUME DatabaseAssumption == MaxDatabase \in Nat
ASSUME ImportFaultAssumption ==
    ImportFaults \subseteq {"busy", "conflict", "differs", "died"}

VARIABLES
    pending,   \* request files to be worked on
    archived,  \* request files worked on
    results,   \* the published result of a submission, None without one
    batch,     \* import_batches, None without a row
    database,  \* revision of all else a preview reads: catalog, fixtures, mappings
    wstep,     \* what the worker does next with its request
    request,   \* the request it works on, None without one
    wtodo,     \* the requests of this run it still has to take up
    wcursor,   \* the name it took up last, 0 after a start
    error,     \* what its request came to: None, "rejected" or "retry"
    turn       \* the half of the job that runs, or runs next

fileVars   == <<pending, archived, results>>
workerVars == <<wstep, request, wtodo, wcursor, error>>
importVars == <<fileVars, batch, database, workerVars>>
vars == <<importVars, turn, reviewVars>>

-----------------------------------------------------------------------------

Submissions == {Submission[p] : p \in Packages}

\* Everything a preview is computed from, and therefore its fingerprint.
Situations == [database: 0 .. MaxDatabase, plan: [Tasks -> Contents \cup {None}]]
Situation == [database |-> database, plan |-> plan]
Previews == [package: Packages, situation: Situations]

Orders ==
    [name: Nat, submission: Submissions, action: {"submit"},
     package: Packages, seen: {None}]
    \cup [name: Nat, submission: Submissions, action: {"preview"},
          package: {None}, seen: {None}]
    \cup [name: Nat, submission: Submissions, action: {"approve"},
          package: Packages, seen: Previews]
Requests == Orders \cup Strays

States == {"RECEIVED", "AWAITING_APPROVAL", "APPROVED", "NEEDS_REVIEW", "REJECTED",
           "APPLIED"}
Batches == [package: Packages, state: States, preview: Previews \cup {None},
            approval: Previews \cup {None}, retired: BOOLEAN]
Results == [state: States \cup {"RETRYABLE_FAILURE"}, preview: Previews \cup {None}]

ASSUME RowAssumption == None \notin Batches \cup Results

WorkerSteps == {"idle", "next", "receive", "prepare", "approve", "apply", "publish",
                "archive", "unlink"}

Init ==
    /\ ReviewInit
    /\ pending = Strays /\ archived = {}
    /\ results = [s \in Submissions |-> None]
    /\ batch = [s \in Submissions |-> None]
    /\ database = 0
    /\ wstep = "idle" /\ request = None /\ wtodo = {} /\ wcursor = 0
    /\ error = None
    /\ turn = "import"

-----------------------------------------------------------------------------
(* The commands: each writes one file, under the digest of its contents.    *)

Written == (pending \cup archived) \ Strays
NextName == Names[Cardinality(Written) + 1]

\* A run works on the files it found when it began, so that a file may as well
\* appear before or after the work on a request.
Between == turn = "import" /\ wstep \in {"idle", "next"}

Write(action, s, p, seen) ==
    /\ Between
    /\ Cardinality(Written) + 1 \in DOMAIN Names
    /\ pending' = pending \cup {[name |-> NextName, action |-> action,
                                submission |-> s, package |-> p, seen |-> seen]}
    /\ UNCHANGED <<archived, results, batch, database, workerVars, turn, reviewVars>>

\* Nothing but the package is in its request: the same package is the same file.
Submit(p) ==
    /\ \A q \in Written : q.action = "submit" => q.package # p
    /\ Write("submit", Submission[p], p, None)

\* A preview request carries a number of its own.
AskPreview(s) == Write("preview", s, None, None)

\* The operator approves the preview that was published.
Approve(s) ==
    /\ results[s] # None /\ results[s].preview # None
    /\ Write("approve", s, results[s].preview.package, results[s].preview)

\* A second client found the archive empty before the first one's file got there.
Redeliver(r) ==
    /\ Between
    /\ r \in archived \ pending /\ r.action = "submit"
    /\ pending' = pending \cup {r}
    /\ UNCHANGED <<archived, results, batch, database, workerVars, turn, reviewVars>>

-----------------------------------------------------------------------------
(* ManualImportWorker.run                                                  *)

\* Mutant: no cursor.
ByName(q, r) == q.name < r.name

InFileOrder(q, r) ==
    IF (q.name > wcursor) = (r.name > wcursor) THEN q.name < r.name
    ELSE q.name > wcursor

StartRun ==
    /\ turn = "import" /\ wstep = "idle"
    /\ wtodo' = {r \in pending :
                    Cardinality({q \in pending : InFileOrder(q, r)}) < PerRun}
    /\ wstep' = "next"
    /\ UNCHANGED <<fileVars, batch, database, request, wcursor, error, turn, reviewVars>>

EndRun ==
    /\ wstep = "next" /\ wtodo = {}
    /\ wstep' = "idle"
    /\ turn' = "review"
    /\ UNCHANGED <<fileVars, batch, database, request, wtodo, wcursor, error,
                   reviewVars>>

FirstWorkerStep(r) ==
    CASE r.action = "submit"     -> "receive"
      [] r.action = "preview"    -> "prepare"
      [] r.action = "approve"    -> "approve"
      [] r.action = "malformed"  -> "archive"
      [] r.action = "unreadable" -> "next"

\* A request for a package that is not staged is answered as rejected.
Unstaged(r) ==
    r.action \in {"preview", "approve"} /\ batch[r.submission] = None

TakeUp(r) ==
    /\ wstep = "next"
    /\ r \in wtodo /\ \A q \in wtodo \ {r} : InFileOrder(r, q)
    /\ wtodo' = wtodo \ {r}
    /\ wcursor' = r.name
    /\ IF Unstaged(r)
       THEN wstep' = "publish" /\ error' = "rejected"
       ELSE wstep' = FirstWorkerStep(r) /\ error' = None
    /\ request' = IF r.action = "unreadable" THEN None ELSE r
    /\ UNCHANGED <<fileVars, batch, database, turn, reviewVars>>

-----------------------------------------------------------------------------
(* ManualImportService: one transaction per action.                        *)

\* The submission of the request, and its row.
S == request.submission
B == batch[S]

Goto(next) == wstep' = next /\ UNCHANGED error

\* Mutant: a rejected request is archived without a result.
RejectQuietly == wstep' = "archive" /\ error' = "rejected"

Reject == wstep' = "publish" /\ error' = "rejected"

Update(b) == batch' = [batch EXCEPT ![S] = b]

WorkerUnchanged == UNCHANGED <<fileVars, request, wtodo, wcursor, turn>>
ReviewUnchanged == UNCHANGED <<database, reviewVars>>

Staged(p) == [package |-> p, state |-> "RECEIVED", preview |-> None,
              approval |-> None, retired |-> FALSE]

Receive ==
    /\ wstep = "receive"
    /\ \/ /\ B = None /\ ~frozen
          /\ Update(Staged(request.package))
          /\ Goto("prepare")
       \/ /\ B # None /\ B.package = request.package
          /\ UNCHANGED batch
          /\ Goto(IF B.state = "RECEIVED" THEN "prepare" ELSE "publish")
       \/ /\ IF B = None THEN frozen ELSE B.package # request.package
          /\ UNCHANGED batch
          /\ Reject
    /\ WorkerUnchanged /\ ReviewUnchanged

\* plan_preview: the fingerprint covers the package and the situation.
Preview(p) == [package |-> p, situation |-> Situation]
Accepted(v) == <<v.package, v.situation.database>> \notin Unacceptable

Prepare ==
    /\ wstep = "prepare"
    /\ \/ /\ B.state = "APPLIED"
          /\ UNCHANGED batch
          /\ Goto("publish")
       \/ /\ B.state # "APPLIED" /\ frozen
          /\ UNCHANGED batch
          /\ Reject
       \/ /\ B.state # "APPLIED" /\ ~frozen
          /\ LET v == Preview(B.package) IN
             Update([B EXCEPT !.preview = v, !.approval = None,
                              !.state = IF Accepted(v) THEN "AWAITING_APPROVAL"
                                        ELSE "REJECTED"])
          /\ Goto("publish")
    /\ WorkerUnchanged /\ ReviewUnchanged

\* Mutant: the situation may have changed since.
ValidWhenSeen(seen) == seen = B.preview /\ Accepted(B.preview)

\* validate_preview_approval: for the preview that is stored, and that preview
\* is what would be computed now.
Valid(seen) ==
    /\ seen = B.preview
    /\ B.preview = Preview(B.package)
    /\ Accepted(B.preview)

NeedsReview == [B EXCEPT !.state = "NEEDS_REVIEW", !.approval = None]

\* approve.  Approvals given in the future, which the code refuses as well, are
\* left out.
ApproveBatch ==
    /\ wstep = "approve"
    /\ \/ /\ \/ request.package # B.package
             \/ B.state \notin {"AWAITING_APPROVAL", "APPROVED", "APPLIED"}
             \/ frozen /\ B.state # "APPLIED"
          /\ UNCHANGED batch
          /\ Reject
       \/ /\ request.package = B.package /\ B.state = "APPLIED"
          /\ UNCHANGED batch
          /\ Goto("apply")
       \/ /\ request.package = B.package /\ ~frozen
          /\ B.state \in {"AWAITING_APPROVAL", "APPROVED"}
          /\ IF Valid(request.seen)
             THEN /\ Update([B EXCEPT !.state = "APPROVED", !.approval = request.seen])
                  /\ Goto("apply")
             ELSE Update(NeedsReview) /\ Reject
    /\ WorkerUnchanged /\ ReviewUnchanged

\* The fixtures, the review plan, the receipt and the state in one transaction;
\* fixtures that are there already change nothing.
ApplyBatch ==
    /\ wstep = "apply"
    /\ \/ /\ B.state = "APPLIED"
          /\ Goto("publish")
          /\ UNCHANGED <<batch, database, plan>>
       \/ /\ B.state = "APPROVED" /\ ~frozen /\ Valid(B.approval)
          /\ Update([B EXCEPT !.state = "APPLIED"])
          /\ database' \in {database, database + 1} \cap (0 .. MaxDatabase)
          /\ plan' = PlanOf[B.package]
          /\ Goto("publish")
       \/ /\ B.state = "APPROVED" /\ ~frozen /\ ~Valid(B.approval)
          /\ Update(NeedsReview)
          /\ Reject
          /\ UNCHANGED <<database, plan>>
    /\ WorkerUnchanged
    /\ UNCHANGED <<enabled, frozen, changes, row, calendar, processVars, historyVars>>

\* _publish: what the row says, or that the database could not be used.
Publish ==
    /\ wstep = "publish"
    /\ results' =
         [results EXCEPT ![S] =
             [state   |-> IF error = "retry" THEN "RETRYABLE_FAILURE"
                          ELSE IF B = None THEN "REJECTED" ELSE B.state,
              preview |-> IF B = None THEN None ELSE B.preview]]
    /\ wstep' = IF error = "retry" THEN "next" ELSE "archive"
    /\ error' = None
    /\ UNCHANGED <<pending, archived, batch, database, request, wtodo, wcursor, turn,
                   reviewVars>>

Archive ==
    /\ wstep = "archive"
    /\ archived' = archived \cup {request}
    /\ wstep' = "unlink"
    /\ UNCHANGED <<pending, results, batch, database, request, wtodo, wcursor, error,
                   turn, reviewVars>>

Unlink ==
    /\ wstep = "unlink"
    /\ pending' = pending \ {request}
    /\ wstep' = "next" /\ request' = None
    /\ UNCHANGED <<archived, results, batch, database, wtodo, wcursor, error, turn,
                   reviewVars>>

-----------------------------------------------------------------------------
(* What goes wrong.                                                        *)

Transacting == wstep \in {"receive", "prepare", "approve", "apply"}

\* sqlite3.Error: the transaction is rolled back and the request stays.
Busy ==
    /\ "busy" \in ImportFaults
    /\ Transacting
    /\ wstep' = "publish" /\ error' = "retry"
    /\ UNCHANGED batch
    /\ WorkerUnchanged /\ ReviewUnchanged

\* The fixture import disagrees with the preview.
Differs ==
    /\ "differs" \in ImportFaults
    /\ wstep = "apply" /\ B.state = "APPROVED" /\ Valid(B.approval)
    /\ Reject
    /\ UNCHANGED batch
    /\ WorkerUnchanged /\ ReviewUnchanged

StopRun(restart) ==
    /\ wstep' = "idle" /\ request' = None /\ wtodo' = {} /\ error' = None
    /\ wcursor' = IF restart THEN 0 ELSE wcursor
    /\ UNCHANGED <<fileVars, batch, database>>

\* It refuses a fixture altogether: the error is no ValueError and ends the job.
Conflict ==
    /\ "conflict" \in ImportFaults
    /\ wstep = "apply" /\ B.state = "APPROVED" /\ Valid(B.approval)
    /\ StopRun(FALSE)
    /\ UNCHANGED <<turn, reviewVars>>

DieAtWork ==
    /\ "died" \in ImportFaults
    /\ wstep # "idle"
    /\ StopRun(TRUE)
    /\ cursor' = 0
    /\ UNCHANGED <<turn, worldVars, row, calendar, todo, step, found, historyVars>>

-----------------------------------------------------------------------------
(* The other half of the job, other jobs, and the operator.                *)

ReviewStep(A) ==
    /\ turn = "review"
    /\ A
    /\ turn' = IF step' = "idle" THEN "import" ELSE "review"
    /\ UNCHANGED importVars

AtRest == turn = "import" /\ wstep = "idle"

\* A provider job on the same thread, or a new configuration at a start.
ChangeDatabase ==
    /\ AtRest /\ database < MaxDatabase
    /\ database' = database + 1
    /\ UNCHANGED <<fileVars, batch, workerVars, turn, reviewVars>>

\* Retirement rejects what is not applied; the application is stopped.
Retire ==
    /\ AtRest /\ ~frozen /\ SetFrozen
    /\ batch' = [s \in Submissions |->
         IF batch[s] = None THEN None
         ELSE IF batch[s].state \in {"APPLIED", "REJECTED"} THEN batch[s]
         ELSE [batch[s] EXCEPT !.state = "REJECTED", !.approval = None,
                               !.retired = TRUE]]
    /\ wcursor' = 0
    /\ UNCHANGED <<fileVars, database, wstep, request, wtodo, error, turn>>

Reactivate ==
    /\ AtRest /\ frozen /\ SetFrozen
    /\ wcursor' = 0
    /\ UNCHANGED <<fileVars, batch, database, wstep, request, wtodo, error, turn>>

Commands ==
    \/ \E p \in Packages : Submit(p)
    \/ \E s \in Submissions : AskPreview(s) \/ Approve(s)
    \/ \E r \in archived : Redeliver(r)

Administration == ChangeDatabase \/ Retire \/ Reactivate

Work ==
    \/ StartRun \/ EndRun
    \/ \E r \in wtodo : TakeUp(r)
    \/ Receive \/ Prepare \/ ApproveBatch \/ ApplyBatch
    \/ Publish \/ Archive \/ Unlink
    \/ ReviewStep(Project)

Fault == Busy \/ Differs \/ Conflict \/ DieAtWork

Next == Commands \/ Administration \/ Work \/ Fault

\* The scheduler runs the job again and again, to its end.
Spec == Init /\ [][Next]_vars /\ WF_vars(Work)

-----------------------------------------------------------------------------
(* What it promises.                                                       *)

\* What somebody has approved, and in which situation.
Decisions ==
    {<<r.submission, r.package, r.seen.situation>> :
        r \in {q \in pending \cup archived : q.action = "approve"}}

\* What has been applied.
Applied ==
    [s \in Submissions |->
        IF batch[s] # None /\ batch[s].state = "APPLIED" THEN batch[s].package ELSE None]

\* Nothing is applied that was not decided in the situation it is applied to,
\* nothing twice, and the review plan changes by nothing else.
Reviewed ==
    INSTANCE ReviewedImport WITH
        situation <- Situation, decided <- Decisions, applied <- Applied
AppliedAsReviewed == Reviewed!Spec

\* Whatever crashes and replays, a submission without open request has its state
\* published; a retirement rejects packages without publishing it.
ResultIsCurrent ==
    \A s \in Submissions :
        batch[s] # None /\ ~batch[s].retired =>
            \/ \E r \in pending \ Strays : r.submission = s
            \/ results[s] # None /\ results[s].state = batch[s].state

\* A file that cannot be read, or a request that fails, does not keep the others
\* from being answered.
EventuallyAnswered ==
    <>[][Administration \/ Work]_vars =>
        <>[](\A r \in pending : r.action = "unreadable")
=============================================================================
