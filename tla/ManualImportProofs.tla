-------------------------- MODULE ManualImportProofs --------------------------
(***************************************************************************)
(* Proofs about ManualImport and the ManualReview it extends, for every set *)
(* of packages, requests, tasks and appointments, any strays, any number of *)
(* requests and rows per run and every fault: packages are applied as they  *)
(* were reviewed, results stay current, and no appointment is forgotten.    *)
(***************************************************************************)
EXTENDS ManualImport, TLAPS

TypeOK ==
    /\ pending \subseteq Requests /\ archived \subseteq Requests
    /\ results \in [Submissions -> Results \cup {None}]
    /\ batch \in [Submissions -> Batches \cup {None}]
    /\ database \in 0 .. MaxDatabase
    /\ plan \in [Tasks -> Contents \cup {None}]
    /\ wstep \in WorkerSteps

Serving == {"receive", "prepare", "approve", "apply", "publish"}
Leaving == {"archive", "unlink"}

(* A request leaves the inbox only when it is in the archive, so that        *)
(* whatever is worked on is still there.                                     *)
WorkOK ==
    /\ wtodo \subseteq pending
    /\ wstep \in Serving \cup Leaving => request \in pending \ wtodo
    /\ wstep \in Serving => request \in Orders
    /\ wstep = "approve" => request.action = "approve"
    /\ wstep = "receive" => request.action = "submit"
    /\ wstep \in {"prepare", "approve", "apply"} => batch[S] # None
    /\ wstep = "unlink" => request \in archived

(* The request that approved a package is kept.                             *)
ApprovalsAreKept ==
    \A s \in Submissions :
        batch[s] # None /\ batch[s].state = "APPROVED" =>
            \E q \in pending \cup archived :
                /\ q.action = "approve" /\ q.submission = s
                /\ q.package = batch[s].package /\ q.seen = batch[s].approval

(* A request is put away when its result says what its row says.            *)
AnsweredFirst ==
    wstep \in Leaving /\ request \in Orders /\ batch[S] # None =>
        results[S] # None /\ results[S].state = batch[S].state

IInv == TypeOK /\ WorkOK /\ ApprovalsAreKept /\ AnsweredFirst /\ ResultIsCurrent

-----------------------------------------------------------------------------
LEMMA OrdersAreNoStrays ==
    /\ \A r \in Orders : r \notin Strays /\ r.submission \in Submissions
    /\ \A r \in Orders : r.action = "submit" => r.package \in Packages
    /\ \A r \in Strays : r.action \in {"malformed", "unreadable"}
    /\ \A r \in Orders : r.action \in {"submit", "preview", "approve"}
BY NameAssumption DEF Orders

LEMMA PackagesOfSubmissions == \A p \in Packages : Submission[p] \in Submissions
BY DEF Submissions

LEMMA NoneIsNoRow == None \notin Batches /\ None \notin Results
BY RowAssumption

LEMMA EmptyPlan == [t \in Tasks |-> None] \in [Tasks -> Contents \cup {None}]
OBVIOUS

LEMMA InitialStates == Init => IInv
<1> SUFFICES ASSUME Init PROVE IInv
  OBVIOUS
<1>1. TypeOK
  <2>1. database \in 0 .. MaxDatabase
    BY DatabaseAssumption DEF Init
  <2>2. plan \in [Tasks -> Contents \cup {None}]
    BY DEF Init, ReviewInit
  <2> QED
    BY <2>1, <2>2 DEF Init, TypeOK, Requests, WorkerSteps
<1>2. WorkOK
  BY DEF Init, WorkOK, Serving, Leaving
<1>3. \A s \in Submissions : batch[s] = None
  BY DEF Init
<1>4. ApprovalsAreKept /\ ResultIsCurrent
  BY <1>3 DEF ApprovalsAreKept, ResultIsCurrent
<1>5. AnsweredFirst
  BY DEF Init, AnsweredFirst, Leaving
<1> QED
  BY <1>1, <1>2, <1>4, <1>5 DEF IInv

-----------------------------------------------------------------------------
(* A step that leaves the rows of packages and their results alone, keeps    *)
(* the requests and takes none up.                                          *)
LEMMA RowsKept ==
    ASSUME IInv, UNCHANGED <<batch, results>>,
           database' \in 0 .. MaxDatabase,
           plan' \in [Tasks -> Contents \cup {None}],
           pending \subseteq pending', pending' \subseteq Requests,
           archived \subseteq archived', archived' \subseteq Requests,
           wtodo' \subseteq pending', wstep' \in WorkerSteps,
           (\/ wstep' \notin Serving \cup Leaving
            \/ UNCHANGED <<request, wtodo, wstep>>
            \/ /\ UNCHANGED <<request, wtodo>> /\ request \in archived'
               /\ wstep = "archive" /\ wstep' = "unlink")
    PROVE  IInv'
<1> USE DEF IInv
<1>1. TypeOK'
  BY DEF TypeOK
<1>2. WorkOK'
  <2>1. CASE wstep' \notin Serving \cup Leaving
    BY <2>1 DEF WorkOK, Serving, Leaving
  <2>2. CASE UNCHANGED <<request, wtodo, wstep>>
    BY <2>2 DEF WorkOK, Serving, Leaving, S
  <2>3. CASE /\ UNCHANGED <<request, wtodo>> /\ request \in archived'
             /\ wstep = "archive" /\ wstep' = "unlink"
    BY <2>3 DEF WorkOK, Serving, Leaving, S
  <2> QED
    BY <2>1, <2>2, <2>3
<1>3. ApprovalsAreKept'
  BY DEF ApprovalsAreKept
<1>4. AnsweredFirst'
  <2>1. CASE wstep' \notin Serving \cup Leaving
    BY <2>1 DEF AnsweredFirst
  <2>2. CASE wstep' \in Leaving => wstep \in Leaving /\ UNCHANGED request
    BY <2>2 DEF AnsweredFirst, S
  <2> QED
    BY <2>1, <2>2 DEF Leaving
<1>5. ResultIsCurrent'
  BY DEF ResultIsCurrent
<1> QED
  BY <1>1, <1>2, <1>3, <1>4, <1>5

(* One transaction of the worker changes at most the row of its package.     *)
LEMMA RowWritten ==
    ASSUME IInv, Transacting, UNCHANGED <<fileVars, request, wtodo>>,
           NEW b \in Batches \cup {None},
           (batch' = batch /\ b = batch[S]) \/ batch' = [batch EXCEPT ![S] = b],
           (b # None /\ b.state = "APPROVED" =>
               \/ b = batch[S]
               \/ /\ request.action = "approve" /\ request.package = b.package
                  /\ request.seen = b.approval),
           database' \in 0 .. MaxDatabase,
           plan' \in [Tasks -> Contents \cup {None}],
           wstep' \in {"prepare", "apply", "publish"},
           (wstep' \in {"prepare", "apply"} => b # None)
    PROVE  IInv'
<1> USE DEF IInv
<1>0. /\ wstep \in Serving /\ request \in Orders /\ request \in pending
      /\ S \in Submissions /\ request \notin Strays
  BY OrdersAreNoStrays DEF Transacting, Serving, WorkOK, S
<1>1. /\ batch' \in [Submissions -> Batches \cup {None}]
      /\ batch'[S] = b /\ \A s \in Submissions \ {S} : batch'[s] = batch[s]
  BY <1>0 DEF TypeOK
<1>s. S' = S
  BY DEF S
<1>2. TypeOK'
  BY <1>1 DEF TypeOK, fileVars, WorkerSteps
<1>3. WorkOK'
  BY <1>0, <1>1, <1>s DEF WorkOK, Serving, Leaving, fileVars
<1>4. ApprovalsAreKept'
  <2> SUFFICES ASSUME NEW s \in Submissions, batch'[s] # None,
                      batch'[s].state = "APPROVED"
               PROVE  \E q \in pending \cup archived :
                          /\ q.action = "approve" /\ q.submission = s
                          /\ q.package = batch'[s].package
                          /\ q.seen = batch'[s].approval
    BY DEF ApprovalsAreKept, fileVars
  <2>1. CASE batch'[s] = batch[s]
    BY <2>1 DEF ApprovalsAreKept
  <2>2. CASE batch'[s] # batch[s]
    <3>1. s = S /\ b # batch[S] /\ batch'[s] = b
      BY <2>2, <1>1
    <3>2. request.action = "approve" /\ request.package = b.package
          /\ request.seen = b.approval /\ request.submission = s
      BY <3>1 DEF S
    <3> QED
      BY <3>1, <3>2, <1>0
  <2> QED
    BY <2>1, <2>2
<1>5. AnsweredFirst'
  BY DEF AnsweredFirst, Leaving
<1>6. ResultIsCurrent'
  <2> SUFFICES ASSUME NEW s \in Submissions, batch'[s] # None, ~batch'[s].retired
               PROVE  \/ \E r \in pending \ Strays : r.submission = s
                      \/ results[s] # None /\ results[s].state = batch'[s].state
    BY DEF ResultIsCurrent, fileVars
  <2>1. CASE s = S
    BY <2>1, <1>0 DEF S
  <2>2. CASE s # S
    BY <2>2, <1>1 DEF ResultIsCurrent
  <2> QED
    BY <2>1, <2>2
<1> QED
  BY <1>2, <1>3, <1>4, <1>5, <1>6

-----------------------------------------------------------------------------
(* What a transaction may write for its package.                            *)
LEMMA RowsWritten ==
    ASSUME NEW b \in Batches
    PROVE  /\ \A p \in Packages : Staged(p) \in Batches /\ Staged(p).state = "RECEIVED"
           /\ \A v \in Previews, q \in {"AWAITING_APPROVAL", "REJECTED"} :
                 LET c == [b EXCEPT !.preview = v, !.approval = None, !.state = q] IN
                 c \in Batches /\ c.state = q
           /\ \A v \in Previews \cup {None} :
                 LET c == [b EXCEPT !.state = "APPROVED", !.approval = v] IN
                 /\ c \in Batches /\ c.state = "APPROVED"
                 /\ c.approval = v /\ c.package = b.package
           /\ LET c == [b EXCEPT !.state = "NEEDS_REVIEW", !.approval = None] IN
              c \in Batches /\ c.state = "NEEDS_REVIEW"
           /\ LET c == [b EXCEPT !.state = "APPLIED"] IN
              c \in Batches /\ c.state = "APPLIED" /\ c.package = b.package
           /\ LET c == [b EXCEPT !.state = "REJECTED", !.approval = None,
                                 !.retired = TRUE] IN
              c \in Batches /\ c.state = "REJECTED" /\ c.retired
BY DEF Batches, States, Staged

LEMMA ProjectKeepsPlan == Project => UNCHANGED <<plan, frozen>>
BY DEF Project, Synchronize, EndCycle, Record, Take, PostKnown, PostNew, Patch,
       PatchMissing, Delete, RequestUnchanged, worldVars

-----------------------------------------------------------------------------
(* Commands, administration and the review half.                            *)
LEMMA CommandSteps == IInv /\ Commands => IInv'
<1> SUFFICES ASSUME IInv, Commands PROVE IInv'
  OBVIOUS
<1> USE DEF IInv
<1>1. ASSUME NEW a \in {"submit", "preview", "approve"}, NEW s \in Submissions,
             NEW p, NEW v, Write(a, s, p, v),
             <<a, p, v>> \in {"submit"} \X Packages \X {None}
                             \cup {"preview"} \X {None} \X {None}
                             \cup {"approve"} \X Packages \X Previews
      PROVE  IInv'
  <2>1. NextName \in Nat
    BY <1>1, NameAssumption DEF Write, NextName
  <2> DEFINE r == [name |-> NextName, action |-> a, submission |-> s,
                   package |-> p, seen |-> v]
  <2>2. r \in Orders
    BY <2>1, <1>1 DEF Orders
  <2>3. pending' = pending \cup {r}
    BY <1>1 DEF Write
  <2> HIDE DEF r
  <2>4. /\ UNCHANGED <<batch, results, database, plan, archived, wtodo, wstep, request>>
        /\ wstep \in {"idle", "next"}
    BY <1>1 DEF Write, workerVars, reviewVars, worldVars, Between
  <2>5. pending' \subseteq Requests
    BY <2>2, <2>3 DEF TypeOK, Requests
  <2> QED
    BY <2>3, <2>4, <2>5, RowsKept DEF TypeOK, WorkOK
<1>2. ASSUME NEW p \in Packages, Submit(p) PROVE IInv'
  BY <1>1, <1>2, PackagesOfSubmissions DEF Submit
<1>3. ASSUME NEW s \in Submissions, AskPreview(s) PROVE IInv'
  BY <1>1, <1>3 DEF AskPreview
<1>4. ASSUME NEW s \in Submissions, Approve(s) PROVE IInv'
  <2>1. results[s] \in Results /\ results[s].preview \in Previews
    BY <1>4 DEF Approve, TypeOK, Results
  <2>2. results[s].preview.package \in Packages
    BY <2>1 DEF Previews
  <2> QED
    BY <1>1, <1>4, <2>1, <2>2 DEF Approve
<1>5. ASSUME NEW r \in archived, Redeliver(r) PROVE IInv'
  <2>1. /\ UNCHANGED <<batch, results, database, plan, archived, wtodo, wstep, request>>
        /\ pending' = pending \cup {r}
    BY <1>5 DEF Redeliver, workerVars, reviewVars, worldVars
  <2> QED
    BY <2>1, RowsKept DEF TypeOK, WorkOK
<1> QED
  BY <1>2, <1>3, <1>4, <1>5 DEF Commands

LEMMA AdministrationSteps == IInv /\ Administration => IInv'
<1> SUFFICES ASSUME IInv, Administration PROVE IInv'
  OBVIOUS
<1> USE DEF IInv
<1>1. CASE ChangeDatabase
  <2>1. UNCHANGED <<batch, results, plan, pending, archived, wtodo, wstep, request>>
    BY <1>1 DEF ChangeDatabase, fileVars, workerVars, reviewVars, worldVars
  <2>2. database' \in 0 .. MaxDatabase
    BY <1>1, DatabaseAssumption DEF ChangeDatabase, TypeOK
  <2> QED
    BY <2>1, <2>2, RowsKept DEF TypeOK, WorkOK
<1>2. CASE Reactivate
  <2>1. UNCHANGED <<batch, results, database, plan, pending, archived, wtodo, wstep,
                    request>>
    BY <1>2 DEF Reactivate, SetFrozen, fileVars
  <2> QED
    BY <2>1, RowsKept DEF TypeOK, WorkOK
<1>3. CASE Retire
  <2>1. /\ UNCHANGED <<results, database, plan, pending, archived, wtodo, wstep, request>>
        /\ wstep = "idle"
    BY <1>3 DEF Retire, SetFrozen, fileVars, AtRest
  <2>2. /\ batch' \in [Submissions -> Batches \cup {None}]
        /\ \A s \in Submissions :
              \/ batch'[s] = batch[s]
              \/ batch'[s] # None /\ batch'[s].retired /\ batch'[s].state = "REJECTED"
    <3>1. ASSUME NEW s \in Submissions, batch[s] # None,
                 batch[s].state \notin {"APPLIED", "REJECTED"}
          PROVE  LET c == [batch[s] EXCEPT !.state = "REJECTED", !.approval = None,
                                           !.retired = TRUE] IN
                 c \in Batches /\ c # None /\ c.state = "REJECTED" /\ c.retired
      <4> DEFINE b == batch[s]
      <4>1. b \in Batches
        BY <3>1 DEF TypeOK
      <4> HIDE DEF b
      <4> DEFINE c == [b EXCEPT !.state = "REJECTED", !.approval = None,
                                !.retired = TRUE]
      <4>2. c \in Batches /\ c.state = "REJECTED" /\ c.retired
        BY <4>1, RowsWritten
      <4>3. c # None
        BY <4>2, NoneIsNoRow
      <4> QED
        BY <4>2, <4>3 DEF b
    <3> QED
      BY <1>3, <3>1 DEF Retire, TypeOK
  <2>3. TypeOK'
    BY <2>1, <2>2 DEF TypeOK
  <2>4. WorkOK' /\ AnsweredFirst'
    BY <2>1 DEF WorkOK, AnsweredFirst, Serving, Leaving
  <2>5. ApprovalsAreKept' /\ ResultIsCurrent'
    BY <2>1, <2>2 DEF ApprovalsAreKept, ResultIsCurrent
  <2> QED
    BY <2>3, <2>4, <2>5
<1> QED
  BY <1>1, <1>2, <1>3 DEF Administration

-----------------------------------------------------------------------------
(* The worker around its transactions.                                      *)
LEMMA RunSteps ==
    IInv /\ (StartRun \/ EndRun \/ ReviewStep(Project) \/ Conflict \/ DieAtWork
             \/ Archive) => IInv'
<1> SUFFICES ASSUME IInv,
                    StartRun \/ EndRun \/ ReviewStep(Project) \/ Conflict \/ DieAtWork
                    \/ Archive
             PROVE  IInv'
  OBVIOUS
<1> USE DEF IInv
<1>1. CASE StartRun
  <2>1. /\ UNCHANGED <<batch, results, database, plan, pending, archived>>
        /\ wtodo' \subseteq pending /\ wstep' = "next"
    BY <1>1 DEF StartRun, fileVars, reviewVars, worldVars
  <2> QED
    BY <2>1, RowsKept DEF TypeOK, Serving, Leaving, WorkerSteps
<1>2. CASE EndRun
  <2>1. /\ UNCHANGED <<batch, results, database, plan, pending, archived, wtodo>>
        /\ wstep' = "idle"
    BY <1>2 DEF EndRun, fileVars, reviewVars, worldVars
  <2> QED
    BY <2>1, RowsKept DEF TypeOK, WorkOK, Serving, Leaving, WorkerSteps
<1>3. CASE ReviewStep(Project)
  <2>1. UNCHANGED <<batch, results, database, plan, pending, archived, wtodo, wstep,
                    request>>
    BY <1>3, ProjectKeepsPlan DEF ReviewStep, importVars, fileVars, workerVars
  <2> QED
    BY <2>1, RowsKept DEF TypeOK, WorkOK
<1>4. CASE Conflict \/ DieAtWork
  <2>1. /\ UNCHANGED <<batch, results, database, plan, pending, archived>>
        /\ wtodo' = {} /\ wstep' = "idle"
    BY <1>4 DEF Conflict, DieAtWork, StopRun, fileVars, reviewVars, worldVars
  <2> QED
    BY <2>1, RowsKept DEF TypeOK, Serving, Leaving, WorkerSteps
<1>5. CASE Archive
  <2>1. /\ UNCHANGED <<batch, results, database, plan, pending, wtodo, request>>
        /\ archived' = archived \cup {request}
        /\ wstep = "archive" /\ wstep' = "unlink"
    BY <1>5 DEF Archive, reviewVars, worldVars
  <2>2. request \in pending
    BY <2>1 DEF WorkOK, Leaving
  <2> QED
    BY <2>1, <2>2, RowsKept DEF TypeOK, WorkOK, WorkerSteps
<1> QED
  BY <1>1, <1>2, <1>3, <1>4, <1>5

LEMMA TakeUpStep == \A r \in wtodo : IInv /\ TakeUp(r) => IInv'
<1> SUFFICES ASSUME NEW r \in wtodo, IInv, TakeUp(r) PROVE IInv'
  OBVIOUS
<1> USE DEF IInv
<1>1. /\ UNCHANGED <<batch, results, database, plan, pending, archived>>
      /\ wtodo' = wtodo \ {r} /\ wstep = "next"
  BY DEF TakeUp, fileVars, reviewVars, worldVars
<1>2. r \in Requests /\ r \in pending
  BY DEF WorkOK, TypeOK
<1>3. TypeOK' /\ ApprovalsAreKept' /\ ResultIsCurrent'
  <2>1. wstep' \in WorkerSteps
    BY <1>2, OrdersAreNoStrays DEF TakeUp, FirstWorkerStep, WorkerSteps, Requests
  <2> QED
    BY <1>1, <2>1 DEF TypeOK, ApprovalsAreKept, ResultIsCurrent
<1>4. WorkOK' /\ AnsweredFirst'
  <2>1. CASE r \in Strays
    <3>1. r.action \in {"malformed", "unreadable"} /\ ~Unstaged(r)
      BY <2>1, OrdersAreNoStrays DEF Unstaged
    <3>2. CASE r.action = "malformed"
      <4>1. wstep' = "archive" /\ request' = r
        BY <3>1, <3>2 DEF TakeUp, FirstWorkerStep
      <4>2. r \notin Orders
        BY <2>1, OrdersAreNoStrays
      <4> QED
        BY <1>1, <1>2, <4>1, <4>2 DEF WorkOK, AnsweredFirst, Serving, Leaving
    <3>3. CASE r.action = "unreadable"
      <4>1. wstep' = "next"
        BY <3>1, <3>3 DEF TakeUp, FirstWorkerStep
      <4> QED
        BY <1>1, <4>1 DEF WorkOK, AnsweredFirst, Serving, Leaving
    <3> QED
      BY <3>1, <3>2, <3>3
  <2>2. CASE r \notin Strays
    <3>1. /\ r \in Orders /\ request' = r
          /\ r.action \in {"submit", "preview", "approve"}
      BY <2>2, <1>2, OrdersAreNoStrays DEF TakeUp, Requests
    <3>2. CASE Unstaged(r)
      <4>1. wstep' = "publish"
        BY <3>2 DEF TakeUp
      <4> QED
        BY <1>1, <1>2, <3>1, <4>1 DEF WorkOK, AnsweredFirst, Serving, Leaving
    <3>3. CASE ~Unstaged(r)
      <4>1. wstep' = FirstWorkerStep(r)
        BY <3>3 DEF TakeUp
      <4>2. /\ wstep' \in {"receive", "prepare", "approve"}
            /\ wstep' = "approve" => r.action = "approve"
            /\ wstep' = "receive" => r.action = "submit"
            /\ wstep' \in {"prepare", "approve"} => r.action \in {"preview", "approve"}
        BY <3>1, <4>1 DEF FirstWorkerStep
      <4>3. wstep' \in {"prepare", "approve"} => batch'[S'] # None
        BY <1>1, <3>1, <3>3, <4>2 DEF Unstaged, S
      <4> QED
        BY <1>1, <1>2, <3>1, <4>2, <4>3 DEF WorkOK, AnsweredFirst, Serving, Leaving
    <3> QED
      BY <3>2, <3>3
  <2> QED
    BY <2>1, <2>2
<1> QED
  BY <1>3, <1>4

LEMMA PublishStep == IInv /\ Publish => IInv'
<1> SUFFICES ASSUME IInv, Publish PROVE IInv'
  OBVIOUS
<1> USE DEF IInv
<1> DEFINE result ==
        [state   |-> IF error = "retry" THEN "RETRYABLE_FAILURE"
                     ELSE IF B = None THEN "REJECTED" ELSE B.state,
         preview |-> IF B = None THEN None ELSE B.preview]
<1>1. /\ UNCHANGED <<batch, database, plan, pending, archived, wtodo, request>>
      /\ results' = [results EXCEPT ![S] = result]
      /\ wstep = "publish" /\ wstep' \in {"next", "archive"}
      /\ wstep' = "archive" => error # "retry"
  BY DEF Publish, reviewVars, worldVars
<1>2. /\ request \in Orders /\ request \in pending /\ S \in Submissions
      /\ request \notin Strays /\ request \notin wtodo
  BY <1>1, OrdersAreNoStrays DEF WorkOK, Serving, S
<1>3. B \in Batches \cup {None}
  BY <1>2 DEF TypeOK, B
<1>4. result \in Results
  <2>1. B # None => B.state \in States /\ B.preview \in Previews \cup {None}
    BY <1>3 DEF Batches
  <2> QED
    BY <2>1 DEF Results, States
<1>5. wstep' = "archive" /\ B # None => result.state = B.state
  BY <1>1
<1> HIDE DEF result
<1>6. /\ results' \in [Submissions -> Results \cup {None}]
      /\ results'[S] = result /\ result # None
      /\ \A s \in Submissions \ {S} : results'[s] = results[s]
  BY <1>1, <1>2, <1>4, NoneIsNoRow DEF TypeOK
<1>7. TypeOK'
  BY <1>1, <1>6 DEF TypeOK, WorkerSteps
<1>8. WorkOK' /\ ApprovalsAreKept'
  BY <1>1, <1>2 DEF WorkOK, ApprovalsAreKept, Serving, Leaving
<1>9. AnsweredFirst'
  BY <1>1, <1>5, <1>6 DEF AnsweredFirst, Leaving, S, B
<1>10. ResultIsCurrent'
  <2> SUFFICES ASSUME NEW s \in Submissions, batch[s] # None, ~batch[s].retired
               PROVE  \/ \E r \in pending \ Strays : r.submission = s
                      \/ results'[s] # None /\ results'[s].state = batch[s].state
    BY <1>1 DEF ResultIsCurrent
  <2>1. CASE s = S
    BY <2>1, <1>2 DEF S
  <2>2. CASE s # S
    BY <2>2, <1>6 DEF ResultIsCurrent
  <2> QED
    BY <2>1, <2>2
<1> QED
  BY <1>7, <1>8, <1>9, <1>10

LEMMA UnlinkStep == IInv /\ Unlink => IInv'
<1> SUFFICES ASSUME IInv, Unlink PROVE IInv'
  OBVIOUS
<1> USE DEF IInv
<1>1. /\ UNCHANGED <<batch, results, database, plan, archived, wtodo>>
      /\ pending' = pending \ {request}
      /\ wstep = "unlink" /\ wstep' = "next"
  BY DEF Unlink, reviewVars, worldVars
<1>2. request \in archived /\ request \notin wtodo
  BY <1>1 DEF WorkOK, Leaving
<1>3. TypeOK'
  BY <1>1 DEF TypeOK, WorkerSteps
<1>4. WorkOK' /\ AnsweredFirst'
  BY <1>1, <1>2 DEF WorkOK, AnsweredFirst, Serving, Leaving
<1>5. ApprovalsAreKept'
  BY <1>1, <1>2 DEF ApprovalsAreKept
<1>6. ResultIsCurrent'
  <2> SUFFICES ASSUME NEW s \in Submissions, batch[s] # None, ~batch[s].retired,
                      ~(results[s] # None /\ results[s].state = batch[s].state)
               PROVE  \E r \in pending' \ Strays : r.submission = s
    BY <1>1 DEF ResultIsCurrent
  <2>1. PICK r \in pending \ Strays : r.submission = s
    BY DEF ResultIsCurrent
  <2>2. r # request
    <3> SUFFICES ASSUME r = request PROVE FALSE
      OBVIOUS
    <3>1. request \in Orders /\ S = s
      BY <2>1 DEF TypeOK, Requests, S
    <3> QED
      BY <1>1, <3>1 DEF AnsweredFirst, Leaving
  <2> QED
    BY <1>1, <2>1, <2>2
<1> QED
  BY <1>3, <1>4, <1>5, <1>6

-----------------------------------------------------------------------------
(* The transactions of the worker.                                          *)

(* What a transaction finds, and what the lemma RowWritten needs of it.      *)
LEMMA InTransaction ==
    ASSUME IInv, Transacting
    PROVE  /\ request \in Orders /\ S \in Submissions
           /\ B \in Batches \cup {None}
           /\ wstep # "receive" => B \in Batches /\ B # None
           /\ plan \in [Tasks -> Contents \cup {None}] /\ database \in 0 .. MaxDatabase
<1>1. request \in Orders
  BY DEF IInv, WorkOK, Transacting, Serving
<1>2. S \in Submissions
  BY <1>1, OrdersAreNoStrays DEF S
<1>3. B \in Batches \cup {None}
  BY <1>2 DEF IInv, TypeOK, B
<1>4. wstep # "receive" => B # None
  BY DEF IInv, WorkOK, Transacting, B
<1> QED
  BY <1>1, <1>2, <1>3, <1>4 DEF IInv, TypeOK

(* The steps that write no row.                                             *)
LEMMA RowUntouched ==
    ASSUME IInv, Transacting, UNCHANGED <<fileVars, request, wtodo, batch>>,
           UNCHANGED <<plan, database>>,
           wstep' \in {"prepare", "apply", "publish"},
           (wstep' \in {"prepare", "apply"} => B # None)
    PROVE  IInv'
<1>1. /\ B \in Batches \cup {None}
      /\ plan \in [Tasks -> Contents \cup {None}] /\ database \in 0 .. MaxDatabase
  BY InTransaction
<1> QED
  BY <1>1, RowWritten DEF B

LEMMA ReceiveStep == IInv /\ Receive => IInv'
<1> SUFFICES ASSUME IInv, Receive PROVE IInv'
  OBVIOUS
<1>1. /\ Transacting
      /\ UNCHANGED <<fileVars, request, wtodo, plan, database>>
  BY DEF Receive, Transacting, WorkerUnchanged, ReviewUnchanged, reviewVars, worldVars
<1>2. /\ request \in Orders
      /\ plan' \in [Tasks -> Contents \cup {None}] /\ database' \in 0 .. MaxDatabase
  BY <1>1, InTransaction
<1>3. CASE B = None /\ ~frozen
  <2>1. /\ batch' = [batch EXCEPT ![S] = Staged(request.package)]
        /\ wstep' = "prepare"
    BY <1>3 DEF Receive, Update, Goto
  <2>2. request.package \in Packages
    <3>1. request.action = "submit"
      BY DEF IInv, WorkOK, Receive
    <3> QED
      BY <3>1, <1>2, OrdersAreNoStrays
  <2>3. /\ Staged(request.package) \in Batches
        /\ Staged(request.package).state = "RECEIVED"
        /\ Staged(request.package) # None
    <3> DEFINE p == request.package
    <3>1. p \in Packages
      BY <2>2
    <3> HIDE DEF p
    <3>2. Staged(p) \in Batches /\ Staged(p).state = "RECEIVED"
      BY <3>1 DEF Staged, Batches, States
    <3> QED
      BY <3>2, NoneIsNoRow DEF p
  <2> DEFINE b == Staged(request.package)
  <2>4. /\ b \in Batches \cup {None} /\ b # None /\ b.state # "APPROVED"
        /\ batch' = [batch EXCEPT ![S] = b]
    BY <2>1, <2>3
  <2> HIDE DEF b
  <2> QED
    BY <1>1, <1>2, <2>1, <2>4, RowWritten
<1>4. CASE ~(B = None /\ ~frozen)
  <2>1. /\ batch' = batch /\ wstep' \in {"prepare", "publish"}
        /\ wstep' = "prepare" => B # None
    BY <1>4 DEF Receive, Goto, Reject
  <2> QED
    BY <1>1, <2>1, RowUntouched
<1> QED
  BY <1>3, <1>4

(* validate_preview_approval: the approval is of this package, here and now. *)
LEMMA ValidApproval ==
    ASSUME NEW seen, B # None, Valid(seen)
    PROVE  seen.package = B.package /\ seen.situation = Situation
BY DEF Valid, Preview

LEMMA PreviewIsOne ==
    ASSUME IInv, Transacting, wstep # "receive"
    PROVE  Preview(B.package) \in Previews
<1>1. B.package \in Packages
  BY InTransaction DEF Batches
<1>2. Situation \in Situations
  BY InTransaction DEF Situation, Situations
<1> QED
  BY <1>1, <1>2 DEF Preview, Previews

LEMMA PrepareStep == IInv /\ Prepare => IInv'
<1> SUFFICES ASSUME IInv, Prepare PROVE IInv'
  OBVIOUS
<1>1. /\ Transacting /\ wstep # "receive" /\ wstep' = "publish"
      /\ UNCHANGED <<fileVars, request, wtodo, plan, database>>
  BY DEF Prepare, Transacting, WorkerUnchanged, ReviewUnchanged, reviewVars, worldVars,
         Goto, Reject
<1>2. /\ B \in Batches
      /\ plan' \in [Tasks -> Contents \cup {None}] /\ database' \in 0 .. MaxDatabase
  BY <1>1, InTransaction
<1>3. CASE batch' = batch
  BY <1>1, <1>3, RowUntouched
<1>4. CASE batch' # batch
  <2>1. PICK q \in {"AWAITING_APPROVAL", "REJECTED"} :
            batch' = [batch EXCEPT ![S] =
                         [B EXCEPT !.preview = Preview(B.package), !.approval = None,
                                   !.state = q]]
    BY <1>4 DEF Prepare, Update
  <2>2. Preview(B.package) \in Previews
    BY <1>1, PreviewIsOne
  <2> DEFINE b == [B EXCEPT !.preview = Preview(B.package), !.approval = None,
                            !.state = q]
  <2>3. b \in Batches \cup {None} /\ b.state # "APPROVED"
    BY <1>2, <2>2, RowsWritten
  <2> HIDE DEF b
  <2>4. batch' = [batch EXCEPT ![S] = b]
    BY <2>1 DEF b
  <2> QED
    BY <1>1, <1>2, <2>3, <2>4, RowWritten
<1> QED
  BY <1>3, <1>4

LEMMA NeedsReviewIsARow ==
    ASSUME B \in Batches
    PROVE  NeedsReview \in Batches /\ NeedsReview # None
           /\ NeedsReview.state = "NEEDS_REVIEW"
<1> DEFINE r == B
<1>1. r \in Batches
  OBVIOUS
<1> HIDE DEF r
<1> DEFINE c == [r EXCEPT !.state = "NEEDS_REVIEW", !.approval = None]
<1>2. c \in Batches /\ c.state = "NEEDS_REVIEW"
  BY <1>1, RowsWritten
<1>3. c # None
  BY <1>2, NoneIsNoRow
<1> QED
  BY <1>2, <1>3 DEF NeedsReview, r

LEMMA ApprovedRow ==
    ASSUME NEW b \in Batches, NEW v \in Previews \cup {None}
    PROVE  LET c == [b EXCEPT !.state = "APPROVED", !.approval = v] IN
           c \in Batches /\ c.approval = v /\ c.package = b.package
BY DEF Batches, States

LEMMA ApproveStep == IInv /\ ApproveBatch => IInv'
<1> SUFFICES ASSUME IInv, ApproveBatch PROVE IInv'
  OBVIOUS
<1>1. /\ Transacting /\ wstep = "approve" /\ wstep' \in {"apply", "publish"}
      /\ UNCHANGED <<fileVars, request, wtodo, plan, database>>
  BY DEF ApproveBatch, Transacting, WorkerUnchanged, ReviewUnchanged, reviewVars,
         worldVars, Goto, Reject
<1>2. /\ B \in Batches /\ B # None /\ request \in Orders
      /\ plan' \in [Tasks -> Contents \cup {None}] /\ database' \in 0 .. MaxDatabase
  BY <1>1, InTransaction
<1>3. request.action = "approve"
  BY <1>1 DEF IInv, WorkOK
<1>4. CASE batch' = batch
  BY <1>1, <1>2, <1>4, RowUntouched
<1>5. CASE batch' = [batch EXCEPT ![S] = NeedsReview]
  BY <1>1, <1>2, <1>5, NeedsReviewIsARow, RowWritten
<1>6. CASE /\ request.package = B.package
           /\ batch' = [batch EXCEPT ![S] =
                           [B EXCEPT !.state = "APPROVED", !.approval = request.seen]]
  <2>1. request.seen \in Previews
    BY <1>2, <1>3 DEF Orders
  <2> DEFINE b == [B EXCEPT !.state = "APPROVED", !.approval = request.seen]
  <2>2. /\ b \in Batches /\ b # None /\ b.approval = request.seen
        /\ b.package = B.package
    <3> DEFINE r == B
           v == request.seen
    <3>1. r \in Batches /\ v \in Previews \cup {None}
      BY <1>2, <2>1
    <3> HIDE DEF r, v
    <3> DEFINE c == [r EXCEPT !.state = "APPROVED", !.approval = v]
    <3>2. c \in Batches /\ c.approval = v /\ c.package = r.package
      BY <3>1, ApprovedRow
    <3>3. c # None
      BY <3>2, NoneIsNoRow
    <3> QED
      BY <3>2, <3>3 DEF r, v
  <2> HIDE DEF b
  <2>3. batch' = [batch EXCEPT ![S] = b]
    BY <1>6 DEF b
  <2>4. request.action = "approve" /\ request.package = b.package
        /\ request.seen = b.approval
    BY <1>3, <1>6, <2>2
  <2> QED
    BY <1>1, <1>2, <2>2, <2>3, <2>4, RowWritten
<1> QED
  BY <1>4, <1>5, <1>6 DEF ApproveBatch, Update

LEMMA ApplyStep == IInv /\ ApplyBatch => IInv'
<1> SUFFICES ASSUME IInv, ApplyBatch PROVE IInv'
  OBVIOUS
<1>1. /\ Transacting /\ wstep = "apply" /\ wstep' = "publish"
      /\ UNCHANGED <<fileVars, request, wtodo>>
  BY DEF ApplyBatch, Transacting, WorkerUnchanged, Goto, Reject
<1>2. B \in Batches /\ B # None
  BY <1>1, InTransaction
<1>3. plan' \in [Tasks -> Contents \cup {None}] /\ database' \in 0 .. MaxDatabase
  <2>1. PlanOf[B.package] \in [Tasks -> Contents \cup {None}]
    BY <1>2, PackageAssumption, PlanAssumption DEF Batches
  <2>2. plan \in [Tasks -> Contents \cup {None}] /\ database \in 0 .. MaxDatabase
    BY <1>1, InTransaction
  <2> QED
    BY <2>1, <2>2 DEF ApplyBatch
<1>4. CASE batch' = batch
  <2>1. (batch' = batch /\ B = batch[S]) \/ batch' = [batch EXCEPT ![S] = B]
    BY <1>4 DEF B
  <2>2. B.state = "APPROVED" => B = batch[S]
    BY DEF B
  <2> QED
    BY <1>1, <1>2, <1>3, <2>1, <2>2, RowWritten
<1>5. CASE batch' = [batch EXCEPT ![S] = NeedsReview]
  BY <1>1, <1>2, <1>3, <1>5, NeedsReviewIsARow, RowWritten
<1>6. CASE batch' = [batch EXCEPT ![S] = [B EXCEPT !.state = "APPLIED"]]
  <2> DEFINE b == [B EXCEPT !.state = "APPLIED"]
  <2>1. b \in Batches /\ b # None /\ b.state # "APPROVED"
    <3> DEFINE r == B
    <3>1. r \in Batches
      BY <1>2
    <3> HIDE DEF r
    <3> DEFINE c == [r EXCEPT !.state = "APPLIED"]
    <3>2. c \in Batches /\ c.state = "APPLIED"
      BY <3>1, RowsWritten
    <3>3. c # None
      BY <3>2, NoneIsNoRow
    <3> QED
      BY <3>2, <3>3 DEF r
  <2> HIDE DEF b
  <2>2. batch' = [batch EXCEPT ![S] = b]
    BY <1>6 DEF b
  <2> QED
    BY <1>1, <1>3, <2>1, <2>2, RowWritten
<1> QED
  BY <1>4, <1>5, <1>6 DEF ApplyBatch, Update

LEMMA FailingSteps == IInv /\ (Busy \/ Differs) => IInv'
<1> SUFFICES ASSUME IInv, Busy \/ Differs PROVE IInv'
  OBVIOUS
<1>1. /\ Transacting /\ wstep' = "publish"
      /\ UNCHANGED <<fileVars, request, wtodo, batch, plan, database>>
  BY DEF Busy, Differs, Reject, Transacting, WorkerUnchanged, ReviewUnchanged,
         reviewVars, worldVars
<1> QED
  BY <1>1, RowUntouched

-----------------------------------------------------------------------------
LEMMA Preserved == IInv /\ [Next]_vars => IInv'
<1> SUFFICES ASSUME IInv, [Next]_vars PROVE IInv'
  OBVIOUS
<1>1. CASE UNCHANGED vars
  <2>1. UNCHANGED <<batch, results, database, plan, pending, archived, wtodo, wstep,
                    request>>
    BY <1>1 DEF vars, importVars, fileVars, workerVars, reviewVars, worldVars
  <2> QED
    BY <2>1, RowsKept DEF IInv, TypeOK, WorkOK
<1>2. CASE Work
  BY <1>2, RunSteps, TakeUpStep, ReceiveStep, PrepareStep, ApproveStep, ApplyStep,
     PublishStep, UnlinkStep DEF Work
<1>3. CASE Fault
  BY <1>3, FailingSteps, RunSteps DEF Fault
<1> QED
  BY <1>1, <1>2, <1>3, CommandSteps, AdministrationSteps DEF Next

(* Requests and rows stay of their types, what is worked on is still in the  *)
(* inbox, and every approval is backed by a kept request.                   *)
THEOREM Inductive == Spec => []IInv
BY InitialStates, Preserved, PTL DEF Spec

(* The rows of packages, the requests and the results are of their types,    *)
(* whatever the commands write and wherever the worker dies.                 *)
THEOREM TypeCorrect == Spec => []TypeOK
<1>1. IInv => TypeOK
  BY DEF IInv
<1> QED
  BY <1>1, Inductive, PTL

(* Whatever crashes, fails and is delivered twice, a package without open    *)
(* request has the state of its row published (manual_import_worker.py).     *)
THEOREM ResultsAreCurrent == Spec => []ResultIsCurrent
<1>1. IInv => ResultIsCurrent
  BY DEF IInv
<1> QED
  BY <1>1, Inductive, PTL

-----------------------------------------------------------------------------
(* The import as it was reviewed.                                           *)

LEMMA SameDecisions ==
    ASSUME UNCHANGED <<pending, archived>>
    PROVE  UNCHANGED Decisions
BY DEF Decisions

LEMMA MoreDecisions ==
    ASSUME pending \cup archived \subseteq pending' \cup archived'
    PROVE  Decisions \subseteq Decisions'
BY DEF Decisions

LEMMA SameApplied ==
    ASSUME \A s \in Submissions :
              \/ batch'[s] = batch[s]
              \/ /\ batch[s] = None \/ batch[s].state # "APPLIED"
                 /\ batch'[s] = None \/ batch'[s].state # "APPLIED"
    PROVE  UNCHANGED Applied
<1>1. \A s \in Submissions : Applied'[s] = Applied[s]
  BY DEF Applied
<1> QED
  BY <1>1 DEF Applied

(* The row of one package is written and not applied.                       *)
LEMMA NothingApplied ==
    ASSUME IInv, Transacting, B = None \/ B.state # "APPLIED",
           NEW b, b.state # "APPLIED", batch' = [batch EXCEPT ![S] = b]
    PROVE  UNCHANGED Applied
<1>1. /\ S \in Submissions /\ batch \in [Submissions -> Batches \cup {None}]
  BY InTransaction DEF IInv, TypeOK
<1>2. batch'[S] = b /\ \A s \in Submissions \ {S} : batch'[s] = batch[s]
  BY <1>1
<1> QED
  BY <1>2, SameApplied DEF B

LEMMA Reviewed_Init == Init => Reviewed!Init
<1> SUFFICES ASSUME Init PROVE Reviewed!Init
  OBVIOUS
<1>1. Decisions = {}
  BY OrdersAreNoStrays DEF Init, Decisions
<1>2. Applied = [s \in Submissions |-> None]
  BY DEF Init, Applied
<1> QED
  BY <1>1, <1>2 DEF Reviewed!Init

LEMMA ApplyRefines ==
    ASSUME IInv, ApplyBatch
    PROVE  [Reviewed!Next]_(Reviewed!vars)
<1>1. /\ Transacting /\ wstep = "apply" /\ UNCHANGED <<pending, archived>>
  BY DEF ApplyBatch, Transacting, WorkerUnchanged, fileVars
<1>2. /\ B \in Batches /\ B # None /\ S \in Submissions
      /\ batch \in [Submissions -> Batches \cup {None}]
  BY <1>1, InTransaction DEF IInv, TypeOK
<1>3. UNCHANGED Decisions
  BY <1>1, SameDecisions
<1>4. CASE B.state = "APPLIED"
  <2>1. UNCHANGED <<batch, database, plan>>
    BY <1>4 DEF ApplyBatch
  <2>2. UNCHANGED Applied
    BY <2>1, SameApplied
  <2>3. UNCHANGED Situation
    BY <2>1 DEF Situation
  <2> QED
    BY <1>3, <2>1, <2>2, <2>3 DEF Reviewed!vars
<1>5. CASE B.state = "APPROVED" /\ ~Valid(B.approval)
  <2>1. batch' = [batch EXCEPT ![S] = NeedsReview] /\ UNCHANGED plan
    BY <1>5 DEF ApplyBatch, Update
  <2>2. UNCHANGED Applied
    BY <1>1, <1>2, <1>5, <2>1, NeedsReviewIsARow, NothingApplied
  <2> QED
    BY <1>3, <2>1, <2>2 DEF Reviewed!Next, Reviewed!Change
<1>6. CASE B.state = "APPROVED" /\ Valid(B.approval)
  <2>1. /\ batch' = [batch EXCEPT ![S] = [B EXCEPT !.state = "APPLIED"]]
        /\ plan' = PlanOf[B.package]
    BY <1>6 DEF ApplyBatch, Update
  <2>2. B.approval.package = B.package /\ B.approval.situation = Situation
    BY <1>2, <1>6, ValidApproval
  <2>3. <<S, B.package, Situation>> \in Decisions
    <3>1. PICK q \in pending \cup archived :
              /\ q.action = "approve" /\ q.submission = S
              /\ q.package = B.package /\ q.seen = B.approval
      BY <1>2, <1>6 DEF IInv, ApprovalsAreKept, B
    <3> QED
      BY <2>2, <3>1 DEF Decisions
  <2>4. Applied[S] = None
    BY <1>2, <1>6 DEF Applied, B
  <2>5. Applied' = [Applied EXCEPT ![S] = B.package]
    <3> DEFINE r == B
               b == [r EXCEPT !.state = "APPLIED"]
    <3>1. r \in Batches
      BY <1>2
    <3> HIDE DEF r
    <3>0. b \in Batches /\ b.state = "APPLIED" /\ b.package = r.package
      BY <3>1, RowsWritten
    <3>2. b.state = "APPLIED" /\ b.package = r.package /\ b # None
      BY <3>0, NoneIsNoRow
    <3> HIDE DEF b
    <3>3. batch' = [batch EXCEPT ![S] = b]
      BY <2>1 DEF b, r
    <3>4. batch'[S] = b /\ \A s \in Submissions \ {S} : batch'[s] = batch[s]
      BY <1>2, <3>3
    <3>5. Applied'[S] = r.package /\ \A s \in Submissions \ {S} : Applied'[s] = Applied[s]
      BY <1>2, <3>2, <3>4 DEF Applied
    <3>6. r.package = B.package
      BY DEF r
    <3> QED
      BY <1>2, <3>5, <3>6 DEF Applied
  <2>6. Reviewed!Apply(S)
    <3> DEFINE d == <<S, B.package, Situation>>
    <3>1. d \in Decisions /\ d[1] = S /\ d[2] = B.package /\ d[3] = Situation
      BY <2>3
    <3> QED
      BY <1>3, <2>1, <2>4, <2>5, <3>1 DEF Reviewed!Apply
  <2> QED
    BY <1>2, <2>6 DEF Reviewed!Next
<1> QED
  BY <1>4, <1>5, <1>6 DEF ApplyBatch

(* Every other step changes neither the plan nor what is applied.            *)
LEMMA OthersRefine ==
    ASSUME UNCHANGED <<plan, Applied>>,
           \/ UNCHANGED <<pending, archived>>
           \/ UNCHANGED <<pending \cup archived>>
           \/ /\ pending \cup archived \subseteq pending' \cup archived'
              /\ UNCHANGED database
    PROVE  [Reviewed!Next]_(Reviewed!vars)
<1>1. CASE UNCHANGED <<pending, archived>> \/ UNCHANGED <<pending \cup archived>>
  <2>1. UNCHANGED Decisions
    BY <1>1 DEF Decisions
  <2> QED
    BY <2>1 DEF Reviewed!Next, Reviewed!Change
<1>2. CASE /\ pending \cup archived \subseteq pending' \cup archived'
           /\ UNCHANGED database
  <2>1. Decisions \subseteq Decisions' /\ UNCHANGED Situation
    BY <1>2, MoreDecisions DEF Situation
  <2> QED
    BY <2>1 DEF Reviewed!Next, Reviewed!Decide
<1> QED
  BY <1>1, <1>2

LEMMA WorkRefines == IInv /\ Work => [Reviewed!Next]_(Reviewed!vars)
<1> SUFFICES ASSUME IInv, Work PROVE [Reviewed!Next]_(Reviewed!vars)
  OBVIOUS
<1>1. CASE StartRun \/ EndRun \/ (\E r \in wtodo : TakeUp(r)) \/ Publish
  <2>1. UNCHANGED <<plan, batch, pending, archived>>
    BY <1>1 DEF StartRun, EndRun, TakeUp, Publish, fileVars, reviewVars, worldVars
  <2> QED
    BY <2>1, SameApplied, OthersRefine
<1>2. CASE ReviewStep(Project)
  <2>1. UNCHANGED <<plan, batch, pending, archived>>
    BY <1>2, ProjectKeepsPlan DEF ReviewStep, importVars, fileVars
  <2> QED
    BY <2>1, SameApplied, OthersRefine
<1>3. CASE Archive
  <2>1. /\ UNCHANGED <<plan, batch, pending, database>>
        /\ archived' = archived \cup {request}
    BY <1>3 DEF Archive, reviewVars, worldVars
  <2> QED
    BY <2>1, SameApplied, OthersRefine
<1>4. CASE Unlink
  <2>1. /\ UNCHANGED <<plan, batch, archived>> /\ pending' = pending \ {request}
    BY <1>4 DEF Unlink, reviewVars, worldVars
  <2>2. request \in archived
    BY <1>4 DEF Unlink, IInv, WorkOK
  <2> QED
    BY <2>1, <2>2, SameApplied, OthersRefine
<1>5. CASE Receive
  <2>1. /\ Transacting /\ UNCHANGED <<plan, pending, archived>>
    BY <1>5 DEF Receive, Transacting, WorkerUnchanged, ReviewUnchanged, fileVars,
                reviewVars, worldVars
  <2>2. UNCHANGED Applied
    <3>1. CASE batch' = batch
      BY <3>1, SameApplied
    <3>2. CASE B = None /\ batch' = [batch EXCEPT ![S] = Staged(request.package)]
      <4> DEFINE b == Staged(request.package)
      <4>1. b.state # "APPLIED" /\ batch' = [batch EXCEPT ![S] = b]
        BY <3>2 DEF Staged
      <4> HIDE DEF b
      <4> QED
        BY <2>1, <3>2, <4>1, NothingApplied
    <3> QED
      BY <1>5, <3>1, <3>2 DEF Receive, Update
  <2> QED
    BY <2>1, <2>2, OthersRefine
<1>6. CASE Prepare
  <2>1. /\ Transacting /\ wstep # "receive" /\ UNCHANGED <<plan, pending, archived>>
    BY <1>6 DEF Prepare, Transacting, WorkerUnchanged, ReviewUnchanged, fileVars,
                reviewVars, worldVars
  <2>2. UNCHANGED Applied
    <3>1. CASE batch' = batch
      BY <3>1, SameApplied
    <3>2. CASE batch' # batch
      <4>1. PICK q \in {"AWAITING_APPROVAL", "REJECTED"} :
                batch' = [batch EXCEPT ![S] =
                             [B EXCEPT !.preview = Preview(B.package),
                                       !.approval = None, !.state = q]]
        BY <1>6, <3>2 DEF Prepare, Update
      <4>2. B.state # "APPLIED"
        BY <1>6, <3>2 DEF Prepare
      <4>3. Preview(B.package) \in Previews /\ B \in Batches
        BY <2>1, PreviewIsOne, InTransaction
      <4> DEFINE b == [B EXCEPT !.preview = Preview(B.package), !.approval = None,
                                !.state = q]
      <4>4. b.state # "APPLIED"
        BY <4>3, RowsWritten
      <4> HIDE DEF b
      <4>5. batch' = [batch EXCEPT ![S] = b]
        BY <4>1 DEF b
      <4> QED
        BY <2>1, <4>2, <4>4, <4>5, NothingApplied
    <3> QED
      BY <3>1, <3>2
  <2> QED
    BY <2>1, <2>2, OthersRefine
<1>7. CASE ApproveBatch
  <2>1. /\ Transacting /\ wstep # "receive" /\ UNCHANGED <<plan, pending, archived>>
    BY <1>7 DEF ApproveBatch, Transacting, WorkerUnchanged, ReviewUnchanged, fileVars,
                reviewVars, worldVars
  <2>0. B \in Batches
    BY <2>1, InTransaction
  <2>2. UNCHANGED Applied
    <3>1. CASE batch' = batch
      BY <3>1, SameApplied
    <3>2. CASE batch' # batch
      <4>1. /\ B.state # "APPLIED"
            /\ \/ batch' = [batch EXCEPT ![S] = NeedsReview]
               \/ batch' = [batch EXCEPT ![S] =
                               [B EXCEPT !.state = "APPROVED",
                                         !.approval = request.seen]]
        BY <1>7, <3>2 DEF ApproveBatch, Update
      <4>2. CASE batch' = [batch EXCEPT ![S] = NeedsReview]
        BY <2>0, <2>1, <4>1, <4>2, NeedsReviewIsARow, NothingApplied
      <4>3. CASE batch' = [batch EXCEPT ![S] =
                              [B EXCEPT !.state = "APPROVED",
                                        !.approval = request.seen]]
        <5> DEFINE r == B
                   v == request.seen
                   b == [r EXCEPT !.state = "APPROVED", !.approval = v]
        <5>1. r \in Batches
          BY <2>0
        <5> HIDE DEF r, v
        <5>2. b.state = "APPROVED"
          BY <5>1 DEF Batches
        <5> HIDE DEF b
        <5>3. batch' = [batch EXCEPT ![S] = b]
          BY <4>3 DEF b, r, v
        <5> QED
          BY <2>1, <4>1, <5>2, <5>3, NothingApplied
      <4> QED
        BY <4>1, <4>2, <4>3
    <3> QED
      BY <3>1, <3>2
  <2> QED
    BY <2>1, <2>2, OthersRefine
<1>8. CASE ApplyBatch
  BY <1>8, ApplyRefines
<1> QED
  BY <1>1, <1>2, <1>3, <1>4, <1>5, <1>6, <1>7, <1>8 DEF Work

LEMMA OtherStepsRefine ==
    IInv /\ (Commands \/ Administration \/ Fault) => [Reviewed!Next]_(Reviewed!vars)
<1> SUFFICES ASSUME IInv, Commands \/ Administration \/ Fault
             PROVE  [Reviewed!Next]_(Reviewed!vars)
  OBVIOUS
<1>1. CASE Commands
  <2>1. /\ UNCHANGED <<plan, batch, archived, database>>
        /\ pending \subseteq pending'
    BY <1>1 DEF Commands, Submit, AskPreview, Approve, Redeliver, Write, reviewVars,
                worldVars
  <2> QED
    BY <2>1, SameApplied, OthersRefine
<1>2. CASE ChangeDatabase \/ Reactivate
  <2>1. UNCHANGED <<plan, batch, pending, archived>>
    BY <1>2 DEF ChangeDatabase, Reactivate, SetFrozen, fileVars, reviewVars, worldVars
  <2> QED
    BY <2>1, SameApplied, OthersRefine
<1>3. CASE Retire
  <2>1. UNCHANGED <<plan, pending, archived>>
    BY <1>3 DEF Retire, SetFrozen, fileVars
  <2>2. ASSUME NEW s \in Submissions
        PROVE  \/ batch'[s] = batch[s]
               \/ /\ batch[s] = None \/ batch[s].state # "APPLIED"
                  /\ batch'[s] = None \/ batch'[s].state # "APPLIED"
    <3>1. CASE batch[s] = None \/ batch[s].state \in {"APPLIED", "REJECTED"}
      BY <1>3, <3>1 DEF Retire
    <3>2. CASE ~(batch[s] = None \/ batch[s].state \in {"APPLIED", "REJECTED"})
      <4> DEFINE b == batch[s]
                 c == [b EXCEPT !.state = "REJECTED", !.approval = None,
                                !.retired = TRUE]
      <4>1. b \in Batches
        BY <3>2 DEF IInv, TypeOK
      <4> HIDE DEF b
      <4>2. c.state = "REJECTED"
        BY <4>1, RowsWritten
      <4> HIDE DEF c
      <4>3. batch'[s] = c
        BY <1>3, <3>2 DEF Retire, b, c
      <4> QED
        BY <3>2, <4>2, <4>3
    <3> QED
      BY <3>1, <3>2
  <2> QED
    BY <2>1, <2>2, SameApplied, OthersRefine
<1>4. CASE Fault
  <2>1. UNCHANGED <<plan, batch, pending, archived>>
    BY <1>4 DEF Fault, Busy, Differs, Conflict, DieAtWork, StopRun, WorkerUnchanged,
                ReviewUnchanged, fileVars, reviewVars, worldVars
  <2> QED
    BY <2>1, SameApplied, OthersRefine
<1> QED
  BY <1>1, <1>2, <1>3, <1>4 DEF Administration

LEMMA Reviewed_Step == IInv /\ [Next]_vars => [Reviewed!Next]_(Reviewed!vars)
<1> SUFFICES ASSUME IInv, [Next]_vars PROVE [Reviewed!Next]_(Reviewed!vars)
  OBVIOUS
<1>1. CASE UNCHANGED vars
  <2>1. UNCHANGED <<plan, batch, pending, archived>>
    BY <1>1 DEF vars, importVars, fileVars, reviewVars, worldVars
  <2> QED
    BY <2>1, SameApplied, OthersRefine
<1> QED
  BY <1>1, WorkRefines, OtherStepsRefine DEF Next

(* The worker with its inbox, its transactions and its crashes implements    *)
(* ReviewedImport: a package is applied once, as it was approved, in the      *)
(* situation it was approved in, and nothing else changes the review plan.   *)
THEOREM Refinement == Spec => AppliedAsReviewed
<1>1. Init => Reviewed!Init
  BY Reviewed_Init
<1>2. IInv /\ [Next]_vars => [Reviewed!Next]_(Reviewed!vars)
  BY Reviewed_Step
<1>3. Spec => []IInv
  BY Inductive
<1> QED
  BY <1>1, <1>2, <1>3, PTL DEF Spec, AppliedAsReviewed, Reviewed!Spec

-----------------------------------------------------------------------------
(* The appointments.                                                        *)
ReviewTypeOK ==
    /\ plan \in [Tasks -> Contents \cup {None}]
    /\ row \in [Tasks -> Rows \cup {None}]
    /\ calendar \subseteq Appointments
    /\ todo \subseteq Tasks
    /\ step \in Steps /\ found \in Ids \cup {None}

CalendarOK ==
    /\ \A a, b \in calendar : a.id = b.id => a = b
    /\ \A t \in Tasks, a \in calendar :
          row[t] # None /\ row[t].event = a.id => a.task = t

UnderWay == step \notin {"idle", "next"}

CycleOK ==
    /\ \A t \in todo : Pending(t)
    /\ UnderWay => /\ cursor \in Tasks \ todo
                   /\ Pending(cursor)
                   /\ \A a \in calendar : a.id = found => a.task = cursor

Mine(t) == {a \in calendar : a.task = t}
Clean == Tasks \ (overtaken \cup removed)

IntentOK(r) ==
    /\ r.desired = IF r.retired THEN Retired ELSE Hash(r.content, r.generation)
    /\ r.generation # 0 /\ r.txn = Created(r.generation)
    /\ r.event = None <=> r.applied \in {None, Retired}

TaskOK(t) ==
    LET r == row[t] IN
    /\ \A a, b \in Mine(t) : a = b
    /\ r = None => Mine(t) = {}
    /\ r # None =>
        /\ IntentOK(r)
        /\ r.event = None => \A a \in Mine(t) : a.txn = r.txn
        /\ r.event = None /\ r.applied # None /\ r.retired => Mine(t) = {}
        /\ r.event # None => \A a \in Mine(t) : a.id = r.event
        /\ r.event # None /\ ~r.retired => Mine(t) # {}
        /\ r.event # None /\ ~Pending(t) => \A a \in Mine(t) : a.shown = r.content

FlightOK ==
    LET r == row[cursor] IN
    /\ step \in {"post", "recover"} => r.event = None
    /\ step = "patch" => found = r.event /\ r.event # None
    /\ step \in {"post", "patch", "update"} => ~r.retired
    /\ step = "update" => r.event = None /\ \E a \in Mine(cursor) : a.id = found
    /\ step \in {"recover", "delete"} => r.retired
    /\ step = "delete" => found # None /\ \A a \in Mine(cursor) : a.id = found
    /\ step = "record" /\ r.retired => found = None /\ Mine(cursor) = {}
    /\ step = "record" /\ ~r.retired =>
          \E a \in Mine(cursor) : a.id = found /\ a.shown = r.content

ReviewInv ==
    /\ ReviewTypeOK /\ CalendarOK /\ CycleOK
    /\ \A t \in Clean : TaskOK(t)
    /\ UnderWay /\ cursor \in Clean => FlightOK

-----------------------------------------------------------------------------
LEMMA RowNone == None \notin Rows /\ None \notin Hashes /\ None \notin Ids /\ None \notin Contents
BY ReviewRowAssumption, ReviewNoneAssumption

LEMMA RetiredIsOne ==
    /\ Retired \in Hashes /\ Retired # None /\ Retired.content = None
    /\ \A c \in Contents \cup {None}, g \in Nat :
          /\ Hash(c, g) \in Hashes /\ Hash(c, g) # None
          /\ Hash(c, g).content = c /\ Hash(c, g).generation = g
    /\ \A c \in Contents, g \in Nat : Hash(c, g) # Retired
<1>1. Retired \in Hashes /\ Retired.content = None
  BY DEF Retired, Hash, Hashes
<1>2. \A c \in Contents \cup {None}, g \in Nat :
          /\ Hash(c, g) \in Hashes
          /\ Hash(c, g).content = c /\ Hash(c, g).generation = g
  BY DEF Hash, Hashes
<1> QED
  BY <1>1, <1>2, RowNone

LEMMA ProjectionFields ==
    ASSUME ReviewTypeOK, NEW t \in Tasks, Wanted(t) # None
    PROVE  /\ Projection(t) \in Rows /\ Projection(t) # None
           /\ Projection(t).content = Wanted(t)
           /\ Projection(t).generation = Generation(t)
           /\ Projection(t).desired = Hash(Wanted(t), Generation(t))
           /\ Projection(t).applied = IF row[t] = None THEN None ELSE row[t].applied
           /\ Projection(t).event = IF row[t] = None THEN None ELSE row[t].event
           /\ Projection(t).txn = Created(Generation(t))
           /\ Projection(t).retired = FALSE
           /\ Wanted(t) \in Contents /\ Generation(t) \in Nat
<1>1. Wanted(t) \in Contents /\ row[t] \in Rows \cup {None}
  BY DEF ReviewTypeOK, Wanted
<1>2. Generation(t) \in Nat
  BY <1>1 DEF Generation, Rows
<1>3. Created(Generation(t)) \in Txns
  BY <1>2 DEF Created, Txns
<1>4. Hash(Wanted(t), Generation(t)) \in Hashes
  BY <1>1, <1>2, RetiredIsOne
<1>5. (IF row[t] = None THEN None ELSE row[t].applied) \in Hashes \cup {None}
  BY <1>1 DEF Rows
<1>6. (IF row[t] = None THEN None ELSE row[t].event) \in Ids \cup {None}
  BY <1>1 DEF Rows
<1>7. Projection(t) \in Rows
  BY <1>1, <1>2, <1>3, <1>4, <1>5, <1>6 DEF Projection, Rows
<1> QED
  BY <1>1, <1>2, <1>7, RowNone DEF Projection

LEMMA RetirementFields ==
    ASSUME NEW r \in Rows
    PROVE  /\ Retirement(r) \in Rows /\ Retirement(r) # None
           /\ Retirement(r).content = r.content
           /\ Retirement(r).generation = r.generation
           /\ Retirement(r).desired = Retired
           /\ Retirement(r).applied = r.applied
           /\ Retirement(r).event = r.event
           /\ Retirement(r).txn = r.txn
           /\ Retirement(r).retired = TRUE
<1>1. Retirement(r) \in Rows
  BY RetiredIsOne DEF Retirement, Rows
<1> QED
  BY <1>1, RowNone DEF Retirement, Rows

LEMMA RecreationFields ==
    ASSUME NEW r \in Rows
    PROVE  /\ Recreation(r) \in Rows /\ Recreation(r) # None
           /\ Recreation(r).event = None
<1>1. r.txn \in Txns /\ r.generation \in Nat
  BY DEF Rows
<1> DEFINE x == [r.txn EXCEPT !.recreated = @ + 1]
<1>2. x \in Txns
  BY <1>1 DEF Txns
<1>3. Recreation(r) \in Rows
  <2>1. Recreation(r) = [r EXCEPT !.event = None, !.generation = @ + 1,
                                  !.applied = None, !.txn = x]
    BY DEF Recreation, Rows, Txns
  <2> HIDE DEF x
  <2>2. r.generation + 1 \in Nat
    BY <1>1
  <2>3. [r EXCEPT !.event = None, !.generation = r.generation + 1,
                  !.applied = None, !.txn = x] \in Rows
    BY <1>2, <2>2 DEF Rows
  <2> QED
    BY <2>1, <2>3
<1>4. Recreation(r).event = None
  BY DEF Recreation, Rows
<1> QED
  BY <1>3, <1>4, RowNone

LEMMA RecordedFields ==
    ASSUME NEW r \in Rows, NEW e \in Ids \cup {None}
    PROVE  LET n == [r EXCEPT !.event = e, !.applied = r.desired] IN
           /\ n \in Rows /\ n # None
           /\ n.content = r.content /\ n.generation = r.generation
           /\ n.desired = r.desired /\ n.applied = r.desired
           /\ n.event = e /\ n.txn = r.txn /\ n.retired = r.retired
<1> DEFINE n == [r EXCEPT !.event = e, !.applied = r.desired]
<1>1. n \in Rows
  BY DEF Rows
<1>2. n # None
  BY <1>1, RowNone
<1> QED
  BY <1>1, <1>2 DEF Rows

-----------------------------------------------------------------------------
LEMMA SameTask ==
    ASSUME NEW t \in Tasks, TaskOK(t), row'[t] = row[t], Mine(t)' = Mine(t)
    PROVE  TaskOK(t)'
BY DEF TaskOK, Pending

LEMMA ReviewInitially ==
    ASSUME ReviewInit
    PROVE  ReviewInv
<1>1. ReviewTypeOK
  BY DEF ReviewInit, ReviewTypeOK, Steps
<1>2. \A t \in Tasks : row[t] = None /\ Mine(t) = {}
  BY DEF ReviewInit, Mine
<1> QED
  BY <1>1, <1>2 DEF ReviewInit, ReviewInv, CalendarOK, CycleOK, UnderWay, TaskOK, Clean

(* A step that touches neither rows nor appointments, and either leaves the  *)
(* work as it is or ends it.                                                *)
LEMMA QuietStep ==
    ASSUME ReviewInv, UNCHANGED <<row, calendar, historyVars>>,
           plan' \in [Tasks -> Contents \cup {None}],
           \/ UNCHANGED processVars
           \/ step' \in {"idle", "next"} /\ todo' \subseteq todo /\ found' \in Ids \cup {None}
    PROVE  ReviewInv'
<1> USE DEF ReviewInv, historyVars, processVars
<1>1. ReviewTypeOK'
  BY DEF ReviewTypeOK, Steps
<1>2. CalendarOK'
  BY DEF CalendarOK
<1>3. CycleOK'
  BY DEF CycleOK, UnderWay, Pending
<1>4. ASSUME NEW t \in Clean' PROVE TaskOK(t)'
  <2>1. t \in Clean /\ t \in Tasks /\ Mine(t)' = Mine(t)
    BY <1>4 DEF Clean, Mine
  <2> QED
    BY <2>1, SameTask
<1>5. ASSUME UnderWay', cursor' \in Clean' PROVE FlightOK'
  <2>1. UNCHANGED processVars /\ UnderWay /\ cursor \in Clean
    BY <1>5 DEF UnderWay, Clean
  <2> QED
    BY <2>1 DEF FlightOK, Mine
<1> QED
  BY <1>1, <1>2, <1>3, <1>4, <1>5

-----------------------------------------------------------------------------
(* The rows of a cycle.                                                     *)

LEMMA DesiredIsARow ==
    ASSUME ReviewTypeOK, NEW t \in Tasks
    PROVE  /\ DesiredRow(t) \in Rows \cup {None}
           /\ DesiredRow(t) = None => row[t] = None
           /\ DesiredRow(t) # None /\ row[t] # None => DesiredRow(t).event = row[t].event
           /\ row[t] = None /\ DesiredRow(t) # None => DesiredRow(t).event = None
<1>1. row[t] \in Rows \cup {None}
  BY DEF ReviewTypeOK
<1>2. CASE Wanted(t) # None
  BY <1>1, <1>2, ProjectionFields, RowNone DEF DesiredRow, Unchanged
<1>3. CASE Wanted(t) = None
  BY <1>1, <1>3, RetirementFields, RowNone DEF DesiredRow
<1> QED
  BY <1>2, <1>3

LEMMA DesiredTask ==
    ASSUME ReviewInv, NEW t \in Clean, row'[t] = DesiredRow(t), UNCHANGED calendar,
           ~(/\ row[t] # None /\ Pending(t)
             /\ \/ ~Pending(t)'
                \/ row[t].retired /\ ~row'[t].retired)
    PROVE  TaskOK(t)'
<1> DEFINE r == row[t]
           n == row'[t]
<1>0. t \in Tasks /\ ReviewTypeOK /\ TaskOK(t)
  BY DEF ReviewInv, Clean
<1>1. r \in Rows \cup {None} /\ Mine(t)' = Mine(t)
  BY <1>0 DEF ReviewTypeOK, Mine
<1>2. CASE n = r
  BY <1>0, <1>1, <1>2, SameTask
<1>3. CASE n # r /\ Wanted(t) # None
  <2>1. n = Projection(t) /\ ~Unchanged(t)
    BY <1>3 DEF DesiredRow
  <2>2. /\ n # None /\ n.content = Wanted(t) /\ n.generation = Generation(t)
        /\ n.desired = Hash(Wanted(t), Generation(t))
        /\ n.applied = (IF r = None THEN None ELSE r.applied)
        /\ n.event = (IF r = None THEN None ELSE r.event)
        /\ n.txn = Created(Generation(t)) /\ n.retired = FALSE
        /\ Wanted(t) \in Contents /\ Generation(t) \in Nat
    BY <1>0, <1>3, <2>1, ProjectionFields
  <2>3. CASE r = None
    <3>1. Generation(t) = 1
      BY <2>3 DEF Generation
    <3>2. IntentOK(n)
      BY <2>2, <2>3, <3>1 DEF IntentOK
    <3> QED
      BY <1>0, <1>1, <2>2, <2>3, <3>2 DEF TaskOK
  <2>4. CASE r # None
    <3>1. /\ IntentOK(r) /\ r \in Rows
      BY <1>0, <1>1, <2>4 DEF TaskOK
    <3>2. Generation(t) # 0
      BY <2>4, <3>1 DEF Generation, IntentOK, Rows
    <3>3. IntentOK(n)
      BY <2>2, <2>4, <3>1, <3>2 DEF IntentOK
    <3>4. r.retired => r.event = None /\ ~Pending(t)
      <4>1. r.retired => ~Pending(t)
        BY <2>2, <2>4
      <4>2. r.retired => r.applied = Retired
        BY <2>4, <3>1, <4>1 DEF Pending, IntentOK
      <4> QED
        BY <3>1, <4>1, <4>2 DEF IntentOK
    <3>5. ~r.retired => n.txn = r.txn
      BY <2>2, <2>4, <3>1 DEF Generation, IntentOK
    <3>6. r.retired => Mine(t) = {}
      BY <1>0, <2>4, <3>1, <3>4, RetiredIsOne DEF TaskOK, IntentOK, Pending
    <3>7. n.event # None => Pending(t)'
      <4>1. CASE Pending(t)
        BY <2>4, <4>1
      <4>2. CASE ~Pending(t) /\ n.event # None
        <5>1. ~r.retired /\ r.content # Wanted(t)
          BY <2>1, <2>2, <2>4, <3>4, <4>2 DEF Unchanged
        <5>2. r.applied = Hash(r.content, r.generation)
          BY <2>4, <3>1, <4>2, <5>1 DEF Pending, IntentOK
        <5>3. r.content \in Contents /\ r.generation \in Nat
          BY <3>1 DEF Rows
        <5>4. n.desired # n.applied
          BY <2>2, <2>4, <5>1, <5>2, <5>3, RetiredIsOne
        <5> QED
          BY <2>2, <5>4 DEF Pending
      <4> QED
        BY <4>1, <4>2
    <3> QED
      BY <1>0, <1>1, <2>2, <2>4, <3>3, <3>4, <3>5, <3>6, <3>7 DEF TaskOK
  <2> QED
    BY <2>3, <2>4
<1>4. CASE n # r /\ Wanted(t) = None
  <2>1. r # None /\ n = Retirement(r) /\ r \in Rows
    BY <1>1, <1>4 DEF DesiredRow
  <2>2. /\ n # None /\ n.content = r.content /\ n.generation = r.generation
        /\ n.desired = Retired /\ n.applied = r.applied /\ n.event = r.event
        /\ n.txn = r.txn /\ n.retired = TRUE
    BY <2>1, RetirementFields
  <2>3. IntentOK(r)
    BY <1>0, <2>1 DEF TaskOK
  <2>4. IntentOK(n)
    BY <2>2, <2>3 DEF IntentOK
  <2>5. n.applied # None /\ n.event = None => Mine(t) = {}
    <3> SUFFICES ASSUME r.applied # None, r.event = None PROVE Mine(t) = {}
      BY <2>2
    <3>1. r.applied = Retired
      BY <2>3 DEF IntentOK
    <3>2. ~Pending(t)'
      BY <2>2, <3>1 DEF Pending
    <3>3. ~Pending(t)
      BY <2>1, <3>2
    <3>4. r.retired
      <4>1. r.content \in Contents /\ r.generation \in Nat /\ r.desired = Retired
        BY <2>1, <3>1, <3>3 DEF Pending, Rows
      <4> QED
        BY <2>3, <4>1, RetiredIsOne DEF IntentOK
    <3> QED
      BY <1>0, <2>1, <3>4 DEF TaskOK
  <2>6. n.event # None => Pending(t)'
    BY <2>2, <2>3 DEF IntentOK, Pending
  <2> QED
    BY <1>0, <1>1, <2>1, <2>2, <2>4, <2>5, <2>6 DEF TaskOK
<1> QED
  BY <1>2, <1>3, <1>4

LEMMA SynchronizeStep == ReviewInv /\ Synchronize => ReviewInv'
<1> SUFFICES ASSUME ReviewInv, Synchronize PROVE ReviewInv'
  OBVIOUS
<1> USE DEF ReviewInv
<1>0. /\ UNCHANGED <<worldVars, calendar, cursor, found, removed>> /\ step' = "next"
      /\ \A t \in Tasks : row'[t] = row[t] \/ row'[t] = DesiredRow(t)
      /\ row' \in [Tasks -> Rows \cup {None}]
  BY DesiredIsARow DEF Synchronize, ReviewTypeOK
<1>1. todo' \subseteq {t \in Tasks : Pending(t)'}
  BY DEF Synchronize, FirstOf
<1>2. ReviewTypeOK'
  BY <1>0, <1>1 DEF ReviewTypeOK, Steps, worldVars
<1>3. CalendarOK'
  <2>1. ASSUME NEW t \in Tasks, NEW a \in calendar, row'[t] # None, row'[t].event = a.id
        PROVE  row[t] # None /\ row[t].event = a.id
    <3>1. a.id # None
      BY RowNone DEF ReviewTypeOK, Appointments
    <3> QED
      BY <1>0, <2>1, <3>1, DesiredIsARow
  <2> QED
    BY <1>0, <2>1 DEF CalendarOK
<1>4. CycleOK'
  BY <1>0, <1>1 DEF CycleOK, UnderWay
<1>5. ASSUME NEW t \in Clean' PROVE TaskOK(t)'
  <2>1. t \in Clean /\ t \in Tasks /\ t \notin overtaken'
    BY <1>0 DEF Clean, Synchronize
  <2>2. Mine(t)' = Mine(t)
    BY <1>0 DEF Mine
  <2>3. ~(/\ row[t] # None /\ Pending(t)
          /\ \/ ~Pending(t)'
             \/ row[t].retired /\ ~row'[t].retired)
    BY <2>1 DEF Synchronize
  <2>4. CASE row'[t] = row[t]
    BY <2>1, <2>2, <2>4, SameTask
  <2>5. CASE row'[t] = DesiredRow(t)
    BY <1>0, <2>1, <2>3, <2>5, DesiredTask
  <2> QED
    BY <1>0, <2>1, <2>4, <2>5
<1>6. ~UnderWay'
  BY <1>0 DEF UnderWay
<1> QED
  BY <1>2, <1>3, <1>4, <1>5, <1>6

(* What a row asks for decides what is done, and every case of it is right.  *)
LEMMA TakeStep == \A t \in todo : ReviewInv /\ Take(t) => ReviewInv'
<1> SUFFICES ASSUME NEW t \in todo, ReviewInv, Take(t) PROVE ReviewInv'
  OBVIOUS
<1> USE DEF ReviewInv
<1> DEFINE r == row[t]
<1>0. /\ UNCHANGED <<worldVars, row, calendar, historyVars>>
      /\ todo' = todo \ {t} /\ cursor' = t /\ step' = FirstStep(r) /\ found' = r.event
  BY DEF Take
<1>1. t \in Tasks /\ r \in Rows /\ r # None /\ Pending(t)
  BY DEF ReviewTypeOK, CycleOK, Pending
<1>2. FirstStep(r) \in {"patch", "post", "delete", "recover", "record"}
  BY DEF FirstStep
<1>3. ReviewTypeOK'
  BY <1>0, <1>1, <1>2 DEF ReviewTypeOK, Steps, Rows, worldVars
<1>4. CalendarOK'
  BY <1>0 DEF CalendarOK
<1>5. CycleOK'
  <2>1. \A a \in calendar : a.id = found' => a.task = t
    BY <1>0, <1>1 DEF CalendarOK
  <2> QED
    BY <1>0, <1>1, <2>1 DEF CycleOK, Pending
<1>6. ASSUME NEW u \in Clean' PROVE TaskOK(u)'
  <2>1. u \in Clean /\ u \in Tasks /\ Mine(u)' = Mine(u)
    BY <1>0 DEF Clean, Mine, historyVars
  <2> QED
    BY <1>0, <2>1, SameTask
<1>7. ASSUME cursor' \in Clean' PROVE FlightOK'
  <2>1. t \in Clean /\ TaskOK(t) /\ Mine(t)' = Mine(t) /\ row' = row
    BY <1>0, <1>7 DEF Clean, Mine, historyVars
  <2>2. IntentOK(r)
    BY <1>1, <2>1 DEF TaskOK
  <2>3. \/ ~r.retired /\ r.event # None /\ FirstStep(r) = "patch"
        \/ ~r.retired /\ r.event = None /\ FirstStep(r) = "post"
        \/ r.retired /\ r.event # None /\ FirstStep(r) = "delete"
        \/ r.retired /\ r.event = None /\ FirstStep(r) = "recover"
    <3>1. r.retired /\ r.event = None => r.applied = None
      BY <1>1, <2>2 DEF IntentOK, Pending
    <3> QED
      BY <1>1, <3>1 DEF FirstStep, Rows
  <2>4. Mine(cursor)' = Mine(t)
    BY <1>0, <2>1
  <2> QED
    BY <1>0, <1>1, <2>1, <2>2, <2>3, <2>4 DEF FlightOK, TaskOK
<1> QED
  BY <1>3, <1>4, <1>5, <1>6, <1>7

-----------------------------------------------------------------------------
(* One request, then one transaction.                                       *)

LEMMA RefusedStep ==
    ASSUME ReviewInv, UNCHANGED <<row, calendar>>, RequestUnchanged, GiveUp
    PROVE  ReviewInv'
BY QuietStep DEF ReviewInv, ReviewTypeOK, RequestUnchanged, GiveUp, worldVars, historyVars

LEMMA OthersKept ==
    ASSUME ReviewInv, UNCHANGED <<cursor, historyVars>>,
           \A t \in Tasks \ {cursor} : row'[t] = row[t] /\ Mine(t)' = Mine(t),
           cursor \in Clean => TaskOK(cursor)'
    PROVE  \A t \in Clean' : TaskOK(t)'
<1> SUFFICES ASSUME NEW t \in Clean' PROVE TaskOK(t)'
  OBVIOUS
<1>1. t \in Clean /\ t \in Tasks
  BY DEF Clean, historyVars
<1> QED
  BY <1>1, SameTask DEF ReviewInv

(* An answered step of the request: the rows stay, the appointments of other *)
(* tasks stay, and the next step knows what it goes on with.                *)
LEMMA RequestStep ==
    ASSUME ReviewInv, UnderWay, UNCHANGED row, RequestUnchanged,
           calendar' \subseteq Appointments,
           CalendarOK',
           \A t \in Tasks \ {cursor} : Mine(t)' = Mine(t),
           cursor \in Clean => TaskOK(cursor)',
           \/ GiveUp
           \/ /\ step' \in Steps /\ found' \in Ids \cup {None}
              /\ \A a \in calendar' : a.id = found' => a.task = cursor
              /\ cursor \in Clean => FlightOK'
    PROVE  ReviewInv'
<1> USE DEF ReviewInv, RequestUnchanged, worldVars, historyVars
<1>1. ReviewTypeOK'
  BY DEF ReviewTypeOK, GiveUp, Steps
<1>2. CycleOK'
  <2>1. /\ \A t \in todo : Pending(t)'
        /\ cursor' = cursor /\ cursor \in Tasks \ todo /\ Pending(cursor)'
    BY DEF CycleOK, Pending
  <2>2. UnderWay' => \A a \in calendar' : a.id = found' => a.task = cursor
    BY DEF UnderWay, GiveUp
  <2> QED
    BY <2>1, <2>2 DEF CycleOK
<1>3. \A t \in Clean' : TaskOK(t)'
  BY OthersKept
<1>4. UnderWay' /\ cursor' \in Clean' => FlightOK'
  BY DEF UnderWay, GiveUp, Clean
<1> QED
  BY <1>1, <1>2, <1>3, <1>4

LEMMA Outcome == \A o \in Outcomes : \A n, i : Proceed(o, n, i) =>
    \/ GiveUp
    \/ o = "answered" /\ step' = n /\ found' = i
BY DEF Proceed

LEMMA AtWork ==
    ASSUME ReviewInv, UnderWay
    PROVE  /\ cursor \in Tasks /\ row[cursor] \in Rows /\ row[cursor] # None
           /\ cursor \in Clean => TaskOK(cursor) /\ FlightOK /\ IntentOK(row[cursor])
BY DEF ReviewInv, CycleOK, Pending, ReviewTypeOK, TaskOK

LEMMA PostKnownStep == \A o \in Outcomes : ReviewInv /\ PostKnown(o) => ReviewInv'
<1> SUFFICES ASSUME NEW o \in Outcomes, ReviewInv, PostKnown(o) PROVE ReviewInv'
  OBVIOUS
<1>0. UnderWay /\ UNCHANGED <<row, calendar>> /\ RequestUnchanged
  BY DEF PostKnown, UnderWay
<1>1. CASE GiveUp
  BY <1>0, <1>1, RefusedStep
<1>2. CASE ~GiveUp
  <2>1. PICK a \in SameTransaction :
           step' = (IF step = "post" THEN "update" ELSE "delete") /\ found' = a.id
    BY <1>2, Outcome DEF PostKnown
  <2>2. /\ a \in calendar /\ a.task = cursor /\ a.id \in Ids /\ a \in Mine(cursor)
    BY <2>1 DEF SameTransaction, Mine, ReviewInv, ReviewTypeOK, Appointments
  <2>3. \A b \in calendar : b.id = a.id => b.task = cursor
    BY <2>2 DEF ReviewInv, CalendarOK
  <2>4. \A t : Mine(t)' = Mine(t)
    BY <1>0 DEF Mine
  <2>5. cursor \in Clean => TaskOK(cursor)'
    <3>1. cursor' = cursor /\ Mine(cursor)' = Mine(cursor) /\ cursor \in Tasks
      BY <1>0, <2>4, AtWork DEF RequestUnchanged
    <3> DEFINE t == cursor
    <3>2. t \in Clean => TaskOK(t)'
      BY <1>0, <2>4, <3>1, AtWork, SameTask
    <3> QED
      BY <3>1, <3>2
  <2>6. ASSUME cursor \in Clean PROVE FlightOK'
    <3>1. TaskOK(cursor) /\ FlightOK
      BY <1>0, <2>6, AtWork
    <3>2. \A b \in Mine(cursor) : b = a
      BY <2>2, <3>1 DEF TaskOK
    <3>3. a.id # None
      BY <2>2, RowNone
    <3>4. cursor' = cursor /\ Mine(cursor)' = Mine(cursor)
      BY <1>0, <2>4 DEF RequestUnchanged
    <3>5. CASE step = "post"
      BY <1>0, <2>1, <2>2, <3>1, <3>4, <3>5 DEF FlightOK
    <3>6. CASE step = "recover"
      BY <1>0, <2>1, <2>2, <3>1, <3>2, <3>3, <3>4, <3>6 DEF FlightOK
    <3> QED
      BY <3>5, <3>6 DEF PostKnown
  <2>7. CalendarOK' /\ calendar' \subseteq Appointments
    BY <1>0 DEF ReviewInv, CalendarOK, ReviewTypeOK
  <2> QED
    BY <1>0, <2>1, <2>2, <2>3, <2>4, <2>5, <2>6, <2>7, RequestStep DEF Steps
<1> QED
  BY <1>1, <1>2

(* Graph knows no transaction of the row, so the task has no appointment.    *)
LEMMA PostNewStep == \A o \in Outcomes : ReviewInv /\ PostNew(o) => ReviewInv'
<1> SUFFICES ASSUME NEW o \in Outcomes, ReviewInv, PostNew(o) PROVE ReviewInv'
  OBVIOUS
<1> DEFINE r == row[cursor]
<1>0. UnderWay /\ UNCHANGED row /\ RequestUnchanged /\ SameTransaction = {}
  BY DEF PostNew, UnderWay
<1>1. PICK id \in Fresh :
         /\ calendar' = IF o = "refused" THEN calendar
                        ELSE calendar \cup {NewAppointment(id)}
         /\ Proceed(o, IF step = "post" THEN "update" ELSE "delete", id)
  BY DEF PostNew
<1>2. CASE o = "refused"
  BY <1>0, <1>1, <1>2, RefusedStep DEF Proceed
<1>3. CASE o # "refused"
  <2> DEFINE n == NewAppointment(id)
  <2>1. /\ id \in Ids /\ \A a \in calendar : a.id # id
        /\ \A t \in Tasks : row[t] # None => row[t].event # id
    BY DEF Fresh
  <2>2. /\ n \in Appointments /\ n.id = id /\ n.task = cursor
        /\ n.txn = r.txn /\ n.shown = r.content
    BY <1>0, <2>1, AtWork DEF NewAppointment, Appointments, Rows
  <2> HIDE DEF n
  <2>3. calendar' = calendar \cup {n}
    BY <1>1, <1>3 DEF n
  <2>4. CalendarOK' /\ calendar' \subseteq Appointments
    BY <1>0, <2>1, <2>2, <2>3 DEF ReviewInv, CalendarOK, ReviewTypeOK
  <2>5. \A t \in Tasks \ {cursor} : Mine(t)' = Mine(t)
    BY <2>2, <2>3 DEF Mine
  <2>6. ASSUME cursor \in Clean PROVE Mine(cursor)' = {n}
    <3>1. TaskOK(cursor) /\ FlightOK /\ step \in {"post", "recover"} /\ r # None
      BY <1>0, <2>6, AtWork DEF PostNew
    <3>2. r.event = None
      BY <3>1 DEF FlightOK
    <3>3. \A a \in Mine(cursor) : a.txn = r.txn
      BY <3>1, <3>2 DEF TaskOK
    <3>4. Mine(cursor) = {}
      BY <1>0, <3>3 DEF Mine, SameTransaction
    <3>5. cursor' = cursor
      BY <1>0 DEF RequestUnchanged
    <3> QED
      BY <2>2, <2>3, <3>4, <3>5 DEF Mine
  <2>7. ASSUME cursor \in Clean PROVE TaskOK(cursor)'
    <3>1. /\ TaskOK(cursor) /\ FlightOK /\ step \in {"post", "recover"} /\ r # None
          /\ IntentOK(r) /\ Pending(cursor)
      BY <1>0, <2>7, AtWork DEF PostNew, Pending, ReviewInv, CycleOK
    <3>2. r.event = None
      BY <3>1 DEF FlightOK
    <3>3. ~(r.applied # None /\ r.retired)
      BY <3>1, <3>2 DEF IntentOK, Pending
    <3>4. cursor' = cursor /\ row' = row
      BY <1>0 DEF RequestUnchanged
    <3> QED
      BY <2>2, <2>6, <2>7, <3>1, <3>2, <3>3, <3>4 DEF TaskOK
  <2>8. ASSUME cursor \in Clean, ~GiveUp PROVE FlightOK'
    <3>1. step' = (IF step = "post" THEN "update" ELSE "delete") /\ found' = id
      BY <1>1, <2>8, Outcome
    <3>2. FlightOK /\ step \in {"post", "recover"} /\ cursor' = cursor
      BY <1>0, <2>8, AtWork DEF PostNew, RequestUnchanged
    <3>3. Mine(cursor)' = {n} /\ id # None
      BY <2>1, <2>6, <2>8, RowNone
    <3> QED
      BY <1>0, <2>2, <3>1, <3>2, <3>3 DEF FlightOK
  <2>9. GiveUp \/ (/\ step' \in Steps /\ found' = id)
    BY <1>1, Outcome DEF Steps
  <2>10. \A a \in calendar' : a.id = id => a.task = cursor
    BY <2>1, <2>2, <2>3
  <2> QED
    BY <1>0, <2>1, <2>4, <2>5, <2>7, <2>8, <2>9, <2>10, RequestStep
<1> QED
  BY <1>2, <1>3

LEMMA PatchStep == \A o \in Outcomes : ReviewInv /\ Patch(o) => ReviewInv'
<1> SUFFICES ASSUME NEW o \in Outcomes, ReviewInv, Patch(o) PROVE ReviewInv'
  OBVIOUS
<1> DEFINE r == row[cursor]
           shown(a) == [a EXCEPT !.shown = r.content]
<1>0. /\ UnderWay /\ UNCHANGED row /\ RequestUnchanged
      /\ step \in {"patch", "update"} /\ Proceed(o, "record", found)
  BY DEF Patch, UnderWay
<1>1. CASE o = "refused"
  BY <1>0, <1>1, RefusedStep DEF Proceed, Patch
<1>2. CASE o # "refused"
  <2>1. calendar' = {IF a.id = found THEN shown(a) ELSE a : a \in calendar}
    BY <1>2 DEF Patch
  <2>2. PICK x \in calendar : x.id = found
    BY DEF Patch, Present
  <2>3. \A a \in calendar : a.id = found <=> a = x
    BY <2>2 DEF ReviewInv, CalendarOK
  <2>4. x \in Appointments /\ x.task = cursor /\ r.content \in Contents /\ found \in Ids
    BY <1>0, <2>2, AtWork DEF ReviewInv, ReviewTypeOK, CycleOK, Appointments, Rows
  <2> DEFINE y == shown(x)
  <2>5. y \in Appointments /\ y.id = found /\ y.task = cursor /\ y.txn = x.txn
        /\ y.shown = r.content
    BY <2>2, <2>4 DEF Appointments
  <2>6. calendar' = (calendar \ {x}) \cup {y}
    BY <2>1, <2>2, <2>3
  <2> HIDE DEF y
  <2>7. CalendarOK' /\ calendar' \subseteq Appointments
    <3>1. calendar' \subseteq Appointments
      BY <2>5, <2>6 DEF ReviewInv, ReviewTypeOK
    <3>2. \A a, b \in calendar' : a.id = b.id => a = b
      BY <2>3, <2>5, <2>6 DEF ReviewInv, CalendarOK
    <3>3. \A t \in Tasks, a \in calendar' :
             row[t] # None /\ row[t].event = a.id => a.task = t
      BY <2>2, <2>4, <2>5, <2>6 DEF ReviewInv, CalendarOK
    <3> QED
      BY <1>0, <3>1, <3>2, <3>3 DEF CalendarOK
  <2>8. \A t \in Tasks \ {cursor} : Mine(t)' = Mine(t)
    BY <2>4, <2>5, <2>6 DEF Mine
  <2>9. cursor' = cursor /\ row' = row
    BY <1>0 DEF RequestUnchanged
  <2>10. ASSUME cursor \in Clean PROVE Mine(cursor) = {x} /\ Mine(cursor)' = {y}
    <3>1. TaskOK(cursor) /\ FlightOK /\ r # None
      BY <1>0, <2>10, AtWork
    <3>2. x \in Mine(cursor)
      BY <2>2, <2>4 DEF Mine
    <3>3. Mine(cursor) = {x}
      BY <3>1, <3>2 DEF TaskOK
    <3>4. Mine(cursor)' = {a \in calendar' : a.task = cursor}
      BY <2>9 DEF Mine
    <3>5. \A a \in calendar : a.task = cursor <=> a = x
      BY <3>3 DEF Mine
    <3>6. {a \in calendar' : a.task = cursor} = {y}
      BY <2>5, <2>6, <3>5
    <3> QED
      BY <3>3, <3>4, <3>6
  <2>11. ASSUME cursor \in Clean PROVE TaskOK(cursor)'
    <3>1. TaskOK(cursor) /\ FlightOK /\ r # None
      BY <1>0, <2>11, AtWork
    <3>2. Pending(cursor)' = Pending(cursor)
      BY <2>9 DEF Pending
    <3>3. ~r.retired
      BY <1>0, <3>1 DEF FlightOK
    <3> QED
      BY <2>2, <2>5, <2>9, <2>10, <2>11, <3>1, <3>2, <3>3 DEF TaskOK
  <2>12. ASSUME cursor \in Clean, ~GiveUp PROVE FlightOK'
    <3>1. step' = "record" /\ found' = found
      BY <1>0, <2>12, Outcome
    <3>2. ~r.retired
      BY <1>0, <2>12, AtWork DEF FlightOK
    <3> QED
      BY <2>5, <2>9, <2>10, <2>12, <3>1, <3>2 DEF FlightOK
  <2>13. GiveUp \/ (/\ step' \in Steps /\ found' = found)
    BY <1>0, Outcome DEF Steps
  <2>14. \A a \in calendar' : a.id = found => a.task = cursor
    BY <2>2, <2>3, <2>5, <2>6
  <2> QED
    BY <1>0, <2>4, <2>7, <2>8, <2>11, <2>12, <2>13, <2>14, RequestStep
<1> QED
  BY <1>1, <1>2

(* A row is written for the task worked on, and work on it ends.             *)
LEMMA RowStep ==
    ASSUME ReviewInv, UnderWay, UNCHANGED calendar, RequestUnchanged, GiveUp,
           NEW n \in Rows, n # None, row' = [row EXCEPT ![cursor] = n],
           \A a \in calendar : n.event = a.id => a.task = cursor,
           cursor \in Clean => TaskOK(cursor)'
    PROVE  ReviewInv'
<1> USE DEF ReviewInv, RequestUnchanged, worldVars, historyVars
<1>0. /\ cursor \in Tasks /\ row'[cursor] = n
      /\ \A t \in Tasks \ {cursor} : row'[t] = row[t]
      /\ row' \in [Tasks -> Rows \cup {None}]
  BY AtWork DEF ReviewTypeOK
<1>1. ReviewTypeOK'
  BY <1>0 DEF ReviewTypeOK, GiveUp, Steps
<1>2. CalendarOK'
  BY <1>0 DEF CalendarOK
<1>3. CycleOK'
  <2>1. \A t \in todo : Pending(t)'
    BY <1>0 DEF CycleOK, ReviewTypeOK, Pending
  <2> QED
    BY <2>1 DEF CycleOK, GiveUp, UnderWay
<1>4. \A t \in Clean' : TaskOK(t)'
  <2>1. \A t : Mine(t)' = Mine(t)
    BY DEF Mine
  <2> QED
    BY <1>0, <2>1, OthersKept
<1>5. ~UnderWay'
  BY DEF UnderWay, GiveUp
<1> QED
  BY <1>1, <1>2, <1>3, <1>4, <1>5

(* An appointment is missing only if a person deleted it, or if its task was *)
(* changed before the change before was recorded.                           *)
LEMMA PatchMissingStep == \A o \in Outcomes : ReviewInv /\ PatchMissing(o) => ReviewInv'
<1> SUFFICES ASSUME NEW o \in Outcomes, ReviewInv, PatchMissing(o) PROVE ReviewInv'
  OBVIOUS
<1>0. UnderWay /\ UNCHANGED calendar /\ RequestUnchanged /\ GiveUp /\ ~Present(found)
      /\ step \in {"patch", "update"}
  BY DEF PatchMissing, UnderWay
<1>1. cursor \notin Clean
  <2> SUFFICES ASSUME cursor \in Clean PROVE FALSE
    OBVIOUS
  <2>1. TaskOK(cursor) /\ FlightOK /\ row[cursor] # None
    BY <1>0, AtWork
  <2>2. \E a \in Mine(cursor) : a.id = found
    BY <1>0, <2>1 DEF TaskOK, FlightOK
  <2> QED
    BY <1>0, <2>2 DEF Mine, Present
<1>2. CASE row' = row
  BY <1>0, <1>2, RefusedStep
<1>3. CASE row' = [row EXCEPT ![cursor] = Recreation(@)]
  <2> DEFINE n == Recreation(row[cursor])
  <2>1. n \in Rows /\ n # None /\ n.event = None
    BY <1>0, AtWork, RecreationFields
  <2>2. \A a \in calendar : a.id # None
    BY RowNone DEF ReviewInv, ReviewTypeOK, Appointments
  <2>3. row' = [row EXCEPT ![cursor] = n]
    BY <1>3
  <2> HIDE DEF n
  <2> QED
    BY <1>0, <1>1, <2>1, <2>2, <2>3, RowStep
<1> QED
  BY <1>2, <1>3 DEF PatchMissing

LEMMA DeleteStep == \A o \in Outcomes : ReviewInv /\ Delete(o) => ReviewInv'
<1> SUFFICES ASSUME NEW o \in Outcomes, ReviewInv, Delete(o) PROVE ReviewInv'
  OBVIOUS
<1> DEFINE r == row[cursor]
<1>0. /\ UnderWay /\ UNCHANGED row /\ RequestUnchanged
      /\ step = "delete" /\ Proceed(o, "record", None)
  BY DEF Delete, UnderWay
<1>1. CASE o = "refused"
  BY <1>0, <1>1, RefusedStep DEF Proceed, Delete
<1>2. CASE o # "refused"
  <2>1. calendar' = {a \in calendar : a.id # found}
    BY <1>2 DEF Delete
  <2>2. CalendarOK' /\ calendar' \subseteq Appointments
    BY <1>0, <2>1 DEF ReviewInv, ReviewTypeOK, CalendarOK
  <2>3. \A t \in Tasks \ {cursor} : Mine(t)' = Mine(t)
    BY <1>0, <2>1 DEF ReviewInv, CycleOK, Mine
  <2>4. cursor' = cursor /\ row' = row
    BY <1>0 DEF RequestUnchanged
  <2>5. ASSUME cursor \in Clean PROVE Mine(cursor)' = {}
    <3>1. \A a \in Mine(cursor) : a.id = found
      BY <1>0, <2>5, AtWork DEF FlightOK
    <3> QED
      BY <2>1, <2>4, <3>1 DEF Mine
  <2>6. ASSUME cursor \in Clean PROVE TaskOK(cursor)' /\ r.retired
    <3>1. TaskOK(cursor) /\ FlightOK /\ r # None
      BY <1>0, <2>6, AtWork
    <3>2. r.retired
      BY <1>0, <3>1 DEF FlightOK
    <3> QED
      BY <2>4, <2>5, <2>6, <3>1, <3>2 DEF TaskOK
  <2>7. ASSUME cursor \in Clean, ~GiveUp PROVE FlightOK'
    <3>1. step' = "record" /\ found' = None
      BY <1>0, <2>7, Outcome
    <3> QED
      BY <2>4, <2>5, <2>6, <2>7, <3>1 DEF FlightOK
  <2>8. GiveUp \/ (/\ step' \in Steps /\ found' = None)
    BY <1>0, Outcome DEF Steps
  <2>9. \A a \in calendar' : a.id # None
    BY <2>2, RowNone DEF Appointments
  <2> QED
    BY <1>0, <2>2, <2>3, <2>6, <2>7, <2>8, <2>9, RequestStep
<1> QED
  BY <1>1, <1>2

(* ManualReviewRepository.completed                                          *)
LEMMA RecordStep == ReviewInv /\ Record => ReviewInv'
<1> SUFFICES ASSUME ReviewInv, Record PROVE ReviewInv'
  OBVIOUS
<1> DEFINE r == row[cursor]
           n == [r EXCEPT !.event = found, !.applied = r.desired]
<1>0. UnderWay /\ UNCHANGED calendar /\ RequestUnchanged /\ GiveUp /\ step = "record"
  BY DEF Record, UnderWay
<1>1. r \in Rows /\ cursor \in Tasks /\ found \in Ids \cup {None}
  BY <1>0, AtWork DEF ReviewInv, ReviewTypeOK
<1>2. /\ n \in Rows /\ n # None /\ n.content = r.content /\ n.generation = r.generation
      /\ n.desired = r.desired /\ n.applied = r.desired
      /\ n.event = found /\ n.txn = r.txn /\ n.retired = r.retired
  BY <1>1, RecordedFields
<1>3. row' = [row EXCEPT ![cursor] = n]
  BY DEF Record
<1> HIDE DEF n
<1>4. \A a \in calendar : n.event = a.id => a.task = cursor
  BY <1>0, <1>2 DEF ReviewInv, CycleOK
<1>5. ASSUME cursor \in Clean PROVE TaskOK(cursor)'
  <2>1. cursor' = cursor /\ row'[cursor] = n /\ Mine(cursor)' = Mine(cursor)
    BY <1>0, <1>1, <1>3 DEF RequestUnchanged, ReviewInv, ReviewTypeOK, Mine
  <2>2. TaskOK(cursor) /\ FlightOK /\ IntentOK(r) /\ r # None
    BY <1>0, <1>5, AtWork
  <2>3. r.content \in Contents /\ r.generation \in Nat
    BY <1>1 DEF Rows
  <2>4. CASE r.retired
    <3>1. found = None /\ Mine(cursor) = {}
      BY <1>0, <2>2, <2>4 DEF FlightOK
    <3>2. IntentOK(n)
      BY <1>2, <2>2, <2>4, <3>1 DEF IntentOK
    <3> QED
      BY <1>2, <2>1, <2>4, <3>1, <3>2 DEF TaskOK
  <2>5. CASE ~r.retired
    <3>1. PICK a \in Mine(cursor) : a.id = found /\ a.shown = r.content
      BY <1>0, <2>2, <2>5 DEF FlightOK
    <3>2. \A b \in Mine(cursor) : b = a
      BY <2>2 DEF TaskOK
    <3>3. found # None
      BY <3>1, RowNone DEF Mine, ReviewInv, ReviewTypeOK, Appointments
    <3>4. n.applied = Hash(r.content, r.generation)
      BY <1>2, <2>2, <2>5 DEF IntentOK
    <3>5. n.applied # None /\ n.applied # Retired
      BY <2>3, <3>4, RetiredIsOne
    <3>6. IntentOK(n)
      BY <1>2, <2>2, <2>5, <3>3, <3>5 DEF IntentOK
    <3> QED
      BY <1>2, <2>1, <3>1, <3>2, <3>3, <3>6 DEF TaskOK
  <2> QED
    BY <2>4, <2>5
<1> QED
  BY <1>0, <1>2, <1>3, <1>4, <1>5, RowStep

(* What a person deletes is no appointment of another task.                  *)
LEMMA RemovalStep == \A a \in calendar : ReviewInv /\ UserRemoves(a) => ReviewInv'
<1> SUFFICES ASSUME NEW a \in calendar, ReviewInv, UserRemoves(a) PROVE ReviewInv'
  OBVIOUS
<1> USE DEF ReviewInv
<1>0. /\ UNCHANGED <<plan, enabled, frozen, row, todo, cursor, step, found, overtaken>>
      /\ calendar' = calendar \ {a} /\ removed' = removed \cup {a.task}
  BY DEF UserRemoves, processVars
<1>1. ReviewTypeOK' /\ CalendarOK'
  BY <1>0 DEF ReviewTypeOK, CalendarOK
<1>2. CycleOK'
  BY <1>0 DEF CycleOK, UnderWay, Pending
<1>3. ASSUME NEW t \in Clean' PROVE t \in Clean /\ Mine(t)' = Mine(t) /\ TaskOK(t)'
  <2>1. t \in Clean /\ t \in Tasks /\ t # a.task
    BY <1>0 DEF Clean
  <2>2. Mine(t)' = Mine(t)
    BY <1>0, <2>1 DEF Mine
  <2> QED
    BY <1>0, <2>1, <2>2, SameTask
<1>4. ASSUME UnderWay', cursor' \in Clean' PROVE FlightOK'
  <2>1. cursor' = cursor /\ cursor \in Clean /\ UnderWay /\ Mine(cursor)' = Mine(cursor)
    BY <1>0, <1>3, <1>4 DEF UnderWay
  <2> QED
    BY <1>0, <2>1 DEF FlightOK
<1> QED
  BY <1>1, <1>2, <1>3, <1>4

-----------------------------------------------------------------------------
LEMMA ReviewPreserved == ReviewInv /\ [ReviewNext]_reviewVars => ReviewInv'
<1> SUFFICES ASSUME ReviewInv, [ReviewNext]_reviewVars PROVE ReviewInv'
  OBVIOUS
<1>0. plan \in [Tasks -> Contents \cup {None}] /\ found \in Ids \cup {None}
  BY DEF ReviewInv, ReviewTypeOK
<1>1. CASE UNCHANGED reviewVars
  BY <1>0, <1>1, QuietStep DEF reviewVars, worldVars
<1>2. CASE Operator
  <2>1. CASE \E p \in Plans : ChangePlan(p)
    BY <2>1, PlanAssumption, QuietStep DEF ChangePlan
  <2>2. CASE SetEnabled
    BY <1>0, <2>2, QuietStep DEF SetEnabled
  <2>3. CASE SetFrozen
    BY <1>0, <2>3, QuietStep DEF SetFrozen
  <2> QED
    BY <1>2, <2>1, <2>2, <2>3 DEF Operator
<1>3. CASE EndCycle
  BY <1>0, <1>3, QuietStep DEF EndCycle, worldVars
<1>4. CASE Unrecorded \/ Die
  BY <1>0, <1>4, QuietStep DEF Unrecorded, Die, Abandon, worldVars
<1>5. ASSUME NEW o \in Outcomes,
             PostKnown(o) \/ PostNew(o) \/ Patch(o) \/ PatchMissing(o) \/ Delete(o)
      PROVE  ReviewInv'
  BY <1>5, PostKnownStep, PostNewStep, PatchStep, PatchMissingStep, DeleteStep
<1>6. "answered" \in Outcomes
  BY DEF Outcomes
<1>7. CASE Project
  BY <1>3, <1>5, <1>6, <1>7, SynchronizeStep, TakeStep, RecordStep DEF Project
<1>8. CASE ReviewFault
  BY <1>4, <1>5, <1>8, RemovalStep DEF ReviewFault
<1> QED
  BY <1>1, <1>2, <1>7, <1>8 DEF ReviewNext

LEMMA KnownByInvariant == ReviewInv => AppointmentsAreKnown
<1> SUFFICES ASSUME ReviewInv, NEW a \in calendar, a.task \notin overtaken \cup removed
             PROVE  Reachable(a)
  BY DEF AppointmentsAreKnown
<1>1. a.task \in Clean /\ a \in Mine(a.task) /\ TaskOK(a.task)
  BY DEF ReviewInv, ReviewTypeOK, Appointments, Clean, Mine
<1> QED
  BY <1>1 DEF TaskOK, Reachable

LEMMA ShownByInvariant == ReviewInv => AppliedIsShown
<1> SUFFICES ASSUME ReviewInv, NEW t \in Clean, row[t] # None, ~Pending(t)
             PROVE  IF row[t].retired THEN Mine(t) = {}
                    ELSE {<<a.id, a.shown>> : a \in Mine(t)}
                            = {<<row[t].event, row[t].content>>}
  BY DEF AppliedIsShown, Clean, Mine
<1> DEFINE r == row[t]
<1>1. TaskOK(t) /\ IntentOK(r) /\ r \in Rows
  BY DEF ReviewInv, ReviewTypeOK, TaskOK, Clean
<1>2. CASE r.retired
  <2>1. r.applied = Retired
    BY <1>1, <1>2 DEF IntentOK, Pending
  <2> QED
    BY <1>1, <1>2, <2>1, RetiredIsOne DEF TaskOK, IntentOK
<1>3. CASE ~r.retired
  <2>1. r.applied = Hash(r.content, r.generation)
    BY <1>1, <1>3 DEF IntentOK, Pending
  <2>2. r.event # None
    BY <1>1, <2>1, RetiredIsOne DEF IntentOK, Rows
  <2>3. PICK a \in Mine(t) : a.id = r.event /\ a.shown = r.content
    BY <1>1, <1>3, <2>2 DEF TaskOK
  <2>4. \A b \in Mine(t) : b = a
    BY <1>1 DEF TaskOK
  <2> QED
    BY <1>3, <2>3, <2>4
<1> QED
  BY <1>2, <1>3

(* Every row is where its appointment and its cycle are, unless the task was *)
(* overtaken or a person deleted its appointment.                           *)
THEOREM ReviewInductive == ReviewSpec => []ReviewInv
BY ReviewInitially, ReviewPreserved, PTL DEF ReviewSpec

(* No appointment is forgotten: whatever request fails, whatever answer is   *)
(* lost and wherever the process dies (manual_review_service.py).            *)
THEOREM KnownAppointments == ReviewSpec => []AppointmentsAreKnown
BY ReviewInductive, KnownByInvariant, PTL

(* A row that claims to be applied has exactly the appointment it describes. *)
THEOREM AppliedShown == ReviewSpec => []AppliedIsShown
BY ReviewInductive, ShownByInvariant, PTL


(* The import runs only between two cycles of the review.                   *)
TurnOK ==
    /\ wstep # "idle" => turn = "import"
    /\ turn = "import" => step = "idle"

LEMMA ImportKeepsReview == IInv' /\ ReviewInv /\ TurnOK /\ [Next]_vars => ReviewInv' /\ TurnOK'
<1> SUFFICES ASSUME IInv', ReviewInv, TurnOK, [Next]_vars PROVE ReviewInv' /\ TurnOK'
  OBVIOUS
<1>0. plan' \in [Tasks -> Contents \cup {None}] /\ found \in Ids \cup {None}
  BY DEF IInv, TypeOK, ReviewInv, ReviewTypeOK
<1>1. CASE ReviewStep(Project)
  <2>1. ReviewInv'
    BY <1>1, ReviewPreserved DEF ReviewStep, ReviewNext
  <2>2. TurnOK'
    BY <1>1 DEF ReviewStep, TurnOK, importVars, workerVars
  <2> QED
    BY <2>1, <2>2
<1>2. CASE Administration
  <2>1. ReviewInv'
    BY <1>0, <1>2, QuietStep
    DEF Administration, ChangeDatabase, Retire, Reactivate, SetFrozen, reviewVars, worldVars
  <2>2. TurnOK'
    BY <1>2 DEF Administration, ChangeDatabase, Retire, Reactivate, SetFrozen, AtRest,
                TurnOK, reviewVars, processVars, workerVars
  <2> QED
    BY <2>1, <2>2
<1>3. CASE DieAtWork
  <2>1. step = "idle" /\ step' = "idle"
    BY <1>3 DEF DieAtWork, TurnOK
  <2>2. ReviewInv'
    BY <1>0, <1>3, <2>1, QuietStep DEF DieAtWork, worldVars
  <2>3. TurnOK'
    BY <1>3, <2>1 DEF DieAtWork, StopRun, TurnOK
  <2> QED
    BY <2>2, <2>3
<1>4. CASE \/ UNCHANGED vars \/ Commands \/ StartRun \/ EndRun \/ (\E r \in wtodo : TakeUp(r))
           \/ Receive \/ Prepare \/ ApproveBatch \/ ApplyBatch \/ Publish \/ Archive \/ Unlink
           \/ Busy \/ Differs \/ Conflict
  <2>1. UNCHANGED <<row, calendar, processVars, historyVars>>
    BY <1>4 DEF vars, reviewVars, Commands, Submit, AskPreview, Approve, Redeliver, Write,
                StartRun, EndRun, TakeUp, Receive, Prepare, ApproveBatch, ApplyBatch,
                Publish, Archive, Unlink, Busy, Differs, Conflict, ReviewUnchanged
  <2>2. /\ wstep' # "idle" => turn' = "import"
        /\ turn' = "import" => turn = "import"
    BY <1>4 DEF vars, importVars, workerVars, Commands, Submit, AskPreview, Approve,
                Redeliver, Write, StartRun, EndRun, TakeUp, Receive, Prepare, ApproveBatch,
                ApplyBatch, Publish, Archive, Unlink, Busy, Differs, Conflict, StopRun,
                Transacting, WorkerUnchanged, TurnOK
  <2>3. TurnOK'
    BY <2>1, <2>2 DEF TurnOK, processVars
  <2> QED
    BY <1>0, <2>1, <2>3, QuietStep
<1> QED
  BY <1>1, <1>2, <1>3, <1>4 DEF Next, Work, Fault

(* The same holds while packages change the plan and the job dies at its     *)
(* import half: no appointment is forgotten, and what is recorded is shown.  *)
THEOREM AppointmentsSurviveImports == Spec => [](AppointmentsAreKnown /\ AppliedIsShown)
<1>1. Init => ReviewInv /\ TurnOK
  BY ReviewInitially DEF Init, ReviewInit, TurnOK
<1>2. ReviewInv => AppointmentsAreKnown /\ AppliedIsShown
  BY KnownByInvariant, ShownByInvariant
<1> QED
  BY <1>1, <1>2, Inductive, ImportKeepsReview, PTL DEF Spec
=============================================================================
