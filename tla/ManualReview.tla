---------------------------- MODULE ManualReview ----------------------------
(***************************************************************************)
(* Appointments that remind an operator to review a manually maintained    *)
(* competition (app/application/manual_review_service.py) and the rows     *)
(* that remember them (app/database/manual_review_repository.py).          *)
(*                                                                         *)
(* One namespace and one calendar.  A cycle saves what every appointment   *)
(* should be, then works through at most Limit of the rows that differ     *)
(* from what was last applied.  A request to Graph may be refused, or      *)
(* applied with its answer lost; the process may die between any two       *)
(* steps, or fail to record the outcome.                                   *)
(***************************************************************************)
EXTENDS Naturals, FiniteSets

CONSTANTS
    Tasks,      \* task IDs, numbered in the order of their keys
    Contents,   \* what a task can say: due time, reason, note
    Ids,        \* appointment IDs Graph can hand out
    Plans,      \* the review plans that packages carry
    None,       \* SQL NULL, Python None
    Limit,      \* rows worked on in one cycle
    Faults,     \* the faults a behaviour may contain
    MaxChanges  \* bound on changes of the plan, the assignment and the calendar

ASSUME TaskAssumption == Tasks \subseteq Nat \ {0} /\ IsFiniteSet(Tasks)
ASSUME IdAssumption == Ids \subseteq Nat
ASSUME PlanAssumption == Plans \subseteq [Tasks -> Contents \cup {None}]
ASSUME ReviewNoneAssumption == None \notin Contents \cup Ids
ASSUME LimitAssumption == Limit \in Nat \ {0}
ASSUME ReviewFaultAssumption ==
    Faults \subseteq {"refused", "lost", "died", "unrecorded", "user"}
ASSUME ChangeAssumption == MaxChanges \in Nat

VARIABLES
    plan,       \* manual_review_plans: the content of every open task
    enabled,    \* the namespace's assignment and its source are enabled
    frozen,     \* its scope is retired
    row,        \* manual_review_appointments, None without a row
    calendar,   \* the appointments in Outlook
    todo,       \* the rows of this cycle that are still to be worked on
    cursor,     \* the task last worked on, 0 after a start
    step,       \* what the process does next for the task at the cursor
    found,      \* the appointment it works on
    changes,    \* how much of MaxChanges is used
    overtaken,  \* history: tasks changed before their last change was recorded,
                \* so that it is taken for done, or put back while being retired
    removed     \* history: tasks whose appointment a person deleted

worldVars   == <<plan, enabled, frozen, changes>>
processVars == <<todo, cursor, step, found>>
historyVars == <<overtaken, removed>>
reviewVars  == <<worldVars, row, calendar, processVars, historyVars>>

-----------------------------------------------------------------------------

\* uuid5 over the identity and a generation, chained once per recreation.
Txns == [generation: Nat, recreated: Nat]
Created(g) == [generation |-> g, recreated |-> 0]

\* The hash of what an appointment should be; "retired" has no content.
Hashes == [content: Contents \cup {None}, generation: Nat]
Hash(c, g) == [content |-> c, generation |-> g]
Retired == Hash(None, 0)

Rows == [content: Contents, generation: Nat, desired: Hashes,
         applied: Hashes \cup {None}, event: Ids \cup {None}, txn: Txns,
         retired: BOOLEAN]

ASSUME ReviewRowAssumption == None \notin Rows \cup Hashes

Appointments == [id: Ids, task: Tasks, txn: Txns, shown: Contents]

Steps == {"idle", "next", "post", "recover", "update", "patch", "delete", "record"}

ReviewInit ==
    /\ plan = [t \in Tasks |-> None]
    /\ enabled = TRUE /\ frozen \in BOOLEAN
    /\ row = [t \in Tasks |-> None]
    /\ calendar = {}
    /\ todo = {} /\ cursor = 0 /\ step = "idle" /\ found = None
    /\ changes = 0
    /\ overtaken = {} /\ removed = {}

-----------------------------------------------------------------------------
(* ManualReviewService.synchronize: the rows of a cycle.                    *)

Wanted(t) == IF enabled THEN plan[t] ELSE None

Unchanged(t) ==
    row[t] # None /\ ~row[t].retired /\ row[t].content = Wanted(t)

Generation(t) ==
    IF row[t] = None THEN 1
    ELSE IF row[t].retired /\ row[t].event = None THEN row[t].generation + 1
    ELSE row[t].generation

Projection(t) ==
    [content    |-> Wanted(t),
     generation |-> Generation(t),
     desired    |-> Hash(Wanted(t), Generation(t)),
     applied    |-> IF row[t] = None THEN None ELSE row[t].applied,
     event      |-> IF row[t] = None THEN None ELSE row[t].event,
     txn        |-> Created(Generation(t)),
     retired    |-> FALSE]

Retirement(r) == [r EXCEPT !.retired = TRUE, !.desired = Retired]

DesiredRow(t) ==
    IF Wanted(t) # None THEN IF Unchanged(t) THEN row[t] ELSE Projection(t)
    ELSE IF row[t] = None THEN None ELSE Retirement(row[t])

Pending(t) == row[t] # None /\ row[t].desired # row[t].applied

\* Rows are taken in the order of their keys, beginning after the cursor.
Before(t, u) == IF (t > cursor) = (u > cursor) THEN t < u ELSE t > cursor
FirstOf(S) == {t \in S : Cardinality({u \in S : Before(u, t)}) < Limit}

\* Both the plan and the rows of a retired scope are left out.
Synchronize ==
    /\ step = "idle"
    /\ row' = IF frozen THEN row ELSE [t \in Tasks |-> DesiredRow(t)]
    /\ todo' = IF frozen THEN {} ELSE FirstOf({t \in Tasks : Pending(t)'})
    /\ step' = "next"
    /\ overtaken' = overtaken \cup
         {t \in Tasks : /\ row[t] # None /\ Pending(t)
                       /\ \/ ~Pending(t)'
                          \/ row[t].retired /\ ~row'[t].retired}
    /\ UNCHANGED <<worldVars, calendar, cursor, found, removed>>

EndCycle ==
    /\ step = "next" /\ todo = {}
    /\ step' = "idle"
    /\ UNCHANGED <<worldVars, row, calendar, todo, cursor, found, historyVars>>

\* Mutant: a row without appointment is retired at once.
FirstStepUnrecovered(r) ==
    IF r.retired THEN IF r.event # None THEN "delete" ELSE "record"
    ELSE IF r.event # None THEN "patch" ELSE "post"

\* A possibly committed POST is recovered before its intent is retired.
FirstStep(r) ==
    CASE ~r.retired /\ r.event # None                      -> "patch"
      [] ~r.retired /\ r.event = None                      -> "post"
      [] r.retired /\ r.event # None                       -> "delete"
      [] r.retired /\ r.event = None /\ r.applied = None   -> "recover"
      [] OTHER                                             -> "record"

Take(t) ==
    /\ step = "next"
    /\ t \in todo /\ \A u \in todo \ {t} : Before(t, u)
    /\ todo' = todo \ {t}
    /\ cursor' = t
    /\ step' = FirstStep(row[t])
    /\ found' = row[t].event
    /\ UNCHANGED <<worldVars, row, calendar, historyVars>>

-----------------------------------------------------------------------------
(* ManualReviewService._apply: one request, then one transaction.           *)

Outcomes == {"answered"} \cup (Faults \cap {"refused", "lost"})

\* GraphClientError is caught, and the next row is worked on.
GiveUp == step' = "next" /\ found' = None

Proceed(o, next, id) ==
    IF o = "answered" THEN step' = next /\ found' = id ELSE GiveUp

RequestUnchanged == UNCHANGED <<worldVars, todo, cursor, historyVars>>

\* Graph gives an appointment an ID of its own.
Fresh ==
    {i \in Ids : /\ \A a \in calendar : a.id # i
                 /\ \A t \in Tasks : row[t] # None => row[t].event # i
                 /\ i # found}

\* Graph knows the transaction of an appointment it has, and creates no other.
SameTransaction ==
    {a \in calendar : a.task = cursor /\ a.txn = row[cursor].txn}

NewAppointment(id) ==
    [id |-> id, task |-> cursor, txn |-> row[cursor].txn,
     shown |-> row[cursor].content]

\* Mutant: the appointment a POST finds is not patched.
PostKnownUnpatched(o) ==
    /\ step \in {"post", "recover"}
    /\ \E a \in SameTransaction :
          Proceed(o, IF step = "post" THEN "record" ELSE "delete", a.id)
    /\ UNCHANGED <<row, calendar>>
    /\ RequestUnchanged

PostKnown(o) ==
    /\ step \in {"post", "recover"}
    /\ \E a \in SameTransaction :
          Proceed(o, IF step = "post" THEN "update" ELSE "delete", a.id)
    /\ UNCHANGED <<row, calendar>>
    /\ RequestUnchanged

PostNew(o) ==
    /\ step \in {"post", "recover"}
    /\ SameTransaction = {}
    /\ \E id \in Fresh :
          /\ \A i \in Fresh : id <= i
          /\ calendar' = IF o = "refused" THEN calendar
                         ELSE calendar \cup {NewAppointment(id)}
          /\ Proceed(o, IF step = "post" THEN "update" ELSE "delete", id)
    /\ UNCHANGED row
    /\ RequestUnchanged

Present(id) == \E a \in calendar : a.id = id

\* The PATCH of a known appointment, and the one that follows a POST.
Patch(o) ==
    /\ step \in {"patch", "update"} /\ Present(found)
    /\ calendar' =
         IF o = "refused" THEN calendar
         ELSE {IF a.id = found THEN [a EXCEPT !.shown = row[cursor].content] ELSE a :
               a \in calendar}
    /\ Proceed(o, "record", found)
    /\ UNCHANGED row
    /\ RequestUnchanged

\* Mutant: the new intent is recorded as if it were done.
RecreationRecorded(r) ==
    [r EXCEPT !.event = None, !.generation = @ + 1, !.applied = r.desired,
              !.txn.recreated = @ + 1]

\* A deleted appointment gets a creation identity of its own, persisted first.
Recreation(r) ==
    [r EXCEPT !.event = None, !.generation = @ + 1, !.applied = None,
              !.txn.recreated = @ + 1]

PatchMissing(o) ==
    /\ step \in {"patch", "update"} /\ ~Present(found)
    /\ row' = IF step = "patch" /\ o = "answered"
              THEN [row EXCEPT ![cursor] = Recreation(@)] ELSE row
    /\ GiveUp
    /\ UNCHANGED calendar
    /\ RequestUnchanged

\* The appointment may be gone already.
Delete(o) ==
    /\ step = "delete"
    /\ calendar' = IF o = "refused" THEN calendar
                   ELSE {a \in calendar : a.id # found}
    /\ Proceed(o, "record", None)
    /\ UNCHANGED row
    /\ RequestUnchanged

\* ManualReviewRepository.completed
Record ==
    /\ step = "record"
    /\ row' = [row EXCEPT ![cursor].event = found,
                          ![cursor].applied = row[cursor].desired]
    /\ GiveUp
    /\ UNCHANGED calendar
    /\ RequestUnchanged

\* A database error ends the cycle, a crash the process with its cursor.
Abandon(restart) ==
    /\ step' = "idle" /\ todo' = {} /\ found' = None
    /\ cursor' = IF restart THEN 0 ELSE cursor
    /\ UNCHANGED <<worldVars, row, calendar, historyVars>>

Unrecorded == "unrecorded" \in Faults /\ step = "record" /\ Abandon(FALSE)
Die == "died" \in Faults /\ step # "idle" /\ Abandon(TRUE)

-----------------------------------------------------------------------------
(* The operator: packages, assignments, scope retirement, the calendar.     *)

Change == changes < MaxChanges /\ changes' = changes + 1

\* A package is applied in the same process, never during a cycle.
ChangePlan(p) ==
    /\ step = "idle" /\ Change
    /\ p # plan /\ plan' = p
    /\ UNCHANGED <<enabled, frozen, row, calendar, processVars, historyVars>>

SetEnabled ==
    /\ Change
    /\ enabled' = ~enabled
    /\ UNCHANGED <<plan, frozen, row, calendar, processVars, historyVars>>

\* Retirement holds the lock of the instance: the application is stopped.
SetFrozen ==
    /\ step = "idle" /\ Change
    /\ frozen' = ~frozen
    /\ cursor' = 0
    /\ UNCHANGED <<plan, enabled, row, calendar, todo, step, found, historyVars>>

UserRemoves(a) ==
    /\ "user" \in Faults /\ Change
    /\ a \in calendar
    /\ calendar' = calendar \ {a}
    /\ removed' = removed \cup {a.task}
    /\ UNCHANGED <<plan, enabled, frozen, row, processVars, overtaken>>

Operator == (\E p \in Plans : ChangePlan(p)) \/ SetEnabled \/ SetFrozen

\* The process at work, with every request answered.
Project ==
    \/ Synchronize \/ EndCycle \/ Record
    \/ \E t \in todo : Take(t)
    \/ PostKnown("answered") \/ PostNew("answered") \/ Patch("answered")
    \/ PatchMissing("answered") \/ Delete("answered")

ReviewFault ==
    \/ Unrecorded \/ Die
    \/ \E a \in calendar : UserRemoves(a)
    \/ \E o \in Outcomes \ {"answered"} :
          PostKnown(o) \/ PostNew(o) \/ Patch(o) \/ PatchMissing(o) \/ Delete(o)

ReviewNext == Operator \/ Project \/ ReviewFault

ReviewSpec == ReviewInit /\ [][ReviewNext]_reviewVars /\ WF_reviewVars(Project)

-----------------------------------------------------------------------------
(* What the appointments promise.                                           *)

\* An appointment its row will find again, whatever happens to the task.
Reachable(a) ==
    LET r == row[a.task] IN
    /\ r # None
    /\ \/ r.event = a.id
       \/ r.event = None /\ r.txn = a.txn /\ (r.applied = None \/ ~r.retired)

\* No appointment is forgotten, although its creation and its record are
\* separate steps and the answer between them may be lost; an overtaken task,
\* or one whose appointment a person deleted, is left out: there the documents
\* promise more than the code does (README, section 13).
AppointmentsAreKnown ==
    \A a \in calendar : a.task \in overtaken \cup removed \/ Reachable(a)

\* A row that claims to be applied is right about the calendar.
AppliedIsShown ==
    \A t \in Tasks \ (overtaken \cup removed) :
        row[t] # None /\ ~Pending(t) =>
            LET mine == {a \in calendar : a.task = t} IN
            IF row[t].retired THEN mine = {}
            ELSE {<<a.id, a.shown>> : a \in mine} = {<<row[t].event, row[t].content>>}

\* The calendar shows the task as the plan has it.
Projected(t) ==
    IF Wanted(t) = None THEN row[t] = None \/ (row[t].retired /\ ~Pending(t))
    ELSE /\ row[t] # None
         /\ \E a \in calendar :
               a.id = row[t].event /\ a.task = t /\ a.shown = Wanted(t)

\* Once requests are answered, every task is projected in spite of the limit of
\* a cycle.  An appointment a person deleted stays away until its task changes.
EventuallyProjected ==
    <>[][Operator \/ Project]_reviewVars =>
        <>[](\/ frozen
             \/ \A t \in Tasks \ overtaken :
                    \/ Projected(t)
                    \/ t \in removed /\ ~Pending(t) /\ row[t].event # None)
=============================================================================
