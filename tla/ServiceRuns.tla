----------------------------- MODULE ServiceRuns -----------------------------
(***************************************************************************)
(* The service process: its starts and ends, the scheduler's passes over   *)
(* the due jobs, and the run records of the jobs it executes.  The work of *)
(* a job is ProviderImport's, ManualImport's and ManualReview's, or         *)
(* CalendarSync's: here it commits or does not, and succeeds or fails.      *)
(*                                                                          *)
(* One process runs at a time (instance_lock) and one job at a time.  The  *)
(* process may be killed at any moment; a signal is obeyed between passes.  *)
(***************************************************************************)
EXTENDS Naturals, Sequences

CONSTANTS
    Sources,       \* the enabled jobs of the providers, in configured order
    Manual,        \* the manual import's job, or no job at all
    Calendar,      \* the calendar synchronization's job
    MaxStarts      \* bound: the starts of the process

Nothing == "no job"

(* The calendar job registered before the sources.                          *)
CalendarFirst == <<Calendar>> \o Sources \o Manual

(* The jobs in the order the container gives them to the scheduler.         *)
Scheduled == Sources \o Manual \o <<Calendar>>

Range(s) == {s[i] : i \in DOMAIN s}
Jobs == Range(Scheduled)

ASSUME SequenceAssumption ==
    /\ Sources \in Seq(Range(Sources)) /\ Manual \in Seq(Range(Manual))
    /\ Len(Manual) <= 1
ASSUME KeyAssumption ==
    \A i, k \in DOMAIN Scheduled : Scheduled[i] = Scheduled[k] => i = k
ASSUME NothingAssumption == Nothing \notin Jobs
ASSUME BoundAssumption == MaxStarts \in Nat \ {0}

VARIABLES
    up,         \* is the process running?
    stopping,   \* stop_event
    starts,     \* the starts so far; the current process is the last of them
    due,        \* the jobs whose next run has come
    todo,       \* the rest of the pass, the current job among it
    current,    \* the job that runs
    stage,      \* where the current job is
    recovered,  \* the runtimes that have recovered interrupted runs
    row,        \* the current job's run record: none, running or closed
    open,       \* the other records still running: their type and process
    ran         \* the jobs this process has had its turn with

vars == <<up, stopping, starts, due, todo, current, stage, recovered, row, open, ran>>

RunType(j) == IF j = Calendar THEN "calendar_sync" ELSE "provider_import"

InPass == todo # {}
Running == current # Nothing

(* The job the pass comes to next: the first of the rest in their order.    *)
ComesNext(j) ==
    \E i \in DOMAIN Scheduled :
        /\ Scheduled[i] = j /\ j \in todo
        /\ \A k \in 1..i - 1 : Scheduled[k] \notin todo

Abandoned == IF row = "running" THEN {<<RunType(current), starts>>} ELSE {}

-----------------------------------------------------------------------------
(* A start: migrations, catalogs and sources are registered, the calendar   *)
(* target may be validated; then every job is due at once.                   *)
Start ==
    /\ ~up /\ starts < MaxStarts
    /\ up' = TRUE /\ starts' = starts + 1
    /\ stopping' = FALSE
    /\ due' = Jobs /\ todo' = {} /\ current' = Nothing /\ stage' = Nothing
    /\ recovered' = {} /\ row' = "none" /\ ran' = {}
    /\ UNCHANGED open

(* A start that fails exits before the scheduler runs; another follows.     *)
StartFails ==
    /\ ~up /\ starts + 1 < MaxStarts
    /\ starts' = starts + 1
    /\ UNCHANGED <<up, stopping, due, todo, current, stage, recovered, row, open, ran>>

Down ==
    /\ up' = FALSE
    /\ stopping' = FALSE /\ due' = {} /\ todo' = {}
    /\ current' = Nothing /\ stage' = Nothing
    /\ recovered' = {} /\ row' = "none" /\ ran' = {}
    /\ UNCHANGED starts

(* Killed in the middle of anything: a running record stays as it is.       *)
Crash ==
    /\ up /\ starts < MaxStarts
    /\ open' = open \cup Abandoned
    /\ Down

Signal ==
    /\ up /\ ~stopping /\ starts < MaxStarts
    /\ stopping' = TRUE
    /\ UNCHANGED <<up, starts, due, todo, current, stage, recovered, row, open, ran>>

-----------------------------------------------------------------------------
(* The scheduler.  A pass takes the jobs that are due when it begins; the   *)
(* stop event is looked at between passes only.                              *)
BeginPass ==
    /\ up /\ ~stopping /\ ~InPass /\ due # {}
    /\ todo' = due
    /\ UNCHANGED <<up, stopping, starts, due, current, stage, recovered, row, open, ran>>

Exit ==
    /\ up /\ stopping /\ ~InPass
    /\ UNCHANGED open
    /\ Down

Elapse(j) ==
    /\ up /\ j \in Jobs \ due
    /\ due' = due \cup {j}
    /\ UNCHANGED <<up, stopping, starts, todo, current, stage, recovered, row, open, ran>>

(* A pass that an exception ends.                                            *)
FinishPass(j) ==
    /\ due' = due \ {j}
    /\ todo' = {}
    /\ current' = Nothing /\ stage' = Nothing /\ row' = "none"
    /\ ran' = ran \cup {j}
    /\ UNCHANGED <<up, stopping, starts>>

(* The end of a job, whatever came of it: its exception is logged, its next *)
(* run is set from now and the pass goes on.                                 *)
Finish(j) ==
    /\ due' = due \ {j}
    /\ todo' = todo \ {j}
    /\ current' = Nothing /\ stage' = Nothing /\ row' = "none"
    /\ ran' = ran \cup {j}
    /\ UNCHANGED <<up, stopping, starts>>

BeginJob(j) ==
    /\ up /\ ~Running /\ ComesNext(j)
    /\ current' = j
    /\ stage' = CASE j \in Range(Manual) -> "work"
                  [] j \in recovered     -> "begin"
                  [] OTHER               -> "recover"
    /\ UNCHANGED <<up, stopping, starts, due, todo, recovered, row, open, ran>>

(* The retirement guard skips the job of a retired scope, and its look at   *)
(* the database may raise.                                                   *)
SkipJob(j) ==
    /\ up /\ ~Running /\ ComesNext(j) /\ j \in Range(Sources)
    /\ Finish(j)
    /\ UNCHANGED <<recovered, open>>

-----------------------------------------------------------------------------
(* The run records.  A runtime's first run closes the records of its type   *)
(* that are running; where that raises, its next run tries again.            *)
RecoverRunning(type) == {r \in open : r[1] # type}

Recover ==
    /\ stage = "recover"
    /\ open' = RecoverRunning(RunType(current))
    /\ recovered' = recovered \cup {current}
    /\ stage' = "begin"
    /\ UNCHANGED <<up, stopping, starts, due, todo, current, row, ran>>

(* A runtime that notes the recovery before it has happened.                *)
RecoverMarkedFirst ==
    /\ stage = "recover"
    /\ Finish(current)
    /\ recovered' = recovered \cup {current}
    /\ UNCHANGED open

RecoverFails ==
    /\ stage = "recover"
    /\ Finish(current)
    /\ UNCHANGED <<recovered, open>>

StartRun ==
    /\ stage = "begin"
    /\ row' = "running"
    /\ stage' = "work"
    /\ UNCHANGED <<up, stopping, starts, due, todo, current, recovered, open, ran>>

(* The source is inactive or the database locked: no record; or the record  *)
(* is written and cannot be read back, and nobody fails it.                  *)
StartRunFails ==
    /\ stage = "begin"
    /\ open' \in {open, open \cup {<<RunType(current), starts>>}}
    /\ Finish(current)
    /\ UNCHANGED recovered

(* The import of a source job commits, or anything in it raises.            *)
Import ==
    /\ stage = "work" /\ current \in Range(Sources)
    /\ stage' \in {"complete", "fail"}
    /\ UNCHANGED <<up, stopping, starts, due, todo, current, recovered, row, open, ran>>

(* The manual job keeps no run records: its worker and its projector answer *)
(* for what they did, and what they raise ends the job.                      *)
ManualJob ==
    /\ stage = "work" /\ current \in Range(Manual)
    /\ Finish(current)
    /\ UNCHANGED <<recovered, open>>

(* The batch fails as a whole only where its candidates cannot be loaded.   *)
Batch ==
    /\ stage = "work" /\ current = Calendar
    /\ stage' \in {"complete", "fail"}
    /\ UNCHANGED <<up, stopping, starts, due, todo, current, recovered, row, open, ran>>

CompleteRun ==
    /\ stage = "complete"
    /\ Finish(current)
    /\ UNCHANGED <<recovered, open>>

(* The record cannot be closed, or is closed and cannot be read back.       *)
CompleteFails ==
    /\ stage = "complete"
    /\ row' \in {"running", "closed"}
    /\ stage' = "fail"
    /\ UNCHANGED <<up, stopping, starts, due, todo, current, recovered, open, ran>>

FailRun ==
    /\ stage = "fail"
    /\ open' \in {open, open \cup Abandoned}
    /\ Finish(current)
    /\ UNCHANGED recovered

-----------------------------------------------------------------------------
Init ==
    /\ up = FALSE /\ stopping = FALSE /\ starts = 0
    /\ due = {} /\ todo = {} /\ current = Nothing /\ stage = Nothing
    /\ recovered = {} /\ row = "none" /\ open = {} /\ ran = {}

JobStep ==
    \/ \E j \in Jobs : BeginJob(j) \/ SkipJob(j)
    \/ Recover \/ RecoverFails
    \/ StartRun \/ StartRunFails
    \/ Import \/ ManualJob \/ Batch
    \/ CompleteRun \/ CompleteFails \/ FailRun

Run == Start \/ BeginPass \/ JobStep \/ Exit

Next ==
    \/ Run
    \/ StartFails \/ Crash \/ Signal
    \/ \E j \in Jobs : Elapse(j)

Spec == Init /\ [][Next]_vars

(* The process executes its loop and its intervals pass; it is restarted    *)
(* when it ends; the operator's signals and the crashes come to an end.     *)
LiveSpec ==
    /\ Spec
    /\ WF_vars(Run)
    /\ \A j \in Jobs : WF_vars(Elapse(j))

-----------------------------------------------------------------------------
Stages == {Nothing, "recover", "begin", "work", "complete", "fail"}

(* Every variable has its type; a running record belongs to the job in work. *)
ServiceTypeOK ==
    /\ up \in BOOLEAN /\ stopping \in BOOLEAN /\ starts \in 0..MaxStarts
    /\ due \subseteq Jobs /\ recovered \subseteq Jobs /\ ran \subseteq Jobs
    /\ todo \subseteq due /\ current \in todo \cup {Nothing}
    /\ stage \in Stages /\ (Running <=> stage # Nothing) /\ (Running => up)
    /\ row \in {"none", "running", "closed"}
    /\ row # "none" => stage \in {"work", "complete", "fail"}
    /\ open \subseteq {"calendar_sync", "provider_import"} \X (1..MaxStarts)

(* Once a runtime of a type has run in this process, no record of that type *)
(* that an earlier process left running is running still.                   *)
OldRunsAreClosed ==
    up => \A r \in open : r[2] < starts => \A j \in recovered : RunType(j) # r[1]

(* The first batch of a process begins after every source and the manual    *)
(* import have had their turn, be it a turn that was skipped or failed.      *)
SourcesBeforeCalendar ==
    current = Calendar => Jobs \ {Calendar} \subseteq ran

(* A due job is reached: neither a job that fails, nor a provider that is   *)
(* down, nor jobs that are due again and again keep another from its turn.  *)
EveryJobRuns ==
    \A j \in Jobs :
        (up /\ ~stopping /\ j \in due) ~> (~up \/ stopping \/ j \notin due)

=============================================================================
