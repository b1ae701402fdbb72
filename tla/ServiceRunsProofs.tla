-------------------------- MODULE ServiceRunsProofs --------------------------
(***************************************************************************)
(* Proofs about ServiceRuns for every list of sources and any number of    *)
(* starts.                                                                  *)
(***************************************************************************)
EXTENDS ServiceRuns, TLAPS

(* A process that is up has been started.                                   *)
Started == up => starts \in 1..MaxStarts

(* A job that has not had its turn is due, and in the pass if there is one. *)
WaitsForTurn ==
    /\ up => Jobs \ ran \subseteq due
    /\ InPass => Jobs \ ran \subseteq todo

IInv ==
    /\ ServiceTypeOK
    /\ Started
    /\ WaitsForTurn
    /\ OldRunsAreClosed
    /\ SourcesBeforeCalendar

(* What a step of the current job finds.                                    *)
LEMMA AtWork ==
    ASSUME ServiceTypeOK, Started, stage \in Stages \ {Nothing}
    PROVE  /\ up /\ current \in todo /\ current \in Jobs /\ current # Nothing
           /\ starts \in 1..MaxStarts
BY DEF ServiceTypeOK, Started, Running

(* The calendar is the last of the scheduled jobs and only there.           *)
LEMMA CalendarIsLast ==
    /\ Calendar \in Jobs
    /\ \A i \in DOMAIN Scheduled : Scheduled[i] = Calendar => i = Len(Scheduled)
    /\ \A j \in Jobs : \E k \in 1..Len(Scheduled) : Scheduled[k] = j
    /\ Len(Scheduled) \in Nat
<1>1. Sources \in Seq(Range(Sources)) /\ Manual \in Seq(Range(Manual))
  BY SequenceAssumption
<1> DEFINE S == Sources \o Manual
           All == Range(Sources) \cup Range(Manual) \cup {Calendar}
<1>2. /\ Sources \in Seq(All) /\ Manual \in Seq(All)
  BY <1>1
<1>3. S \in Seq(All) /\ <<Calendar>> \in Seq(All) /\ Len(<<Calendar>>) = 1
      /\ <<Calendar>>[1] = Calendar
  BY <1>2
<1> HIDE DEF S, All
<1>4. /\ S \o <<Calendar>> \in Seq(All)
      /\ Len(S \o <<Calendar>>) = Len(S) + 1
      /\ Len(S) \in Nat
      /\ (S \o <<Calendar>>)[Len(S) + 1] = Calendar
  BY <1>3
<1>5. Scheduled = S \o <<Calendar>>
  BY DEF Scheduled, S
<1>6. /\ DOMAIN Scheduled = 1..Len(Scheduled) /\ Len(Scheduled) \in Nat
      /\ Len(Scheduled) \in DOMAIN Scheduled
      /\ Scheduled[Len(Scheduled)] = Calendar
  BY <1>4, <1>5
<1> QED
  BY <1>6, KeyAssumption DEF Jobs, Range

LEMMA InitialStates == Init => IInv
<1> SUFFICES ASSUME Init PROVE IInv
  OBVIOUS
<1>1. ServiceTypeOK
  <2>1. stage = Nothing /\ current = Nothing /\ Nothing \in Stages
    BY DEF Init, Stages
  <2>2. /\ stage \in Stages /\ (Running <=> stage # Nothing) /\ (Running => up)
        /\ current \in todo \cup {Nothing}
    BY <2>1 DEF Running
  <2>3. 0 \in 0..MaxStarts
    BY BoundAssumption
  <2> QED
    BY <2>2, <2>3 DEF Init, ServiceTypeOK
<1>2. Started /\ WaitsForTurn /\ OldRunsAreClosed
  BY DEF Init, Started, WaitsForTurn, OldRunsAreClosed, InPass
<1>3. SourcesBeforeCalendar
  BY CalendarIsLast, NothingAssumption DEF Init, SourcesBeforeCalendar
<1> QED
  BY <1>1, <1>2, <1>3 DEF IInv

-----------------------------------------------------------------------------
(* The end of a job.                                                        *)
LEMMA FinishKeeps ==
    ASSUME ServiceTypeOK, Started, WaitsForTurn, SourcesBeforeCalendar,
           up, NEW j \in todo, Finish(j), j = current \/ current = Nothing,
           recovered' \subseteq Jobs,
           open' \subseteq {"calendar_sync", "provider_import"} \X (1..MaxStarts)
    PROVE  ServiceTypeOK' /\ Started' /\ WaitsForTurn' /\ SourcesBeforeCalendar'
<1>1. ServiceTypeOK'
  BY DEF ServiceTypeOK, Finish, Running, Stages
<1>2. Started' /\ WaitsForTurn'
  BY DEF Started, WaitsForTurn, Finish, InPass
<1>3. SourcesBeforeCalendar'
  BY CalendarIsLast, NothingAssumption DEF Finish, SourcesBeforeCalendar
<1> QED
  BY <1>1, <1>2, <1>3

(* The first of the rest of a pass is the calendar only when every other    *)
(* job has had its turn.                                                     *)
LEMMA CalendarComesLast ==
    ASSUME ServiceTypeOK, WaitsForTurn, ComesNext(Calendar)
    PROVE  Jobs \ {Calendar} \subseteq ran
<1>1. \A k \in 1..Len(Scheduled) - 1 : Scheduled[k] \notin todo
  BY CalendarIsLast DEF ComesNext
<1>2. Calendar \in todo
  BY DEF ComesNext
<1>3. Jobs \ ran \subseteq todo
  BY <1>2 DEF WaitsForTurn, InPass
<1>4. ASSUME NEW j \in Jobs \ {Calendar} PROVE j \in ran
  <2>1. PICK k \in 1..Len(Scheduled) : Scheduled[k] = j
    BY CalendarIsLast
  <2>2. PICK i \in DOMAIN Scheduled : Scheduled[i] = Calendar
    BY DEF ComesNext
  <2>3. i = Len(Scheduled)
    BY <2>2, CalendarIsLast
  <2>4. k # Len(Scheduled)
    BY <2>1, <2>2, <2>3, <1>4
  <2> QED
    BY <2>1, <2>4, <1>1, <1>3, CalendarIsLast
<1> QED
  BY <1>4

-----------------------------------------------------------------------------
LEMMA Steps ==
    ASSUME IInv, [Next]_vars
    PROVE  IInv'
<1> USE DEF IInv
<1> DEFINE Types == {"calendar_sync", "provider_import"}
<1>t. RunType(current) \in Types
  BY DEF RunType
<1>1. CASE Start
  <2>1. /\ up' \in BOOLEAN /\ stopping' \in BOOLEAN /\ starts' \in 1..MaxStarts
        /\ stage' = Nothing /\ current' = Nothing /\ Nothing \in Stages
        /\ todo' = {} /\ due' = Jobs /\ recovered' = {} /\ ran' = {}
        /\ row' = "none" /\ open' = open
    <3>1. starts' \in 1..MaxStarts
      BY <1>1, BoundAssumption DEF Start, ServiceTypeOK
    <3>2. up' \in BOOLEAN /\ stopping' \in BOOLEAN /\ Nothing \in Stages
      BY <1>1 DEF Start, Stages
    <3> QED
      BY <1>1, <3>1, <3>2 DEF Start
  <2>0. ServiceTypeOK' /\ Started'
    <3>1. starts' \in 0..MaxStarts /\ Started'
      BY <2>1, BoundAssumption DEF Started
    <3>2. open' \subseteq Types \X (1..MaxStarts)
      BY <2>1 DEF ServiceTypeOK
    <3>3. (Running <=> stage # Nothing)' /\ (Running => up)'
      BY <2>1 DEF Running
    <3>4. row' = "none" => row' \in {"none", "running", "closed"}
      OBVIOUS
    <3> QED
      BY <2>1, <3>1, <3>2, <3>3, <3>4 DEF ServiceTypeOK
  <2>2. WaitsForTurn' /\ OldRunsAreClosed'
    BY <1>1 DEF Start, WaitsForTurn, OldRunsAreClosed, InPass
  <2>3. SourcesBeforeCalendar'
    BY <1>1, CalendarIsLast, NothingAssumption DEF Start, SourcesBeforeCalendar
  <2> QED
    BY <2>0, <2>2, <2>3
<1>2. CASE StartFails
  <2>1. ServiceTypeOK' /\ Started'
    BY <1>2, BoundAssumption
       DEF StartFails, ServiceTypeOK, Started, Running, Stages
  <2>2. WaitsForTurn' /\ OldRunsAreClosed' /\ SourcesBeforeCalendar'
    BY <1>2 DEF StartFails, WaitsForTurn, OldRunsAreClosed, SourcesBeforeCalendar,
                InPass
  <2> QED
    BY <2>1, <2>2
<1>3. ASSUME Down, open' = open \/ (up /\ open' = open \cup Abandoned)
      PROVE  IInv'
  <2>1. open' \subseteq Types \X (1..MaxStarts)
    BY <1>3, <1>t DEF Abandoned, ServiceTypeOK, Started
  <2>2. ServiceTypeOK' /\ Started'
    BY <1>3, <2>1 DEF Down, ServiceTypeOK, Started, Running, Stages
  <2>3. WaitsForTurn' /\ OldRunsAreClosed'
    BY <1>3 DEF Down, WaitsForTurn, OldRunsAreClosed, InPass
  <2>4. SourcesBeforeCalendar'
    BY <1>3, CalendarIsLast, NothingAssumption DEF Down, SourcesBeforeCalendar
  <2> QED
    BY <2>2, <2>3, <2>4
<1>4. CASE Signal
  BY <1>4 DEF Signal, ServiceTypeOK, Started, WaitsForTurn, OldRunsAreClosed,
              SourcesBeforeCalendar, Running, InPass
<1>5. CASE BeginPass
  <2>1. ServiceTypeOK' /\ Started'
    BY <1>5 DEF BeginPass, ServiceTypeOK, Started, Running, InPass
  <2>2. WaitsForTurn' /\ OldRunsAreClosed' /\ SourcesBeforeCalendar'
    BY <1>5 DEF BeginPass, WaitsForTurn, OldRunsAreClosed, SourcesBeforeCalendar
  <2> QED
    BY <2>1, <2>2
<1>6. ASSUME NEW j \in Jobs, Elapse(j)
      PROVE  IInv'
  <2>1. ServiceTypeOK' /\ Started'
    BY <1>6 DEF Elapse, ServiceTypeOK, Started, Running
  <2>2. WaitsForTurn' /\ OldRunsAreClosed' /\ SourcesBeforeCalendar'
    BY <1>6 DEF Elapse, WaitsForTurn, OldRunsAreClosed, SourcesBeforeCalendar,
                InPass
  <2> QED
    BY <2>1, <2>2
<1>7. ASSUME NEW j \in Jobs, BeginJob(j)
      PROVE  IInv'
  <2>1. j \in todo
    BY <1>7 DEF BeginJob, ComesNext
  <2>2. ServiceTypeOK' /\ Started'
    BY <1>7, <2>1, NothingAssumption
       DEF BeginJob, ServiceTypeOK, Started, Running, Stages, Nothing
  <2>3. WaitsForTurn' /\ OldRunsAreClosed'
    BY <1>7 DEF BeginJob, WaitsForTurn, OldRunsAreClosed, InPass
  <2>4. SourcesBeforeCalendar'
    BY <1>7, CalendarComesLast DEF BeginJob, SourcesBeforeCalendar
  <2> QED
    BY <2>2, <2>3, <2>4
<1>8. ASSUME NEW j \in todo, up, Finish(j), j = current \/ current = Nothing,
             recovered' = recovered,
             \E new \in SUBSET (Types \X {starts}) : open' = open \cup new
      PROVE  IInv'
  <2>1. PICK new \in SUBSET (Types \X {starts}) : open' = open \cup new
    BY <1>8
  <2>2. open' \subseteq Types \X (1..MaxStarts)
    BY <1>8, <2>1 DEF ServiceTypeOK, Started
  <2>3. recovered' \subseteq Jobs
    BY <1>8 DEF ServiceTypeOK
  <2>4. ServiceTypeOK' /\ Started' /\ WaitsForTurn' /\ SourcesBeforeCalendar'
    BY <1>8, <2>2, <2>3, FinishKeeps
  <2>5. OldRunsAreClosed'
    <3>1. up' = up /\ starts' = starts /\ recovered' = recovered
      BY <1>8 DEF Finish
    <3>2. \A r \in new : r[2] = starts
      BY <2>1
    <3>3. starts \in Nat
      BY DEF ServiceTypeOK
    <3> QED
      BY <2>1, <3>1, <3>2, <3>3 DEF OldRunsAreClosed
  <2> QED
    BY <2>4, <2>5
<1> DEFINE KeptOpen == \E new \in SUBSET (Types \X {starts}) : open' = open \cup new
<1>9. /\ open' = open => KeptOpen
      /\ open' = open \cup {<<RunType(current), starts>>} => KeptOpen
      /\ open' = open \cup Abandoned => KeptOpen
  <2>1. open' = open => KeptOpen
    <3>1. open' = open => open' = open \cup {}
      OBVIOUS
    <3>2. {} \in SUBSET (Types \X {starts})
      OBVIOUS
    <3> QED
      BY <3>1, <3>2, Zenon
  <2>2. open' = open \cup {<<RunType(current), starts>>} => KeptOpen
    <3>1. {<<RunType(current), starts>>} \in SUBSET (Types \X {starts})
      BY <1>t
    <3> QED
      BY <3>1, Zenon
  <2>3. open' = open \cup Abandoned => KeptOpen
    BY <2>1, <2>2 DEF Abandoned
  <2> QED
    BY <2>1, <2>2, <2>3
<1>10. ASSUME NEW j \in Jobs, SkipJob(j)
       PROVE  IInv'
  <2>1. /\ j \in todo /\ up /\ Finish(j) /\ current = Nothing
        /\ recovered' = recovered /\ KeptOpen
    BY <1>10, <1>9 DEF SkipJob, ComesNext, Running
  <2> QED
    BY <1>8, <2>1
<1>11. ASSUME stage \in Stages \ {Nothing}, Finish(current), recovered' = recovered,
              KeptOpen
       PROVE  IInv'
  <2>1. current \in todo /\ up
    BY <1>11, AtWork
  <2> QED
    BY <1>8, <1>11, <2>1
<1>12. CASE Recover
  <2>1. up /\ current \in todo /\ current \in Jobs
    BY <1>12, AtWork DEF Recover, Stages, Nothing
  <2>2. ServiceTypeOK' /\ Started'
    BY <1>12, <2>1
       DEF Recover, RecoverRunning, ServiceTypeOK, Started, Running, Stages, Nothing
  <2>3. WaitsForTurn' /\ SourcesBeforeCalendar'
    BY <1>12 DEF Recover, WaitsForTurn, SourcesBeforeCalendar, InPass
  <2>4. OldRunsAreClosed'
    BY <1>12, <2>1 DEF Recover, RecoverRunning, OldRunsAreClosed
  <2> QED
    BY <2>2, <2>3, <2>4
<1>13. ASSUME stage \in Stages \ {Nothing}, stage' \in {"work", "complete", "fail"},
              row' \in {"none", "running", "closed"},
              UNCHANGED <<up, stopping, starts, due, todo, current, recovered, open,
                          ran>>
       PROVE  IInv'
  <2>1. ServiceTypeOK' /\ Started'
    BY <1>13 DEF ServiceTypeOK, Started, Running, Stages, Nothing
  <2>2. WaitsForTurn' /\ OldRunsAreClosed' /\ SourcesBeforeCalendar'
    BY <1>13 DEF WaitsForTurn, OldRunsAreClosed, SourcesBeforeCalendar, InPass
  <2> QED
    BY <2>1, <2>2
<1>14. CASE RecoverFails
  BY <1>14, <1>11, <1>9 DEF RecoverFails, Stages, Nothing
<1>15. CASE StartRun
  BY <1>15, <1>13 DEF StartRun, Stages, Nothing
<1>16. CASE StartRunFails
  BY <1>16, <1>11, <1>9 DEF StartRunFails, Stages, Nothing
<1>17. CASE Import \/ Batch
  <2>1. row \in {"none", "running", "closed"}
    BY DEF ServiceTypeOK
  <2> QED
    BY <1>17, <1>13, <2>1 DEF Import, Batch, Stages, Nothing
<1>18. CASE ManualJob
  BY <1>18, <1>11, <1>9 DEF ManualJob, Stages, Nothing
<1>19. CASE CompleteRun
  BY <1>19, <1>11, <1>9 DEF CompleteRun, Stages, Nothing
<1>20. CASE CompleteFails
  BY <1>20, <1>13 DEF CompleteFails, Stages, Nothing
<1>21. CASE FailRun
  BY <1>21, <1>11, <1>9 DEF FailRun, Stages, Nothing
<1>22. CASE UNCHANGED vars
  BY <1>22 DEF vars, ServiceTypeOK, Started, WaitsForTurn, OldRunsAreClosed,
               SourcesBeforeCalendar, Running, InPass
<1>23. CASE Crash \/ Exit
  BY <1>23, <1>3 DEF Crash, Exit
<1> QED
  BY <1>1, <1>2, <1>4, <1>5, <1>6, <1>7, <1>10, <1>12, <1>14, <1>15, <1>16,
     <1>17, <1>18, <1>19, <1>20, <1>21, <1>22, <1>23
     DEF Next, Run, JobStep

-----------------------------------------------------------------------------
(* The invariant the three properties follow from: what the runtimes have   *)
(* closed, and which jobs still wait for their first turn.                   *)
THEOREM Inductive == Spec => []IInv
<1>1. IInv /\ [Next]_vars => IInv'
  BY Steps
<1> QED
  BY InitialStates, <1>1, PTL DEF Spec

(* The variables keep their types.                                          *)
THEOREM TypeCorrect == Spec => []ServiceTypeOK
<1>1. IInv => ServiceTypeOK
  BY DEF IInv
<1> QED
  BY Inductive, <1>1, PTL

(* Once a runtime of a type has run, no interrupted run of that type is     *)
(* left running, over any number of crashes.                                 *)
THEOREM InterruptedRunsAreClosed == Spec => []OldRunsAreClosed
<1>1. IInv => OldRunsAreClosed
  BY DEF IInv
<1> QED
  BY Inductive, <1>1, PTL

(* The first batch of a process follows every source's first turn.          *)
THEOREM CalendarAfterSources == Spec => []SourcesBeforeCalendar
<1>1. IInv => SourcesBeforeCalendar
  BY DEF IInv
<1> QED
  BY Inductive, <1>1, PTL

=============================================================================
