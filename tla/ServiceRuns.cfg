SPECIFICATION LiveSpec
CONSTANTS
    Sources <- MCSources
    Manual <- MCManual
    Calendar = "calendar"
    MaxStarts = 3
INVARIANTS
    OldRunsAreClosed
    SourcesBeforeCalendar
PROPERTIES
    EveryJobRuns
