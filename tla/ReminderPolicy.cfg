SPECIFICATION Spec
CONSTANTS
    None = None
    Events <- MCEvents
    CompetitionOf <- MCCompetitionOf
    Deliveries <- MCDeliveries
    Writes <- MCWrites
    Clock <- MCClock
    Shift <- MCShift
    Day <- MCDay
    DefaultZone = "Vienna"
    DefaultLead = 1
    MaxDisabled = 1
INVARIANTS
    TypeOK
    ShownIsCurrent
    ResolvedAsDocumented
    NeverInQuietTime
CHECK_DEADLOCK FALSE
