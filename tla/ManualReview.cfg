SPECIFICATION ReviewSpec
CONSTANTS
    draw = draw
    time = time
    None = None
    Tasks = {1, 2}
    Contents = {draw, time}
    Ids = {1, 2, 3, 4, 5, 6, 7, 8}
    Plans <- MCPlans
    Limit = 1
    Faults = {"refused", "lost", "died", "unrecorded", "user"}
    MaxChanges = 3
INVARIANTS
    AppointmentsAreKnown
    AppliedIsShown
PROPERTY
    EventuallyProjected
