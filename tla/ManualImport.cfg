SPECIFICATION Spec
CONSTANTS
    draw = draw
    first = first
    second = second
    None = None
    Tasks = {1}
    Contents = {draw}
    Ids = {1, 2, 3}
    Plans <- MCPlans
    Limit = 1
    Faults = {}
    MaxChanges = 1
    Packages = {first, second}
    Submission <- MCSubmission
    PlanOf <- MCPlanOf
    Unacceptable <- MCUnacceptable
    Names <- MCNames
    Strays <- MCStrays
    PerRun = 1
    ImportFaults = {"busy", "conflict", "differs", "died"}
    MaxDatabase = 1
INVARIANTS
    ResultIsCurrent
PROPERTIES
    AppliedAsReviewed
    EventuallyAnswered
