SPECIFICATION AuthoritySpec
CONSTANTS
    a = a
    b = b
    r = r
    m = m
    s = s
    t = t
    group = group
    final = final
    e1 = e1
    e2 = e2
    None = None
    Jobs = {a, b, r}
    Namespaces = {m}
    Stages = {group, final}
    Events = {e1, e2}
    Ends = {0, 1}
    MaxDay = 1
    Source <- MCSource
    Rank <- MCRank
    Writer <- MCWriter
    Settings <- MCSettings
    Decisions <- MCDecisions
INVARIANTS
    OneWriterPerStage
    RetiredIsFinished
    PossibleIsAccepted
PROPERTY
    RetiredHistoryStands
