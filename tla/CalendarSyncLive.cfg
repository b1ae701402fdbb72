SPECIFICATION FairSpec
CONSTANTS
    e1 = e1
    e2 = e2
    kickoff = kickoff
    moved = moved
    off = off
    plain = plain
    quiet = quiet
    a1 = a1
    a2 = a2
    a3 = a3
    a4 = a4
    t1 = t1
    t2 = t2
    None = None
    Events <- TwoEvents
    Rank <- TwoRank
    Contents = {kickoff, moved}
    Cancelled = {}
    Rules = {plain}
    Appointments = {a1, a2, a3, a4}
    Transactions = {t1, t2}
    Limit = 1
    Faults = {"reject"}
    MaxRevision = 3
    MaxPresentation = 1
PROPERTIES
    EventuallySettled
