SPECIFICATION Spec
CONSTANTS
    e1 = e1
    e2 = e2
    kickoff = kickoff
    moved = moved
    off = off
    plain = plain
    quiet = quiet
    a1 = a1
    a2 = a2
    a3 = a3
    a4 = a4
    t1 = t1
    t2 = t2
    None = None
    Events <- OneEvent
    Rank <- OneRank
    Contents = {kickoff, moved, off}
    Cancelled = {off}
    Rules = {plain, quiet}
    Appointments = {a1, a2}
    Transactions = {t1, t2}
    Limit = 1
    Faults = {"reject", "lost", "database", "render", "crash", "user"}
    MaxRevision = 4
    MaxPresentation = 2
INVARIANTS
    NoLostUpdate
    HashIsShown
    OneAppointmentPerEvent
    DeletedMeansGone
PROPERTIES
    RetiredFrozen
    NothingAppearsForRemoved
