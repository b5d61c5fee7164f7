SPECIFICATION OfficeSpec
CONSTANTS
    Keys = {k1, k2}
    Dates = {1, 2}
    Ceilings = {c1, c2}
    Schedules <- MCSchedules
    Requests = {r1, r2}
    NoDate = NoDate
    Keep = Keep
    Students = {s1, s2}
    Values = {v1, v2}
    NoRelease = NoRelease
    NoMark = NoMark
    NoRequest = NoRequest
    None = None
    MaxMails = 2
    p1 = p1
    p2 = p2
    p3 = p3
    Pupils = {p1, p2, p3}
    m1 = m1
    m2 = m2
    Core = {m1}
    Electives = {m2}
    Sections <- MCSections
    Scores = {0, 2}
    EntryMax <- MCEntryMax
    Ceiling = 2
SYMMETRY Symmetry
INVARIANTS
    DateFollowsPapers
    SavedAsAsked
    NotifiedMeansQueued
    CompletedMarkStands
    RanksAsDefined
    ReadyMeansApproved
PROPERTIES
    LockedCeilingMovesEarlyOnly
    LifecycleSpec
    RaiseNeverHurts
CHECK_DEADLOCK FALSE
