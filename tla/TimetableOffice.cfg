SPECIFICATION OfficeSpec
CONSTANTS
    Teachers = {t1, t2}
    d1 = d1
    d2 = d2
    p1 = p1
    p2 = p2
    k1 = k1
    k2 = k2
    Classes = {k1, k2}
    Dates = {d1, d2}
    Periods = {p1, p2}
    PeriodCount = 3
    Vacated <- MCVacated
    MaxPeriods = 3
    Length = 2
    Recess = {2}
    Numberings <- MCNumberings
    Sections = {k1}
    Entries = {e1, e2}
    Requests = {r1, r2}
    New = New
    Same = Same
    Unused = Unused
    Gone = Gone
SYMMETRY Symmetry
INVARIANTS
    PickedAreFree
    ReusedOnlyOfNeed
    UncoveredOfNeed
    BreakClassesExplained
PROPERTIES
    SeededOnlyWhenEmpty
    SavedAsSent
CHECK_DEADLOCK FALSE
