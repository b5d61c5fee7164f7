SPECIFICATION Spec
CONSTANTS
    Teachers = {t1, t2}
    d1 = d1
    d2 = d2
    p1 = p1
    p2 = p2
    k1 = k1
    k2 = k2
    Classes = {k1, k2}
    Dates = {d1, d2}
    Periods = {p1, p2}
    PeriodCount = 3
    Vacated <- MCVacated
INVARIANT PickedTeachNothing
CHECK_DEADLOCK FALSE
