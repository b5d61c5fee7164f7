SPECIFICATION Spec
CONSTANTS
    t1 = t1
    t2 = t2
    d1 = d1
    d2 = d2
    Teachers = {t1, t2}
    Leaves = {l1, l2}
    Slots = {d1, d2}
    Classes = {k1, k2}
    Spans <- MCSpans
    Teaching <- MCTeaching
    Requests = {r1, r2}
    NoLeave = NoLeave
    NoCover = NoCover
    Same = Same
SYMMETRY Symmetry
PROPERTIES
    LeavesDisjoint
    SubstitutesPresent
    OrphansExplained
