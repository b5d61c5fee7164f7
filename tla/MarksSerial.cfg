SPECIFICATION Spec
CONSTANTS
    Teachers = {t1}
    Coordinators = {}
    Principals = {p1}
    Students = {s1, s2}
    Scores = {v1, v2}
    Practicals = {}
    NoPractical = NoPractical
    Kinds = {"LATE_ENTRY", "EDIT"}
    Requests = {r1}
    NoMark = NoMark
    Blank = Blank
    Skip = Skip
SYMMETRY Symmetry
PROPERTY LockHolds
