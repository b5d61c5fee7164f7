SPECIFICATION Spec
CONSTANTS
    Students = {s1, s2, s3}
    Sections = {c1, c2}
    Rolls = {k1, k2}
    Requests = {r1, r2}
    None = None
    Unused = Unused
    Gone = Gone
SYMMETRY Symmetry
INVARIANT
    PromotedOnce
CHECK_DEADLOCK FALSE
