SPECIFICATION OfficeSpec
CONSTANTS
    u1 = u1
    u2 = u2
    p1 = p1
    p2 = p2
    i1 = i1
    i2 = i2
    Users = {u1, u2}
    Papers = {q1}
    Requests = {r1, r2}
    NoUser = NoUser
    Gone = Gone
    None = None
    Pupils = {p1, p2}
    Files = {f1, f2, f3}
    NoPhoto = NoPhoto
    Hollow = Hollow
    Unused = Unused
    Ids = {i1, i2}
    Students = {}
    Sections = {v1}
    Rolls = {}
    Takers = {t1}
SYMMETRY Symmetry
INVARIANT
    EnrolledAsSaved
PROPERTIES
    LastPrincipalStays
    PapersHandedOver
    PhotoLostOnlyByFailure
    UnusedDropped
CHECK_DEADLOCK FALSE
