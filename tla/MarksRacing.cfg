SPECIFICATION Spec
CONSTANTS
    Teachers = {t1}
    Coordinators = {c1}
    Principals = {}
    Students = {s1}
    Scores = {v1, v2}
    Practicals = {n1}
    NoPractical = NoPractical
    Kinds = {"EDIT"}
    Requests = {r1, r2}
    NoMark = NoMark
    Blank = Blank
    Skip = Skip
SYMMETRY Symmetry
PROPERTIES
    ApprovedOnlyByLeadership
    AuditLostOnlyByFailure
    LifecycleSpec
