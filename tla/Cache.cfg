SPECIFICATION FairSpec
CONSTANTS
    Processes = {p1, p2}
    Readers = {q1, q2}
    Writers = {w1}
    Loads = {x1, x2}
    MaxVersion = 2
INVARIANTS
    NoDeadPromise
    RequestReadsStable
PROPERTIES
    StaleOnlyByCrossing
    DriftEnds
