SPECIFICATION Spec
CONSTANTS
    Processes = {p1, p2}
    Routes = {r1}
    Mails = {1, 2}
    Limit = 2
    Configured = {p1}
INVARIANTS
    SentIsTrue
    DuplicatesExplained
PROPERTY SettledOnce
