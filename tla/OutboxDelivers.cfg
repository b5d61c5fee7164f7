SPECIFICATION FairSpec
CONSTANTS
    Processes = {p1}
    Routes = {r1}
    Mails = {1, 2}
    Limit = 1
    Configured = {p1}
PROPERTY EveryMailSettled
