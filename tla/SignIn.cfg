SPECIFICATION SignInSpec
CONSTANTS
    Browsers = {b1, b2}
    Tabs = {t1, t2}
    MaxTokens = 3
    None = None
    Processes = {i1, i2}
    Requests = {r1, r2}
    NoEntry = NoEntry
    MaxVersion = 3
SYMMETRY Symmetry
INVARIANTS
    CookieSignsIn
    NoFalseAlarm
    StaleExplained
PROPERTY
    SignedOutForCause
