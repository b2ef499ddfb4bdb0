SPECIFICATION FairSpec
CONSTANTS
    Currencies <- MCCurrencies
    Accounts <- MCAccounts
    Covered <- MCCovered
    Limits <- WithBand
    WindowSeconds = 1
    IntentTTL = 1
    ReviewTTL = 1
    Workers = {w1, w2}
    Handles = {h1}
    Requests <- WithUnmappable
    Answers = {TRUE}
    AuditMayFail = TRUE
    MaxClock = 1
    Idle = Idle
    Free = Free
INVARIANTS AtMostOnce
PROPERTIES DispatchIsAuthorized Drains
