SPECIFICATION Spec
CONSTANTS
    Currencies <- MCCurrencies
    Accounts <- MCAccounts
    Covered <- MCCovered
    Limits <- WithBand
    WindowSeconds = 1
    IntentTTL = 1
    ReviewTTL = 3
    Workers = {w1, w2}
    Handles = {h1, h2}
    Requests <- OneAmount
    Answers = {TRUE, FALSE}
    AuditMayFail = FALSE
    MaxClock = 3
    Idle = Idle
    Free = Free
SYMMETRY Symmetry
PROPERTIES DeclineIsFinal
