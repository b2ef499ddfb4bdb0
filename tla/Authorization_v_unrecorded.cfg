SPECIFICATION Spec
CONSTANTS
    Currencies <- MCCurrencies
    Accounts <- MCAccounts
    Covered <- MCCovered
    Limits <- WithBand
    WindowSeconds = 1
    IntentTTL = 1
    ReviewTTL = 2
    Workers = {w1}
    Handles = {h1}
    Requests <- OneAmount
    Answers = {TRUE, FALSE}
    AuditMayFail = TRUE
    MaxClock = 3
    Idle = Idle
    Free = Free
SYMMETRY Symmetry
INVARIANTS DispatchesAreRecorded
