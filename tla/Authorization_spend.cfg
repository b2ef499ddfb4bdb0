SPECIFICATION Spec
CONSTANTS
    Currencies <- MCCurrencies
    Accounts <- MCAccounts
    Covered <- MCCovered
    Limits <- NoBand
    WindowSeconds = 1
    IntentTTL = 1
    ReviewTTL = 2
    Workers = {w1, w2}
    Handles = {h1, h2}
    Requests <- TwoAmounts
    Answers = {}
    AuditMayFail = FALSE
    MaxClock = 3
    Idle = Idle
    Free = Free
SYMMETRY Symmetry
INVARIANTS TypeOK WithinCap SpendIsCounted MovedWithinCap AnswersAreTrue ReceiptsAreTrue
PROPERTIES VerdictsOnlyTighten
