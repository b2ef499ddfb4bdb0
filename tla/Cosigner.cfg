SPECIFICATION Spec
CONSTANTS
    Addresses <- MCAddresses
    Safe = "safe"
    Pinned <- MCPinned
    Spenders <- MCSpenders
    ApprovalCap = 3
    ReviewAbove = 1
    Workers = {w1, w2}
    Calls <- ReviewCalls
    Principals = {p1, p2}
    Drifts <- EitherDrifts
    ReviewTTL = 1
    AuditMayFail = TRUE
    SignerMayFail = TRUE
    MaxClock = 1
    MaxNonce = 1
    Idle = Idle
    Free = Free
SYMMETRY Symmetry
INVARIANTS BurntMeansSigned SignedIsBounded SignedIsRecorded
PROPERTIES SignatureIsApproved HeldReviewIsKept ImplementsOneCosignature
