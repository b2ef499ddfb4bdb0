SPECIFICATION Spec
CONSTANTS
    Handles = {h}
    Proposals = {p, q}
    NoProposal = NoProposal
    Conns = {k1, k2}
    Idle = Idle
    Free = Free
    Candidates = {"shipped", "minimal", "dialect_blind", "optimist"}
    AuditMayFail = TRUE
    MaxLife = 2
SYMMETRY Symmetry
INVARIANTS CompletedMovedMoney OneCallPerKey SentInItsOwnLife
CONSTRAINT LossesEndTheRun
