SPECIFICATION Spec
CONSTANTS
    Addresses <- MCAddresses
    Safe = "safe"
    Pinned <- MCPinned
    Spenders <- MCSpenders
    ApprovalCap = 3
    ReviewAbove = 1
    Keys <- MCKeys
    Agent = "agent"
    Cosigner = "cosigner"
    Sentinel = "sentinel"
    Controller = "controller"
    Others = {"rogue"}
    PolicyBound = TRUE
    Delay = 1
    Width = 4
    MaxClock = 2
    None = None
INVARIANTS VetoIsAvailable
