\* getsockname fails while a connection moves between the two peers.
CONSTANTS
    Passive = FALSE
    GracefulRestart = FALSE
    SockNameFails = TRUE
    Inputs <- CollisionInputs
    LocalLower = TRUE
    HoldTimeZero = FALSE
    MaxPrefix = "none"
    ConnectedOnly = FALSE
    DynamicCapability = FALSE
    Unnumbered = FALSE
    Unused = 2
    MaxBatch = 2
SPECIFICATION Spec
INVARIANTS
    NeverStuck
