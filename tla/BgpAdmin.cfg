\* Shutdown, clear, the prefix limit and nexthop tracking, one connection.
CONSTANTS
    Passive = FALSE
    GracefulRestart = FALSE
    SockNameFails = FALSE
    Inputs <- SuppressInputs
    LocalLower = TRUE
    HoldTimeZero = FALSE
    MaxPrefix = "restart"
    ConnectedOnly = FALSE
    DynamicCapability = TRUE
    Unnumbered = FALSE
    Unused = 2
    MaxBatch = 2
SPECIFICATION FairSpec
INVARIANTS
    NoSessionIfSuppressed
PROPERTIES
    ClearingEnds
