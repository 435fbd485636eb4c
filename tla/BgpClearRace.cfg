\* Shutdown during a restart, then no shutdown.
CONSTANTS
    Passive = FALSE
    GracefulRestart = TRUE
    SockNameFails = FALSE
    Inputs <- AdminInputs
    LocalLower = TRUE
    HoldTimeZero = FALSE
    MaxPrefix = "none"
    ConnectedOnly = FALSE
    DynamicCapability = FALSE
    Unnumbered = FALSE
    Unused = 2
    MaxBatch = 2
SPECIFICATION Spec
INVARIANTS
    ClearedBeforeSession
CHECK_DEADLOCK FALSE
