\* A flush of the events takes an expired restart timer with it.
CONSTANTS
    Passive = FALSE
    GracefulRestart = TRUE
    SockNameFails = FALSE
    Inputs <- NoInputs
    LocalLower = TRUE
    HoldTimeZero = FALSE
    MaxPrefix = "none"
    ConnectedOnly = FALSE
    DynamicCapability = FALSE
    Unnumbered = FALSE
    Unused = 2
    MaxBatch = 2
SPECIFICATION Spec
INVARIANTS
    NoThreadLost
CHECK_DEADLOCK FALSE
