\* Shutdown while two connections are being opened.
CONSTANTS
    Passive = FALSE
    GracefulRestart = FALSE
    SockNameFails = FALSE
    Inputs <- AllInputs
    LocalLower = TRUE
    HoldTimeZero = FALSE
    MaxPrefix = "none"
    ConnectedOnly = FALSE
    DynamicCapability = FALSE
    Unnumbered = FALSE
    Unused = 2
    MaxBatch = 2
SPECIFICATION Spec
INVARIANTS
    NoSessionIfSuppressed
