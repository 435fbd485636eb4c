\* Connections from both sides, the operator and nexthop tracking.
\* Our router identifier is the lower one; hold time 0 may be asked for.
CONSTANTS
    Passive = FALSE
    GracefulRestart = FALSE
    SockNameFails = FALSE
    Inputs <- AllInputs
    LocalLower = TRUE
    HoldTimeZero = TRUE
    MaxPrefix = "none"
    ConnectedOnly = TRUE
    DynamicCapability = FALSE
    Unnumbered = TRUE
    Unused = 2
    MaxBatch = 2
SPECIFICATION Spec
INVARIANTS
    TypeOK
    OneSession
    DoppelgangerLinked
    SocketsOwned
    ClearingWillEnd
    NoThreadLost
    
    HoldTimerGuards
