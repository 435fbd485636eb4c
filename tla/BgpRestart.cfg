\* Graceful restart of a neighbour that may connect first; getsockname may
\* fail.  Our router identifier is the higher one.  A state in which everything
\* waits for a thread that was lost is reachable (BgpThreadLost).
CONSTANTS
    Passive = FALSE
    GracefulRestart = TRUE
    SockNameFails = TRUE
    Inputs <- CollisionInputs
    LocalLower = FALSE
    HoldTimeZero = FALSE
    MaxPrefix = "none"
    ConnectedOnly = FALSE
    DynamicCapability = FALSE
    Unnumbered = FALSE
    Unused = 1
    MaxBatch = 2
SPECIFICATION Spec
INVARIANTS
    DoppelgangerLinked
    SocketsOwned
    ClearedBeforeSession
    NoOldRoutes
    StaleCanGo
PROPERTIES
    KeptThroughRestart
CHECK_DEADLOCK FALSE
