SPECIFICATION Spec
CONSTANTS
    Daemons = {"zebra"}
    Zebra = "zebra"
    Mode = "MODE_SEPARATE_RESTART"
    DoPing = FALSE
    UnresponsiveRestart = FALSE
    MinInterval = 1
    MaxInterval = 1
    DelayedConnect = TRUE
    ConfigWrites = TRUE
    MaxPending = 2
INVARIANTS KillsOwnChild NumPidsExact NumDownExact StillWatched
