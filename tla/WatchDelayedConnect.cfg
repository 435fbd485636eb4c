SPECIFICATION Spec
CONSTANTS
    Daemons = {"zebra"}
    Zebra = "zebra"
    Mode = "MODE_SEPARATE_RESTART"
    DoPing = TRUE
    UnresponsiveRestart = TRUE
    MinInterval = 1
    MaxInterval = 1
    DelayedConnect = TRUE
    ConfigWrites = FALSE
    MaxPending = 2
INVARIANTS NumDownExact
