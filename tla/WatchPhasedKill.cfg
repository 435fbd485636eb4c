SPECIFICATION Spec
CONSTANTS
    Daemons = {"zebra", "bgpd"}
    Zebra = "zebra"
    Mode = "MODE_PHASED_ALL_RESTART"
    DoPing = TRUE
    UnresponsiveRestart = TRUE
    MinInterval = 1
    MaxInterval = 1
    DelayedConnect = FALSE
    ConfigWrites = FALSE
    MaxPending = 2
INVARIANTS KillsOwnChild
