SPECIFICATION Spec
CONSTANTS
    Daemons = {"zebra", "bgpd"}
    Zebra = "zebra"
    Mode = "MODE_SEPARATE_RESTART"
    DoPing = FALSE
    UnresponsiveRestart = FALSE
    MinInterval = 1
    MaxInterval = 1
    DelayedConnect = FALSE
    ConfigWrites = FALSE
    MaxPending = 2
PROPERTIES Reaped
