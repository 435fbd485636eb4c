SPECIFICATION Spec
CONSTANTS
    Daemons = {"zebra", "bgpd"}
    Zebra = "zebra"
    Mode = "MODE_GLOBAL_RESTART"
    DoPing = TRUE
    UnresponsiveRestart = TRUE
    MinInterval = 1
    MaxInterval = 2
    DelayedConnect = FALSE
    ConfigWrites = FALSE
    MaxPending = 2
INVARIANTS TypeOK NumDownExact StillWatched UnresponsiveCancelled
PROPERTIES ReadyMeansAllUp RestartsKeepComing HungJobsEnd
