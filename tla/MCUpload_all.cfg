CONSTANTS
    b1 = b1 b2 = b2 b3 = b3
    None = None
    Bitstreams = {b1, b2, b3}
    Events = {"watchdog", "unplug", "zero", "reboot", "end"}
    Interval = TRUE
    FlushAt = 1
    MaxFailures = 2
    MaxReboots = 2
SPECIFICATION FairSpec
INVARIANTS TypeOK NothingLost OneState
PROPERTIES ServiceSpec ResultsDelivered
CHECK_DEADLOCK FALSE
