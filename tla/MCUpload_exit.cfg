CONSTANTS
    b1 = b1 b2 = b2 b3 = b3
    None = None
    Bitstreams = {b1, b2}
    Events = {"watchdog", "end"}
    Interval = FALSE
    FlushAt = 1
    MaxFailures = 1
    MaxReboots = 0
SPECIFICATION FairSpec
PROPERTIES HandleExitReturns
CHECK_DEADLOCK FALSE
