CONSTANTS
    m1 = m1 m2 = m2
    Messages = {m1, m2}
    MaxSockets = 2
    MaxSessions = 3
    Timeouts = TRUE
    Overlap = TRUE
    Raises = TRUE
SPECIFICATION FairSpec
INVARIANTS TypeOK Kept EmittedOnce
PROPERTIES Delivered
CHECK_DEADLOCK FALSE
