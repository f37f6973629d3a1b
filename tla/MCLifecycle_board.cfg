CONSTANTS
    MaxObjects = 3
    MaxReservations = 1
    MaxFailures = 1
SPECIFICATION FairSpec
INVARIANTS TypeOK RightFirmware OneDriver AvailableIsReady
PROPERTIES StatusSettles HealthyIsReady
CHECK_DEADLOCK FALSE
