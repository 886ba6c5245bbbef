SPECIFICATION FairSpec
CONSTANTS
    Peripherals <- OnePeripheral
    Centrals <- OneCentral
    MaxPowerOffs = 1
CHECK_DEADLOCK FALSE
INVARIANTS
    TypeOK
    QuietAfterStop
    OwnConnection
PROPERTIES
    ExitEnds
    EveryoneAnnounced
