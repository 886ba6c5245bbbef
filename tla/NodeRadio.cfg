SPECIFICATION FairSpec
CONSTANTS
    Peripherals <- OnePeripheral
    Centrals <- NoCentral
    MaxPowerOffs = 0
CHECK_DEADLOCK FALSE
PROPERTY
    RadioStarts
