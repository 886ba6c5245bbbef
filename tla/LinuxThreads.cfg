SPECIFICATION FairSpec
CONSTANTS
    Devices <- TwoDevices
    Fds <- TwoFds
    Senders <- OneSender
    None = "none"
    DiscoveryCallback = FALSE
CHECK_DEADLOCK FALSE
INVARIANTS
    TypeOK
    SocketsMatch
    OneCloser
    WritesMatch
PROPERTIES
    HungUpClosed
