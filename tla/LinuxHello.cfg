SPECIFICATION FairSpec
CONSTANTS
    Devices <- OneDevice
    Fds <- TwoFds
    Senders <- OneSender
    None = "none"
    DiscoveryCallback = TRUE
CHECK_DEADLOCK FALSE
PROPERTY
    ConnectedIsRead
