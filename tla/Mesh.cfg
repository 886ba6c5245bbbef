SPECIFICATION FairSpec
CONSTANTS
    Nodes <- Nodes5
    Links <- ShortKite
    TransportKey <- ByPeerID5
    Versions <- Split5
    InitialPeers <- Half
    Packets <- Forming
    NoPeripheral = ""
    NoSender = "0000"
    NoChannel = ""
    DefaultTTL = 1
    MaxFailures = 1
    MaxHistorySize = 1
    MaxProcessedMessages = 20
CHECK_DEADLOCK FALSE
INVARIANTS
    TypeOK
    NeverToSource
    RangeBound
    PeersSpoke
PROPERTIES
    RemovalsJustified
    Quiescence
