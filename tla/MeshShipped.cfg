SPECIFICATION FairSpec
CONSTANTS
    Nodes <- Nodes6
    Links <- Kite
    TransportKey <- ByAddress6
    Versions <- Only1
    InitialPeers <- ListedKite
    Packets <- ChatKite
    NoPeripheral = ""
    NoSender = "0000"
    NoChannel = ""
    DefaultTTL = 2
    MaxFailures = 0
    MaxHistorySize = 1
    MaxProcessedMessages = 20
CHECK_DEADLOCK FALSE
PROPERTY
    Coverage
