SPECIFICATION Spec
CONSTANTS
    Readers = {r1, r2}
    PeerIDs <- MCPeerIDs
    Local = "me"
    Peripherals <- MCPeripherals
    NoPeripheral = ""
    NoChannel = ""
    ChannelNames <- MCChannelNames
    Canonical <- MCCanonical
    PrivateBucket = "private"
    Garbled = "garbled"
    Nicknames <- MCNicknames
    ClientVersion = "1.0"
    Timestamps <- MCTimestamps
    Packets <- ThreadPackets
    MaxDeliveries = 4
    MaxCommands = 0
    MaxHistorySize = 1
    MaxProcessedMessages = 2
CHECK_DEADLOCK FALSE
INVARIANTS
    PeersUnique
    DuplicateBound
    StoreBounded
