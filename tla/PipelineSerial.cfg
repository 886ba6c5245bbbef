SPECIFICATION Spec
CONSTANTS
    Readers = {r1}
    PeerIDs <- MCPeerIDs
    Local = "me"
    Peripherals <- MCPeripherals
    NoPeripheral = ""
    NoChannel = ""
    ChannelNames <- MCChannelNames
    Canonical <- MCCanonical
    PrivateBucket = "private"
    Garbled = "garbled"
    Nicknames <- MCNicknames
    ClientVersion = "1.0"
    Timestamps <- MCTimestamps
    Packets <- SerialPackets
    MaxDeliveries = 4
    MaxCommands = 2
    MaxHistorySize = 2
    MaxProcessedMessages = 20
CHECK_DEADLOCK FALSE
INVARIANTS
    TypeOK
    NoDuplicateInHistory
    CurrentIsMember
PROPERTY
    OnceSpec
