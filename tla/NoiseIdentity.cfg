SPECIFICATION ConnectedSpec
CONSTANTS
    Nodes <- TwoNodes
    Peers <- TwoNodes
    ForeignPackets = {}
    Readers = {r1}
    MaxSends <- OneSends
CHECK_DEADLOCK FALSE
PROPERTY
    SessionsEstablished
