SPECIFICATION FairSpec
CONSTANTS
    Nodes <- TwoNodes
    Peers <- ThreePeers
    ForeignPackets <- Greetings
    Readers = {r1}
    MaxSends <- OneSends
CHECK_DEADLOCK FALSE
INVARIANTS
    TypeOK
    EncryptNeverThrows
    AnsweredOnce
PROPERTY
    FreshEstablished
