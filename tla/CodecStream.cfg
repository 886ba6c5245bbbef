SPECIFICATION FairSpec
CONSTANTS
    Messages <- AllMessages
    Others <- OtherPayloads
    LZ4Sizes <- ShrunkSize
    Bytes <- SomeBytes
    Garbage <- GarbageSizes
    Chunks <- ReadSizes
    MaxPacketSize = 300
    MaxPackets = 2
CHECK_DEADLOCK FALSE
INVARIANTS
    TypeOK
    AcceptedIntact
    ShortReadable
    CutParsed
    HandedInOrder
PROPERTIES
    ReaderReads
