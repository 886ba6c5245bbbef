SPECIFICATION Spec
CONSTANTS
    Messages <- OneLong
    Others <- NoOthers
    LZ4Sizes <- ShrunkSizes
    Bytes <- SomeBytes
    Garbage <- GarbageSizes
    Chunks <- ReadSizes
    MaxPacketSize = 300
    MaxPackets = 1
CHECK_DEADLOCK FALSE
INVARIANTS
    MessagesReadable
