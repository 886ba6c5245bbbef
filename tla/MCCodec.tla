------------------------------ MODULE MCCodec ------------------------------
(***************************************************************************)
(* Small instances of PacketCodec.  Sizes are those of the code, but for   *)
(* MaxPacketSize (65536 there).  The messages are one of 98 and one of 281 *)
(* bytes; LZ4 makes of the long one something below the threshold, above   *)
(* it, or fails.  160 bytes make a signed packet too large for the first   *)
(* block and too small for the second: it goes unpadded.                   *)
(***************************************************************************)
EXTENDS PacketCodec

Message == [id |-> 0, sender |-> 5, content |-> 14, originalSender |-> 0,
            recipientNickname |-> 0, senderPeerID |-> 8, mentions |-> <<4>>,
            channel |-> 3, private |-> FALSE]

PrivateMessage ==
    [Message EXCEPT !.private = TRUE, !.channel = 0, !.recipientNickname = 6]
LongMessage == [Message EXCEPT !.content = 200]

AllMessages == {PrivateMessage, LongMessage}
OneLong     == {LongMessage}

Hello == MakeVersionHelloPayload([versions |-> 1, clientVersion |-> 4, platform |-> 3,
                                  capabilities |-> <<2, 5>>])
Ack   == MakeVersionAckPayload([serverVersion |-> 4, platform |-> 300, reason |-> 9])

\* A hello cut after its third field, an acknowledgement with a string longer
\* than its prefix can say, and half of a channel announcement.
OtherPayloads ==
    {[kind |-> "hello", items |-> Hello, size |-> 4],
     [kind |-> "ack", items |-> Ack, size |-> PayloadSize(Ack)],
     [kind |-> "channelAnnounce", items |-> MakeChannelAnnouncePayload(5), size |-> 4]}

ShrunkSize   == {160}
ShrunkSizes  == {60, 160}
SomeBytes    == {0, 1, 70}
GarbageSizes == {21, 300, 301}
ReadSizes    == {200, 256}
NoOthers     == {}

=============================================================================
