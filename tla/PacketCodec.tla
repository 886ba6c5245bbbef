----------------------------- MODULE PacketCodec -----------------------------
(***************************************************************************)
(* A packet from the call that creates it to the callback that gets it:    *)
(* createMessagePacket and its like, serializePacket with compression and  *)
(* padding, the bytes of an RFCOMM connection, the reader that cuts them   *)
(* into packets (readerThreadFunc of the Linux transport), deserializePacket*)
(* and isValid.                                                            *)
(*                                                                         *)
(* Bytes are counted, not listed: the connection is a sequence of packets  *)
(* with their sizes on the wire, and the reader's accumulatedData is the   *)
(* interval pos..readTo-1 of all bytes sent.  A byte whose value the model *)
(* does not know (text, signature, random padding) may have any value      *)
(* where the code looks at it.  LZ4 (external) makes of a payload one of   *)
(* any size, or fails; what it says of bytes it did not write is anything. *)
(***************************************************************************)
EXTENDS PayloadFormats

CONSTANTS
    Messages,       \* messages the user may send (sizes of their parts)
    Others,         \* payloads of other packets: kind, items, and how many of
                    \* their bytes there are (other clients may send fewer)
    LZ4Sizes,       \* sizes LZ4 may compress a payload to
    Bytes,          \* values an unknown byte may have
    Garbage,        \* sizes the reader may compute from unknown bytes
    Chunks,         \* numbers of bytes one read() may return
    MaxPacketSize,  \* 65536 in the code
    MaxPackets      \* bound: packets sent on the connection

ASSUME CodecAssumption ==
    /\ LZ4Sizes \subseteq Nat \ {0} /\ Bytes \subseteq 0..255
    /\ Garbage \subseteq {n \in Nat : n >= 21}
    /\ Chunks \subseteq {n \in Nat : 0 < n /\ n <= 4096}
    /\ MaxPacketSize \in Nat /\ MaxPacketSize > 21 /\ MaxPackets \in Nat

ASSUME PayloadAssumption ==
    /\ Messages \subseteq MessageSizes
    /\ Others \subseteq [kind : {"announce", "channelAnnounce", "hello", "ack"},
                         items : Seq(Item), size : Nat]

VARIABLES
    sent,       \* packets written to the connection, in order
    readTo,     \* bytes read() has returned so far
    pos,        \* bytes the reader has erased from accumulatedData
    pc,         \* reader: "read" or "parse"
    guess,      \* size computed at pos from unknown bytes, 0 if not yet
    delivered   \* what the callback was given of the packets in sent

vars == <<sent, readTo, pos, pc, guess, delivered>>

-----------------------------------------------------------------------------
(* Compression.  A payload has a size and a number of LZ4 layers.          *)

\* COMPRESSION_THRESHOLD
Threshold == 100

\* Variant: the threshold is the one of protocol.md.
ShouldCompress64(size) == size > 64

ShouldCompress(size) == size > Threshold

\* The possible results of compressData: unchanged if small or if LZ4 fails.
CompressData(p) ==
    {p} \cup IF ShouldCompress(p.size)
             THEN {[size |-> c, layers |-> p.layers + 1] : c \in LZ4Sizes} ELSE {}

Empty   == [size |-> 0, layers |-> 0]
Garbled == [size |-> 1, layers |-> 99]

-----------------------------------------------------------------------------
(* Creating packets.                                                       *)

\* createMessagePacket: compress, mark as compressed what is still large, add
\* the broadcast recipient unless private, sign.  Encrypting for a session
\* returns the payload as it is.
MessagePackets(m) ==
    LET items == MakeMessagePayload(m) IN
    {[kind |-> "message", text |-> PayloadSize(items), items |-> items, payload |-> q,
      compressed |-> ShouldCompress(q.size), recipient |-> ~m.private, signed |-> TRUE] :
        q \in CompressData([size |-> PayloadSize(items), layers |-> 0])}

\* Announcements, hello, acknowledgement: no flag is set, not even for the
\* recipient an acknowledgement has.
OtherPackets(o) ==
    {[kind |-> o.kind, text |-> o.size, items |-> o.items,
      payload |-> [size |-> o.size, layers |-> 0],
      compressed |-> FALSE, recipient |-> FALSE, signed |-> FALSE]}

\* Every packet that may be created.
Created ==
    UNION ({MessagePackets(m) : m \in Messages} \cup {OtherPackets(o) : o \in Others})

-----------------------------------------------------------------------------
(* serializePacket and padding.                                            *)

\* The serializer compresses again, and keeps the result only if smaller; it
\* then writes the size it had in front.
Serialized(p) ==
    {[packet |-> p, prefixed |-> q.size < p.payload.size,
      size |-> IF q.size < p.payload.size THEN q.size ELSE p.payload.size] :
        q \in CompressData(p.payload)}

Flag(b, size) == IF b THEN size ELSE 0

\* The length field: two bytes.
LengthRange == 65536

LenField(s) == (s.size + Flag(s.prefixed, 2)) % LengthRange

\* version, type, ttl, timestamp, flags, length; sender, recipient; payload;
\* signature.
Real(s) ==
    14 + 8 + Flag(s.packet.recipient, 8) + Flag(s.prefixed, 2) + s.size
       + Flag(s.packet.signed, 64)

BlockSizes == {256, 512, 1024, 2048}

OptimalBlockSize(n) ==
    LET fits == {b \in BlockSizes : n + 16 <= b}
    IN  IF fits = {} THEN n ELSE CHOOSE b \in fits : \A c \in fits : b <= c

\* Bytes that pad() appends: a padding length is one byte.
Padding(n) ==
    LET needed == OptimalBlockSize(n) - n
    IN  IF needed > 255 THEN 0 ELSE needed

Wire(s) == Real(s) + Padding(Real(s))

-----------------------------------------------------------------------------
(* The connection: packets, each with the bytes it occupies.              *)

Total == IF sent = <<>> THEN 0 ELSE sent[Len(sent)].end

Written(s) ==
    [packet |-> s.packet, prefixed |-> s.prefixed, size |-> s.size,
     begin |-> Total, end |-> Total + Wire(s)]

\* The packet that begins at pos, 0 if the reader has lost the boundary.
At == IF \E i \in DOMAIN sent : sent[i].begin = pos
      THEN CHOOSE i \in DOMAIN sent : sent[i].begin = pos ELSE 0

\* The last byte of the buffer: the padding length if a padded packet ends
\* there.
LastByte ==
    LET ends == {i \in DOMAIN sent : sent[i].end = readTo /\ Padding(Real(sent[i])) > 0}
    IN  IF ends = {} THEN Bytes ELSE {Padding(Real(sent[i])) : i \in ends}

\* unpad(): the size of the buffer without what its last byte says is padding.
Unpad(size, b) == IF b = 0 \/ b > size THEN size ELSE size - b

-----------------------------------------------------------------------------
(* deserializePacket, for the packet at the beginning of the buffer, after *)
(* unpad() has left u bytes.                                               *)

\* The size both the reader and deserializePacket expect: they count 13 bytes
\* of header.
ExpectedSize(s) ==
    21 + Flag(s.packet.recipient, 8) + LenField(s) + Flag(s.packet.signed, 64)

\* Where the payload ends.
PayloadEnd(s) == Real(s) - Flag(s.packet.signed, 64)

\* The payload and what isValid says of it: only a payload that was set, or a
\* length of 0, is consistent.
Invalid == [payload |-> Empty, valid |-> FALSE, signature |-> FALSE]

Result(set, p, s, sig) ==
    [payload |-> p, valid |-> set \/ LenField(s) = 0, signature |-> sig]

\* Variant: the size is not compared with what the header says.
DeserializeUnvalidated(s, u) ==
    IF u < 21 THEN {Invalid}
    ELSE {Result(TRUE, IF PayloadEnd(s) <= u THEN s.packet.payload ELSE Garbled, s,
                 s.packet.signed)}

\* The payload, and the signature, are within the u bytes.
Whole(s, u)     == PayloadEnd(s) <= u
Signature(s, u) == s.packet.signed /\ Real(s) <= u

Deserialize(s, u) ==
    CASE u < 21 -> {Invalid}
      [] u >= 21 /\ u < ExpectedSize(s) -> {Result(FALSE, Empty, s, FALSE)}
      [] u >= ExpectedSize(s) /\ s.prefixed /\ Whole(s, u) ->
            {Result(TRUE, s.packet.payload, s, Signature(s, u))}
      [] u >= ExpectedSize(s) /\ ~s.prefixed /\ ~s.packet.compressed ->
            {Result(Whole(s, u), IF Whole(s, u) THEN s.packet.payload ELSE Empty, s,
                    Signature(s, u))}
      [] OTHER -> {Result(TRUE, p, s, Signature(s, u)) : p \in {Empty, Garbled}}

\* What the handler of the packet's kind parses out of its payload: LZ4 data
\* and bytes of something else are not a payload of any format.
Parsed(p, payload) ==
    IF payload # p.payload \/ payload.layers # 0 THEN [n |-> 0, state |-> "garbled"]
    ELSE
    CASE p.kind = "message"         -> ParseMessagePayload(p.items, p.text)
      [] p.kind = "announce"        -> ParseAnnouncePayload(p.items, p.text)
      [] p.kind = "channelAnnounce" -> ParseChannelAnnouncePayload(p.items, p.text)
      [] p.kind = "hello"           -> ParseVersionHelloPayload(p.items, p.text)
      [] p.kind = "ack"             -> ParseVersionAckPayload(p.items, p.text)

-----------------------------------------------------------------------------
Init ==
    /\ sent = <<>> /\ readTo = 0 /\ pos = 0
    /\ pc = "read" /\ guess = 0
    /\ delivered = <<>>

\* A packet is created, serialized and written to the connection.  Packets are
\* written before the first read: since a read may return any part of what is
\* there, a packet written later makes no difference to the reader.
Send ==
    /\ Len(sent) < MaxPackets /\ readTo = 0
    /\ \E p \in Created : \E s \in Serialized(p) : sent' = Append(sent, Written(s))
    /\ UNCHANGED <<readTo, pos, pc, guess, delivered>>

\* read() returns some of the bytes that were written.
Read(n) ==
    /\ pc = "read" /\ readTo + n <= Total
    /\ readTo' = readTo + n
    /\ pc' = "parse"
    /\ UNCHANGED <<sent, pos, guess, delivered>>

Size == readTo - pos

\* What the reader computes from the header at pos.
ExpectedSizes ==
    CASE At # 0               -> {ExpectedSize(sent[At])}
      [] At = 0 /\ guess # 0  -> {guess}
      [] At = 0 /\ guess = 0  -> Garbage

\* Fewer bytes than any packet has, or than this one has: read more.
NeedMore ==
    /\ pc = "parse"
    /\ \/ Size < 21 /\ UNCHANGED guess
       \/ /\ Size >= 21
          /\ \E n \in ExpectedSizes :
                /\ n <= MaxPacketSize /\ Size < n
                /\ guess' = IF At = 0 THEN n ELSE 0
    /\ pc' = "read"
    /\ UNCHANGED <<sent, readTo, pos, delivered>>

\* Variant: a size is never too large.
TooLargeNever == FALSE /\ UNCHANGED vars

\* An impossible size: everything read so far is dropped.
TooLarge ==
    /\ pc = "parse" /\ Size >= 21
    /\ \E n \in ExpectedSizes : n > MaxPacketSize
    /\ pos' = readTo /\ guess' = 0 /\ pc' = "read"
    /\ UNCHANGED <<sent, readTo, delivered>>

\* Variant: the reader does not wait for the rest.
CompleteUntested(n) ==
    /\ pc = "parse" /\ Size >= 21
    /\ n \in ExpectedSizes /\ n <= MaxPacketSize

\* The reader takes the n bytes at pos for a packet.
Complete(n) ==
    /\ pc = "parse" /\ Size >= 21
    /\ n \in ExpectedSizes /\ n <= MaxPacketSize /\ Size >= n

\* Erase n bytes from the buffer and go on parsing.
Erase(n) ==
    /\ pos' = pos + n /\ guess' = 0
    /\ UNCHANGED <<sent, readTo, pc>>

\* Variant: nothing is erased after the callback threw.
HandKeeping(n) ==
    /\ At # 0 /\ Complete(n)
    /\ \E b \in LastByte : \E r \in Deserialize(sent[At], Unpad(Size, b)) :
          /\ delivered' = Append(delivered,
                [i |-> At, whole |-> sent[At].end = readTo, valid |-> r.valid,
                 payload |-> r.payload, signature |-> r.signature,
                 parsed |-> Parsed(sent[At].packet, r.payload)])
          /\ Erase(n) \/ (r.valid /\ Erase(0))

\* A packet is deserialized from the whole buffer and given to the callback;
\* then its bytes are erased, or one byte if the callback threw.
Hand(n) ==
    /\ At # 0 /\ Complete(n)
    /\ \E b \in LastByte : \E r \in Deserialize(sent[At], Unpad(Size, b)) :
          /\ delivered' = Append(delivered,
                [i |-> At, whole |-> sent[At].end = readTo, valid |-> r.valid,
                 payload |-> r.payload, signature |-> r.signature,
                 parsed |-> Parsed(sent[At].packet, r.payload)])
          /\ Erase(n) \/ (r.valid /\ Erase(1))

\* The same for bytes that are no packet, unless they happen to have a valid
\* version: then the callback gets what they seem to be.
HandGarbage(n) ==
    /\ At = 0 /\ Complete(n)
    /\ Erase(n)
    /\ UNCHANGED delivered

SkipByte(n) ==
    /\ At = 0 /\ Complete(n)
    /\ Erase(1)
    /\ UNCHANGED delivered

Parse ==
    \/ NeedMore
    \/ TooLarge
    \/ \E n \in ExpectedSizes : Hand(n) \/ HandGarbage(n) \/ SkipByte(n)

Next ==
    \/ Send
    \/ \E n \in Chunks : Read(n)
    \/ Parse

Spec == Init /\ [][Next]_vars

\* The reader thread is scheduled while it parses; nobody has to send.
FairSpec == Spec /\ WF_vars(Parse)

-----------------------------------------------------------------------------
(* Properties.                                                             *)

\* Types; and the reader erases only what it has, of what was sent.
TypeOK ==
    /\ readTo \in 0..Total /\ pos \in 0..readTo
    /\ pc \in {"read", "parse"} /\ guess \in Garbage \cup {0}
    /\ \A k \in DOMAIN delivered : delivered[k].i \in DOMAIN sent

\* The flag on the wire tells the truth.
FlagTrue(s) == s.packet.compressed => s.prefixed

\* Wherever the reads end, and whatever unknown bytes look like padding, a packet
\* that isValid accepts has the payload it was sent with, if it is signed or not
\* compressed (deserializePacket, isValid).  Packets whose flag says compressed
\* although their payload has no size prefix are left out (FlagTrue): the creator
\* makes such packets of long messages, and MessagesReadable is about them.
AcceptedIntact ==
    \A k \in DOMAIN delivered :
        LET d == delivered[k]
            s == sent[d.i]
        IN  d.valid /\ FlagTrue(s) /\ (s.prefixed => s.packet.signed)
                => d.payload = s.packet.payload

\* A message that needs no compression and is read as a whole arrives signed
\* and with every field (makeMessagePayload to parseMessagePayload).
ShortReadable ==
    \A k \in DOMAIN delivered :
        LET d == delivered[k]
            p == sent[d.i].packet
        IN  d.whole /\ p.kind = "message" /\ p.text <= Threshold
                => /\ d.valid /\ d.signature
                   /\ d.parsed = [n |-> Len(p.items), state |-> "done"]

\* The items of a payload that are whole.
WholeItems(p) == {k \in DOMAIN p.items : SizeOf(p.items, k) <= p.text}

\* Parsing a hello, an acknowledgement or a channel announcement that was cut
\* short never reads past its end and takes exactly the fields that are whole,
\* or none if it is shorter than the minimum.
CutParsed ==
    \A k \in DOMAIN delivered :
        LET d == delivered[k]
            p == sent[d.i].packet
        IN  p.kind \in {"hello", "ack", "channelAnnounce"} /\ d.parsed.state # "garbled"
                => /\ d.parsed.state \in {"done", "stopped", "short"}
                   /\ d.parsed.state # "short" => WholeItems(p) = 1..d.parsed.n

\* Packets are handed over in the order they were sent and none twice, not even
\* after a handler threw and the reader parses its bytes again, or after it has
\* lost the boundary and found another (readerThreadFunc).
HandedInOrder ==
    \A j, k \in DOMAIN delivered : j < k => delivered[j].i < delivered[k].i

\* The reader comes back to read() whatever it has read.
ReaderReads == pc = "parse" ~> pc = "read"

-----------------------------------------------------------------------------
(* What the documents say and the code does not do.                        *)

\* "CompressionHelper decompresses if needed" (architecture.md): a message
\* that is read as a whole can be read, compressed or not.
MessagesReadable ==
    \A k \in DOMAIN delivered :
        LET d == delivered[k]
            p == sent[d.i].packet
        IN  d.whole /\ p.kind = "message"
                => d.parsed = [n |-> Len(p.items), state |-> "done"]

=============================================================================
