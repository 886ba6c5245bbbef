------------------------- MODULE PacketCodecProofs -------------------------
(***************************************************************************)
(* Proofs about PacketCodec, for every set of messages and other packets,  *)
(* everything LZ4 may return, every way the bytes are cut into reads, every *)
(* value of unknown bytes and every maximal packet size above 21.          *)
(***************************************************************************)
EXTENDS PacketCodec, PayloadFormatsProofs, TLAPS

-----------------------------------------------------------------------------
(* What is on the connection and what the callback gets.                   *)

\* A packet on the connection.  The serializer keeps its own compression only
\* if it is smaller.
WrittenPacket ==
    {w \in [packet : Created, prefixed : BOOLEAN, size : Nat, begin : Nat, end : Nat] :
        /\ w.prefixed => w.size < w.packet.payload.size /\ ShouldCompress(w.packet.payload.size)
        /\ ~w.prefixed => w.size = w.packet.payload.size}

Payloads == {p.payload : p \in Created} \cup {Empty, Garbled}

\* What one call of the callback is given.
Delivery ==
    [i : Nat, whole : BOOLEAN, valid : BOOLEAN, payload : Payloads,
     signature : BOOLEAN, parsed : {Parsed(p, q) : p \in Created, q \in Payloads}]

-----------------------------------------------------------------------------
(* Lemmas about creating and serializing packets.                          *)

\* compressData returns a payload with a size; the empty payload is as it was.
LEMMA CompressedSize ==
    ASSUME NEW p, p.size \in Nat, NEW q \in CompressData(p)
    PROVE  q.size \in Nat /\ (q.size = 0 => q = p) /\ (q # p => ShouldCompress(p.size))
<1>1. CASE q = p
  BY <1>1
<1>2. ASSUME NEW c \in LZ4Sizes, q = [size |-> c, layers |-> p.layers + 1]
      PROVE  q.size \in Nat \ {0}
  <2>1. c \in Nat \ {0}
    BY CodecAssumption
  <2> QED
    BY <1>2, <2>1
<1> QED
  BY <1>1, <1>2 DEF CompressData

\* A created packet has a payload with a size, and the only payload of size 0
\* is the empty one: LZ4 does not compress anything to nothing.
LEMMA CreatedPayload ==
    ASSUME NEW p \in Created
    PROVE  p.payload.size \in Nat /\ (p.payload.size = 0 => p.payload = Empty)
<1>1. ASSUME NEW m \in Messages, p \in MessagePackets(m)
      PROVE  p.payload.size \in Nat /\ (p.payload.size = 0 => p.payload = Empty)
  <2> DEFINE n == PayloadSize(MakeMessagePayload(m))
  <2>1. n \in Nat
    BY PayloadAssumption, MessageLeast
  <2>2. p.payload \in CompressData([size |-> n, layers |-> 0])
    BY <1>1 DEF MessagePackets
  <2> HIDE DEF n
  <2>3. /\ p.payload.size \in Nat
        /\ p.payload.size = 0 => p.payload = [size |-> n, layers |-> 0]
    BY <2>1, <2>2, CompressedSize
  <2> QED
    BY <2>3 DEF Empty
<1>2. ASSUME NEW o \in Others, p \in OtherPackets(o)
      PROVE  p.payload.size \in Nat /\ (p.payload.size = 0 => p.payload = Empty)
  BY <1>2, PayloadAssumption DEF OtherPackets, Empty
<1> QED
  BY <1>1, <1>2 DEF Created

\* The padding is a number of bytes.
LEMMA PaddingType ==
    ASSUME NEW n \in Nat
    PROVE  Padding(n) \in Nat
<1> DEFINE fits == {b \in BlockSizes : n + 16 <= b}
<1>1. CASE fits = {}
  BY <1>1 DEF Padding, OptimalBlockSize
<1>2. CASE fits # {}
  <2>1. \E b \in fits : \A c \in fits : b <= c
    BY <1>2 DEF BlockSizes
  <2>2. (CHOOSE b \in fits : \A c \in fits : b <= c) \in fits
    BY <2>1
  <2>3. OptimalBlockSize(n) \in fits
    BY <1>2, <2>2 DEF OptimalBlockSize
  <2> QED
    BY <2>3 DEF Padding, BlockSizes
<1> QED
  BY <1>1, <1>2

\* Sizes of a serialized packet are numbers.
LEMMA WireType ==
    ASSUME NEW w, w.size \in Nat
    PROVE  Real(w) \in Nat /\ Padding(Real(w)) \in Nat /\ Wire(w) \in Nat
<1>1. Real(w) \in Nat
  BY DEF Real, Flag
<1> QED
  BY <1>1, PaddingType DEF Wire

\* What is written to the connection is a packet on it.
LEMMA WrittenType ==
    ASSUME NEW p \in Created, NEW s \in Serialized(p), Total \in Nat
    PROVE  Written(s) \in WrittenPacket /\ Written(s).end \in Nat
<1>1. p.payload.size \in Nat
  BY CreatedPayload
<1>2. PICK q \in CompressData(p.payload) :
         s = [packet |-> p, prefixed |-> q.size < p.payload.size,
              size |-> IF q.size < p.payload.size THEN q.size ELSE p.payload.size]
  BY DEF Serialized
<1>3. q.size \in Nat /\ (q # p.payload => ShouldCompress(p.payload.size))
  BY <1>1, CompressedSize
<1>4. /\ s.packet = p /\ s.prefixed \in BOOLEAN /\ s.size \in Nat
      /\ s.prefixed => s.size < p.payload.size /\ ShouldCompress(p.payload.size)
      /\ ~s.prefixed => s.size = p.payload.size
  <2>1. CASE q.size < p.payload.size
    <3>1. s = [packet |-> p, prefixed |-> TRUE, size |-> q.size]
      BY <1>2, <2>1
    <3>2. q # p.payload
      BY <1>1, <2>1
    <3> QED
      BY <1>1, <1>3, <2>1, <3>1, <3>2
  <2>2. CASE ~(q.size < p.payload.size)
    <3>1. (q.size < p.payload.size) = FALSE
      BY <2>2
    <3>2. s = [packet |-> p, prefixed |-> FALSE, size |-> p.payload.size]
      BY <1>2, <3>1, Zenon
    <3> QED
      BY <1>1, <3>2
  <2> QED
    BY <2>1, <2>2
<1>5. Wire(s) \in Nat
  BY <1>4, WireType
<1>6. /\ Written(s).packet = p /\ Written(s).prefixed = s.prefixed
      /\ Written(s).size = s.size
      /\ Written(s) \in [packet : Created, prefixed : BOOLEAN, size : Nat,
                         begin : Nat, end : Nat]
  BY <1>4, <1>5 DEF Written
<1> QED
  BY <1>4, <1>6 DEF WrittenPacket

\* Two bytes hold a number.
LEMMA LengthRangeType == LengthRange \in Nat /\ LengthRange > 255
BY DEF LengthRange

\* A number below the modulus is its own remainder.
LEMMA SmallRemainder ==
    ASSUME NEW m \in Nat, NEW x \in 0..(m - 1)
    PROVE  x % m = x
OBVIOUS

\* The length field is a number.
LEMMA LenFieldType ==
    ASSUME NEW w, w.size \in Nat
    PROVE  LenField(w) \in Nat
<1>1. w.size + Flag(w.prefixed, 2) \in Nat
  BY DEF Flag
<1>2. ASSUME NEW x \in Nat
      PROVE  x % LengthRange \in Nat
  BY LengthRangeType
<1> QED
  BY <1>1, <1>2 DEF LenField

\* Both the reader and deserializePacket expect at least 21 bytes.
LEMMA ExpectedSizeType ==
    ASSUME NEW w \in WrittenPacket
    PROVE  ExpectedSize(w) \in Nat /\ ExpectedSize(w) >= 21
<1>1. LenField(w) \in Nat
  BY LenFieldType DEF WrittenPacket
<1> QED
  BY <1>1 DEF ExpectedSize, Flag

-----------------------------------------------------------------------------
(* deserializePacket.                                                      *)

\* The fields of what deserializePacket and isValid make of a packet.
LEMMA ResultFields ==
    ASSUME NEW set \in BOOLEAN, NEW p, NEW w, NEW sig \in BOOLEAN
    PROVE  /\ Result(set, p, w, sig).payload = p
           /\ Result(set, p, w, sig).signature \in BOOLEAN
           /\ Result(set, p, w, sig).valid \in BOOLEAN
           /\ Result(set, p, w, sig).valid => set \/ LenField(w) = 0
<1> DEFINE v == set \/ LenField(w) = 0
<1>1. v \in BOOLEAN
  OBVIOUS
<1>2. Result(set, p, w, sig) = [payload |-> p, valid |-> v, signature |-> sig]
  BY Zenon DEF Result
<1> HIDE DEF v
<1>3. /\ Result(set, p, w, sig).payload = p
      /\ Result(set, p, w, sig).signature = sig
      /\ Result(set, p, w, sig).valid = v
  BY <1>2
<1> QED
  BY <1>1, <1>3, Zenon DEF v

\* The two-byte length field says the size of a payload that fits in it.
LEMMA LenFieldExact ==
    ASSUME NEW w \in WrittenPacket, w.packet.payload.size + 1 < LengthRange
    PROVE  LenField(w) = w.size + Flag(w.prefixed, 2)
<1>1. w.packet.payload.size \in Nat /\ w.size \in Nat /\ w.prefixed \in BOOLEAN
  BY CreatedPayload DEF WrittenPacket
<1>2. CASE w.prefixed = TRUE
  <2>1. Flag(w.prefixed, 2) = 2
    BY <1>2 DEF Flag
  <2>2. w.size < w.packet.payload.size
    BY <1>2 DEF WrittenPacket
  <2>3. w.size + Flag(w.prefixed, 2) \in 0..(LengthRange - 1)
    BY <1>1, <2>1, <2>2, LengthRangeType
  <2> QED
    BY <2>3, LengthRangeType, SmallRemainder DEF LenField
<1>3. CASE w.prefixed = FALSE
  <2>1. Flag(w.prefixed, 2) = 0
    BY <1>3 DEF Flag
  <2>2. w.size = w.packet.payload.size
    BY <1>3 DEF WrittenPacket
  <2>3. w.size + Flag(w.prefixed, 2) \in 0..(LengthRange - 1)
    BY <1>1, <2>1, <2>2, LengthRangeType
  <2> QED
    BY <2>3, LengthRangeType, SmallRemainder DEF LenField
<1> QED
  BY <1>1, <1>2, <1>3

\* A result that isValid accepts was set to the payload of the packet, to what
\* LZ4 made of bytes it did not write, or is empty with a length field of 0.
LEMMA DeserializeCases ==
    ASSUME NEW w \in WrittenPacket, NEW u \in Nat, NEW r \in Deserialize(w, u)
    PROVE  /\ r.valid \in BOOLEAN /\ r.signature \in BOOLEAN
           /\ r.payload \in {w.packet.payload, Empty, Garbled}
           /\ r.valid => \/ r.payload = w.packet.payload
                         \/ r.payload = Empty /\ LenField(w) = 0 /\ ~w.prefixed
                         \/ r.payload = Empty /\ LenField(w) = 0 /\ u < ExpectedSize(w)
                         \/ /\ u >= ExpectedSize(w)
                            /\ \/ w.prefixed /\ ~Whole(w, u)
                               \/ ~w.prefixed /\ w.packet.compressed
<1> DEFINE whole == Whole(w, u)
           sig   == Signature(w, u)
<1>0. whole \in BOOLEAN /\ sig \in BOOLEAN /\ w.prefixed \in BOOLEAN
  BY DEF WrittenPacket, Whole, Signature
<1>1. CASE r = Invalid
  BY <1>1 DEF Invalid
<1>2. CASE r = Result(FALSE, Empty, w, FALSE) /\ u < ExpectedSize(w)
  BY <1>2, ResultFields
<1>3. CASE r = Result(TRUE, w.packet.payload, w, sig)
  BY <1>0, <1>3, ResultFields
<1>4. CASE r = Result(FALSE, Empty, w, sig) /\ ~w.prefixed
  BY <1>0, <1>4, ResultFields
<1>5. CASE /\ u >= ExpectedSize(w)
           /\ (w.prefixed /\ ~whole) \/ (~w.prefixed /\ w.packet.compressed)
           /\ r \in {Result(TRUE, p, w, sig) : p \in {Empty, Garbled}}
  <2>1. PICK p \in {Empty, Garbled} : r = Result(TRUE, p, w, sig)
    BY <1>5
  <2>2. r.payload = p /\ r.signature \in BOOLEAN /\ r.valid \in BOOLEAN
    BY <1>0, <2>1, ResultFields
  <2> QED
    BY <1>5, <2>2
<1> QED
  <2>0. ExpectedSize(w) \in Nat /\ ExpectedSize(w) >= 21
    BY ExpectedSizeType
  <2>1. CASE u < 21
    <3>1. ~(u >= 21) /\ ~(u >= ExpectedSize(w))
      BY <2>0, <2>1
    <3>2. Deserialize(w, u) = {Invalid}
      BY <2>1, <3>1, Zenon DEF Deserialize
    <3> QED
      BY <1>1, <3>2
  <2>2. CASE u >= 21 /\ u < ExpectedSize(w)
    <3>1. ~(u < 21) /\ ~(u >= ExpectedSize(w))
      BY <2>0, <2>2
    <3>2. Deserialize(w, u) = {Result(FALSE, Empty, w, FALSE)}
      BY <2>2, <3>1, Zenon DEF Deserialize
    <3> QED
      BY <1>2, <2>2, <3>2
  <2>3. CASE u >= ExpectedSize(w) /\ w.prefixed /\ whole
    <3>1. r = Result(TRUE, w.packet.payload, w, sig)
      BY <2>0, <2>3 DEF Deserialize
    <3> QED
      BY <1>3, <3>1
  <2>4. CASE u >= ExpectedSize(w) /\ ~w.prefixed /\ ~w.packet.compressed
    <3>0. ~(u < 21) /\ ~(u < ExpectedSize(w))
      BY <2>0, <2>4
    <3>1. r = Result(whole, IF whole THEN w.packet.payload ELSE Empty, w, sig)
      <4>1. Deserialize(w, u) =
               {Result(whole, IF whole THEN w.packet.payload ELSE Empty, w, sig)}
        BY <2>4, <3>0, Zenon DEF Deserialize
      <4> QED
        BY <4>1, Zenon
    <3>2. CASE whole
      <4>1. whole = TRUE
        BY <1>0, <3>2
      <4>2. r = Result(TRUE, w.packet.payload, w, sig)
        BY <3>1, <4>1
      <4> QED
        BY <1>3, <4>2
    <3>3. CASE ~whole
      <4>1. whole = FALSE
        BY <1>0, <3>3
      <4>2. r = Result(FALSE, Empty, w, sig)
        BY <3>1, <4>1
      <4> QED
        BY <1>4, <2>4, <4>2
    <3> QED
      BY <3>2, <3>3
  <2>5. CASE /\ u >= ExpectedSize(w)
             /\ (w.prefixed /\ ~whole) \/ (~w.prefixed /\ w.packet.compressed)
    <3>1. ~(u < 21) /\ ~(u < ExpectedSize(w))
      BY <2>0, <2>5
    <3>2. Deserialize(w, u) = {Result(TRUE, p, w, sig) : p \in {Empty, Garbled}}
      BY <2>5, <3>1, Zenon DEF Deserialize
    <3> QED
      BY <1>5, <2>5, <3>2
  <2> QED
    BY <1>0, <2>0, <2>1, <2>2, <2>3, <2>4, <2>5

\* A packet with a truthful flag that is accepted has the payload it was sent
\* with.  The reader and deserializePacket count one byte of the header too few;
\* the 64 bytes of the signature make up for it where a compressed payload is
\* cut.
LEMMA AcceptedPayload ==
    ASSUME NEW w \in WrittenPacket, NEW u \in Nat, NEW r \in Deserialize(w, u),
           w.packet.payload.size + 1 < LengthRange,
           r.valid, FlagTrue(w), w.prefixed => w.packet.signed
    PROVE  r.payload = w.packet.payload
<1>1. LenField(w) = w.size + Flag(w.prefixed, 2) /\ w.size \in Nat
  BY LenFieldExact DEF WrittenPacket
<1>2. ASSUME LenField(w) = 0, r.payload = Empty
      PROVE  r.payload = w.packet.payload
  <2>1. w.size = 0 /\ ~w.prefixed
    BY <1>1, <1>2 DEF Flag
  <2> QED
    BY <1>2, <2>1, CreatedPayload DEF WrittenPacket
<1>3. ASSUME w.prefixed, ~Whole(w, u), u >= ExpectedSize(w)
      PROVE  FALSE
  <2>1. w.packet.signed
    BY <1>3
  <2> QED
    BY <1>1, <1>3, <2>1 DEF Whole, PayloadEnd, Real, ExpectedSize, Flag
<1>4. ~(~w.prefixed /\ w.packet.compressed)
  BY DEF FlagTrue
<1> QED
  BY <1>2, <1>3, <1>4, DeserializeCases

-----------------------------------------------------------------------------
(* The reader.                                                             *)

\* The inductive invariant: types, and every packet that was handed over
\* begins before the bytes that are left.
CodecInv ==
    /\ sent \in Seq(WrittenPacket)
    /\ delivered \in Seq(Delivery)
    /\ TypeOK
    /\ \A k \in DOMAIN delivered : sent[delivered[k].i].begin < pos

\* The bytes written are a number of bytes.
LEMMA TotalType ==
    ASSUME sent \in Seq(WrittenPacket)
    PROVE  Total \in Nat
<1>1. CASE sent = <<>>
  BY <1>1 DEF Total
<1>2. CASE sent # <<>>
  <2>1. sent[Len(sent)] \in WrittenPacket
    BY <1>2
  <2> QED
    BY <1>2, <2>1 DEF Total, WrittenPacket
<1> QED
  BY <1>1, <1>2

\* The packet at the reader's position begins there.
LEMMA AtPacket ==
    ASSUME At # 0
    PROVE  At \in DOMAIN sent /\ sent[At].begin = pos
<1>1. \E i \in DOMAIN sent : sent[i].begin = pos
  BY DEF At
<1> QED
  BY <1>1 DEF At

\* unpad() leaves a number of bytes, whatever the last byte is.
LEMMA UnpaddedType ==
    ASSUME sent \in Seq(WrittenPacket), Size \in Nat, NEW b \in LastByte
    PROVE  Unpad(Size, b) \in Nat
<1> DEFINE ends == {i \in DOMAIN sent : sent[i].end = readTo /\ Padding(Real(sent[i])) > 0}
<1>1. ASSUME NEW i \in DOMAIN sent
      PROVE  Padding(Real(sent[i])) \in Nat
  <2>1. sent[i] \in WrittenPacket
    OBVIOUS
  <2>2. sent[i].size \in Nat
    BY <2>1 DEF WrittenPacket
  <2> QED
    BY <2>2, WireType
<1>2. b \in Nat
  <2>1. CASE ends = {}
    BY <2>1, CodecAssumption DEF LastByte
  <2>2. CASE ends # {}
    <3>1. PICK i \in ends : b = Padding(Real(sent[i]))
      BY <2>2 DEF LastByte
    <3> QED
      BY <1>1, <3>1
  <2> QED
    BY <2>1, <2>2
<1> QED
  BY <1>2 DEF Unpad

\* Every size the reader computes is at least that of the smallest packet.
LEMMA ExpectedSizesType ==
    ASSUME CodecInv, NEW n \in ExpectedSizes
    PROVE  n \in Nat /\ n >= 21
<1>1. CASE At # 0
  <2>1. sent[At] \in WrittenPacket
    BY <1>1, AtPacket DEF CodecInv
  <2> QED
    BY <1>1, <2>1, ExpectedSizeType DEF ExpectedSizes
<1>2. CASE At = 0 /\ guess # 0
  <2>1. guess \in Garbage
    BY <1>2 DEF CodecInv, TypeOK
  <2>2. n = guess
    BY <1>2 DEF ExpectedSizes
  <2> QED
    BY <2>1, <2>2, CodecAssumption
<1>3. CASE At = 0 /\ guess = 0
  <2>1. n \in Garbage
    BY <1>3 DEF ExpectedSizes
  <2> QED
    BY <2>1, CodecAssumption
<1> QED
  BY <1>1, <1>2, <1>3

\* Erasing a packet, or a byte, moves the position forward within the buffer.
LEMMA ErasedForward ==
    ASSUME CodecInv, NEW n \in ExpectedSizes, Complete(n), Erase(n) \/ Erase(1)
    PROVE  /\ pos' \in Nat /\ pos < pos' /\ pos' <= readTo
           /\ guess' = 0 /\ UNCHANGED <<sent, readTo, pc>>
<1>1. n \in Nat /\ n >= 21
  BY ExpectedSizesType
<1>2. readTo \in Nat /\ pos \in Nat
  BY TotalType DEF CodecInv, TypeOK
<1>3. readTo - pos >= n
  BY DEF Complete, Size
<1> QED
  BY <1>1, <1>2, <1>3 DEF Erase

\* The callback gets what deserializePacket made of the packet at the position.
LEMMA HandedDelivery ==
    ASSUME CodecInv, NEW n \in ExpectedSizes, Hand(n)
    PROVE  \E d \in Delivery : \E b \in LastByte :
              \E r \in Deserialize(sent[At], Unpad(Size, b)) :
                 /\ Unpad(Size, b) \in Nat
                 /\ delivered' = Append(delivered, d)
                 /\ d.i = At /\ d.valid = r.valid /\ d.payload = r.payload
                 /\ d.whole => sent[At].end = readTo
                 /\ d.signature = r.signature
                 /\ d.parsed = Parsed(sent[At].packet, r.payload)
<1>1. At \in DOMAIN sent /\ sent[At] \in WrittenPacket /\ At \in Nat
  BY AtPacket DEF Hand, CodecInv
<1>2. Size \in Nat
  BY TotalType DEF Hand, Complete, CodecInv, TypeOK, Size
<1>3. PICK b \in LastByte : \E r \in Deserialize(sent[At], Unpad(Size, b)) :
         delivered' = Append(delivered,
            [i |-> At, whole |-> sent[At].end = readTo, valid |-> r.valid,
             payload |-> r.payload, signature |-> r.signature,
             parsed |-> Parsed(sent[At].packet, r.payload)])
  BY Zenon DEF Hand
<1> DEFINE u == Unpad(Size, b)
<1>4. u \in Nat
  BY <1>2, UnpaddedType DEF CodecInv
<1> HIDE DEF u
<1>5. PICK r \in Deserialize(sent[At], u) :
         delivered' = Append(delivered,
            [i |-> At, whole |-> sent[At].end = readTo, valid |-> r.valid,
             payload |-> r.payload, signature |-> r.signature,
             parsed |-> Parsed(sent[At].packet, r.payload)])
  BY <1>3, Zenon DEF u
<1> DEFINE whole == sent[At].end = readTo
           parsed == Parsed(sent[At].packet, r.payload)
           d == [i |-> At, whole |-> whole, valid |-> r.valid,
                 payload |-> r.payload, signature |-> r.signature, parsed |-> parsed]
<1>6. /\ r.valid \in BOOLEAN /\ r.signature \in BOOLEAN
      /\ r.payload \in {sent[At].packet.payload, Empty, Garbled}
  BY <1>1, <1>4, DeserializeCases
<1>7. sent[At].packet \in Created
  BY <1>1 DEF WrittenPacket
<1>8. r.payload \in Payloads
  BY <1>6, <1>7 DEF Payloads
<1>9. parsed \in {Parsed(p, q) : p \in Created, q \in Payloads}
  BY <1>7, <1>8
<1>10. whole \in BOOLEAN
  OBVIOUS
<1>11. delivered' = Append(delivered, d)
  BY <1>5, Zenon
<1> HIDE DEF whole, parsed
<1>12. d \in Delivery
  BY <1>1, <1>6, <1>8, <1>9, <1>10 DEF Delivery
<1>13. /\ d.i = At /\ d.valid = r.valid /\ d.payload = r.payload
       /\ d.whole = whole /\ d.signature = r.signature /\ d.parsed = parsed
  OBVIOUS
<1> HIDE DEF d
<1>14. d.whole => sent[At].end = readTo
  BY <1>13 DEF whole
<1> QED
  BY <1>4, <1>11, <1>12, <1>13, <1>14, Zenon DEF u, parsed

\* Every step keeps the invariant.
LEMMA CodecInvStep ==
    ASSUME CodecInv, [Next]_vars
    PROVE  CodecInv'
<1> USE DEF CodecInv
<1>0. Total \in Nat /\ readTo \in Nat /\ pos \in Nat
  BY TotalType DEF TypeOK
<1>1. CASE Send
  <2>1. PICK p \in Created : \E s \in Serialized(p) : sent' = Append(sent, Written(s))
    BY <1>1 DEF Send
  <2>2. PICK s \in Serialized(p) : sent' = Append(sent, Written(s))
    BY <2>1
  <2>3. Written(s) \in WrittenPacket /\ Written(s).end \in Nat
    BY <1>0, WrittenType
  <2>4. /\ sent' \in Seq(WrittenPacket) /\ Len(sent') = Len(sent) + 1
        /\ \A i \in DOMAIN sent : i \in DOMAIN sent' /\ sent'[i] = sent[i]
        /\ sent'[Len(sent')] = Written(s)
    BY <2>2, <2>3
  <2>5. Total' \in Nat
    <3>1. sent' # <<>>
      BY <2>4
    <3> QED
      BY <2>3, <2>4, <3>1 DEF Total
  <2>6. readTo = 0 /\ UNCHANGED <<readTo, pos, pc, guess, delivered>>
    BY <1>1 DEF Send
  <2>7. TypeOK'
    BY <2>4, <2>5, <2>6 DEF TypeOK
  <2>8. ASSUME NEW k \in DOMAIN delivered
        PROVE  sent'[delivered[k].i].begin < pos
    BY <2>4 DEF TypeOK
  <2> QED
    BY <2>4, <2>6, <2>7, <2>8
<1>2. ASSUME NEW n \in Chunks, Read(n)
      PROVE  CodecInv'
  <2>1. n \in Nat
    BY CodecAssumption
  <2>2. UNCHANGED <<sent, pos, guess, delivered>> /\ pc' = "parse"
        /\ readTo' = readTo + n /\ readTo + n <= Total
    BY <1>2 DEF Read
  <2>3. Total' = Total
    BY <2>2 DEF Total
  <2> QED
    BY <1>0, <2>1, <2>2, <2>3 DEF TypeOK
<1>3. CASE NeedMore
  <2>1. UNCHANGED <<sent, readTo, pos, delivered>> /\ pc' = "read"
    BY <1>3 DEF NeedMore
  <2>2. guess' \in Garbage \cup {0}
    <3>1. CASE UNCHANGED guess
      BY <3>1 DEF TypeOK
    <3>2. ASSUME NEW n \in ExpectedSizes, guess' = IF At = 0 THEN n ELSE 0
          PROVE  guess' \in Garbage \cup {0}
      BY <3>2 DEF ExpectedSizes, TypeOK
    <3> QED
      BY <1>3, <3>1, <3>2 DEF NeedMore
  <2>3. Total' = Total
    BY <2>1 DEF Total
  <2> QED
    BY <2>1, <2>2, <2>3 DEF TypeOK
<1>4. CASE TooLarge
  <2>1. UNCHANGED <<sent, readTo, delivered>> /\ pos' = readTo /\ guess' = 0 /\ pc' = "read"
    BY <1>4 DEF TooLarge
  <2>2. Total' = Total
    BY <2>1 DEF Total
  <2>3. pos <= readTo
    BY DEF TypeOK
  <2>4. TypeOK'
    BY <1>0, <2>1, <2>2 DEF TypeOK
  <2>5. ASSUME NEW k \in DOMAIN delivered
        PROVE  sent[delivered[k].i].begin < readTo
    <3>1. sent[delivered[k].i] \in WrittenPacket
      BY DEF TypeOK
    <3>2. sent[delivered[k].i].begin \in Nat
      BY <3>1 DEF WrittenPacket
    <3> QED
      BY <1>0, <2>3, <3>2
  <2> QED
    BY <2>1, <2>4, <2>5
<1>5. ASSUME NEW n \in ExpectedSizes, Hand(n)
      PROVE  CodecInv'
  <2>1. Complete(n) /\ (Erase(n) \/ Erase(1)) /\ At # 0
    BY <1>5 DEF Hand
  <2>2. /\ pos' \in Nat /\ pos < pos' /\ pos' <= readTo
        /\ guess' = 0 /\ UNCHANGED <<sent, readTo, pc>>
    BY <2>1, ErasedForward
  <2>3. At \in DOMAIN sent /\ sent[At].begin = pos
    BY <2>1, AtPacket
  <2>4. PICK d \in Delivery : delivered' = Append(delivered, d) /\ d.i = At
    BY <1>5, HandedDelivery
  <2>5. /\ delivered' \in Seq(Delivery) /\ DOMAIN delivered' = 1..(Len(delivered) + 1)
        /\ \A k \in DOMAIN delivered : delivered'[k] = delivered[k]
        /\ delivered'[Len(delivered) + 1] = d
        /\ DOMAIN delivered = 1..Len(delivered) /\ Len(delivered) \in Nat
    BY <2>4
  <2>6. Total' = Total
    BY <2>2 DEF Total
  <2>7. ASSUME NEW k \in DOMAIN delivered'
        PROVE  delivered'[k].i \in DOMAIN sent /\ sent[delivered'[k].i].begin < pos'
    <3>1. CASE k \in DOMAIN delivered
      <4>1. delivered'[k] = delivered[k] /\ delivered[k].i \in DOMAIN sent
        BY <2>5, <3>1 DEF TypeOK
      <4>2. sent[delivered[k].i] \in WrittenPacket
        BY <4>1
      <4>3. sent[delivered[k].i].begin \in Nat
        BY <4>2 DEF WrittenPacket
      <4> QED
        BY <1>0, <2>2, <3>1, <4>1, <4>3
    <3>2. CASE k = Len(delivered) + 1
      BY <2>2, <2>3, <2>4, <2>5, <3>2
    <3> QED
      BY <2>5, <3>1, <3>2
  <2>8. TypeOK'
    BY <1>0, <2>2, <2>6, <2>7 DEF TypeOK
  <2> QED
    BY <2>2, <2>5, <2>7, <2>8
<1>6. ASSUME NEW n \in ExpectedSizes, HandGarbage(n) \/ SkipByte(n)
      PROVE  CodecInv'
  <2>1. Complete(n) /\ (Erase(n) \/ Erase(1)) /\ UNCHANGED delivered
    BY <1>6 DEF HandGarbage, SkipByte
  <2>2. /\ pos' \in Nat /\ pos < pos' /\ pos' <= readTo
        /\ guess' = 0 /\ UNCHANGED <<sent, readTo, pc>>
    BY <2>1, ErasedForward
  <2>3. Total' = Total
    BY <2>2 DEF Total
  <2>4. TypeOK'
    BY <1>0, <2>1, <2>2, <2>3 DEF TypeOK
  <2>5. ASSUME NEW k \in DOMAIN delivered
        PROVE  sent[delivered[k].i].begin < pos'
    <3>1. sent[delivered[k].i] \in WrittenPacket
      BY DEF TypeOK
    <3>2. sent[delivered[k].i].begin \in Nat
      BY <3>1 DEF WrittenPacket
    <3> QED
      BY <1>0, <2>2, <3>2
  <2> QED
    BY <2>1, <2>2, <2>4, <2>5
<1>7. CASE UNCHANGED vars
  BY <1>7 DEF vars, TypeOK, Total
<1> QED
  BY <1>1, <1>2, <1>3, <1>4, <1>5, <1>6, <1>7 DEF Next, Parse

\* The invariant holds from the beginning.
LEMMA CodecInvariant == Spec => []CodecInv
<1>1. Init => CodecInv
  BY DEF Init, CodecInv, TypeOK, Total
<1>2. CodecInv /\ [Next]_vars => CodecInv'
  BY CodecInvStep
<1> QED
  BY <1>1, <1>2, PTL DEF Spec

-----------------------------------------------------------------------------
(* The theorems.                                                           *)

\* Types; and the reader erases only what it has read, and hands over only
\* packets that were sent.
THEOREM TypeCorrect == Spec => []TypeOK
<1>1. CodecInv => TypeOK
  BY DEF CodecInv
<1> QED
  BY <1>1, CodecInvariant, PTL

\* However the bytes are cut into reads, and whatever unknown bytes look like
\* padding, a packet with a truthful flag that isValid accepts has the payload
\* it was sent with, if it is signed or was not compressed by the serializer,
\* provided that no payload is too large for the two-byte length field.
THEOREM AcceptedAlwaysIntact ==
    ASSUME \A p \in Created : p.payload.size + 1 < LengthRange
    PROVE  Spec => []AcceptedIntact
<1>1. Init => AcceptedIntact
  BY DEF Init, AcceptedIntact
<1>2. CodecInv /\ AcceptedIntact /\ [Next]_vars => AcceptedIntact'
  <2> SUFFICES ASSUME CodecInv, AcceptedIntact, [Next]_vars
               PROVE  AcceptedIntact'
    OBVIOUS
  <2>1. ASSUME NEW n \in ExpectedSizes, Hand(n)
        PROVE  AcceptedIntact'
    <3>1. PICK d \in Delivery : \E u \in Nat : \E r \in Deserialize(sent[At], u) :
             /\ delivered' = Append(delivered, d)
             /\ d.i = At /\ d.valid = r.valid /\ d.payload = r.payload
      BY <2>1, HandedDelivery, Zenon
    <3>2. PICK u \in Nat : \E r \in Deserialize(sent[At], u) :
             /\ delivered' = Append(delivered, d)
             /\ d.i = At /\ d.valid = r.valid /\ d.payload = r.payload
      BY <3>1
    <3>3. PICK r \in Deserialize(sent[At], u) :
             /\ delivered' = Append(delivered, d)
             /\ d.i = At /\ d.valid = r.valid /\ d.payload = r.payload
      BY <3>2
    <3>4. /\ DOMAIN delivered' = 1..(Len(delivered) + 1)
          /\ \A k \in DOMAIN delivered : delivered'[k] = delivered[k]
          /\ delivered'[Len(delivered) + 1] = d
          /\ DOMAIN delivered = 1..Len(delivered) /\ Len(delivered) \in Nat
      BY <3>3 DEF CodecInv
    <3>5. UNCHANGED sent
      BY <2>1 DEF Hand, Erase
    <3>6. sent[At] \in WrittenPacket
      BY <2>1, AtPacket DEF Hand, CodecInv
    <3>7. sent[At].packet.payload.size + 1 < LengthRange
      BY <3>6 DEF WrittenPacket
    <3>8. ASSUME d.valid, FlagTrue(sent[At]), sent[At].prefixed => sent[At].packet.signed
          PROVE  d.payload = sent[At].packet.payload
      <4>1. r.valid
        BY <3>3, <3>8
      <4>2. r.payload = sent[At].packet.payload
        BY <3>6, <3>7, <3>8, <4>1, AcceptedPayload
      <4> QED
        BY <3>3, <4>2
    <3>9. ASSUME NEW k \in DOMAIN delivered',
                 delivered'[k].valid, FlagTrue(sent[delivered'[k].i]),
                 sent[delivered'[k].i].prefixed => sent[delivered'[k].i].packet.signed
          PROVE  delivered'[k].payload = sent[delivered'[k].i].packet.payload
      <4>1. CASE k \in DOMAIN delivered
        BY <3>4, <3>9, <4>1 DEF AcceptedIntact
      <4>2. CASE k = Len(delivered) + 1
        BY <3>3, <3>4, <3>8, <3>9, <4>2
      <4> QED
        BY <3>4, <4>1, <4>2
    <3> QED
      BY <3>5, <3>9 DEF AcceptedIntact, FlagTrue
  <2>2. CASE UNCHANGED <<sent, delivered>>
    BY <2>2 DEF AcceptedIntact, FlagTrue
  <2>3. CASE Send
    <3>1. \A i \in DOMAIN sent : sent'[i] = sent[i]
      <4>1. PICK p \in Created : \E s \in Serialized(p) : sent' = Append(sent, Written(s))
        BY <2>3 DEF Send
      <4> QED
        BY <4>1 DEF CodecInv
    <3>2. UNCHANGED delivered /\ \A k \in DOMAIN delivered : delivered[k].i \in DOMAIN sent
      BY <2>3 DEF Send, CodecInv, TypeOK
    <3> QED
      BY <3>1, <3>2 DEF AcceptedIntact, FlagTrue
  <2> QED
    BY <2>1, <2>2, <2>3
    DEF Next, Read, Parse, NeedMore, TooLarge, HandGarbage, SkipByte, Erase, vars
<1> QED
  BY <1>1, <1>2, CodecInvariant, PTL DEF Spec

-----------------------------------------------------------------------------
(* Short messages.                                                         *)

\* The packets follow each other on the connection, each with the bytes it was
\* padded to.
Chained ==
    /\ \A i \in DOMAIN sent : sent[i].end = sent[i].begin + Wire(sent[i])
    /\ \A i, j \in DOMAIN sent : i < j => sent[i].end <= sent[j].begin

\* The size on the wire is that of the packet's parts.
LEMMA WrittenWire ==
    ASSUME NEW s
    PROVE  Wire(Written(s)) = Wire(s)
<1>1. /\ Written(s).packet = s.packet /\ Written(s).prefixed = s.prefixed
      /\ Written(s).size = s.size
  BY DEF Written
<1>2. Real(Written(s)) = Real(s)
  BY <1>1 DEF Real
<1> QED
  BY <1>2 DEF Wire

\* A step keeps the packets on the connection one after the other.
LEMMA ChainedStep ==
    ASSUME CodecInv, Chained, [Next]_vars
    PROVE  Chained'
<1>1. CASE Send
  <2>1. PICK p \in Created : \E s \in Serialized(p) : sent' = Append(sent, Written(s))
    BY <1>1 DEF Send
  <2>2. PICK s \in Serialized(p) : sent' = Append(sent, Written(s))
    BY <2>1
  <2> DEFINE w == Written(s)
  <2>3. w.begin = Total /\ w.end = Total + Wire(w)
    BY WrittenWire DEF Written
  <2> HIDE DEF w
  <2>4. /\ DOMAIN sent = 1..Len(sent) /\ Len(sent) \in Nat
        /\ DOMAIN sent' = 1..(Len(sent) + 1)
        /\ \A i \in DOMAIN sent : sent'[i] = sent[i]
        /\ sent'[Len(sent) + 1] = w
    BY <2>2 DEF CodecInv, w
  <2>5. ASSUME NEW i \in DOMAIN sent
        PROVE  sent[i].end <= Total
    <3>1. Len(sent) \in DOMAIN sent /\ sent # <<>>
      BY <2>4
    <3>2. sent[i] \in WrittenPacket /\ sent[Len(sent)] \in WrittenPacket
      BY <3>1 DEF CodecInv
    <3>3. /\ sent[i].end \in Nat /\ sent[Len(sent)].begin \in Nat
          /\ sent[Len(sent)].end \in Nat /\ sent[Len(sent)].size \in Nat
      BY <3>2 DEF WrittenPacket
    <3>4. Total = sent[Len(sent)].end
      BY <3>1 DEF Total
    <3>5. sent[Len(sent)].begin <= sent[Len(sent)].end
      BY <3>1, <3>3, WireType DEF Chained
    <3>6. CASE i = Len(sent)
      BY <3>3, <3>4, <3>6
    <3>7. CASE i < Len(sent)
      <4>1. sent[i].end <= sent[Len(sent)].begin
        BY <3>1, <3>7 DEF Chained
      <4> QED
        BY <3>3, <3>4, <3>5, <4>1
    <3> QED
      BY <2>4, <3>6, <3>7
  <2>6. \A i \in DOMAIN sent' : sent'[i].end = sent'[i].begin + Wire(sent'[i])
    <3> SUFFICES ASSUME NEW i \in DOMAIN sent'
                 PROVE  sent'[i].end = sent'[i].begin + Wire(sent'[i])
      OBVIOUS
    <3>1. CASE i \in DOMAIN sent
      BY <2>4, <3>1 DEF Chained
    <3>2. CASE i = Len(sent) + 1
      BY <2>3, <2>4, <3>2
    <3> QED
      BY <2>4, <3>1, <3>2
  <2>7. \A i, j \in DOMAIN sent' : i < j => sent'[i].end <= sent'[j].begin
    <3> SUFFICES ASSUME NEW i \in DOMAIN sent', NEW j \in DOMAIN sent', i < j
                 PROVE  sent'[i].end <= sent'[j].begin
      OBVIOUS
    <3>1. i \in DOMAIN sent
      BY <2>4
    <3>2. CASE j \in DOMAIN sent
      BY <2>4, <3>1, <3>2 DEF Chained
    <3>3. CASE j = Len(sent) + 1
      BY <2>3, <2>4, <2>5, <3>1, <3>3
    <3> QED
      BY <2>4, <3>2, <3>3
  <2>8. Chained' <=> /\ \A i \in DOMAIN sent' : sent'[i].end = sent'[i].begin + Wire(sent'[i])
                     /\ \A i, j \in DOMAIN sent' : i < j => sent'[i].end <= sent'[j].begin
    BY DEF Chained, Wire, Real
  <2> QED
    BY <2>6, <2>7, <2>8
<1>2. CASE UNCHANGED sent
  BY <1>2 DEF Chained, Wire, Real
<1> QED
  BY <1>1, <1>2
  DEF Next, Read, Parse, NeedMore, TooLarge, Hand, HandGarbage, SkipByte, Erase, vars

\* Packets are handed over in the order they were sent and none twice, also when
\* the reader starts again inside a packet: whatever was handed over begins
\* before its position (readerThreadFunc).
THEOREM AlwaysHandedInOrder == Spec => []HandedInOrder
<1>1. Init => Chained /\ HandedInOrder
  BY DEF Init, Chained, HandedInOrder
<1>2. CodecInv /\ Chained /\ [Next]_vars => Chained'
  BY ChainedStep
<1>3. CodecInv /\ Chained /\ HandedInOrder /\ [Next]_vars => HandedInOrder'
  <2> SUFFICES ASSUME CodecInv, Chained, HandedInOrder, [Next]_vars
               PROVE  HandedInOrder'
    OBVIOUS
  <2>1. ASSUME NEW n \in ExpectedSizes, Hand(n)
        PROVE  HandedInOrder'
    <3>1. PICK d \in Delivery : delivered' = Append(delivered, d) /\ d.i = At
      BY <2>1, HandedDelivery
    <3>2. /\ DOMAIN delivered' = 1..(Len(delivered) + 1)
          /\ \A k \in DOMAIN delivered : delivered'[k] = delivered[k]
          /\ delivered'[Len(delivered) + 1] = d
          /\ DOMAIN delivered = 1..Len(delivered) /\ Len(delivered) \in Nat
      BY <3>1 DEF CodecInv
    <3>3. At \in DOMAIN sent /\ sent[At].begin = pos /\ pos \in Nat /\ At \in Nat
      BY <2>1, AtPacket, TotalType DEF Hand, CodecInv, TypeOK
    <3>4. ASSUME NEW k \in DOMAIN delivered
          PROVE  delivered[k].i < At
      <4> DEFINE i == delivered[k].i
      <4>1. i \in DOMAIN sent /\ i \in Nat /\ sent[i].begin < pos
        BY DEF CodecInv, TypeOK
      <4>2. sent[i] \in WrittenPacket /\ sent[At] \in WrittenPacket
        BY <3>3, <4>1 DEF CodecInv
      <4>3. /\ sent[i].begin \in Nat /\ sent[At].begin \in Nat
            /\ sent[At].size \in Nat
        BY <4>2 DEF WrittenPacket
      <4>4. sent[At].end = sent[At].begin + Wire(sent[At]) /\ Wire(sent[At]) \in Nat
        BY <3>3, <4>3, WireType DEF Chained
      <4>5. ~(At < i)
        <5> SUFFICES ASSUME At < i PROVE FALSE
          OBVIOUS
        <5>1. sent[At].end <= sent[i].begin
          BY <3>3, <4>1 DEF Chained
        <5> QED
          BY <3>3, <4>1, <4>3, <4>4, <5>1
      <4>6. At # i
        BY <3>3, <4>1
      <4> QED
        BY <3>3, <4>1, <4>5, <4>6
    <3>5. ASSUME NEW j \in DOMAIN delivered', NEW k \in DOMAIN delivered', j < k
          PROVE  delivered'[j].i < delivered'[k].i
      <4>1. j \in DOMAIN delivered
        BY <3>2, <3>5
      <4>2. CASE k \in DOMAIN delivered
        BY <3>2, <3>5, <4>1, <4>2 DEF HandedInOrder
      <4>3. CASE k = Len(delivered) + 1
        BY <3>1, <3>2, <3>4, <4>1, <4>3
      <4> QED
        BY <3>2, <4>2, <4>3
    <3> QED
      BY <3>5 DEF HandedInOrder
  <2>2. CASE UNCHANGED delivered
    BY <2>2 DEF HandedInOrder
  <2> QED
    BY <2>1, <2>2 DEF Next, Send, Read, Parse, NeedMore, TooLarge, HandGarbage, SkipByte, vars
<1> QED
  BY <1>1, <1>2, <1>3, CodecInvariant, PTL DEF Spec

\* A packet of at most 240 bytes is padded to 256.
LEMMA FirstBlock ==
    ASSUME NEW n \in Nat, n + 16 <= 256
    PROVE  Padding(n) = IF 256 - n > 255 THEN 0 ELSE 256 - n
<1> DEFINE fits == {b \in BlockSizes : n + 16 <= b}
<1>1. 256 \in fits /\ \A c \in fits : 256 <= c
  BY DEF BlockSizes
<1>2. fits # {}
  BY <1>1
<1>3. (CHOOSE b \in fits : \A c \in fits : b <= c) = 256
  <2>1. (CHOOSE b \in fits : \A c \in fits : b <= c) \in fits
        /\ \A c \in fits : (CHOOSE b \in fits : \A c2 \in fits : b <= c2) <= c
    BY <1>1
  <2>2. \A b \in fits : (\A c \in fits : b <= c) => b = 256
    BY <1>1 DEF BlockSizes
  <2> QED
    BY <2>1, <2>2
<1>4. OptimalBlockSize(n) = 256
  BY <1>2, <1>3 DEF OptimalBlockSize
<1> QED
  BY <1>4 DEF Padding

\* A short message is neither compressed nor prefixed, is signed, and fits the
\* first block.
LEMMA ShortWritten ==
    ASSUME NEW w \in WrittenPacket, w.packet.kind = "message", w.packet.text <= Threshold
    PROVE  /\ ~w.prefixed /\ w.packet.compressed = FALSE /\ w.packet.signed = TRUE
           /\ w.size = w.packet.text /\ w.packet.text \in Nat
           /\ w.packet.payload = [size |-> w.packet.text, layers |-> 0]
           /\ \E m \in MessageSizes : /\ w.packet.items = MakeMessagePayload(m)
                                      /\ w.packet.text = PayloadSize(MakeMessagePayload(m))
<1> DEFINE p == w.packet
<1>0. p \in Created
  BY DEF WrittenPacket
<1>1. ASSUME NEW o \in Others, p \in OtherPackets(o)
      PROVE  FALSE
  <2>1. o.kind # "message"
    BY PayloadAssumption
  <2>2. p.kind = o.kind
    BY <1>1 DEF OtherPackets
  <2> QED
    BY <2>1, <2>2
<1>2. PICK m \in Messages : p \in MessagePackets(m)
  BY <1>0, <1>1 DEF Created
<1> DEFINE items == MakeMessagePayload(m)
           n     == PayloadSize(items)
           plain == [size |-> n, layers |-> 0]
<1>3. m \in MessageSizes
  BY PayloadAssumption
<1>4. n \in Nat
  BY <1>3, MessageLeast
<1>5. PICK q \in CompressData(plain) :
         p = [kind |-> "message", text |-> n, items |-> items, payload |-> q,
              compressed |-> ShouldCompress(q.size), recipient |-> ~m.private, signed |-> TRUE]
  BY <1>2 DEF MessagePackets
<1> DEFINE c   == ShouldCompress(q.size)
           all == ~m.private
<1>6. p = [kind |-> "message", text |-> n, items |-> items, payload |-> q,
           compressed |-> c, recipient |-> all, signed |-> TRUE]
  BY <1>5, Zenon
<1> HIDE DEF n, items, c, all
<1>7. /\ p.text = n /\ p.items = items /\ p.payload = q /\ p.signed = TRUE
      /\ p.compressed = c
  BY <1>6
<1>8. n <= 100
  BY <1>7 DEF Threshold
<1>9. ShouldCompress(n) = FALSE
  BY <1>4, <1>8 DEF ShouldCompress, Threshold
<1>10. q = plain
  BY <1>9 DEF CompressData
<1>11. p.compressed = FALSE
  BY <1>7, <1>9, <1>10 DEF c
<1>12. p.payload.size = n
  BY <1>7, <1>10
<1>13. ~w.prefixed
  BY <1>9, <1>12 DEF WrittenPacket
<1>14. w.size = n
  BY <1>12, <1>13 DEF WrittenPacket
<1> QED
  BY <1>3, <1>4, <1>7, <1>10, <1>11, <1>13, <1>14 DEF n, items

\* What deserializePacket makes of a short message that is there as a whole.
LEMMA ShortDeserialized ==
    ASSUME NEW w \in WrittenPacket, w.packet.kind = "message", w.packet.text <= Threshold,
           NEW r \in Deserialize(w, Real(w))
    PROVE  r.valid /\ r.signature /\ r.payload = w.packet.payload
<1>1. /\ ~w.prefixed /\ w.packet.compressed = FALSE /\ w.packet.signed = TRUE
      /\ w.size = w.packet.text /\ w.packet.text \in Nat
  BY ShortWritten
<1>2. w.size \in Nat /\ w.size <= 100
  BY <1>1 DEF Threshold
<1>3. LenField(w) = w.size
  <2>1. w.size + Flag(w.prefixed, 2) = w.size
    BY <1>1, <1>2 DEF Flag
  <2>2. w.size \in 0..(LengthRange - 1)
    BY <1>2, LengthRangeType
  <2> QED
    BY <2>1, <2>2, LengthRangeType, SmallRemainder DEF LenField
<1>4. /\ Real(w) \in Nat
      /\ ~(Real(w) < 21) /\ ~(Real(w) < ExpectedSize(w)) /\ Real(w) >= ExpectedSize(w)
  BY <1>1, <1>2, <1>3 DEF Real, ExpectedSize, Flag
<1>5. Whole(w, Real(w)) = TRUE /\ Signature(w, Real(w)) = TRUE
  BY <1>1, <1>4 DEF Whole, PayloadEnd, Flag, Signature
<1>6. Deserialize(w, Real(w)) =
         {Result(Whole(w, Real(w)), IF Whole(w, Real(w)) THEN w.packet.payload ELSE Empty, w,
                 Signature(w, Real(w)))}
  BY <1>1, <1>4, Zenon DEF Deserialize
<1>7. r = Result(TRUE, w.packet.payload, w, TRUE)
  BY <1>5, <1>6
<1> DEFINE v == TRUE \/ LenField(w) = 0
<1>8. r = [payload |-> w.packet.payload, valid |-> v, signature |-> TRUE]
  BY <1>7, Zenon DEF Result
<1>9. v = TRUE
  OBVIOUS
<1> HIDE DEF v
<1> QED
  BY <1>8, <1>9

\* unpad() removes exactly the padding of a short message that the buffer ends
\* with.
LEMMA ShortUnpadded ==
    ASSUME CodecInv, Chained, At # 0, sent[At].end = readTo,
           sent[At].packet.kind = "message", sent[At].packet.text <= Threshold,
           NEW b \in LastByte
    PROVE  Unpad(Size, b) = Real(sent[At])
<1> DEFINE w == sent[At]
<1>1. At \in DOMAIN sent /\ w.begin = pos /\ w \in WrittenPacket
  BY AtPacket DEF CodecInv
<1>2. /\ ~w.prefixed /\ w.packet.signed = TRUE
      /\ w.size = w.packet.text /\ w.packet.text \in Nat
  BY <1>1, ShortWritten
<1>3. Real(w) \in Nat /\ Real(w) >= 86 /\ Real(w) <= 194
  BY <1>2 DEF Real, Flag, Threshold
<1>4. Padding(Real(w)) = 256 - Real(w)
  BY <1>3, FirstBlock
<1>5. Wire(w) = 256
  BY <1>3, <1>4 DEF Wire
<1>6. Size = 256
  <2>1. w.end = w.begin + Wire(w)
    BY <1>1 DEF Chained
  <2>2. w.begin \in Nat
    BY <1>1 DEF WrittenPacket
  <2> QED
    BY <1>1, <1>5, <2>1, <2>2 DEF Size
<1> DEFINE ends == {i \in DOMAIN sent : sent[i].end = readTo /\ Padding(Real(sent[i])) > 0}
<1>7. At \in ends
  BY <1>1, <1>3, <1>4
<1>8. ASSUME NEW i \in ends
      PROVE  i = At
  <2>1. /\ i \in DOMAIN sent /\ sent[i] \in WrittenPacket /\ sent[i].end = readTo
        /\ i \in Nat /\ At \in Nat
    BY <1>1 DEF CodecInv
  <2>2. sent[i].size \in Nat /\ sent[i].begin \in Nat /\ w.begin \in Nat
    BY <1>1, <2>1 DEF WrittenPacket
  <2>3. Wire(sent[i]) \in Nat /\ Wire(sent[i]) > 0
    <3>1. Real(sent[i]) \in Nat /\ Real(sent[i]) >= 22
      BY <2>2 DEF Real, Flag
    <3> QED
      BY <3>1, PaddingType DEF Wire
  <2>4. /\ sent[i].end = sent[i].begin + Wire(sent[i])
        /\ w.end = w.begin + Wire(w)
        /\ i < At => sent[i].end <= w.begin
        /\ At < i => w.end <= sent[i].begin
    BY <1>1, <2>1 DEF Chained
  <2>5. readTo = w.end
    OBVIOUS
  <2> HIDE DEF w
  <2>6. ~(sent[i].end <= w.begin) /\ ~(w.end <= sent[i].begin)
    <3>1. ASSUME NEW x \in Nat, NEW k \in Nat, NEW y \in Nat, NEW l \in Nat,
                 k > 0, l > 0, x + k = y + l
          PROVE  ~(x + k <= y) /\ ~(y + l <= x)
      BY <3>1
    <3>2. sent[i].begin + Wire(sent[i]) = w.begin + Wire(w)
      BY <2>1, <2>4, <2>5
    <3>3. Wire(w) \in Nat /\ Wire(w) > 0
      BY <1>5
    <3>4. /\ ~(sent[i].begin + Wire(sent[i]) <= w.begin)
          /\ ~(w.begin + Wire(w) <= sent[i].begin)
      BY <2>2, <2>3, <3>1, <3>2, <3>3
    <3> QED
      BY <2>4, <3>4
  <2>7. ~(i < At) /\ ~(At < i)
    BY <2>4, <2>6
  <2> QED
    BY <2>1, <2>7
<1>9. LastByte = {Padding(Real(sent[i])) : i \in ends}
  BY <1>7 DEF LastByte
<1>10. b = Padding(Real(w))
  BY <1>8, <1>9
<1> HIDE DEF w
<1>11. ~(b = 0 \/ b > Size) /\ Size - b = Real(w)
  BY <1>3, <1>4, <1>6, <1>10
<1> QED
  BY <1>11 DEF Unpad, w

\* A message that needs no compression and is read as a whole arrives signed
\* and with every field, whatever fields it has and whatever else is on the
\* connection (makeMessagePayload to parseMessagePayload).
THEOREM ShortAlwaysReadable == Spec => []ShortReadable
<1>1. Init => Chained /\ ShortReadable
  BY DEF Init, Chained, ShortReadable
<1>2. CodecInv /\ Chained /\ [Next]_vars => Chained'
  BY ChainedStep
<1>3. CodecInv /\ Chained /\ ShortReadable /\ [Next]_vars => ShortReadable'
  <2> SUFFICES ASSUME CodecInv, Chained, ShortReadable, [Next]_vars
               PROVE  ShortReadable'
    OBVIOUS
  <2>1. ASSUME NEW n \in ExpectedSizes, Hand(n)
        PROVE  ShortReadable'
    <3>0. At # 0 /\ UNCHANGED sent
      BY <2>1 DEF Hand, Erase
    <3>1. sent[At] \in WrittenPacket
      BY <3>0, AtPacket DEF CodecInv
    <3>2. PICK d \in Delivery : \E b \in LastByte :
             \E r \in Deserialize(sent[At], Unpad(Size, b)) :
                /\ delivered' = Append(delivered, d)
                /\ d.i = At /\ d.valid = r.valid /\ d.payload = r.payload
                /\ d.whole => sent[At].end = readTo
                /\ d.signature = r.signature
                /\ d.parsed = Parsed(sent[At].packet, r.payload)
      BY <2>1, HandedDelivery, Zenon
    <3>3. PICK b \in LastByte : \E r \in Deserialize(sent[At], Unpad(Size, b)) :
             /\ delivered' = Append(delivered, d)
             /\ d.i = At /\ d.valid = r.valid /\ d.payload = r.payload
             /\ d.whole => sent[At].end = readTo
             /\ d.signature = r.signature
             /\ d.parsed = Parsed(sent[At].packet, r.payload)
      BY <3>2, Zenon
    <3>4. PICK r \in Deserialize(sent[At], Unpad(Size, b)) :
             /\ delivered' = Append(delivered, d)
             /\ d.i = At /\ d.valid = r.valid /\ d.payload = r.payload
             /\ d.whole => sent[At].end = readTo
             /\ d.signature = r.signature
             /\ d.parsed = Parsed(sent[At].packet, r.payload)
      BY <3>3, Zenon
    <3> DEFINE p == sent[At].packet
    <3>5. ASSUME d.whole, p.kind = "message", p.text <= Threshold
          PROVE  /\ d.valid /\ d.signature
                 /\ d.parsed = [n |-> Len(p.items), state |-> "done"]
      <4>1. Unpad(Size, b) = Real(sent[At])
        BY <3>0, <3>4, <3>5, ShortUnpadded
      <4>2. r.valid /\ r.signature /\ r.payload = p.payload
        BY <3>1, <3>4, <3>5, <4>1, ShortDeserialized
      <4>3. /\ p.payload = [size |-> p.text, layers |-> 0] /\ p.text \in Nat
            /\ \E m \in MessageSizes : /\ p.items = MakeMessagePayload(m)
                                       /\ p.text = PayloadSize(MakeMessagePayload(m))
        BY <3>1, <3>5, ShortWritten
      <4>4. PICK m \in MessageSizes : /\ p.items = MakeMessagePayload(m)
                                      /\ p.text = PayloadSize(MakeMessagePayload(m))
        BY <4>3
      <4>5. p.items \in Seq(Item) /\ SaysSizes(p.items) /\ PayloadSize(p.items) >= 13
        BY <3>5, <4>3, <4>4, ShortSaysSizes, MessageLeast DEF Threshold
      <4>6. Parsed(p, p.payload) = ParseMessagePayload(p.items, p.text)
        <5>1. ~(p.payload # p.payload \/ p.payload.layers # 0)
          BY <4>3
        <5> QED
          BY <3>5, <5>1 DEF Parsed
      <4>7. Parsed(p, p.payload) = [n |-> Len(p.items), state |-> "done"]
        BY <4>4, <4>5, <4>6, WholeMessageParsed
      <4> QED
        BY <3>4, <4>2, <4>7
    <3>6. /\ DOMAIN delivered' = 1..(Len(delivered) + 1)
          /\ \A k \in DOMAIN delivered : delivered'[k] = delivered[k]
          /\ delivered'[Len(delivered) + 1] = d
          /\ DOMAIN delivered = 1..Len(delivered) /\ Len(delivered) \in Nat
      BY <3>4 DEF CodecInv
    <3>7. ASSUME NEW k \in DOMAIN delivered',
                 delivered'[k].whole, sent[delivered'[k].i].packet.kind = "message",
                 sent[delivered'[k].i].packet.text <= Threshold
          PROVE  /\ delivered'[k].valid /\ delivered'[k].signature
                 /\ delivered'[k].parsed =
                       [n |-> Len(sent[delivered'[k].i].packet.items), state |-> "done"]
      <4>1. CASE k \in DOMAIN delivered
        BY <3>6, <3>7, <4>1 DEF ShortReadable
      <4>2. CASE k = Len(delivered) + 1
        BY <3>4, <3>5, <3>6, <3>7, <4>2
      <4> QED
        BY <3>6, <4>1, <4>2
    <3> QED
      BY <3>0, <3>7 DEF ShortReadable
  <2>2. CASE UNCHANGED <<sent, delivered>>
    BY <2>2 DEF ShortReadable
  <2>3. CASE Send
    <3>1. \A i \in DOMAIN sent : sent'[i] = sent[i]
      <4>1. PICK p \in Created : \E s \in Serialized(p) : sent' = Append(sent, Written(s))
        BY <2>3 DEF Send
      <4> QED
        BY <4>1 DEF CodecInv
    <3>2. UNCHANGED delivered /\ \A k \in DOMAIN delivered : delivered[k].i \in DOMAIN sent
      BY <2>3 DEF Send, CodecInv, TypeOK
    <3> QED
      BY <3>1, <3>2 DEF ShortReadable
  <2> QED
    BY <2>1, <2>2, <2>3
    DEF Next, Read, Parse, NeedMore, TooLarge, HandGarbage, SkipByte, Erase, vars
<1> QED
  BY <1>1, <1>2, <1>3, CodecInvariant, PTL DEF Spec

\* A created packet that is no message and no announcement carries a payload
\* of Others, as it is.
LEMMA OtherCreated ==
    ASSUME NEW p \in Created, p.kind \in {"hello", "ack", "channelAnnounce"}
    PROVE  \E o \in Others : o.kind = p.kind /\ o.items = p.items /\ o.size = p.text
<1>1. ASSUME NEW m \in Messages, p \in MessagePackets(m)
      PROVE  FALSE
  <2>1. p.kind = "message"
    BY <1>1 DEF MessagePackets
  <2> QED
    BY <2>1
<1>2. PICK o \in Others : p \in OtherPackets(o)
  BY <1>1 DEF Created
<1> QED
  BY <1>2 DEF OtherPackets

\* What a tested parser makes of a payload whose prefixes say their sizes.
LEMMA CutPacketParsed ==
    ASSUME NEW p \in Created, p.kind \in {"hello", "ack", "channelAnnounce"},
           \A o \in Others : o.kind \in {"hello", "ack", "channelAnnounce"}
                                => SaysSizes(o.items),
           NEW payload, Parsed(p, payload).state # "garbled"
    PROVE  /\ Parsed(p, payload).state \in {"done", "stopped", "short"}
           /\ Parsed(p, payload).state # "short" => WholeItems(p) = 1..Parsed(p, payload).n
<1>1. PICK o \in Others : o.kind = p.kind /\ o.items = p.items /\ o.size = p.text
  BY OtherCreated
<1>2. o.items \in Seq(Item) /\ o.size \in Nat
  BY PayloadAssumption
<1>3. p.items \in Seq(Item) /\ SaysSizes(p.items) /\ p.text \in Nat
  BY <1>1, <1>2
<1>4. ~(payload # p.payload \/ payload.layers # 0)
  <2> SUFFICES ASSUME payload # p.payload \/ payload.layers # 0 PROVE FALSE
    OBVIOUS
  <2>1. p.kind # "message" /\ p.kind # "announce"
    OBVIOUS
  <2>2. Parsed(p, payload) = [n |-> 0, state |-> "garbled"]
    BY <2>1 DEF Parsed
  <2> QED
    BY <2>2
<1>5. ASSUME NEW least \in Nat, Parsed(p, payload) = ParseTested(least, p.items, p.text)
      PROVE  /\ Parsed(p, payload).state \in {"done", "stopped", "short"}
             /\ Parsed(p, payload).state # "short" => WholeItems(p) = 1..Parsed(p, payload).n
  BY <1>3, <1>5, TestedParser DEF WholeItems
<1>6. \E least \in Nat : Parsed(p, payload) = ParseTested(least, p.items, p.text)
  <2>1. CASE p.kind = "channelAnnounce"
    BY <1>4, <2>1 DEF Parsed, ParseChannelAnnouncePayload
  <2>2. CASE p.kind = "hello"
    BY <1>4, <2>2 DEF Parsed, ParseVersionHelloPayload
  <2>3. CASE p.kind = "ack"
    BY <1>4, <2>3 DEF Parsed, ParseVersionAckPayload
  <2> QED
    BY <2>1, <2>2, <2>3
<1> QED
  BY <1>5, <1>6

\* Parsing a hello, an acknowledgement or a channel announcement that was cut
\* anywhere never reads past its end and takes exactly the fields that are
\* whole, for payloads of any length whose prefixes say how many bytes follow:
\* those the writers produce, channel names, version lists and capabilities of
\* fewer than 256 (parseVersionHelloPayload, parseVersionAckPayload,
\* parseChannelAnnouncePayload).
THEOREM CutAlwaysParsed ==
    ASSUME \A o \in Others : o.kind \in {"hello", "ack", "channelAnnounce"}
                                => SaysSizes(o.items)
    PROVE  Spec => []CutParsed
<1>1. Init => CutParsed
  BY DEF Init, CutParsed
<1>2. CodecInv /\ CutParsed /\ [Next]_vars => CutParsed'
  <2> SUFFICES ASSUME CodecInv, CutParsed, [Next]_vars
               PROVE  CutParsed'
    OBVIOUS
  <2> DEFINE Cut(d, p) ==
         p.kind \in {"hello", "ack", "channelAnnounce"} /\ d.parsed.state # "garbled"
            => /\ d.parsed.state \in {"done", "stopped", "short"}
               /\ d.parsed.state # "short" => WholeItems(p) = 1..d.parsed.n
  <2>0. /\ \A k \in DOMAIN delivered : Cut(delivered[k], sent[delivered[k].i].packet)
        /\ (\A k \in DOMAIN delivered' : Cut(delivered'[k], sent'[delivered'[k].i].packet))
              => CutParsed'
    BY DEF CutParsed
  <2>1. ASSUME NEW n \in ExpectedSizes, Hand(n)
        PROVE  CutParsed'
    <3>0. At # 0 /\ UNCHANGED sent
      BY <2>1 DEF Hand, Erase
    <3>1. sent[At] \in WrittenPacket
      BY <3>0, AtPacket DEF CodecInv
    <3>2. sent[At].packet \in Created
      BY <3>1 DEF WrittenPacket
    <3>3. PICK d \in Delivery : \E b \in LastByte :
             \E r \in Deserialize(sent[At], Unpad(Size, b)) :
                /\ delivered' = Append(delivered, d)
                /\ d.i = At /\ d.valid = r.valid /\ d.payload = r.payload
                /\ d.whole => sent[At].end = readTo
                /\ d.signature = r.signature
                /\ d.parsed = Parsed(sent[At].packet, r.payload)
      BY <2>1, HandedDelivery, Zenon
    <3>4. /\ delivered' = Append(delivered, d) /\ d.i = At
          /\ d.parsed = Parsed(sent[At].packet, d.payload)
      BY <3>3, Zenon
    <3>5. Cut(d, sent[At].packet)
      BY <3>2, <3>4, CutPacketParsed
    <3> HIDE DEF Cut
    <3>6. /\ DOMAIN delivered' = 1..(Len(delivered) + 1)
          /\ \A k \in DOMAIN delivered : delivered'[k] = delivered[k]
          /\ delivered'[Len(delivered) + 1] = d
          /\ DOMAIN delivered = 1..Len(delivered) /\ Len(delivered) \in Nat
      BY <3>4 DEF CodecInv
    <3>7. ASSUME NEW k \in DOMAIN delivered'
          PROVE  Cut(delivered'[k], sent'[delivered'[k].i].packet)
      <4>1. CASE k \in DOMAIN delivered
        BY <2>0, <3>0, <3>6, <4>1
      <4>2. CASE k = Len(delivered) + 1
        BY <3>0, <3>4, <3>5, <3>6, <4>2
      <4> QED
        BY <3>6, <4>1, <4>2
    <3> QED
      BY <2>0, <3>7
  <2>2. CASE UNCHANGED <<sent, delivered>>
    BY <2>2 DEF CutParsed
  <2>3. CASE Send
    <3>1. \A i \in DOMAIN sent : sent'[i] = sent[i]
      <4>1. PICK p \in Created : \E s \in Serialized(p) : sent' = Append(sent, Written(s))
        BY <2>3 DEF Send
      <4> QED
        BY <4>1 DEF CodecInv
    <3>2. UNCHANGED delivered /\ \A k \in DOMAIN delivered : delivered[k].i \in DOMAIN sent
      BY <2>3 DEF Send, CodecInv, TypeOK
    <3> HIDE DEF Cut
    <3> QED
      BY <2>0, <3>1, <3>2
  <2> QED
    BY <2>1, <2>2, <2>3
    DEF Next, Read, Parse, NeedMore, TooLarge, HandGarbage, SkipByte, Erase, vars
<1> QED
  BY <1>1, <1>2, CodecInvariant, PTL DEF Spec

=============================================================================
