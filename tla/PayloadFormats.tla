--------------------------- MODULE PayloadFormats ---------------------------
(***************************************************************************)
(* The payload formats of protocol/packet_serializer.cpp, as sizes.        *)
(*                                                                         *)
(* An encoded payload is a sequence of items: a prefix of w bytes, whose   *)
(* value "len" says how many bytes belong to the item, and the bytes that  *)
(* were written after it.  A field of fixed size is an item of which only  *)
(* the prefix exists.  What the strings say is left out.                   *)
(*                                                                         *)
(* A parser is lost once an item has more bytes than its prefix says, and  *)
(* past the end once it reads a prefix that the payload does not contain.  *)
(***************************************************************************)
EXTENDS Naturals, Sequences

Least(a, b) == IF a < b THEN a ELSE b

\* Integers of w bytes, as the length prefixes and counts are: one or two.
Width(w) == IF w = 1 THEN 256 ELSE 65536

Item == [w : Nat, len : Nat, bytes : Nat]

Fixed(w) == [w |-> w, len |-> 0, bytes |-> 0]

\* Variant: the length is converted without a limit.
StrUncapped(w, size) == [w |-> w, len |-> size % Width(w), bytes |-> size]

\* A string with a length prefix: at most what the prefix can say is written.
Str(w, size) ==
    LET n == Least(size, Width(w) - 1) IN [w |-> w, len |-> n, bytes |-> n]

Opt(size) == IF size = 0 THEN <<>> ELSE <<Str(1, size)>>

\* A list behind a count of which only "count" elements are announced; all of
\* them are written.
Counted(count, elements) ==
    <<Fixed(1)>> \o SubSeq(elements, 1, count)
                 \o IF count < Len(elements)
                    THEN <<[w |-> 0, len |-> 0, bytes |-> 1]>> ELSE <<>>

Strs(sizes) == [i \in DOMAIN sizes |-> Str(1, sizes[i])]

-----------------------------------------------------------------------------
(* Writers.  A message, a hello and an acknowledgement are records of the  *)
(* sizes of their strings and lists.                                       *)

MessageSizes ==
    [id : Nat, sender : Nat, content : Nat, originalSender : Nat,
     recipientNickname : Nat, senderPeerID : Nat, mentions : Seq(Nat),
     channel : Nat, private : BOOLEAN]

\* A message without an identifier is given a UUID.
UUIDSize == 36

MakeMessagePayload(m) ==
       <<Fixed(1), Fixed(8), Str(1, IF m.id = 0 THEN UUIDSize ELSE m.id),
         Str(1, m.sender), Str(2, m.content)>>
    \o Opt(m.originalSender) \o Opt(m.recipientNickname)
    \o Opt(2 * m.senderPeerID)              \* written in hexadecimal
    \o (IF m.mentions = <<>> THEN <<>>
        ELSE Counted(Least(255, Len(m.mentions)), Strs(m.mentions)))
    \o Opt(m.channel)

\* The whole payload is the nickname: nothing says how long it is.
MakeAnnouncePayload(nickname) == <<Fixed(nickname)>>

\* The length of the channel's name is converted without a limit.
MakeChannelAnnouncePayload(channel) ==
    <<Fixed(1), [w |-> 1, len |-> channel % Width(1), bytes |-> channel]>>

\* Counts of versions and capabilities are converted without a limit.
MakeVersionHelloPayload(h) ==
       <<Fixed(1)>>
    \o Counted(h.versions % Width(1), [i \in 1..h.versions |-> Fixed(1)])
    \o <<Fixed(1), Str(1, h.clientVersion), Str(1, h.platform)>>
    \o (IF h.capabilities = <<>> THEN <<>>
        ELSE Counted(Len(h.capabilities) % Width(1), Strs(h.capabilities)))

MakeVersionAckPayload(a) ==
    <<Fixed(1), Fixed(1), Str(1, a.serverVersion), Str(1, a.platform)>>
    \o Opt(a.reason)

\* Size of the first k items, and of all of them.
SizeOf(items, k) ==
    LET size[i \in 0..Len(items)] ==
            IF i = 0 THEN 0 ELSE size[i - 1] + items[i].w + items[i].bytes
    IN  size[k]

PayloadSize(items) == SizeOf(items, Len(items))

-----------------------------------------------------------------------------
(* Parsers, given the items and how many bytes of them arrived.  A parser  *)
(* takes one item after the other; what it makes of item k when it has     *)
(* taken those before it:                                                  *)

\* "past" the end: the prefix is read without a test.  "stopped": the bytes
\* are not all there.  "lost": there are more than the prefix says.
ReadPrefixUntested(items, size, k) ==
    LET at == SizeOf(items, k - 1) + items[k].w
    IN  IF at > size THEN "past"
        ELSE IF at + items[k].len > size THEN "stopped"
        ELSE IF items[k].len # items[k].bytes THEN "lost" ELSE "taken"

\* Prefix and bytes are tested: an item that is not whole ends the parsing.
ReadOrStop(items, size, k) ==
    LET at == SizeOf(items, k - 1) + items[k].w
    IN  IF at + items[k].len > size THEN "stopped"
        ELSE IF items[k].len # items[k].bytes THEN "lost" ELSE "taken"

\* An optional field of a message: left out if nothing is left, and passed
\* over, its prefix only, if its bytes are not all there.
ReadOptional(items, size, k) ==
    LET at == SizeOf(items, k - 1) + items[k].w
    IN  IF at > size THEN "stopped"
        ELSE IF at + items[k].len > size \/ items[k].len # items[k].bytes THEN "lost"
        ELSE "taken"

\* Items are taken up to the first that is not.
Walk(reads) ==
    LET bad == {k \in DOMAIN reads : reads[k] # "taken"}
    IN  IF bad = {} THEN [n |-> Len(reads), state |-> "done"]
        ELSE LET k == CHOOSE k \in bad : \A j \in bad : k <= j
             IN  [n |-> k - 1, state |-> reads[k]]

Nothing == [n |-> 0, state |-> "short"]

\* Five items are always there: flags, timestamp, identifier, sender, content.
ParseMessagePayload(items, size) ==
    IF size < 13 THEN Nothing
    ELSE Walk([k \in DOMAIN items |-> IF k <= 5 THEN ReadPrefixUntested(items, size, k)
                                     ELSE ReadOptional(items, size, k)])

ParseAnnouncePayload(items, size) == [n |-> 1, state |-> "done"]

ParseTested(least, items, size) ==
    IF size < least THEN Nothing
    ELSE Walk([k \in DOMAIN items |-> ReadOrStop(items, size, k)])

ParseChannelAnnouncePayload(items, size) == ParseTested(2, items, size)
ParseVersionHelloPayload(items, size)    == ParseTested(4, items, size)
ParseVersionAckPayload(items, size)      == ParseTested(3, items, size)

=============================================================================
