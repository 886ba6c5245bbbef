------------------------ MODULE PayloadFormatsProofs ------------------------
(***************************************************************************)
(* Proofs about the payload formats: the sizes of payloads with any number *)
(* of items, what the parsers take of them, and what makeMessagePayload    *)
(* writes.                                                                 *)
(*                                                                         *)
(* Inductions over the items are arguments about the least item at which a *)
(* claim fails.                                                            *)
(***************************************************************************)
EXTENDS PayloadFormats, WellFoundedInduction, TLAPS

\* A set of numbers has a least element.
LEMMA LeastOf ==
    ASSUME NEW T, T \subseteq Nat, T # {}
    PROVE  \E n \in T : \A m \in T : n <= m
<1>1. \E n \in T : \A m \in T : <<m, n>> \notin OpToRel(<, Nat)
  BY WFMin, NatLessThanWellFounded, Zenon
<1>2. PICK n \in T : \A m \in T : <<m, n>> \notin OpToRel(<, Nat)
  BY <1>1
<1>3. \A m \in T : ~(m < n)
  BY <1>2 DEF OpToRel
<1> QED
  BY <1>3

-----------------------------------------------------------------------------
(* The size of a payload.                                                  *)

\* The fields of an item are numbers.
LEMMA ItemType ==
    ASSUME NEW i \in Item
    PROVE  i.w \in Nat /\ i.len \in Nat /\ i.bytes \in Nat
BY DEF Item

\* The tables of the sizes of the first 0 to n items.
Tables(items, n) ==
    {t \in [0..n -> Nat] :
        t[0] = 0 /\ \A i \in 1..n : t[i] = t[i - 1] + items[i].w + items[i].bytes}

\* There is such a table for every payload.
LEMMA TableExists ==
    ASSUME NEW items \in Seq(Item), NEW n \in 0..Len(items)
    PROVE  Tables(items, n) # {}
<1> DEFINE B == {k \in Nat : k <= Len(items) /\ Tables(items, k) = {}}
<1> SUFFICES ASSUME B # {} PROVE FALSE
  OBVIOUS
<1>1. PICK k \in B : \A m \in B : k <= m
  BY LeastOf
<1>2. CASE k = 0
  <2>1. [i \in 0..0 |-> 0] \in Tables(items, 0)
    BY DEF Tables
  <2> QED
    BY <1>1, <1>2, <2>1
<1>3. CASE k # 0
  <2>1. k - 1 \in Nat /\ k - 1 \notin B /\ k \in 1..Len(items)
    BY <1>1, <1>3
  <2>2. PICK t \in Tables(items, k - 1) : TRUE
    BY <2>1
  <2> DEFINE u == [i \in 0..k |-> IF i = k THEN t[k - 1] + items[k].w + items[k].bytes
                                  ELSE t[i]]
  <2>3. items[k] \in Item
    BY <2>1
  <2>4. /\ t \in [0..(k - 1) -> Nat] /\ t[0] = 0
        /\ \A i \in 1..(k - 1) : t[i] = t[i - 1] + items[i].w + items[i].bytes
    BY <2>2 DEF Tables
  <2>5. t[k - 1] \in Nat /\ items[k].w \in Nat /\ items[k].bytes \in Nat
    BY <2>1, <2>3, <2>4, ItemType
  <2>6. u \in [0..k -> Nat]
    BY <2>1, <2>4, <2>5
  <2>7. u[0] = 0 /\ \A i \in 1..k : u[i] = u[i - 1] + items[i].w + items[i].bytes
    BY <2>1, <2>4
  <2> QED
    BY <1>1, <2>6, <2>7 DEF Tables
<1> QED
  BY <1>2, <1>3

\* SizeOf is the sum its recursive definition says.
LEMMA SizeOfStep ==
    ASSUME NEW items \in Seq(Item)
    PROVE  /\ SizeOf(items, 0) = 0
           /\ \A k \in 0..Len(items) : SizeOf(items, k) \in Nat
           /\ \A k \in 1..Len(items) :
                 SizeOf(items, k) = SizeOf(items, k - 1) + items[k].w + items[k].bytes
<1> DEFINE body(f) == [i \in 0..Len(items) |->
                          IF i = 0 THEN 0 ELSE f[i - 1] + items[i].w + items[i].bytes]
           size == CHOOSE f : f = body(f)
<1>1. PICK t \in Tables(items, Len(items)) : TRUE
  BY TableExists
<1>2. t = body(t)
  BY <1>1 DEF Tables
<1>3. size = body(size)
  BY <1>2
<1>4. \A k \in 0..Len(items) : SizeOf(items, k) = size[k]
  BY DEF SizeOf
<1> HIDE DEF size
<1>5. size \in Tables(items, Len(items))
  <2> DEFINE B == {k \in Nat : k <= Len(items) /\ size[k] # t[k]}
  <2>1. B = {}
    <3> SUFFICES ASSUME B # {} PROVE FALSE
      OBVIOUS
    <3>1. PICK k \in B : \A m \in B : k <= m
      BY LeastOf
    <3>2. k # 0
      BY <1>2, <1>3, <3>1
    <3>3. k - 1 \in 0..Len(items) /\ k - 1 \notin B /\ k \in 0..Len(items)
      BY <3>1, <3>2
    <3>4. size[k - 1] = t[k - 1]
      BY <3>3
    <3> QED
      BY <1>2, <1>3, <3>1, <3>2, <3>3, <3>4
  <2>2. \A k \in 0..Len(items) : size[k] = t[k]
    BY <2>1
  <2>3. size = t
    BY <1>2, <1>3, <2>2
  <2> QED
    BY <1>1, <2>3
<1>6. /\ size[0] = 0
      /\ \A k \in 0..Len(items) : size[k] \in Nat
      /\ \A k \in 1..Len(items) : size[k] = size[k - 1] + items[k].w + items[k].bytes
  BY <1>5 DEF Tables
<1>7. /\ Len(items) \in Nat
      /\ 0 \in 0..Len(items)
      /\ \A k \in 1..Len(items) : k \in 0..Len(items) /\ k - 1 \in 0..Len(items)
  OBVIOUS
<1> HIDE DEF body
<1> QED
  BY <1>4, <1>6, <1>7

\* The first items take no more bytes than more of them.
LEMMA SizeOfGrows ==
    ASSUME NEW items \in Seq(Item), NEW j \in 0..Len(items), NEW k \in j..Len(items)
    PROVE  SizeOf(items, j) <= SizeOf(items, k)
<1> DEFINE B == {n \in Nat : n >= j /\ n <= Len(items)
                             /\ ~(SizeOf(items, j) <= SizeOf(items, n))}
<1>0. Len(items) \in Nat /\ SizeOf(items, j) \in Nat
  BY SizeOfStep
<1> SUFFICES ASSUME B # {} PROVE FALSE
  BY <1>0
<1>1. PICK n \in B : \A m \in B : n <= m
  BY LeastOf
<1>2. n # j
  BY <1>0, <1>1
<1>3. n \in 1..Len(items) /\ n \in 0..Len(items) /\ n - 1 \in 0..Len(items) /\ n - 1 >= j
  BY <1>0, <1>1, <1>2
<1>4. n - 1 \notin B
  BY <1>1
<1>5. SizeOf(items, j) <= SizeOf(items, n - 1)
  BY <1>0, <1>3, <1>4
<1>6. /\ SizeOf(items, n) \in Nat /\ SizeOf(items, n - 1) \in Nat
      /\ SizeOf(items, n) = SizeOf(items, n - 1) + items[n].w + items[n].bytes
  BY <1>3, SizeOfStep
<1>7. items[n] \in Item
  BY <1>3
<1> QED
  BY <1>0, <1>1, <1>5, <1>6, <1>7, ItemType

\* If every item takes a byte, a payload has no more items than bytes.
LEMMA ItemsCounted ==
    ASSUME NEW items \in Seq(Item),
           \A i \in 1..Len(items) : items[i].w + items[i].bytes >= 1
    PROVE  Len(items) <= PayloadSize(items)
<1> DEFINE B == {n \in Nat : n <= Len(items) /\ ~(n <= SizeOf(items, n))}
<1>0. Len(items) \in Nat
  OBVIOUS
<1>1. B = {}
  <2> SUFFICES ASSUME B # {} PROVE FALSE
    OBVIOUS
  <2>1. PICK n \in B : \A m \in B : n <= m
    BY LeastOf
  <2>2. n # 0
    BY <2>1, SizeOfStep
  <2>3. n \in 1..Len(items) /\ n \in 0..Len(items) /\ n - 1 \in 0..Len(items)
    BY <1>0, <2>1, <2>2
  <2>4. n - 1 \notin B
    BY <2>1
  <2>5. n - 1 <= SizeOf(items, n - 1)
    BY <1>0, <2>3, <2>4
  <2>6. /\ SizeOf(items, n) \in Nat /\ SizeOf(items, n - 1) \in Nat
        /\ SizeOf(items, n) = SizeOf(items, n - 1) + items[n].w + items[n].bytes
    BY <2>3, SizeOfStep
  <2>7. items[n] \in Item /\ items[n].w + items[n].bytes >= 1
    BY <2>3
  <2> QED
    BY <2>1, <2>5, <2>6, <2>7, ItemType
<1> QED
  BY <1>0, <1>1 DEF PayloadSize

-----------------------------------------------------------------------------
(* Parsers.                                                                *)

\* Every prefix says how many bytes were written after it.
SaysSizes(items) == \A k \in DOMAIN items : items[k].len = items[k].bytes

\* Where an item ends and where its prefix does.
LEMMA ItemEnds ==
    ASSUME NEW items \in Seq(Item), SaysSizes(items), NEW k \in 1..Len(items)
    PROVE  /\ SizeOf(items, k) \in Nat /\ SizeOf(items, k - 1) \in Nat
           /\ items[k].w \in Nat /\ items[k].len \in Nat
           /\ SizeOf(items, k) = SizeOf(items, k - 1) + items[k].w + items[k].len
           /\ items[k].len = items[k].bytes
<1>1. k \in 0..Len(items) /\ k - 1 \in 0..Len(items) /\ k \in DOMAIN items
  OBVIOUS
<1>2. items[k] \in Item
  OBVIOUS
<1>3. items[k].len = items[k].bytes
  BY <1>1 DEF SaysSizes
<1> QED
  BY <1>1, <1>2, <1>3, SizeOfStep, ItemType

\* A parser that tests takes an item exactly if it is whole.
LEMMA TestedTakesWhole ==
    ASSUME NEW items \in Seq(Item), SaysSizes(items), NEW size \in Nat,
           NEW k \in 1..Len(items)
    PROVE  /\ SizeOf(items, k) <= size => ReadOrStop(items, size, k) = "taken"
           /\ ~(SizeOf(items, k) <= size) => ReadOrStop(items, size, k) = "stopped"
<1> DEFINE at == SizeOf(items, k - 1) + items[k].w
<1>1. /\ SizeOf(items, k) = at + items[k].len /\ at \in Nat
      /\ items[k].len \in Nat /\ items[k].len = items[k].bytes
  BY ItemEnds
<1>2. ReadOrStop(items, size, k) =
         IF at + items[k].len > size THEN "stopped"
         ELSE IF items[k].len # items[k].bytes THEN "lost" ELSE "taken"
  BY DEF ReadOrStop
<1> HIDE DEF at
<1>3. CASE at + items[k].len > size
  BY <1>1, <1>2, <1>3
<1>4. CASE ~(at + items[k].len > size)
  BY <1>1, <1>2, <1>4
<1> QED
  BY <1>3, <1>4

\* Parsing with tests takes exactly the items that are whole.
LEMMA TestedWalk ==
    ASSUME NEW items \in Seq(Item), SaysSizes(items), NEW size \in Nat
    PROVE  LET r == Walk([k \in DOMAIN items |-> ReadOrStop(items, size, k)])
           IN  /\ r.state \in {"done", "stopped"}
               /\ {k \in DOMAIN items : SizeOf(items, k) <= size} = 1..r.n
<1> DEFINE reads == [k \in DOMAIN items |-> ReadOrStop(items, size, k)]
           bad   == {k \in DOMAIN reads : reads[k] # "taken"}
           whole == {k \in DOMAIN items : SizeOf(items, k) <= size}
<1>0. Len(items) \in Nat /\ DOMAIN items = 1..Len(items)
  OBVIOUS
<1>1. DOMAIN reads = 1..Len(items)
  BY <1>0
<1>2. \A k \in 1..Len(items) :
         /\ SizeOf(items, k) <= size => reads[k] = "taken"
         /\ ~(SizeOf(items, k) <= size) => reads[k] = "stopped"
  BY <1>0, TestedTakesWhole
<1> HIDE DEF reads
<1>3. \A k \in 1..Len(items) : k \in bad <=> ~(SizeOf(items, k) <= size)
  BY <1>1, <1>2
<1>4. CASE bad = {}
  <2>1. Len(reads) = Len(items)
    <3>1. reads \in Seq({"taken", "stopped"})
      <4>1. \A k \in 1..Len(items) : reads[k] \in {"taken", "stopped"}
        BY <1>2
      <4>2. reads = [k \in 1..Len(items) |-> reads[k]]
        BY <1>1 DEF reads
      <4> QED
        BY <1>0, <4>1, <4>2
    <3> QED
      BY <1>0, <1>1, <3>1
  <2>2. Walk(reads) = [n |-> Len(reads), state |-> "done"]
    BY <1>4 DEF Walk
  <2>3. whole = 1..Len(items)
    BY <1>0, <1>3, <1>4
  <2> QED
    BY <2>1, <2>2, <2>3 DEF reads
<1>5. CASE bad # {}
  <2> DEFINE k == CHOOSE x \in bad : \A j \in bad : x <= j
  <2>1. bad \subseteq Nat
    BY <1>0, <1>1
  <2>2. k \in bad /\ \A j \in bad : k <= j
    BY <1>5, <2>1, LeastOf
  <2>3. Walk(reads) = [n |-> k - 1, state |-> reads[k]]
    BY <1>5 DEF Walk
  <2> HIDE DEF k
  <2>4. k \in 1..Len(items) /\ ~(SizeOf(items, k) <= size)
    BY <1>1, <1>3, <2>2
  <2>5. whole \subseteq 1..(k - 1)
    <3> SUFFICES ASSUME NEW j \in 1..Len(items), SizeOf(items, j) <= size, ~(j \in 1..(k - 1))
                 PROVE  FALSE
      BY <1>0
    <3>1. k \in 0..Len(items) /\ j \in k..Len(items) /\ j \in 0..Len(items)
      BY <1>0, <2>4
    <3>2. SizeOf(items, k) <= SizeOf(items, j)
      BY <3>1, SizeOfGrows
    <3>3. SizeOf(items, k) \in Nat /\ SizeOf(items, j) \in Nat
      BY <3>1, SizeOfStep
    <3> QED
      BY <2>4, <3>2, <3>3
  <2>6. 1..(k - 1) \subseteq whole
    <3> SUFFICES ASSUME NEW j \in 1..(k - 1) PROVE j \in whole
      OBVIOUS
    <3>1. j \in 1..Len(items) /\ ~(k <= j)
      BY <1>0, <2>4
    <3>2. j \notin bad
      BY <2>2, <3>1
    <3> QED
      BY <1>0, <1>3, <3>1, <3>2
  <2>7. reads[k] = "stopped"
    BY <1>2, <2>4
  <2>8. whole = 1..(k - 1)
    BY <2>5, <2>6
  <2> QED
    BY <2>3, <2>7, <2>8 DEF reads
<1> QED
  BY <1>4, <1>5

\* The same of the whole parser, which gives up on a payload that is shorter
\* than its fixed fields.
LEMMA TestedParser ==
    ASSUME NEW items \in Seq(Item), SaysSizes(items), NEW size \in Nat, NEW least \in Nat
    PROVE  LET r == ParseTested(least, items, size)
           IN  /\ r.state \in {"done", "stopped", "short"}
               /\ r.state # "short" =>
                     {k \in DOMAIN items : SizeOf(items, k) <= size} = 1..r.n
<1>1. CASE size < least
  BY <1>1 DEF ParseTested, Nothing
<1>2. CASE ~(size < least)
  BY <1>2, TestedWalk DEF ParseTested
<1> QED
  BY <1>1, <1>2

-----------------------------------------------------------------------------
(* Messages.                                                               *)

\* Items that take a byte at least, and those that say their size too.
Solid  == {i \in Item : i.w + i.bytes >= 1}
Honest == {i \in Solid : i.len = i.bytes}

\* A string of any size is written so that its prefix says its size.
LEMMA StrHonest ==
    ASSUME NEW w \in {1, 2}, NEW size \in Nat
    PROVE  Str(w, size) \in Honest /\ Str(w, size).w = w
<1> DEFINE n == Least(size, Width(w) - 1)
<1>1. n \in Nat
  BY DEF Least, Width
<1>2. Str(w, size) = [w |-> w, len |-> n, bytes |-> n]
  BY DEF Str
<1> HIDE DEF n
<1> QED
  BY <1>1, <1>2 DEF Honest, Solid, Item

\* So is a field of fixed size.
LEMMA FixedHonest ==
    ASSUME NEW w \in Nat \ {0}
    PROVE  Fixed(w) \in Honest /\ Fixed(w).w = w
BY DEF Fixed, Honest, Solid, Item

\* An optional string is written like any other, or not at all.
LEMMA OptHonest ==
    ASSUME NEW size \in Nat
    PROVE  Opt(size) \in Seq(Honest)
<1>1. Str(1, size) \in Honest
  BY StrHonest
<1>2. <<Str(1, size)>> \in Seq(Honest)
  BY <1>1
<1>3. <<>> \in Seq(Honest)
  OBVIOUS
<1> QED
  BY <1>2, <1>3 DEF Opt

\* A list of strings behind its count: honest if all of it is announced, and
\* at least as long as what is announced.
LEMMA CountedHonest ==
    ASSUME NEW sizes \in Seq(Nat), NEW count \in 0..Len(sizes)
    PROVE  /\ Counted(count, Strs(sizes)) \in Seq(Solid)
           /\ count = Len(sizes) => Counted(count, Strs(sizes)) \in Seq(Honest)
           /\ Len(Counted(count, Strs(sizes))) > count
<1> DEFINE strs  == Strs(sizes)
           front == SubSeq(strs, 1, count)
           rest  == IF count < Len(strs) THEN <<[w |-> 0, len |-> 0, bytes |-> 1]>> ELSE <<>>
<1>1. strs \in Seq(Honest) /\ Len(strs) = Len(sizes)
  <2>1. \A i \in 1..Len(sizes) : Str(1, sizes[i]) \in Honest
    BY StrHonest
  <2>2. Strs(sizes) = [i \in 1..Len(sizes) |-> Str(1, sizes[i])]
    BY DEF Strs
  <2> QED
    BY <2>1, <2>2
<1>2. Counted(count, strs) = <<Fixed(1)>> \o front \o rest
  BY DEF Counted
<1> HIDE DEF strs
<1>3. front \in Seq(Honest) /\ Len(front) = count
  BY <1>1
<1>4. <<Fixed(1)>> \in Seq(Honest) /\ Len(<<Fixed(1)>>) = 1
  BY FixedHonest
<1>5. [w |-> 0, len |-> 0, bytes |-> 1] \in Solid
  BY DEF Solid, Item
<1>6. rest \in Seq(Solid) /\ Len(rest) \in Nat /\ (count = Len(sizes) => rest = <<>>)
  BY <1>1, <1>5
<1>7. Honest \subseteq Solid
  BY DEF Honest
<1> HIDE DEF front, rest
<1>8. front \in Seq(Solid) /\ <<Fixed(1)>> \in Seq(Solid)
  BY <1>3, <1>4, <1>7
<1>9. <<Fixed(1)>> \o front \o rest \in Seq(Solid)
  BY <1>6, <1>8
<1>10. count = Len(sizes) => <<Fixed(1)>> \o front \o rest \in Seq(Honest)
  BY <1>3, <1>4, <1>6
<1>11. Len(<<Fixed(1)>> \o front \o rest) > count
  BY <1>3, <1>4, <1>6, <1>8
<1> QED
  BY <1>2, <1>9, <1>10, <1>11 DEF strs

\* What makeMessagePayload writes: five items that are always there, every
\* item takes a byte, and every item says its size unless there are more
\* mentions than their count can say.
LEMMA MessageItems ==
    ASSUME NEW m \in MessageSizes
    PROVE  LET items == MakeMessagePayload(m)
           IN  /\ items \in Seq(Solid) /\ Len(items) >= 5
               /\ items[1].w = 1 /\ items[2].w = 8 /\ items[3].w = 1
               /\ items[4].w = 1 /\ items[5].w = 2
               /\ Len(m.mentions) <= 255 => items \in Seq(Honest)
               /\ Len(m.mentions) > 255 => Len(items) > 255
<1> DEFINE five == <<Fixed(1), Fixed(8), Str(1, IF m.id = 0 THEN UUIDSize ELSE m.id),
                     Str(1, m.sender), Str(2, m.content)>>
           a == Opt(m.originalSender)
           b == Opt(m.recipientNickname)
           c == Opt(2 * m.senderPeerID)
           d == IF m.mentions = <<>> THEN <<>>
                ELSE Counted(Least(255, Len(m.mentions)), Strs(m.mentions))
           e == Opt(m.channel)
<1>1. /\ m.id \in Nat /\ m.sender \in Nat /\ m.content \in Nat
      /\ m.originalSender \in Nat /\ m.recipientNickname \in Nat
      /\ m.senderPeerID \in Nat /\ m.channel \in Nat /\ m.mentions \in Seq(Nat)
  BY DEF MessageSizes
<1>2. (IF m.id = 0 THEN UUIDSize ELSE m.id) \in Nat
  BY <1>1 DEF UUIDSize
<1>3. /\ five \in Seq(Honest) /\ Len(five) = 5
      /\ five[1].w = 1 /\ five[2].w = 8 /\ five[3].w = 1 /\ five[4].w = 1 /\ five[5].w = 2
  <2>1. Fixed(1) \in Honest /\ Fixed(1).w = 1 /\ Fixed(8) \in Honest /\ Fixed(8).w = 8
    BY FixedHonest
  <2>2. /\ Str(1, IF m.id = 0 THEN UUIDSize ELSE m.id) \in Honest
        /\ Str(1, IF m.id = 0 THEN UUIDSize ELSE m.id).w = 1
    BY <1>2, StrHonest
  <2>3. /\ Str(1, m.sender) \in Honest /\ Str(1, m.sender).w = 1
        /\ Str(2, m.content) \in Honest /\ Str(2, m.content).w = 2
    BY <1>1, StrHonest
  <2> QED
    BY <2>1, <2>2, <2>3
<1>4. a \in Seq(Honest) /\ b \in Seq(Honest) /\ c \in Seq(Honest) /\ e \in Seq(Honest)
  <2>1. 2 * m.senderPeerID \in Nat
    BY <1>1
  <2> QED
    BY <1>1, <2>1, OptHonest
<1>5. /\ d \in Seq(Solid)
      /\ Len(m.mentions) <= 255 => d \in Seq(Honest)
      /\ Len(m.mentions) > 255 => Len(d) > 255
  <2> DEFINE count == Least(255, Len(m.mentions))
  <2>1. /\ count \in 0..Len(m.mentions)
        /\ Len(m.mentions) <= 255 => count = Len(m.mentions)
        /\ Len(m.mentions) > 255 => count = 255
    BY <1>1 DEF Least
  <2> HIDE DEF count
  <2>2. CASE m.mentions = <<>>
    BY <2>2
  <2>3. CASE m.mentions # <<>>
    <3>1. d = Counted(count, Strs(m.mentions))
      BY <2>3 DEF count
    <3> QED
      BY <1>1, <2>1, <3>1, CountedHonest
  <2> QED
    BY <2>2, <2>3
<1>6. MakeMessagePayload(m) = five \o a \o b \o c \o d \o e
  BY DEF MakeMessagePayload
<1> HIDE DEF five, a, b, c, d, e
<1>7. /\ five \in Seq(Solid) /\ a \in Seq(Solid) /\ b \in Seq(Solid)
      /\ c \in Seq(Solid) /\ e \in Seq(Solid)
  BY <1>3, <1>4 DEF Honest
<1>8. ASSUME NEW x \in Seq(Solid), NEW y \in Seq(Solid),
             Len(x) >= 5, \A i \in 1..5 : x[i] = five[i]
      PROVE  /\ x \o y \in Seq(Solid)
             /\ Len(x \o y) >= 5 /\ Len(x \o y) >= Len(y)
             /\ Len(x \o y) >= Len(x)
             /\ \A i \in 1..5 : (x \o y)[i] = five[i]
  BY <1>8
<1> DEFINE u == five \o a
           v == u \o b
           w == v \o c
           x == w \o d
           y == x \o e
<1>9. u \in Seq(Solid) /\ Len(u) >= 5 /\ \A i \in 1..5 : u[i] = five[i]
  <2>1. Len(five) >= 5 /\ \A i \in 1..5 : five[i] = five[i]
    BY <1>3
  <2> QED
    BY <1>7, <1>8, <2>1, Zenon
<1> HIDE DEF u
<1>10. v \in Seq(Solid) /\ Len(v) >= 5 /\ \A i \in 1..5 : v[i] = five[i]
  BY <1>7, <1>8, <1>9
<1> HIDE DEF v
<1>11. w \in Seq(Solid) /\ Len(w) >= 5 /\ \A i \in 1..5 : w[i] = five[i]
  BY <1>7, <1>8, <1>10
<1> HIDE DEF w
<1>12. /\ x \in Seq(Solid) /\ Len(x) >= 5 /\ Len(x) >= Len(d)
       /\ \A i \in 1..5 : x[i] = five[i]
  BY <1>5, <1>8, <1>11
<1> HIDE DEF x
<1>13. /\ y \in Seq(Solid) /\ Len(y) >= 5 /\ Len(y) >= Len(x)
       /\ \A i \in 1..5 : y[i] = five[i]
  BY <1>7, <1>8, <1>12
<1> HIDE DEF y
<1>14. MakeMessagePayload(m) = y
  BY <1>6 DEF u, v, w, x, y
<1>15. Len(m.mentions) <= 255 => y \in Seq(Honest)
  BY <1>3, <1>4, <1>5 DEF u, v, w, x, y
<1>16. Len(m.mentions) > 255 => Len(y) > 255
  <2>1. Len(x) \in Nat /\ Len(y) \in Nat /\ Len(d) \in Nat
    BY <1>5, <1>12, <1>13
  <2> QED
    BY <1>5, <1>12, <1>13, <2>1
<1>17. 1 \in 1..5 /\ 2 \in 1..5 /\ 3 \in 1..5 /\ 4 \in 1..5 /\ 5 \in 1..5
  OBVIOUS
<1> QED
  BY <1>3, <1>13, <1>14, <1>15, <1>16, <1>17

\* A message whose payload has at most 255 bytes has no more mentions than
\* their count can say.
LEMMA ShortSaysSizes ==
    ASSUME NEW m \in MessageSizes, PayloadSize(MakeMessagePayload(m)) <= 255
    PROVE  MakeMessagePayload(m) \in Seq(Item) /\ SaysSizes(MakeMessagePayload(m))
<1> DEFINE items == MakeMessagePayload(m)
<1>1. /\ items \in Seq(Solid)
      /\ Len(m.mentions) <= 255 => items \in Seq(Honest)
      /\ Len(m.mentions) > 255 => Len(items) > 255
  BY MessageItems
<1> HIDE DEF items
<1>2. items \in Seq(Item)
  BY <1>1 DEF Solid
<1>3. \A i \in 1..Len(items) : items[i].w + items[i].bytes >= 1
  <2> SUFFICES ASSUME NEW i \in 1..Len(items) PROVE items[i].w + items[i].bytes >= 1
    OBVIOUS
  <2>1. items[i] \in Solid
    BY <1>1
  <2> QED
    BY <2>1 DEF Solid
<1>4. Len(items) <= PayloadSize(items) /\ PayloadSize(items) \in Nat /\ Len(items) \in Nat
  BY <1>2, <1>3, ItemsCounted, SizeOfStep DEF PayloadSize
<1>5. Len(m.mentions) \in Nat
  BY DEF MessageSizes
<1>6. items \in Seq(Honest)
  <2>1. PayloadSize(items) <= 255
    BY DEF items
  <2> QED
    BY <1>1, <1>4, <1>5, <2>1
<1>7. SaysSizes(items)
  <2> SUFFICES ASSUME NEW k \in 1..Len(items) PROVE items[k].len = items[k].bytes
    BY <1>2 DEF SaysSizes
  <2>1. items[k] \in Honest
    BY <1>6
  <2> QED
    BY <2>1 DEF Honest
<1> QED
  BY <1>2, <1>7 DEF items

\* Every message takes at least the bytes of its fixed fields.
LEMMA MessageLeast ==
    ASSUME NEW m \in MessageSizes
    PROVE  /\ PayloadSize(MakeMessagePayload(m)) \in Nat
           /\ PayloadSize(MakeMessagePayload(m)) >= 13
<1> DEFINE items == MakeMessagePayload(m)
<1>1. /\ items \in Seq(Solid) /\ Len(items) >= 5
      /\ items[1].w = 1 /\ items[2].w = 8 /\ items[3].w = 1
      /\ items[4].w = 1 /\ items[5].w = 2
  BY MessageItems
<1> HIDE DEF items
<1>2. items \in Seq(Item) /\ Len(items) \in Nat
  BY <1>1 DEF Solid
<1>3. ASSUME NEW k \in 1..5
      PROVE  /\ SizeOf(items, k) \in Nat /\ SizeOf(items, k - 1) \in Nat
             /\ SizeOf(items, k) >= SizeOf(items, k - 1) + items[k].w
  <2>1. k \in 1..Len(items) /\ k \in 0..Len(items) /\ k - 1 \in 0..Len(items)
    BY <1>1, <1>2
  <2>2. items[k].w \in Nat /\ items[k].bytes \in Nat
    BY <1>2, <2>1, ItemType
  <2> QED
    BY <1>2, <2>1, <2>2, SizeOfStep
<1>4. /\ 1 \in 1..5 /\ 2 \in 1..5 /\ 3 \in 1..5 /\ 4 \in 1..5 /\ 5 \in 1..5
      /\ 1 - 1 = 0 /\ 2 - 1 = 1 /\ 3 - 1 = 2 /\ 4 - 1 = 3 /\ 5 - 1 = 4
  OBVIOUS
<1>5. /\ SizeOf(items, 0) = 0
      /\ SizeOf(items, 1) \in Nat /\ SizeOf(items, 1) >= SizeOf(items, 0) + 1
      /\ SizeOf(items, 2) \in Nat /\ SizeOf(items, 2) >= SizeOf(items, 1) + 8
      /\ SizeOf(items, 3) \in Nat /\ SizeOf(items, 3) >= SizeOf(items, 2) + 1
      /\ SizeOf(items, 4) \in Nat /\ SizeOf(items, 4) >= SizeOf(items, 3) + 1
      /\ SizeOf(items, 5) \in Nat /\ SizeOf(items, 5) >= SizeOf(items, 4) + 2
  <2>1. SizeOf(items, 0) = 0
    BY <1>2, SizeOfStep
  <2>2. SizeOf(items, 1) \in Nat /\ SizeOf(items, 1) >= SizeOf(items, 0) + 1
    BY <1>1, <1>3, <1>4
  <2>3. SizeOf(items, 2) \in Nat /\ SizeOf(items, 2) >= SizeOf(items, 1) + 8
    BY <1>1, <1>3, <1>4
  <2>4. SizeOf(items, 3) \in Nat /\ SizeOf(items, 3) >= SizeOf(items, 2) + 1
    BY <1>1, <1>3, <1>4
  <2>5. SizeOf(items, 4) \in Nat /\ SizeOf(items, 4) >= SizeOf(items, 3) + 1
    BY <1>1, <1>3, <1>4
  <2>6. SizeOf(items, 5) \in Nat /\ SizeOf(items, 5) >= SizeOf(items, 4) + 2
    BY <1>1, <1>3, <1>4
  <2> QED
    BY <2>1, <2>2, <2>3, <2>4, <2>5, <2>6
<1>6. SizeOf(items, 5) >= 13
  BY <1>5
<1>7. SizeOf(items, 5) <= SizeOf(items, Len(items)) /\ SizeOf(items, Len(items)) \in Nat
  <2>1. 5 \in 0..Len(items) /\ Len(items) \in 5..Len(items) /\ Len(items) \in 0..Len(items)
    BY <1>1, <1>2
  <2> QED
    BY <1>2, <2>1, SizeOfGrows, SizeOfStep
<1>8. PayloadSize(items) \in Nat /\ PayloadSize(items) >= 13
  BY <1>5, <1>6, <1>7 DEF PayloadSize
<1> QED
  BY <1>8 DEF items

\* A message that is there as a whole and whose items say their sizes is parsed
\* to its end, by tested and by untested reads.
LEMMA WholeMessageParsed ==
    ASSUME NEW items \in Seq(Item), SaysSizes(items), PayloadSize(items) >= 13
    PROVE  ParseMessagePayload(items, PayloadSize(items))
              = [n |-> Len(items), state |-> "done"]
<1> DEFINE size  == PayloadSize(items)
           reads == [k \in DOMAIN items |-> IF k <= 5 THEN ReadPrefixUntested(items, size, k)
                                            ELSE ReadOptional(items, size, k)]
<1>0. Len(items) \in Nat /\ DOMAIN items = 1..Len(items) /\ size \in Nat
  BY SizeOfStep DEF PayloadSize
<1>1. ASSUME NEW k \in 1..Len(items)
      PROVE  /\ ReadPrefixUntested(items, size, k) = "taken"
             /\ ReadOptional(items, size, k) = "taken"
  <2> DEFINE at == SizeOf(items, k - 1) + items[k].w
  <2>1. /\ SizeOf(items, k) = at + items[k].len /\ at \in Nat
        /\ items[k].len \in Nat /\ items[k].len = items[k].bytes
    BY ItemEnds
  <2>2. SizeOf(items, k) <= size
    <3>1. k \in 0..Len(items) /\ Len(items) \in k..Len(items)
      BY <1>0
    <3> QED
      BY <3>1, SizeOfGrows DEF PayloadSize
  <2>3. ReadPrefixUntested(items, size, k) =
           IF at > size THEN "past"
           ELSE IF at + items[k].len > size THEN "stopped"
           ELSE IF items[k].len # items[k].bytes THEN "lost" ELSE "taken"
    BY DEF ReadPrefixUntested
  <2>4. ReadOptional(items, size, k) =
           IF at > size THEN "stopped"
           ELSE IF at + items[k].len > size \/ items[k].len # items[k].bytes THEN "lost"
           ELSE "taken"
    BY DEF ReadOptional
  <2> HIDE DEF at, size
  <2>5. ~(at > size) /\ ~(at + items[k].len > size) /\ ~(items[k].len # items[k].bytes)
    BY <1>0, <2>1, <2>2
  <2> QED
    BY <2>3, <2>4, <2>5
<1>2. ParseMessagePayload(items, size) = Walk(reads)
  <2>1. ~(size < 13)
    BY <1>0
  <2> QED
    BY <2>1 DEF ParseMessagePayload
<1> HIDE DEF size
<1>3. reads = [k \in 1..Len(items) |-> "taken"]
  BY <1>0, <1>1
<1> HIDE DEF reads
<1>4. Len(reads) = Len(items) /\ {k \in DOMAIN reads : reads[k] # "taken"} = {}
  BY <1>0, <1>3
<1>5. Walk(reads) = [n |-> Len(items), state |-> "done"]
  BY <1>4 DEF Walk
<1> QED
  BY <1>2, <1>5 DEF size

-----------------------------------------------------------------------------
(* The other writers.  Their lengths and counts are converted to one byte  *)
(* without a limit, so what they write says its sizes only below 256.      *)

\* A sequence of honest items says its sizes.
LEMMA HonestSaysSizes ==
    ASSUME NEW items \in Seq(Honest)
    PROVE  items \in Seq(Item) /\ SaysSizes(items)
<1>1. items \in Seq(Item)
  BY DEF Honest, Solid
<1>2. ASSUME NEW k \in DOMAIN items
      PROVE  items[k].len = items[k].bytes
  <2>1. items[k] \in Honest
    OBVIOUS
  <2> QED
    BY <2>1 DEF Honest
<1> QED
  BY <1>1, <1>2 DEF SaysSizes

\* An acknowledgement says its sizes whatever its strings are.
LEMMA AckSaysSizes ==
    ASSUME NEW a \in [serverVersion : Nat, platform : Nat, reason : Nat]
    PROVE  MakeVersionAckPayload(a) \in Seq(Item) /\ SaysSizes(MakeVersionAckPayload(a))
<1> DEFINE four == <<Fixed(1), Fixed(1), Str(1, a.serverVersion), Str(1, a.platform)>>
<1>1. Fixed(1) \in Honest /\ Str(1, a.serverVersion) \in Honest /\ Str(1, a.platform) \in Honest
  BY FixedHonest, StrHonest
<1>2. four \in Seq(Honest)
  BY <1>1
<1>3. Opt(a.reason) \in Seq(Honest)
  BY OptHonest
<1>4. MakeVersionAckPayload(a) = four \o Opt(a.reason)
  BY DEF MakeVersionAckPayload
<1> HIDE DEF four
<1>5. MakeVersionAckPayload(a) \in Seq(Honest)
  BY <1>2, <1>3, <1>4
<1> QED
  BY <1>5, HonestSaysSizes

\* One byte holds the numbers below 256.
LEMMA OneByte ==
    ASSUME NEW x \in Nat, x <= 255
    PROVE  x \in 0..x /\ x % Width(1) = x
BY DEF Width

\* A hello with fewer than 256 versions and capabilities says its sizes.
LEMMA HelloSaysSizes ==
    ASSUME NEW h, h.versions \in Nat, h.versions <= 255,
           h.clientVersion \in Nat, h.platform \in Nat,
           h.capabilities \in Seq(Nat), Len(h.capabilities) <= 255
    PROVE  MakeVersionHelloPayload(h) \in Seq(Item) /\ SaysSizes(MakeVersionHelloPayload(h))
<1> DEFINE n     == h.versions
           l     == Len(h.capabilities)
           first == <<Fixed(1)>>
           three == <<Fixed(1), Str(1, h.clientVersion), Str(1, h.platform)>>
           vers  == Counted(n, [i \in 1..n |-> Fixed(1)])
           caps  == IF h.capabilities = <<>> THEN <<>> ELSE Counted(l, Strs(h.capabilities))
<1>1. h.versions \in Nat /\ h.versions <= 255 /\ Len(h.capabilities) \in Nat
  <2>1. \A s \in Seq(Nat) : Len(s) \in Nat
    OBVIOUS
  <2> QED
    BY <2>1, Zenon
<1>2. n % Width(1) = n /\ l % Width(1) = l /\ l \in 0..l
  BY <1>1, OneByte, Zenon
<1>3. MakeVersionHelloPayload(h) = first \o vers \o three \o caps
  BY <1>2, Zenon DEF MakeVersionHelloPayload
<1>4. Fixed(1) \in Honest /\ Str(1, h.clientVersion) \in Honest /\ Str(1, h.platform) \in Honest
  BY FixedHonest, StrHonest
<1>5. first \in Seq(Honest) /\ three \in Seq(Honest)
  BY <1>4
<1>6. vers \in Seq(Honest)
  <2> DEFINE list == [i \in 1..n |-> Fixed(1)]
  <2>1. n \in Nat
    BY <1>1, Zenon
  <2> HIDE DEF n
  <2>2. list \in Seq(Honest) /\ Len(list) = n
    BY <1>4, <2>1
  <2> HIDE DEF list
  <2>3. Counted(n, list) = <<Fixed(1)>> \o SubSeq(list, 1, n) \o <<>>
    BY <2>1, <2>2 DEF Counted
  <2>4. Counted(n, list) \in Seq(Honest)
    BY <1>4, <2>1, <2>2, <2>3
  <2> QED
    BY <2>4 DEF list
<1>7. caps \in Seq(Honest)
  <2>1. Counted(l, Strs(h.capabilities)) \in Seq(Honest)
    BY <1>2, CountedHonest, Zenon
  <2> QED
    BY <2>1
<1> HIDE DEF first, vers, three, caps
<1>8. MakeVersionHelloPayload(h) \in Seq(Honest)
  BY <1>3, <1>5, <1>6, <1>7
<1> QED
  BY <1>8, HonestSaysSizes

\* A channel announcement says its sizes exactly if the name has fewer than 256
\* bytes.
LEMMA ChannelAnnounceSaysSizes ==
    ASSUME NEW channel \in Nat
    PROVE  SaysSizes(MakeChannelAnnouncePayload(channel)) <=> channel <= 255
<1> DEFINE items == MakeChannelAnnouncePayload(channel)
           len   == channel % 256
<1>1. items = <<Fixed(1), [w |-> 1, len |-> len, bytes |-> channel]>>
  BY DEF MakeChannelAnnouncePayload, Width
<1>2. len \in 0..255 /\ (channel <= 255 => len = channel)
  OBVIOUS
<1> HIDE DEF len
<1>3. DOMAIN items = {1, 2} /\ items[1].len = items[1].bytes
      /\ items[2].len = len /\ items[2].bytes = channel
  BY <1>1 DEF Fixed
<1> HIDE DEF items
<1>4. SaysSizes(items) <=> len = channel
  BY <1>3 DEF SaysSizes
<1>5. len = channel <=> channel <= 255
  BY <1>2
<1> QED
  BY <1>4, <1>5 DEF items

=============================================================================
