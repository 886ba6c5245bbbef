--------------------------- MODULE MeshRelayProofs --------------------------
(***************************************************************************)
(* Proofs about MeshRelay, for every mesh, every set of packets, every TTL *)
(* of a uint8_t, any peer lists at the start and any number of failures.   *)
(***************************************************************************)
EXTENDS MeshRelay, TLAPS

-----------------------------------------------------------------------------
(* The range of a node.                                                    *)

\* A node is in its own range.
LEMMA WithinZero ==
    ASSUME NEW n \in Nodes
    PROVE  n \in Within(n, 0)
<1> DEFINE walk == [i \in 0..0 |-> n]
<1>1. walk \in [0..0 -> Nodes] /\ walk[0] = n
  OBVIOUS
<1>2. \A i \in 1..0 : Hop(walk[i - 1], walk[i])
  OBVIOUS
<1> QED
  BY <1>1, <1>2 DEF Within

\* A connection extends the range by one.
LEMMA WithinStep ==
    ASSUME NEW n \in Nodes, NEW k \in Nat, NEW x \in Within(n, k), NEW y \in Nodes, Hop(x, y)
    PROVE  y \in Within(n, k + 1)
<1>1. PICK w \in [0..k -> Nodes] :
         w[0] = n /\ w[k] = x /\ \A i \in 1..k : Hop(w[i - 1], w[i])
  BY DEF Within
<1> DEFINE walk == [i \in 0..(k + 1) |-> IF i <= k THEN w[i] ELSE y]
<1>2. walk \in [0..(k + 1) -> Nodes] /\ walk[0] = n /\ walk[k + 1] = y
  BY <1>1
<1>3. ASSUME NEW i \in 1..(k + 1)
      PROVE  Hop(walk[i - 1], walk[i])
  <2>1. CASE i <= k
    <3>1. i \in 1..k /\ walk[i - 1] = w[i - 1] /\ walk[i] = w[i]
      BY <2>1
    <3> QED
      BY <1>1, <3>1
  <2>2. CASE i = k + 1
    <3>1. walk[i - 1] = x /\ walk[i] = y
      BY <1>1, <2>2
    <3> QED
      BY <3>1
  <2> QED
    BY <2>1, <2>2
<1> HIDE DEF walk
<1> QED
  BY <1>2, <1>3 DEF Within

\* More hops reach no less.
LEMMA WithinMore ==
    ASSUME NEW n \in Nodes, NEW k \in Nat, NEW j \in Nat, k <= j, NEW x \in Within(n, k)
    PROVE  x \in Within(n, j)
<1>1. PICK w \in [0..k -> Nodes] :
         w[0] = n /\ w[k] = x /\ \A i \in 1..k : Hop(w[i - 1], w[i])
  BY DEF Within
<1>2. x \in Nodes
  BY DEF Within
<1> DEFINE walk == [i \in 0..j |-> IF i <= k THEN w[i] ELSE x]
<1>3. walk \in [0..j -> Nodes] /\ walk[0] = n /\ walk[j] = x
  BY <1>1, <1>2
<1>4. ASSUME NEW i \in 1..j
      PROVE  Hop(walk[i - 1], walk[i])
  <2>1. CASE i <= k
    <3>1. i \in 1..k /\ walk[i - 1] = w[i - 1] /\ walk[i] = w[i]
      BY <2>1
    <3> QED
      BY <1>1, <3>1
  <2>2. CASE k < i
    <3>1. walk[i - 1] = x /\ walk[i] = x
      BY <1>1, <2>2
    <3> QED
      BY <3>1 DEF Hop
  <2> QED
    BY <2>1, <2>2
<1> HIDE DEF walk
<1> QED
  BY <1>2, <1>3, <1>4 DEF Within

-----------------------------------------------------------------------------
(* Packets and their TTL.                                                  *)

\* What the proofs use of the constants.
LEMMA MeshConstants ==
    /\ Links \subseteq Nodes \X Nodes
    /\ \A l \in Links : l[1] # l[2] /\ <<l[2], l[1]>> \in Links
    /\ InitialPeers \in [Nodes -> SUBSET Peer]
    /\ \A n \in Nodes : \A q \in InitialPeers[n] : q.peerID # n
    /\ Packets \subseteq [src : Nodes, kind : OriginKinds, num : Nat, to : Nodes]
    /\ NoSender \notin Nodes
    /\ DefaultTTL \in 0 .. TTLRange - 1
BY MeshAssumption, Zenon

\* The packets a node originates are packets.
LEMMA PacketsType == Packets \subseteq PacketType
BY MeshConstants DEF PacketType, Kinds

\* A TTL is a number, at most 255.
LEMMA TTLType ==
    ASSUME NEW p
    PROVE  TTL(p) \in Nat /\ TTL(p) < TTLRange
<1>1. DefaultTTL \in Nat /\ DefaultTTL < TTLRange
  BY MeshConstants DEF TTLRange
<1> QED
  BY <1>1 DEF TTL, TTLRange

\* The decrement of a TTL that is not 0 does not wrap.
LEMMA RelayTTLDecrements ==
    ASSUME NEW t \in Nat, 0 < t, t < TTLRange
    PROVE  RelayTTL(t) = t - 1
BY DEF RelayTTL, TTLRange

\* Who a packet names: its source, or nobody (createChannelAnnouncePacket).
LEMMA SenderCases ==
    ASSUME NEW p, NEW n \in Nodes
    PROVE  /\ p.src # n => Sender(p) # n
           /\ Sender(p) # n => p.src # n \/ p.kind = "channelAnnounce"
BY MeshConstants DEF Sender

\* The answer to a hello is a packet of the node that answers.
LEMMA VersionAckType ==
    ASSUME NEW n \in Nodes, NEW p \in PacketType
    PROVE  VersionAck(n, p) \in PacketType /\ VersionAck(n, p).src = n
BY DEF VersionAck, PacketType, Kinds

-----------------------------------------------------------------------------
(* The inductive invariant.                                                *)

\* The copies that may be on their way over connection l: none of a packet that
\* names the node at its end, and none that has come further than its TTL has been
\* decremented.
GoodCopy(l) ==
    {c \in Copy : /\ Sender(c.pkt) # l[2]
                  /\ c.ttl <= TTL(c.pkt)
                  /\ l[1] \in Within(c.pkt.src, TTL(c.pkt) - c.ttl)}

\* Only connections that are up carry copies.
ChannelsOK(ch) ==
    /\ ch \in [Pairs -> Seq(Copy)]
    /\ \A l \in Pairs : ch[l] \in Seq(GoodCopy(l)) /\ (ch[l] # <<>> => l \in links)

PeersOK ==
    /\ peers \in [Nodes -> SUBSET Peer]
    /\ \A n \in Nodes : GetPeerInfo(peers[n], n) = {}

ProcessedOK ==
    /\ processed \in [Nodes -> SUBSET PacketType]
    /\ \A n \in Nodes : \A p \in processed[n] : n \in Within(p.src, TTL(p) + 1)

MeshInv ==
    /\ PeersOK /\ ProcessedOK
    /\ links \subseteq Links
    /\ ChannelsOK(chan)
    /\ sent \subseteq Packets
    /\ notices \subseteq Pairs

-----------------------------------------------------------------------------
(* Lemmas about the operators on channels.                                 *)

\* A copy on one connection more.
LEMMA AppendedOK ==
    ASSUME NEW ch, ChannelsOK(ch), NEW on, on \subseteq links, NEW c \in Copy,
           \A l \in on : c \in GoodCopy(l)
    PROVE  ChannelsOK([l \in Pairs |-> IF l \in on THEN Append(ch[l], c) ELSE ch[l]])
<1> DEFINE new == [l \in Pairs |-> IF l \in on THEN Append(ch[l], c) ELSE ch[l]]
<1>1. ASSUME NEW l \in Pairs
      PROVE  new[l] \in Seq(Copy) /\ new[l] \in Seq(GoodCopy(l)) /\ (new[l] # <<>> => l \in links)
  <2>1. CASE l \in on
    BY <2>1 DEF ChannelsOK
  <2>2. CASE l \notin on
    BY <2>2 DEF ChannelsOK
  <2> QED
    BY <2>1, <2>2
<1>2. new \in [Pairs -> Seq(Copy)]
  BY <1>1
<1> QED
  BY <1>1, <1>2 DEF ChannelsOK

\* A node's own packet on all of its connections (sendPacket).
LEMMA BroadcastOK ==
    ASSUME NEW ch, ChannelsOK(ch), links \subseteq Links, NEW n \in Nodes,
           NEW p \in PacketType, p.src = n
    PROVE  ChannelsOK(Broadcast(ch, n, [pkt |-> p, ttl |-> TTL(p)]))
<1> DEFINE c  == [pkt |-> p, ttl |-> TTL(p)]
           on == {l \in links : l[1] = n}
<1>1. TTL(p) \in Nat /\ TTL(p) < TTLRange
  BY TTLType
<1>2. c \in Copy
  BY <1>1 DEF Copy, TTLRange
<1>3. ASSUME NEW l \in on
      PROVE  c \in GoodCopy(l)
  <2>1. Sender(p) # l[2] /\ l[1] = n
    BY MeshConstants, SenderCases
  <2>2. n \in Within(n, 0)
    BY WithinZero
  <2>3. c.pkt = p /\ c.ttl = TTL(p) /\ TTL(c.pkt) - c.ttl = 0
    BY <1>1
  <2> QED
    BY <1>1, <1>2, <2>1, <2>2, <2>3 DEF GoodCopy
<1> HIDE DEF c
<1>4. ChannelsOK([l \in Pairs |-> IF l \in on THEN Append(ch[l], c) ELSE ch[l]])
  BY <1>2, <1>3, AppendedOK
<1>5. Broadcast(ch, n, c) = [l \in Pairs |-> IF l \in on THEN Append(ch[l], c) ELSE ch[l]]
  BY DEF Broadcast
<1> QED
  BY <1>4, <1>5 DEF c

\* A copy that is relayed (relayPacket): it has come over one connection more
\* and has one unit of TTL less, and it does not go back to its origin.
LEMMA RelayedOK ==
    ASSUME NEW ch, ChannelsOK(ch), links \subseteq Links,
           NEW a \in Nodes, NEW b \in Nodes, <<a, b>> \in Links,
           NEW c \in GoodCopy(<<a, b>>), Relays(c), NEW list \in SUBSET Peer
    PROVE  ChannelsOK(SendToPeers(ch, b, RelayTargets(list, c.pkt),
                                  [pkt |-> c.pkt, ttl |-> RelayTTL(c.ttl)]))
<1> DEFINE p   == c.pkt
           d   == [pkt |-> p, ttl |-> RelayTTL(c.ttl)]
           ids == RelayTargets(list, p)
           on  == {l \in links : l[1] = b /\ TransportKey[l[2]] \in ids}
<1>1. p \in PacketType /\ p.src \in Nodes /\ c.ttl \in Nat /\ c.ttl < TTLRange
  BY DEF GoodCopy, Copy, PacketType, TTLRange
<1>2. TTL(p) \in Nat
  BY TTLType
<1>3. RelayTTL(c.ttl) = c.ttl - 1 /\ 0 < c.ttl
  BY <1>1, RelayTTLDecrements DEF Relays
<1>4. d \in Copy /\ d.pkt = p /\ d.ttl = c.ttl - 1
  BY <1>1, <1>3 DEF Copy, TTLRange
<1>5. c.ttl <= TTL(p) /\ a \in Within(p.src, TTL(p) - c.ttl)
  BY DEF GoodCopy
<1>6. b \in Within(p.src, TTL(p) - (c.ttl - 1))
  <2>1. TTL(p) - c.ttl \in Nat /\ TTL(p) - (c.ttl - 1) = (TTL(p) - c.ttl) + 1
    BY <1>1, <1>2, <1>5
  <2>2. Hop(a, b)
    BY DEF Hop
  <2>3. b \in Within(p.src, (TTL(p) - c.ttl) + 1)
    BY <1>1, <1>5, <2>1, <2>2, WithinStep
  <2> QED
    BY <2>1, <2>3
<1>7. ASSUME NEW l \in on
      PROVE  d \in GoodCopy(l)
  <2>1. l[1] = b /\ l[2] \in Nodes /\ TransportKey[l[2]] \in ids
    BY MeshConstants
  <2>2. Sender(p) # l[2]
    <3>1. TransportKey[l[2]] # Sender(p) /\ TransportKey[l[2]] \in Nodes
      BY <2>1 DEF RelayTargets, Peer
    <3> QED
      BY <2>1, <3>1, KeyAssumption
  <2>3. d.ttl <= TTL(d.pkt)
    BY <1>1, <1>2, <1>4, <1>5
  <2> QED
    BY <1>4, <1>6, <2>1, <2>2, <2>3 DEF GoodCopy
<1> HIDE DEF d, ids
<1>8. ChannelsOK([l \in Pairs |-> IF l \in on THEN Append(ch[l], d) ELSE ch[l]])
  BY <1>4, <1>7, AppendedOK
<1>9. SendToPeers(ch, b, ids, d) =
         [l \in Pairs |-> IF l \in on THEN Append(ch[l], d) ELSE ch[l]]
  BY DEF SendToPeers
<1> QED
  BY <1>8, <1>9 DEF d, ids

\* The oldest copy is taken off a connection.
LEMMA TakenOK ==
    ASSUME ChannelsOK(chan), NEW a \in Nodes, NEW b \in Nodes, HasPacket(a, b)
    PROVE  /\ ChannelsOK([chan EXCEPT ![<<a, b>>] = Tail(@)])
           /\ Head(chan[<<a, b>>]) \in GoodCopy(<<a, b>>)
           /\ <<a, b>> \in links
<1> DEFINE m == <<a, b>>
<1>1. m \in Pairs /\ chan[m] # <<>>
  BY DEF Pairs, HasPacket
<1> HIDE DEF m
<1>2. /\ chan[m] \in Seq(Copy) /\ chan[m] \in Seq(GoodCopy(m)) /\ m \in links
      /\ chan \in [Pairs -> Seq(Copy)]
  BY <1>1 DEF ChannelsOK
<1>3. Head(chan[m]) \in GoodCopy(m) /\ Tail(chan[m]) \in Seq(GoodCopy(m))
      /\ Tail(chan[m]) \in Seq(Copy)
  BY <1>1, <1>2
<1>4. ChannelsOK([chan EXCEPT ![m] = Tail(@)])
  BY <1>1, <1>2, <1>3 DEF ChannelsOK
<1> QED
  BY <1>2, <1>3, <1>4 DEF m

\* What a handler does to a peer list: nothing, or it removes a peer that
\* rejects or leaves, or it enters one that announces itself or greets and is compatible.
LEMMA HandleCases ==
    ASSUME NEW list, NEW n, NEW p, NEW via
    PROVE  \/ Handle(list, n, p, via) = list
           \/ /\ p.kind \in {"reject", "leave"}
              /\ Handle(list, n, p, via) = RemovePeer(list, p.src)
           \/ /\ p.kind = "announce" \/ (p.kind = "hello" /\ Agreed(n, p.src))
              /\ \E v \in {via, NoPeripheral} :
                    Handle(list, n, p, via)
                       = AddPeer(list, [peerID |-> p.src, peripheralID |-> v])
<1>1. CASE p.kind \in {"reject", "leave"}
  BY <1>1 DEF Handle, Rejected
<1>2. CASE p.kind = "hello"
  BY <1>2 DEF Handle, Rejected, Greet
<1>3. CASE p.kind = "announce"
  BY <1>3 DEF Handle, Rejected
<1>4. CASE p.kind \notin {"hello", "announce", "reject", "leave"}
  BY <1>4 DEF Handle, Rejected
<1> QED
  BY <1>1, <1>2, <1>3, <1>4

\* The handlers of MessageService never list the node itself.
LEMMA HandledPeers ==
    ASSUME NEW n \in Nodes, NEW list \in SUBSET Peer, GetPeerInfo(list, n) = {},
           NEW p \in PacketType, Sender(p) # n, NEW via \in Nodes \cup {NoPeripheral}
    PROVE  /\ Handle(list, n, p, via) \in SUBSET Peer
           /\ GetPeerInfo(Handle(list, n, p, via), n) = {}
<1>1. p.src \in Nodes
  BY DEF PacketType
<1>2. ASSUME NEW v \in Nodes \cup {NoPeripheral}, p.kind # "channelAnnounce"
      PROVE  LET new == AddPeer(list, [peerID |-> p.src, peripheralID |-> v])
             IN  new \in SUBSET Peer /\ GetPeerInfo(new, n) = {}
  <2>1. p.src # n
    BY <1>2, SenderCases
  <2> QED
    BY <1>1, <2>1 DEF AddPeer, GetPeerInfo, Peer
<1>3. /\ RemovePeer(list, p.src) \in SUBSET Peer
      /\ GetPeerInfo(RemovePeer(list, p.src), n) = {}
  BY DEF RemovePeer, GetPeerInfo
<1>4. CASE Handle(list, n, p, via) = list
  BY <1>4
<1>5. CASE Handle(list, n, p, via) = RemovePeer(list, p.src)
  BY <1>3, <1>5
<1>6. ASSUME p.kind \in {"announce", "hello"}, NEW v \in {via, NoPeripheral},
             Handle(list, n, p, via) = AddPeer(list, [peerID |-> p.src, peripheralID |-> v])
      PROVE  /\ Handle(list, n, p, via) \in SUBSET Peer
             /\ GetPeerInfo(Handle(list, n, p, via), n) = {}
  BY <1>2, <1>6
<1> QED
  BY <1>4, <1>5, <1>6, HandleCases

-----------------------------------------------------------------------------
(* The steps.                                                              *)

\* Initially nothing is on its way.
LEMMA MeshInit == Init => MeshInv
<1> SUFFICES ASSUME Init
             PROVE  MeshInv
  OBVIOUS
<1>1. PeersOK
  BY MeshConstants DEF Init, PeersOK, GetPeerInfo
<1>2. ProcessedOK
  BY DEF Init, ProcessedOK
<1>3. ChannelsOK(chan)
  BY DEF Init, ChannelsOK
<1> QED
  BY <1>1, <1>2, <1>3, MeshConstants DEF Init, MeshInv

\* onPacketReceived with everything it calls.
LEMMA ReceiveStep ==
    ASSUME MeshInv, NEW a \in Nodes, NEW b \in Nodes, NEW via \in {a, NoPeripheral},
           Receive(a, b, via)
    PROVE  MeshInv'
<1> DEFINE copy  == Head(chan[<<a, b>>])
           p     == copy.pkt
           fresh == ~WasMessageProcessed(processed[b], p)
           list  == IF fresh THEN Handle(peers[b], b, p, via) ELSE peers[b]
           taken == [chan EXCEPT ![<<a, b>>] = Tail(@)]
           ack   == VersionAck(b, p)
           acked == IF fresh /\ p.kind = "hello"
                    THEN Broadcast(taken, b, [pkt |-> ack, ttl |-> TTL(ack)])
                    ELSE taken
<1>1. /\ ChannelsOK(taken) /\ copy \in GoodCopy(<<a, b>>) /\ <<a, b>> \in links
  BY TakenOK DEF Receive, MeshInv
<1>2. /\ peers' = [peers EXCEPT ![b] = list]
      /\ processed' = IF fresh THEN [processed EXCEPT ![b] = MarkMessageProcessed(@, p)]
                      ELSE processed
      /\ chan' = IF Relays(copy)
                 THEN SendToPeers(acked, b, RelayTargets(list, p),
                                  [pkt |-> p, ttl |-> RelayTTL(copy.ttl)])
                 ELSE acked
      /\ UNCHANGED <<links, sent, notices>>
  BY DEF Receive
<1>3. /\ p \in PacketType /\ p.src \in Nodes /\ Sender(p) # b
      /\ copy.ttl \in Nat /\ copy.ttl <= TTL(p)
      /\ a \in Within(p.src, TTL(p) - copy.ttl)
  BY <1>1 DEF GoodCopy, Copy, PacketType
<1>4. <<a, b>> \in Links /\ links \subseteq Links
  BY <1>1 DEF MeshInv
<1> HIDE DEF copy, taken
<1>5. list \in SUBSET Peer /\ GetPeerInfo(list, b) = {}
  <2>1. peers[b] \in SUBSET Peer /\ GetPeerInfo(peers[b], b) = {}
    BY DEF MeshInv, PeersOK
  <2> HIDE DEF p
  <2> QED
    BY <1>3, <2>1, HandledPeers
<1> HIDE DEF list
<1>6. PeersOK'
  BY <1>2, <1>5 DEF MeshInv, PeersOK, GetPeerInfo
<1>7. b \in Within(p.src, TTL(p) + 1)
  <2>1. TTL(p) \in Nat
    BY TTLType
  <2>2. TTL(p) - copy.ttl \in Nat
    BY <1>3, <2>1
  <2>3. b \in Within(p.src, (TTL(p) - copy.ttl) + 1)
    BY <1>3, <1>4, <2>2, WithinStep DEF Hop
  <2>4. /\ (TTL(p) - copy.ttl) + 1 \in Nat /\ TTL(p) + 1 \in Nat
        /\ (TTL(p) - copy.ttl) + 1 <= TTL(p) + 1
    BY <1>3, <2>1
  <2> QED
    BY <1>3, <2>3, <2>4, WithinMore
<1> HIDE DEF p
<1>8. ProcessedOK'
  <2>1. CASE fresh
    <3>1. processed' = [processed EXCEPT ![b] = MarkMessageProcessed(@, p)]
      BY <1>2, <2>1
    <3>2. MarkMessageProcessed(processed[b], p) \in {{}, processed[b] \cup {p}}
      BY DEF MarkMessageProcessed
    <3> QED
      BY <1>3, <1>7, <3>1, <3>2 DEF MeshInv, ProcessedOK
  <2>2. CASE ~fresh
    BY <1>2, <2>2 DEF MeshInv, ProcessedOK
  <2> QED
    BY <2>1, <2>2
<1>9. ChannelsOK(acked)
  <2>1. CASE fresh /\ p.kind = "hello"
    <3>1. ack \in PacketType /\ ack.src = b
      BY <1>3, VersionAckType
    <3> HIDE DEF ack, fresh
    <3> QED
      BY <1>1, <1>4, <2>1, <3>1, BroadcastOK
  <2>2. CASE ~(fresh /\ p.kind = "hello")
    BY <1>1, <2>2
  <2> QED
    BY <2>1, <2>2
<1> HIDE DEF acked
<1>10. ChannelsOK(chan')
  <2>1. CASE Relays(copy)
    <3>1. chan' = SendToPeers(acked, b, RelayTargets(list, copy.pkt),
                              [pkt |-> copy.pkt, ttl |-> RelayTTL(copy.ttl)])
      BY <1>2, <2>1 DEF p
    <3> QED
      BY <1>1, <1>4, <1>5, <1>9, <2>1, <3>1, RelayedOK
  <2>2. CASE ~Relays(copy)
    BY <1>2, <1>9, <2>2
  <2> QED
    BY <2>1, <2>2
<1>11. ChannelsOK(chan)'
  BY <1>2, <1>10 DEF ChannelsOK
<1> QED
  BY <1>2, <1>6, <1>8, <1>11 DEF MeshInv

\* Every step keeps the invariant.
LEMMA MeshStep == MeshInv /\ [Next]_vars => MeshInv'
<1> SUFFICES ASSUME MeshInv, [Next]_vars
             PROVE  MeshInv'
  OBVIOUS
<1>1. ASSUME NEW p \in Packets, Originate(p)
      PROVE  MeshInv'
  <2>1. p \in PacketType /\ p.src \in Nodes
    BY PacketsType DEF PacketType
  <2>2. /\ chan' = Broadcast(chan, p.src, [pkt |-> p, ttl |-> TTL(p)])
        /\ sent' = sent \cup {p}
        /\ UNCHANGED <<peers, processed, links, notices>>
    BY <1>1 DEF Originate
  <2>3. ChannelsOK(chan')
    BY <2>1, <2>2, BroadcastOK DEF MeshInv
  <2>4. ChannelsOK(chan)'
    BY <2>2, <2>3 DEF ChannelsOK
  <2> QED
    BY <2>2, <2>4 DEF MeshInv, PeersOK, ProcessedOK
<1>2. ASSUME NEW p \in Packets, SendVersionHello(p)
      PROVE  MeshInv'
  <2>1. p \in PacketType /\ p.src \in Nodes /\ p.to \in Nodes
    BY PacketsType DEF PacketType
  <2> DEFINE l == <<p.src, p.to>>
             c == [pkt |-> p, ttl |-> TTL(p)]
  <2>2. /\ chan' = IF l \in links THEN [chan EXCEPT ![l] = Append(@, c)] ELSE chan
        /\ sent' = sent \cup {p}
        /\ UNCHANGED <<peers, processed, links, notices>>
    BY <1>2 DEF SendVersionHello
  <2>3. l \in Pairs /\ l[1] = p.src /\ l[2] = p.to
    BY <2>1 DEF Pairs
  <2>4. TTL(p) \in Nat /\ TTL(p) < TTLRange
    BY TTLType
  <2>5. c \in Copy /\ c.pkt = p /\ c.ttl = TTL(p)
    BY <2>1, <2>4 DEF Copy, TTLRange
  <2> HIDE DEF l, c
  <2>6. ASSUME l \in links
        PROVE  c \in GoodCopy(l)
    <3>1. Sender(p) # l[2]
      BY <2>1, <2>3, <2>6, MeshConstants, SenderCases DEF MeshInv
    <3>2. p.src \in Within(p.src, 0) /\ TTL(c.pkt) - c.ttl = 0
      BY <2>1, <2>4, <2>5, WithinZero
    <3> QED
      BY <2>3, <2>4, <2>5, <3>1, <3>2 DEF GoodCopy
  <2>7. ChannelsOK(chan')
    <3>1. CASE l \in links
      <4>1. chan[l] \in Seq(Copy) /\ chan[l] \in Seq(GoodCopy(l))
        BY <2>3 DEF MeshInv, ChannelsOK
      <4>2. Append(chan[l], c) \in Seq(Copy) /\ Append(chan[l], c) \in Seq(GoodCopy(l))
        BY <2>5, <2>6, <3>1, <4>1
      <4> QED
        BY <2>2, <2>3, <3>1, <4>2 DEF MeshInv, ChannelsOK
    <3>2. CASE l \notin links
      BY <2>2, <3>2 DEF MeshInv
    <3> QED
      BY <3>1, <3>2
  <2>8. ChannelsOK(chan)'
    BY <2>2, <2>7 DEF ChannelsOK
  <2> QED
    BY <2>2, <2>8 DEF MeshInv, PeersOK, ProcessedOK
<1>3. ASSUME NEW a \in Nodes, NEW b \in Nodes, Deliver(a, b)
      PROVE  MeshInv'
  BY <1>3, ReceiveStep DEF Deliver
<1>4. ASSUME NEW a \in Nodes, NEW b \in Nodes, LinkDown(a, b)
      PROVE  MeshInv'
  <2>1. /\ links' = links \ {<<a, b>>, <<b, a>>}
        /\ chan' = [chan EXCEPT ![<<a, b>>] = <<>>, ![<<b, a>>] = <<>>]
        /\ notices' = notices \cup {<<a, b>>, <<b, a>>}
        /\ UNCHANGED <<peers, processed, sent>>
    BY <1>4 DEF LinkDown
  <2>2. <<a, b>> \in Pairs /\ <<b, a>> \in Pairs
    BY DEF Pairs
  <2> DEFINE down == {<<a, b>>, <<b, a>>}
  <2>3. chan' = [l \in Pairs |-> IF l \in down THEN <<>> ELSE chan[l]]
    BY <2>1, <2>2 DEF MeshInv, ChannelsOK
  <2>4. links' = links \ down
    BY <2>1
  <2> HIDE DEF down
  <2>5. ASSUME NEW l \in Pairs
        PROVE  /\ chan'[l] \in Seq(GoodCopy(l)) /\ chan'[l] \in Seq(Copy)
               /\ chan'[l] # <<>> => l \in links'
    <3>1. CASE l \in down
      <4>1. chan'[l] = <<>>
        BY <2>3, <3>1
      <4> QED
        BY <4>1
    <3>2. CASE l \notin down
      <4>1. chan'[l] = chan[l]
        BY <2>3, <3>2
      <4> QED
        BY <2>4, <3>2, <4>1 DEF MeshInv, ChannelsOK
    <3> QED
      BY <3>1, <3>2
  <2>6. ChannelsOK(chan)'
    BY <2>3, <2>5 DEF ChannelsOK
  <2> QED
    BY <2>1, <2>2, <2>6 DEF MeshInv, PeersOK, ProcessedOK
<1>5. ASSUME NEW n \in Nodes, NEW m \in Nodes, PeerDisconnected(n, m)
      PROVE  MeshInv'
  <2>1. notices' = notices \ {<<n, m>>} /\ UNCHANGED <<processed, links, chan, sent>>
    BY <1>5 DEF PeerDisconnected
  <2>2. PeersOK'
    <3>1. CASE UNCHANGED peers
      BY <3>1 DEF MeshInv, PeersOK
    <3>2. ASSUME NEW q \in peers[n], peers' = [peers EXCEPT ![n] = RemovePeer(@, q.peerID)]
          PROVE  PeersOK'
      BY <3>2 DEF MeshInv, PeersOK, RemovePeer, GetPeerInfo
    <3> QED
      BY <1>5, <3>1, <3>2 DEF PeerDisconnected
  <2> QED
    BY <2>1, <2>2 DEF MeshInv, ProcessedOK, ChannelsOK
<1>6. CASE UNCHANGED vars
  BY <1>6 DEF vars, MeshInv, PeersOK, ProcessedOK, ChannelsOK
<1> QED
  BY <1>1, <1>2, <1>3, <1>4, <1>5, <1>6 DEF Next

-----------------------------------------------------------------------------
(* The theorems.                                                           *)

\* A copy on its way is a good one.
LEMMA InFlightGood ==
    ASSUME MeshInv, NEW l \in Pairs, NEW c \in InFlight(l)
    PROVE  c \in GoodCopy(l)
<1>1. chan[l] \in Seq(GoodCopy(l))
  BY DEF MeshInv, ChannelsOK
<1> QED
  BY <1>1 DEF InFlight

\* The state of the mesh has its types: no TTL leaves the range of its byte.
THEOREM TypeCorrect == Spec => []TypeOK
<1>1. MeshInv => TypeOK
  BY DEF MeshInv, PeersOK, ProcessedOK, ChannelsOK, TypeOK
<1> QED
  BY MeshInit, MeshStep, <1>1, PTL DEF Spec

\* In every mesh, whatever loops it has, no copy of a packet is on its way to the
\* node it names as its sender, and no node lists itself although its channel
\* announcements, which name nobody, come back to it (the senderID test of
\* relayPacket).
THEOREM NeverBackToSource == Spec => []NeverToSource
<1>1. MeshInv => NeverToSource
  BY InFlightGood DEF MeshInv, PeersOK, NeverToSource, GoodCopy
<1> QED
  BY MeshInit, MeshStep, <1>1, PTL DEF Spec

\* In every mesh the TTL bounds the range of a packet: it is handled at most
\* TTL + 1 connections away from its origin (relayPacket's decrement).
THEOREM RangeBounded == Spec => []RangeBound
<1>1. MeshInv => RangeBound
  BY InFlightGood DEF MeshInv, ProcessedOK, RangeBound, GoodCopy
<1> QED
  BY MeshInit, MeshStep, <1>1, PTL DEF Spec

-----------------------------------------------------------------------------
(* Who is listed, and why one leaves.  What is on its way is what its      *)
(* source made, although other nodes pass it on.                           *)

\* A packet that was originated, or the answer of its source to a hello that
\* was, where s is what was originated so far.
Genuine(p, s) ==
    \/ p \in s
    \/ \E h \in s : h.kind = "hello" /\ p = VersionAck(p.src, h)

AllGenuine(channels, s) ==
    \A l \in Pairs : \A i \in DOMAIN channels[l] : Genuine(channels[l][i].pkt, s)

\* A genuine packet stays so.
LEMMA GenuineStays ==
    ASSUME NEW channels, NEW s, NEW t, s \subseteq t, AllGenuine(channels, s)
    PROVE  AllGenuine(channels, t)
BY DEF AllGenuine, Genuine

\* Copies of a genuine packet on further connections.
LEMMA AppendGenuine ==
    ASSUME NEW channels \in [Pairs -> Seq(Copy)], NEW s, AllGenuine(channels, s),
           NEW on, NEW c \in Copy, Genuine(c.pkt, s)
    PROVE  AllGenuine([l \in Pairs |-> IF l \in on THEN Append(channels[l], c)
                                       ELSE channels[l]], s)
<1> DEFINE new == [l \in Pairs |-> IF l \in on THEN Append(channels[l], c) ELSE channels[l]]
<1> SUFFICES ASSUME NEW l \in Pairs, NEW i \in DOMAIN new[l]
             PROVE  Genuine(new[l][i].pkt, s)
  BY DEF AllGenuine
<1>1. channels[l] \in Seq(Copy) /\ \A k \in DOMAIN channels[l] : Genuine(channels[l][k].pkt, s)
  BY DEF AllGenuine
<1>2. new[l] \in {channels[l], Append(channels[l], c)}
  OBVIOUS
<1> HIDE DEF new
<1>3. CASE new[l] = channels[l]
  BY <1>1, <1>3
<1>4. CASE new[l] = Append(channels[l], c)
  <2>1. /\ DOMAIN channels[l] = 1..Len(channels[l]) /\ Len(channels[l]) \in Nat
        /\ i \in 1..(Len(channels[l]) + 1)
    BY <1>1, <1>4
  <2>2. CASE i = Len(channels[l]) + 1
    <3>1. new[l][i] = c
      BY <1>1, <1>4, <2>1, <2>2
    <3> QED
      BY <3>1
  <2>3. CASE i # Len(channels[l]) + 1
    <3>1. i \in DOMAIN channels[l] /\ new[l][i] = channels[l][i]
      BY <1>1, <1>4, <2>1, <2>3
    <3> QED
      BY <1>1, <3>1
  <2> QED
    BY <2>2, <2>3
<1> QED
  BY <1>2, <1>3, <1>4

\* So it is with a packet that is broadcast or relayed.
LEMMA SentGenuine ==
    ASSUME NEW channels \in [Pairs -> Seq(Copy)], NEW s, AllGenuine(channels, s),
           NEW n, NEW ids, NEW c \in Copy, Genuine(c.pkt, s)
    PROVE  /\ AllGenuine(Broadcast(channels, n, c), s)
           /\ AllGenuine(SendToPeers(channels, n, ids, c), s)
<1> DEFINE all == {l \in links : l[1] = n}
           sel == {l \in links : l[1] = n /\ TransportKey[l[2]] \in ids}
<1>1. Broadcast(channels, n, c) =
         [l \in Pairs |-> IF l \in all THEN Append(channels[l], c) ELSE channels[l]]
  BY DEF Broadcast
<1>2. SendToPeers(channels, n, ids, c) =
         [l \in Pairs |-> IF l \in sel THEN Append(channels[l], c) ELSE channels[l]]
  BY DEF SendToPeers
<1> HIDE DEF all, sel
<1>3. AllGenuine([l \in Pairs |-> IF l \in all THEN Append(channels[l], c) ELSE channels[l]], s)
  BY AppendGenuine
<1>4. AllGenuine([l \in Pairs |-> IF l \in sel THEN Append(channels[l], c) ELSE channels[l]], s)
  BY AppendGenuine
<1> QED
  BY <1>1, <1>2, <1>3, <1>4

\* The copy that is taken is genuine, and so are the others.
LEMMA TakenGenuine ==
    ASSUME chan \in [Pairs -> Seq(Copy)], NEW s, AllGenuine(chan, s),
           NEW a \in Nodes, NEW b \in Nodes, HasPacket(a, b)
    PROVE  /\ AllGenuine([chan EXCEPT ![<<a, b>>] = Tail(@)], s)
           /\ Genuine(Head(chan[<<a, b>>]).pkt, s)
<1> DEFINE m   == <<a, b>>
           new == [chan EXCEPT ![m] = Tail(@)]
<1>1. m \in Pairs /\ chan[m] # <<>>
  BY DEF Pairs, HasPacket
<1> HIDE DEF m
<1>2. chan[m] \in Seq(Copy) /\ \A i \in DOMAIN chan[m] : Genuine(chan[m][i].pkt, s)
  BY <1>1 DEF AllGenuine
<1>3. Genuine(Head(chan[m]).pkt, s)
  BY <1>1, <1>2
<1>4. ASSUME NEW l \in Pairs, NEW i \in DOMAIN new[l]
      PROVE  Genuine(new[l][i].pkt, s)
  <2>1. CASE l = m
    <3>1. new[l] = Tail(chan[m])
      BY <1>1, <2>1
    <3>2. i + 1 \in DOMAIN chan[m] /\ new[l][i] = chan[m][i + 1]
      BY <1>1, <1>2, <3>1
    <3> QED
      BY <1>2, <3>2
  <2>2. CASE l # m
    <3>1. new[l] = chan[l]
      BY <1>1, <2>2
    <3> QED
      BY <3>1 DEF AllGenuine
  <2> QED
    BY <2>1, <2>2
<1>5. AllGenuine(new, s)
  BY <1>4 DEF AllGenuine
<1> QED
  BY <1>3, <1>5 DEF m

\* The inductive invariant about what nodes say of each other.
SpokenInv == AllGenuine(chan, sent) /\ PeersSpoke

\* Somebody has spoken so that n may list m.
Spoke(n, m, s) ==
    \/ GetPeerInfo(InitialPeers[n], m) # {}
    \/ \E p \in s : p.src = m /\ (p.kind = "announce" \/ (p.kind = "hello" /\ Agreed(n, p.src)))

\* Whoever the handler of a genuine packet leaves in the list has spoken.
LEMMA HandledSpoke ==
    ASSUME NEW n, NEW list, NEW p, NEW via, NEW s, Genuine(p, s),
           \A q \in list : Spoke(n, q.peerID, s)
    PROVE  \A q \in Handle(list, n, p, via) : Spoke(n, q.peerID, s)
<1>1. CASE Handle(list, n, p, via) = list
  BY <1>1
<1>2. CASE Handle(list, n, p, via) = RemovePeer(list, p.src)
  BY <1>2 DEF RemovePeer
<1>3. ASSUME p.kind = "announce" \/ (p.kind = "hello" /\ Agreed(n, p.src)),
             NEW v \in {via, NoPeripheral},
             Handle(list, n, p, via) = AddPeer(list, [peerID |-> p.src, peripheralID |-> v])
      PROVE  \A q \in Handle(list, n, p, via) : Spoke(n, q.peerID, s)
  <2>1. p \in s
    BY <1>3 DEF Genuine, VersionAck
  <2>2. Spoke(n, p.src, s)
    BY <1>3, <2>1 DEF Spoke
  <2> QED
    BY <1>3, <2>2 DEF AddPeer
<1> QED
  BY <1>1, <1>2, <1>3, HandleCases

\* A genuine leave or rejection is a departure of its source.
LEMMA DepartureGenuine ==
    ASSUME NEW p, Genuine(p, sent), p.kind \in {"reject", "leave"}, sent \subseteq Packets
    PROVE  p \in Departures(p.src)
<1>1. CASE p \in sent
  <2>1. p.kind = "leave"
    BY <1>1, MeshConstants DEF OriginKinds
  <2> QED
    BY <1>1, <2>1 DEF Departures
<1>2. CASE p \notin sent
  <2>1. PICK h \in sent : h.kind = "hello" /\ p = VersionAck(p.src, h)
    BY <1>2 DEF Genuine
  <2>2. p.kind = IF Agreed(p.src, h.src) THEN "accept" ELSE "reject"
    BY <2>1 DEF VersionAck
  <2>3. ~Agreed(p.src, h.src)
    BY <2>2
  <2> QED
    BY <2>1, <2>3 DEF Departures
<1> QED
  BY <1>1, <1>2

\* onPacketReceived keeps it: what is relayed is what arrived, and a fresh hello
\* is answered by the node itself.
LEMMA ReceiveSpoken ==
    ASSUME MeshInv, SpokenInv, NEW a \in Nodes, NEW b \in Nodes,
           NEW via \in {a, NoPeripheral}, Receive(a, b, via)
    PROVE  SpokenInv'
<1> DEFINE copy  == Head(chan[<<a, b>>])
           p     == copy.pkt
           fresh == ~WasMessageProcessed(processed[b], p)
           list  == IF fresh THEN Handle(peers[b], b, p, via) ELSE peers[b]
           taken == [chan EXCEPT ![<<a, b>>] = Tail(@)]
           ack   == VersionAck(b, p)
           acked == IF fresh /\ p.kind = "hello"
                    THEN Broadcast(taken, b, [pkt |-> ack, ttl |-> TTL(ack)])
                    ELSE taken
<1>1. /\ ChannelsOK(taken) /\ copy \in GoodCopy(<<a, b>>)
  BY TakenOK DEF Receive, MeshInv
<1>2. /\ peers' = [peers EXCEPT ![b] = list]
      /\ chan' = IF Relays(copy)
                 THEN SendToPeers(acked, b, RelayTargets(list, p),
                                  [pkt |-> p, ttl |-> RelayTTL(copy.ttl)])
                 ELSE acked
      /\ UNCHANGED <<links, sent, notices>>
  BY DEF Receive
<1>3. AllGenuine(taken, sent) /\ Genuine(p, sent)
  BY TakenGenuine DEF Receive, MeshInv, ChannelsOK, SpokenInv
<1>4. p \in PacketType /\ copy.ttl \in Nat /\ copy.ttl < TTLRange
  <2> HIDE DEF copy
  <2>1. copy \in Copy
    BY <1>1 DEF GoodCopy
  <2> QED
    BY <2>1 DEF Copy, TTLRange
<1>5. taken \in [Pairs -> Seq(Copy)]
  BY <1>1 DEF ChannelsOK
<1> HIDE DEF copy, taken, p
<1>6. AllGenuine(acked, sent) /\ acked \in [Pairs -> Seq(Copy)]
  <2>1. CASE fresh /\ p.kind = "hello"
    <3>1. ack \in PacketType /\ ack.src = b
      BY <1>4, VersionAckType
    <3>2. p \in sent
      BY <1>3, <2>1 DEF Genuine, VersionAck
    <3>3. Genuine(ack, sent)
      BY <2>1, <3>1, <3>2 DEF Genuine
    <3> DEFINE c == [pkt |-> ack, ttl |-> TTL(ack)]
    <3> HIDE DEF ack, fresh
    <3>4. c \in Copy /\ c.pkt = ack
      BY <3>1, TTLType DEF Copy, TTLRange
    <3> HIDE DEF c
    <3>5. acked = Broadcast(taken, b, c)
      BY <2>1 DEF c
    <3> HIDE DEF acked
    <3>6. AllGenuine(acked, sent)
      BY <1>3, <1>5, <3>3, <3>4, <3>5, SentGenuine
    <3>7. acked \in [Pairs -> Seq(Copy)]
      BY <1>5, <3>4, <3>5 DEF Broadcast
    <3> QED
      BY <3>6, <3>7
  <2>2. CASE ~(fresh /\ p.kind = "hello")
    BY <1>3, <1>5, <2>2
  <2> QED
    BY <2>1, <2>2
<1> HIDE DEF acked
<1>7. AllGenuine(chan', sent)
  <2>1. CASE Relays(copy)
    <3> DEFINE c == [pkt |-> p, ttl |-> RelayTTL(copy.ttl)]
    <3>1. c \in Copy /\ c.pkt = p
      <4>1. 0 < copy.ttl
        BY <1>4, <2>1 DEF Relays
      <4>2. RelayTTL(copy.ttl) \in 0 .. TTLRange - 1
        BY <1>4, <4>1, RelayTTLDecrements DEF TTLRange
      <4> QED
        BY <1>4, <4>2 DEF Copy
    <3> HIDE DEF c
    <3>2. chan' = SendToPeers(acked, b, RelayTargets(list, p), c)
      BY <1>2, <2>1 DEF c
    <3>3. AllGenuine(SendToPeers(acked, b, RelayTargets(list, p), c), sent)
      BY <1>3, <1>6, <3>1, SentGenuine
    <3> QED
      BY <3>2, <3>3
  <2>2. CASE ~Relays(copy)
    BY <1>2, <1>6, <2>2
  <2> QED
    BY <2>1, <2>2
<1>8. \A q \in list : Spoke(b, q.peerID, sent)
  <2>1. \A q \in peers[b] : Spoke(b, q.peerID, sent)
    BY DEF SpokenInv, PeersSpoke, Spoke
  <2>2. \A q \in Handle(peers[b], b, p, via) : Spoke(b, q.peerID, sent)
    BY <1>3, <2>1, HandledSpoke
  <2> QED
    BY <2>1, <2>2
<1> HIDE DEF list
<1>9. ASSUME NEW n \in Nodes, NEW q \in peers'[n]
      PROVE  Spoke(n, q.peerID, sent)
  <2>1. CASE n = b
    BY <1>2, <1>8, <2>1 DEF MeshInv, PeersOK
  <2>2. CASE n # b
    <3>1. q \in peers[n]
      BY <1>2, <2>2 DEF MeshInv, PeersOK
    <3> QED
      BY <3>1 DEF SpokenInv, PeersSpoke, Spoke
  <2> QED
    BY <2>1, <2>2
<1>10. PeersSpoke'
  BY <1>2, <1>9 DEF PeersSpoke, Spoke
<1>11. AllGenuine(chan, sent)'
  BY <1>2, <1>7 DEF AllGenuine
<1> QED
  BY <1>10, <1>11 DEF SpokenInv

\* Every step keeps it.
LEMMA SpokenStep == MeshInv /\ SpokenInv /\ [Next]_vars => SpokenInv'
<1> SUFFICES ASSUME MeshInv, SpokenInv, [Next]_vars
             PROVE  SpokenInv'
  OBVIOUS
<1>0. chan \in [Pairs -> Seq(Copy)] /\ AllGenuine(chan, sent)
  BY DEF MeshInv, ChannelsOK, SpokenInv
<1>1. ASSUME NEW p \in Packets, sent' = sent \cup {p}, UNCHANGED peers
      PROVE  PeersSpoke' /\ AllGenuine(chan, sent')
  <2>1. PeersSpoke'
    BY <1>1 DEF SpokenInv, PeersSpoke
  <2>2. AllGenuine(chan, sent')
    BY <1>0, <1>1, GenuineStays
  <2> QED
    BY <2>1, <2>2
<1>2. ASSUME NEW p \in Packets, sent' = sent \cup {p}
      PROVE  LET c == [pkt |-> p, ttl |-> TTL(p)] IN c \in Copy /\ Genuine(c.pkt, sent')
  <2>1. p \in PacketType
    BY PacketsType
  <2>2. [pkt |-> p, ttl |-> TTL(p)] \in Copy
    BY <2>1, TTLType DEF Copy, TTLRange
  <2> QED
    BY <1>2, <2>2 DEF Genuine
<1>3. ASSUME NEW p \in Packets, Originate(p)
      PROVE  SpokenInv'
  <2> DEFINE c == [pkt |-> p, ttl |-> TTL(p)]
  <2>1. sent' = sent \cup {p} /\ UNCHANGED peers /\ chan' = Broadcast(chan, p.src, c)
    BY <1>3 DEF Originate
  <2>2. c \in Copy /\ Genuine(c.pkt, sent')
    BY <1>2, <2>1
  <2> HIDE DEF c
  <2>3. AllGenuine(chan', sent')
    BY <1>0, <1>1, <2>1, <2>2, SentGenuine
  <2> QED
    BY <1>1, <2>1, <2>3 DEF SpokenInv, AllGenuine
<1>4. ASSUME NEW p \in Packets, SendVersionHello(p)
      PROVE  SpokenInv'
  <2> DEFINE c == [pkt |-> p, ttl |-> TTL(p)]
             l == <<p.src, p.to>>
  <2>1. /\ sent' = sent \cup {p} /\ UNCHANGED peers
        /\ chan' = IF l \in links THEN [chan EXCEPT ![l] = Append(@, c)] ELSE chan
    BY <1>4 DEF SendVersionHello
  <2>2. c \in Copy /\ Genuine(c.pkt, sent')
    BY <1>2, <2>1
  <2>3. l \in Pairs
    BY PacketsType DEF PacketType, Pairs
  <2> HIDE DEF c, l
  <2> DEFINE on == IF l \in links THEN {l} ELSE {}
  <2>4. chan' = [k \in Pairs |-> IF k \in on THEN Append(chan[k], c) ELSE chan[k]]
    BY <1>0, <2>1, <2>3
  <2> HIDE DEF on
  <2>5. AllGenuine([k \in Pairs |-> IF k \in on THEN Append(chan[k], c) ELSE chan[k]], sent')
    BY <1>0, <1>1, <2>1, <2>2, AppendGenuine
  <2> QED
    BY <1>1, <2>1, <2>4, <2>5 DEF SpokenInv, AllGenuine
<1>5. ASSUME NEW a \in Nodes, NEW b \in Nodes, Deliver(a, b)
      PROVE  SpokenInv'
  BY <1>5, ReceiveSpoken DEF Deliver
<1>6. ASSUME NEW a \in Nodes, NEW b \in Nodes, LinkDown(a, b)
      PROVE  SpokenInv'
  <2>1. /\ chan' = [chan EXCEPT ![<<a, b>>] = <<>>, ![<<b, a>>] = <<>>]
        /\ UNCHANGED <<peers, sent>>
    BY <1>6 DEF LinkDown
  <2>2. \A l \in Pairs : chan'[l] = chan[l] \/ chan'[l] = <<>>
    BY <1>0, <2>1
  <2>3. AllGenuine(chan', sent)
    BY <1>0, <2>2 DEF AllGenuine
  <2>4. AllGenuine(chan, sent)'
    BY <2>1, <2>3 DEF AllGenuine
  <2> QED
    BY <2>1, <2>4 DEF SpokenInv, PeersSpoke
<1>7. ASSUME NEW n \in Nodes, NEW m \in Nodes, PeerDisconnected(n, m)
      PROVE  SpokenInv'
  <2>1. UNCHANGED <<chan, sent>> /\ \A k \in Nodes : peers'[k] \subseteq peers[k]
    BY <1>7 DEF PeerDisconnected, RemovePeer, MeshInv, PeersOK
  <2>2. PeersSpoke'
    BY <2>1 DEF SpokenInv, PeersSpoke
  <2> QED
    BY <2>1, <2>2 DEF SpokenInv, AllGenuine
<1>8. CASE UNCHANGED vars
  BY <1>8 DEF vars, SpokenInv, PeersSpoke, AllGenuine
<1> QED
  BY <1>3, <1>4, <1>5, <1>6, <1>7, <1>8 DEF Next

\* The invariant holds in every mesh.
LEMMA SpokenInvariant == Spec => [](MeshInv /\ SpokenInv)
<1>1. Init => SpokenInv
  BY DEF Init, SpokenInv, PeersSpoke, AllGenuine, GetPeerInfo
<1> QED
  BY <1>1, MeshInit, MeshStep, SpokenStep, PTL DEF Spec

\* In every mesh, however packets travel and connections break, a node lists
\* only peers that have announced themselves, or that have greeted somebody and
\* have a version in common with it (processAnnouncePacket, handleVersionHello).
THEOREM ListedHaveSpoken == Spec => []PeersSpoke
BY SpokenInvariant, PTL DEF SpokenInv

\* Only a packet that n handles for the first time changes its list.
LEMMA ReceiveTakes ==
    ASSUME MeshInv, NEW a \in Nodes, NEW b \in Nodes, NEW via \in {a, NoPeripheral},
           Receive(a, b, via), NEW n \in Nodes, peers'[n] # peers[n]
    PROVE  LET p == Head(chan[<<a, b>>]).pkt
           IN  n = b /\ Takes(b, p) /\ peers'[b] = Handle(peers[b], b, p, via)
<1> DEFINE copy  == Head(chan[<<a, b>>])
           p     == copy.pkt
           fresh == ~WasMessageProcessed(processed[b], p)
           list  == IF fresh THEN Handle(peers[b], b, p, via) ELSE peers[b]
           taken == [chan EXCEPT ![<<a, b>>] = Tail(@)]
           ack   == [pkt |-> VersionAck(b, p), ttl |-> TTL(VersionAck(b, p))]
           acked == IF fresh /\ p.kind = "hello" THEN Broadcast(taken, b, ack) ELSE taken
           relay == [pkt |-> p, ttl |-> RelayTTL(copy.ttl)]
<1>1. /\ chan[<<a, b>>] # <<>>
      /\ peers' = [peers EXCEPT ![b] = list]
      /\ chan' = IF Relays(copy) THEN SendToPeers(acked, b, RelayTargets(list, p), relay)
                 ELSE acked
  BY DEF Receive, HasPacket
<1>2. <<a, b>> \in Pairs /\ a # b
  <2>1. <<a, b>> \in links
    BY TakenOK DEF Receive, MeshInv
  <2>2. <<a, b>> \in Links
    BY <2>1 DEF MeshInv
  <2>3. <<a, b>>[1] # <<a, b>>[2]
    BY <2>2, MeshConstants
  <2> QED
    BY <2>3 DEF Pairs
<1> HIDE DEF p, copy
<1>3. n = b /\ fresh /\ peers'[b] = Handle(peers[b], b, p, via)
  BY <1>1 DEF MeshInv, PeersOK
<1>4. taken[<<a, b>>] = Tail(chan[<<a, b>>])
  BY <1>2 DEF MeshInv, ChannelsOK
<1> HIDE DEF taken, fresh, ack, relay, list
<1>5. acked[<<a, b>>] = taken[<<a, b>>]
  BY <1>2 DEF Broadcast
<1> HIDE DEF acked
<1>6. chan'[<<a, b>>] = acked[<<a, b>>]
  BY <1>1, <1>2 DEF SendToPeers
<1>7. p \notin processed[b]
  BY <1>3 DEF fresh, WasMessageProcessed
<1> QED
  BY <1>1, <1>3, <1>4, <1>5, <1>6, <1>7 DEF Takes, p, copy

\* Whoever a handled packet takes from the list is the source of a departure.
LEMMA HandleRemoves ==
    ASSUME NEW list, NEW n, NEW p, NEW via, NEW m,
           GetPeerInfo(list, m) # {}, GetPeerInfo(Handle(list, n, p, via), m) = {}
    PROVE  p.kind \in {"reject", "leave"} /\ p.src = m
<1> DEFINE h == Handle(list, n, p, via)
<1>1. PICK q \in list : q.peerID = m
  BY DEF GetPeerInfo
<1>2. \A x \in h : x.peerID # m
  BY DEF GetPeerInfo
<1>3. ASSUME NEW v, h = AddPeer(list, [peerID |-> p.src, peripheralID |-> v])
      PROVE  FALSE
  <2> DEFINE r == [peerID |-> p.src, peripheralID |-> v]
  <2>1. r.peerID = p.src /\ h = AddPeer(list, r)
    BY <1>3
  <2> HIDE DEF r, h
  <2> QED
    BY <1>1, <1>2, <2>1 DEF AddPeer
<1>4. ~\E v \in {via, NoPeripheral} :
          h = AddPeer(list, [peerID |-> p.src, peripheralID |-> v])
  BY <1>3, Zenon
<1>5. \/ h = list
      \/ p.kind \in {"reject", "leave"} /\ h = RemovePeer(list, p.src)
      \/ /\ p.kind = "announce" \/ (p.kind = "hello" /\ Agreed(n, p.src))
         /\ \E v \in {via, NoPeripheral} :
               h = AddPeer(list, [peerID |-> p.src, peripheralID |-> v])
  BY HandleCases
<1> HIDE DEF h
<1>6. h # list
  BY <1>1, <1>2
<1>7. p.kind \in {"reject", "leave"} /\ h = RemovePeer(list, p.src)
  BY <1>4, <1>5, <1>6, Zenon
<1> QED
  BY <1>1, <1>2, <1>7 DEF RemovePeer

\* What a step that takes m from the list of n is.
LEMMA RemovalCauses ==
    ASSUME MeshInv, SpokenInv, [Next]_vars, NEW n \in Nodes, NEW m \in Nodes,
           GetPeerInfo(peers[n], m) # {}, GetPeerInfo(peers'[n], m) = {}
    PROVE  \/ \E p \in Departures(m) : Takes(n, p)
           \/ \E q \in GetPeerInfo(peers[n], m) : <<n, q.peripheralID>> \in notices
<1>1. peers'[n] # peers[n]
  OBVIOUS
<1>2. ASSUME NEW a \in Nodes, NEW b \in Nodes, NEW via \in {a, NoPeripheral},
             Receive(a, b, via)
      PROVE  \E p \in Departures(m) : Takes(n, p)
  <2> DEFINE p == Head(chan[<<a, b>>]).pkt
  <2>1. Genuine(p, sent)
    BY <1>2, TakenGenuine DEF Receive, MeshInv, ChannelsOK, SpokenInv
  <2>2. n = b /\ Takes(n, p) /\ peers'[n] = Handle(peers[n], n, p, via)
    BY <1>1, <1>2, ReceiveTakes
  <2> HIDE DEF p
  <2>3. p.kind \in {"reject", "leave"} /\ p.src = m
    BY <2>2, HandleRemoves
  <2>4. p \in Departures(m)
    BY <2>1, <2>3, DepartureGenuine DEF MeshInv
  <2> QED
    BY <2>2, <2>4
<1>3. ASSUME NEW k \in Nodes, NEW j \in Nodes, PeerDisconnected(k, j)
      PROVE  \E q \in GetPeerInfo(peers[n], m) : <<n, q.peripheralID>> \in notices
  <2>1. PICK q \in peers[k] : /\ q.peripheralID = j
                              /\ peers' = [peers EXCEPT ![k] = RemovePeer(@, q.peerID)]
    BY <1>1, <1>3 DEF PeerDisconnected
  <2>2. n = k /\ peers'[k] = RemovePeer(peers[k], q.peerID)
    BY <1>1, <2>1 DEF MeshInv, PeersOK
  <2>3. q.peerID = m
    BY <2>2 DEF RemovePeer, GetPeerInfo
  <2>4. <<k, j>> \in notices
    BY <1>3 DEF PeerDisconnected
  <2> QED
    BY <2>1, <2>2, <2>3, <2>4 DEF GetPeerInfo
<1>4. ~UNCHANGED peers
  BY <1>1
<1> QED
  BY <1>2, <1>3, <1>4 DEF Next, Originate, SendVersionHello, Deliver, LinkDown, vars

\* In every mesh a peer goes from a node's list only while the node handles, for
\* the first time, the peer's own leave or a rejection the peer really made, or
\* when a connection recorded for the peer has broken (processLeavePacket,
\* handleVersionAck, peerDisconnected).
THEOREM RemovalsAlwaysJustified == Spec => RemovalsJustified
<1>1. MeshInv /\ SpokenInv /\ [Next]_vars =>
         [\A n, m \in Nodes :
             GetPeerInfo(peers[n], m) # {} /\ GetPeerInfo(peers'[n], m) = {} =>
                \/ \E p \in Departures(m) : Takes(n, p)
                \/ \E q \in GetPeerInfo(peers[n], m) : <<n, q.peripheralID>> \in notices]_vars
  BY RemovalCauses
<1> QED
  BY <1>1, SpokenInvariant, PTL DEF Spec, RemovalsJustified

\* In a mesh whose nodes all have a version in common, as the nodes of this
\* program do, no rejection ever removes a peer: who goes has left, or was reached
\* over a connection that broke (negotiateVersion, handleVersionAck).  In a mixed
\* mesh this fails: a rejection is broadcast, and whoever hears it removes the node
\* that made it.
THEOREM OneVersionKeepsPeers ==
    ASSUME \A n, m \in Nodes : Agreed(n, m)
    PROVE  Spec => CompatibleKept
<1>1. ASSUME MeshInv, SpokenInv, [Next]_vars, NEW n \in Nodes, NEW m \in Nodes,
             GetPeerInfo(peers[n], m) # {}, GetPeerInfo(peers'[n], m) = {}
      PROVE  \/ ~Agreed(m, n)
             \/ \E p \in sent : p.src = m /\ p.kind = "leave" /\ Takes(n, p)
             \/ \E q \in GetPeerInfo(peers[n], m) : <<n, q.peripheralID>> \in notices
  <2>1. \A h \in sent : Agreed(m, h.src)
    BY <1>1, PacketsType DEF MeshInv, PacketType
  <2>2. \A p \in Departures(m) : p \in sent /\ p.src = m /\ p.kind = "leave"
    BY <2>1 DEF Departures
  <2> QED
    BY <1>1, <2>2, RemovalCauses
<1>2. MeshInv /\ SpokenInv /\ [Next]_vars =>
         [\A n, m \in Nodes :
             GetPeerInfo(peers[n], m) # {} /\ GetPeerInfo(peers'[n], m) = {} =>
                \/ ~Agreed(m, n)
                \/ \E p \in sent : p.src = m /\ p.kind = "leave" /\ Takes(n, p)
                \/ \E q \in GetPeerInfo(peers[n], m) : <<n, q.peripheralID>> \in notices]_vars
  BY <1>1
<1> QED
  BY <1>2, SpokenInvariant, PTL DEF Spec, CompatibleKept

=============================================================================
