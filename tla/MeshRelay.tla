----------------------------- MODULE MeshRelay -----------------------------
(***************************************************************************)
(* A mesh of nodes: what NetworkService::onPacketReceived and relayPacket  *)
(* (services/network_service.cpp) do with the packets that MessageService  *)
(* handles first, over connections that keep their order and may break.    *)
(*                                                                         *)
(* A node handles a packet in one step here; the interleavings inside a    *)
(* handler are the subject of MessagePipeline.  A relay decision does not  *)
(* look at duplicate detection: every copy that arrives with TTL left is   *)
(* sent on, so only the TTL ends a flood.                                  *)
(***************************************************************************)
EXTENDS BitchatData

CONSTANTS
    Nodes,          \* peer identifiers
    Links,          \* the connections at the start: a symmetric set of pairs
    TransportKey,   \* node -> key under which the transport keeps its connection
    Versions,       \* node -> the protocol versions it supports, in its order
    InitialPeers,   \* node -> the peer list it starts with
    Packets,        \* packets the nodes originate, each at most once
    NoPeripheral,
    NoSender,       \* the identifier on the wire of a packet whose sender is not set
    DefaultTTL,     \* PKT_TTL
    MaxFailures     \* bound: connections that break

TTLRange == 256     \* the field is a uint8_t

\* This program sends no leave; other clients do.  A "message" stands for every
\* packet that names its sender and does not touch the peer list of MeshRelay.
OriginKinds == {"hello", "announce", "message", "channelAnnounce", "leave"}
Kinds == OriginKinds \cup {"accept", "reject"}

\* A packet, known by its key: "to" is read only for a hello, which goes to
\* one connection; every other packet goes to all of them.
PacketType == [src : Nodes, kind : Kinds, num : Nat, to : Nodes]

Copy == [pkt : PacketType, ttl : 0 .. TTLRange - 1]

Peer == [peerID : Nodes, peripheralID : Nodes \cup {NoPeripheral}]

ASSUME MeshAssumption ==
    /\ Links \subseteq Nodes \X Nodes
    /\ \A l \in Links : l[1] # l[2] /\ <<l[2], l[1]>> \in Links
    /\ Versions \in [Nodes -> Seq(0..255)]
    /\ InitialPeers \in [Nodes -> SUBSET Peer]
    /\ \A n \in Nodes : \A q \in InitialPeers[n] : q.peerID # n
    /\ Packets \subseteq [src : Nodes, kind : OriginKinds, num : Nat, to : Nodes]
    /\ NoSender \notin Nodes
    /\ DefaultTTL \in 0 .. TTLRange - 1
    /\ MaxFailures \in Nat

\* The relay looks connections up by peer identifier, which is what the interface
\* of the transports says; both of them keep device addresses, which are none.  A
\* key that is a peer identifier is that of its own peer.
ASSUME KeyAssumption == \A n, m \in Nodes : TransportKey[n] = m => n = m

VARIABLES
    peers,          \* node -> its peer list
    processed,      \* node -> the packet keys it has handled
    links,          \* the connections that are up
    chan,           \* ordered pair of nodes -> copies on their way, oldest first
    sent,           \* packets originated so far
    notices         \* disconnections a node has not been told of yet

vars == <<peers, processed, links, chan, sent, notices>>

Pairs == Nodes \X Nodes

Neighbours(n) == {m \in Nodes : <<n, m>> \in links}

\* createVersionHelloPacket and sendVersionAck set TTL 1, the others leave the
\* default.
TTL(p) == IF p.kind \in {"hello", "accept", "reject"} THEN 1 ELSE DefaultTTL

\* The nodes at most k connections away from n: those that a walk of k steps,
\* each along a connection or none, reaches.
Hop(x, y) == x = y \/ <<x, y>> \in Links

Within(n, k) ==
    {m \in Nodes : \E walk \in [0..k -> Nodes] :
        walk[0] = n /\ walk[k] = m /\ \A i \in 1..k : Hop(walk[i - 1], walk[i])}

-----------------------------------------------------------------------------
Init ==
    /\ peers = InitialPeers
    /\ processed = [n \in Nodes |-> {}]
    /\ links = Links
    /\ chan = [l \in Pairs |-> <<>>]
    /\ sent = {}
    /\ notices = {}

\* The transport's sendPacket: a copy on every connection of n.
Broadcast(channels, n, copy) ==
    [l \in Pairs |-> IF l[1] = n /\ l \in links
                     THEN Append(channels[l], copy) ELSE channels[l]]

\* sendPacketToPeer: the connection is looked up by the peer's identifier.
SendToPeers(channels, n, ids, copy) ==
    [l \in Pairs |-> IF l[1] = n /\ l \in links /\ TransportKey[l[2]] \in ids
                     THEN Append(channels[l], copy) ELSE channels[l]]

\* A node sends a packet of its own, a message or an announcement, to all.
Originate(p) ==
    /\ p \notin sent /\ p.kind # "hello"
    /\ sent' = sent \cup {p}
    /\ chan' = Broadcast(chan, p.src, [pkt |-> p, ttl |-> TTL(p)])
    /\ UNCHANGED <<peers, processed, links, notices>>

\* sendVersionHello, to the connection on which it found a peripheral.
SendVersionHello(p) ==
    /\ p \notin sent /\ p.kind = "hello"
    /\ sent' = sent \cup {p}
    /\ chan' = IF <<p.src, p.to>> \in links
               THEN [chan EXCEPT ![<<p.src, p.to>>] =
                        Append(@, [pkt |-> p, ttl |-> TTL(p)])]
               ELSE chan
    /\ UNCHANGED <<peers, processed, links, notices>>

\* negotiateVersion: the last of the client's versions that the server has, 0
\* if there is none.
NegotiateVersion(client, server) ==
    LET common == {i \in DOMAIN client : \E j \in DOMAIN server : client[i] = server[j]}
    IN  IF common = {} THEN 0
        ELSE client[CHOOSE i \in common : \A j \in common : j <= i]

\* n answers a hello of m: is there an agreed version?
Agreed(n, m) == NegotiateVersion(Versions[m], Versions[n]) > 0

\* The answer to a version hello, broadcast although it is for its sender.
VersionAck(n, p) ==
    [src |-> n, kind |-> IF Agreed(n, p.src) THEN "accept" ELSE "reject",
     num |-> p.num, to |-> p.src]

\* Variant: a peer is listed whatever the negotiation says.
GreetAnyone(list, n, m) ==
    IF GetPeerInfo(list, m) = {}
    THEN AddPeer(list, [peerID |-> m, peripheralID |-> NoPeripheral]) ELSE list

\* handleVersionHello: a peer with a version in common is listed.
Greet(list, n, m) ==
    IF Agreed(n, m) /\ GetPeerInfo(list, m) = {}
    THEN AddPeer(list, [peerID |-> m, peripheralID |-> NoPeripheral]) ELSE list

\* Variant: the flag of the acknowledgement is not looked at.
RejectedAlways(p) == p.kind \in {"accept", "reject"}

\* handleVersionAck: whom the answer is for is not looked at.
Rejected(p) == p.kind = "reject"

\* What the handlers of MessageService do to the peer list of n; "via" is the
\* peripheral the packet came from, if the transport names one.
Handle(list, n, p, via) ==
    IF Rejected(p) \/ p.kind = "leave" THEN RemovePeer(list, p.src)
    ELSE IF p.kind = "hello" THEN Greet(list, n, p.src)
    ELSE IF p.kind = "announce" /\ (GetPeerInfo(list, p.src) = {} \/ via # NoPeripheral)
    THEN AddPeer(list, [peerID |-> p.src, peripheralID |-> via])
    ELSE list

\* The sender that a packet names: createChannelAnnouncePacket sets none.
Sender(p) == IF p.kind = "channelAnnounce" THEN NoSender ELSE p.src

\* Variants: the packet also goes back to its origin; the TTL is copied, or
\* decremented both on arrival and on the way out.
RelayTargetsAll(list, p) == {q.peerID : q \in list}
RelayTTLCopied(ttl) == ttl
RelayTTLTwice(ttl) == ttl - 2

\* relayPacket: every listed peer but the one the packet names ...
RelayTargets(list, p) == {q.peerID : q \in list} \ {Sender(p)}

\* ... gets a copy with the TTL decremented, as a uint8_t.
RelayTTL(ttl) == (ttl + TTLRange - 1) % TTLRange

Relays(copy) == copy.ttl > 0

\* Variant: a copy of a known packet is left where it is.
HasNewPacket(a, b) ==
    chan[<<a, b>>] # <<>> /\ ~WasMessageProcessed(processed[b], Head(chan[<<a, b>>]).pkt)

\* The reader takes a packet off the connection before it looks at it.
HasPacket(a, b) == chan[<<a, b>>] # <<>>

\* onPacketReceived on node b for the oldest copy from a: MessageService
\* handles it unless it is a known one, then it is relayed.
Receive(a, b, via) ==
    /\ HasPacket(a, b)
    /\ LET copy  == Head(chan[<<a, b>>])
           p     == copy.pkt
           fresh == ~WasMessageProcessed(processed[b], p)
           list  == IF fresh THEN Handle(peers[b], b, p, via) ELSE peers[b]
           taken == [chan EXCEPT ![<<a, b>>] = Tail(@)]
           acked == IF fresh /\ p.kind = "hello"
                    THEN Broadcast(taken, b,
                            [pkt |-> VersionAck(b, p), ttl |-> TTL(VersionAck(b, p))])
                    ELSE taken
       IN  /\ peers' = [peers EXCEPT ![b] = list]
           /\ processed' = IF fresh
                 THEN [processed EXCEPT ![b] = MarkMessageProcessed(@, p)]
                 ELSE processed
           /\ chan' = IF Relays(copy)
                      THEN SendToPeers(acked, b, RelayTargets(list, p),
                                       [pkt |-> p, ttl |-> RelayTTL(copy.ttl)])
                      ELSE acked
    /\ UNCHANGED <<links, sent, notices>>

\* A connection breaks: what was on its way is lost.
LinkDown(a, b) ==
    /\ <<a, b>> \in links
    /\ Cardinality(Links \ links) < 2 * MaxFailures
    /\ links' = links \ {<<a, b>>, <<b, a>>}
    /\ chan' = [chan EXCEPT ![<<a, b>>] = <<>>, ![<<b, a>>] = <<>>]
    /\ notices' = notices \cup {<<a, b>>, <<b, a>>}
    /\ UNCHANGED <<peers, processed, sent>>

\* peerDisconnected on node n: the first peer with this peripheral goes.
PeerDisconnected(n, m) ==
    /\ <<n, m>> \in notices
    /\ notices' = notices \ {<<n, m>>}
    /\ \/ /\ \A q \in peers[n] : q.peripheralID # m
          /\ UNCHANGED peers
       \/ \E q \in peers[n] :
          /\ q.peripheralID = m
          /\ peers' = [peers EXCEPT ![n] = RemovePeer(@, q.peerID)]
    /\ UNCHANGED <<processed, links, chan, sent>>

Deliver(a, b) == \E via \in {a, NoPeripheral} : Receive(a, b, via)

Next ==
    \/ \E p \in Packets : Originate(p) \/ SendVersionHello(p)
    \/ \E a, b \in Nodes : Deliver(a, b)
    \/ \E a, b \in Nodes : LinkDown(a, b)
    \/ \E n, m \in Nodes : PeerDisconnected(n, m)

Spec == Init /\ [][Next]_vars

\* Some connection that carries a copy delivers it: the reader threads go on.
\* Nobody has to originate a packet, and no connection has to break.
FairSpec == Spec /\ WF_vars(\E a, b \in Nodes : Deliver(a, b))

-----------------------------------------------------------------------------
(* Properties.                                                             *)

\* Types of the mesh.
TypeOK ==
    /\ peers \in [Nodes -> SUBSET Peer]
    /\ processed \in [Nodes -> SUBSET PacketType]
    /\ links \subseteq Links
    /\ chan \in [Pairs -> Seq(Copy)]
    /\ sent \subseteq Packets
    /\ notices \subseteq Pairs

InFlight(l) == {chan[l][i] : i \in DOMAIN chan[l]}

\* No copy of a packet travels back to the node it names as its sender, whatever
\* loop it went through (the senderID test in relayPacket), and so no node lists
\* itself as its own peer.  A channel announcement names nobody: its copies do
\* come back to the node that made it.
NeverToSource ==
    /\ \A l \in Pairs : \A c \in InFlight(l) : Sender(c.pkt) # l[2]
    /\ \A n \in Nodes : GetPeerInfo(peers[n], n) = {}

\* The TTL bounds the range of every packet: TTL + 1 hops, counted by the
\* decrements of relayPacket.
RangeBound ==
    /\ \A l \in Pairs : \A c \in InFlight(l) :
          c.ttl <= TTL(c.pkt) /\ l[1] \in Within(c.pkt.src, TTL(c.pkt) - c.ttl)
    /\ \A n \in Nodes : \A p \in processed[n] : n \in Within(p.src, TTL(p) + 1)

\* Nobody is listed who has not spoken, though packets come through others: a
\* peer has announced itself, or has greeted somebody and has a version in
\* common with the node that lists it (processAnnouncePacket,
\* handleVersionHello).
PeersSpoke ==
    \A n \in Nodes : \A q \in peers[n] :
        \/ GetPeerInfo(InitialPeers[n], q.peerID) # {}
        \/ \E p \in sent :
              /\ p.src = q.peerID
              /\ p.kind = "announce" \/ (p.kind = "hello" /\ Agreed(n, p.src))

\* Node n takes a packet it does not know off one of its connections.
Takes(n, p) ==
    /\ p \notin processed[n]
    /\ \E a \in Nodes : /\ chan[<<a, n>>] # <<>> /\ Head(chan[<<a, n>>]).pkt = p
                        /\ chan'[<<a, n>>] = Tail(chan[<<a, n>>])

\* The packets that say that m is gone: its leave, or its rejection of a hello of
\* a node that it has no version in common with.
Departures(m) ==
    {p \in sent : p.src = m /\ p.kind = "leave"}
      \cup {VersionAck(m, h) : h \in {g \in sent : g.kind = "hello" /\ ~Agreed(m, g.src)}}

\* A peer goes from the list of a node only while that node handles, for the first
\* time, the peer's own leave or a rejection the peer really made, or when a
\* connection recorded for the peer has broken (processLeavePacket,
\* handleVersionAck, peerDisconnected).  Nobody goes for what a third node said,
\* for an accepted hello or for a copy that comes a second time.  Which node the
\* rejection was meant for is not looked at: see CompatibleKept.
RemovalsJustified ==
    [][\A n, m \in Nodes :
          GetPeerInfo(peers[n], m) # {} /\ GetPeerInfo(peers'[n], m) = {} =>
             \/ \E p \in Departures(m) : Takes(n, p)
             \/ \E q \in GetPeerInfo(peers[n], m) : <<n, q.peripheralID>> \in notices]_vars

\* No rejection removes a compatible peer ("Clean up state for incompatible peer"
\* in handleVersionAck): who goes has no version in common with the node, has
\* left, or was reached over a connection that broke.
CompatibleKept ==
    [][\A n, m \in Nodes :
          GetPeerInfo(peers[n], m) # {} /\ GetPeerInfo(peers'[n], m) = {} =>
             \/ ~Agreed(m, n)
             \/ \E p \in sent : p.src = m /\ p.kind = "leave" /\ Takes(n, p)
             \/ \E q \in GetPeerInfo(peers[n], m) : <<n, q.peripheralID>> \in notices]_vars

\* Relaying dies out: although copies multiply and duplicates are relayed
\* too, the network falls silent.
Quiescence == <>[](\A l \in Pairs : chan[l] = <<>>)

\* Mesh relay extends the range: in a mesh whose nodes list each other and
\* stay connected, a message reaches every node within TTL + 1 hops.
Coverage ==
    \A p \in Packets : p.kind = "message" =>
        (p \in sent ~> \A n \in Within(p.src, TTL(p) + 1) \ {p.src} : p \in processed[n])

=============================================================================
