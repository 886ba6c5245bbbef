-------------------------- MODULE MessagePipeline --------------------------
(***************************************************************************)
(* The receive path of one node (services/message_service.cpp on top of    *)
(* core/bitchat_data.cpp) and the commands of its user interface.          *)
(*                                                                         *)
(* Packets and disconnections arrive on the transport's reader threads:    *)
(* one serial queue on Apple, one thread per connection on Linux.  A       *)
(* reader runs processPacket to its end before it takes the next packet,   *)
(* but nothing stops two readers, or a reader and the user interface, from *)
(* interleaving between two critical sections of BitchatData; an action is *)
(* therefore one critical section with the local code around it.           *)
(*                                                                         *)
(* A packet is abstracted to what its handler tests.  "flag" is the one    *)
(* bit the payload of its kind carries: a common protocol version exists   *)
(* (hello), rejected (ack), joining (channelAnnounce), the recipient       *)
(* nickname is ours (message, encrypted).                                  *)
(***************************************************************************)
EXTENDS BitchatData

CONSTANTS
    Readers,        \* threads on which the transport delivers
    PeerIDs,        \* peer identifiers, ours included
    Local,          \* our own identifier
    Peripherals,    \* transport identifiers of connected devices
    NoPeripheral,   \* the empty peripheral identifier
    ChannelNames,   \* channel names, with and without the leading '#'
    Canonical,      \* name -> the same name with a leading '#'
    PrivateBucket,  \* the history log called "private"
    Garbled,        \* a string read while another thread is writing it
    Nicknames,
    ClientVersion,  \* the version string a hello packet carries
    Timestamps,     \* packet timestamps
    Packets,        \* the packets the network may deliver
    MaxDeliveries,  \* bound: packets and disconnections delivered
    MaxCommands     \* bound: commands typed at the user interface

Kinds == {"hello", "ack", "message", "encrypted", "channelAnnounce",
          "announce", "leave", "other"}

Channels == ChannelNames \cup {NoChannel}

Buckets == Channels \cup {PrivateBucket, Garbled}

PacketType ==
    [src : PeerIDs, ts : Timestamps, kind : Kinds, valid : BOOLEAN, chan : Channels,
     nick : Nicknames, private : BOOLEAN, flag : BOOLEAN]

Peer ==
    [peerID : PeerIDs, nickname : Nicknames, channel : Channels,
     peripheralID : Peripherals \cup {NoPeripheral}, hasAnnounced : BOOLEAN]

Keys == PeerIDs \X Timestamps

ASSUME PipelineAssumption ==
    /\ Readers # {}
    /\ Local \in PeerIDs
    /\ ClientVersion \in Nicknames
    /\ Canonical \in [ChannelNames -> ChannelNames]
    /\ Packets # {} /\ Packets \subseteq PacketType
    /\ MaxDeliveries \in Nat /\ MaxCommands \in Nat
    /\ 1..MaxCommands \subseteq Timestamps

VARIABLES
    \* BitchatData
    peers, messageHistory, currentChannel, processed,
    \* reader threads: where each is, the packet it holds, the peripheral it
    \* came from, and the peer record it read or built
    pc, pkt, via, reg,
    \* user interface thread: where it is, the channel it joins or writes to
    uiPc, uiArg,
    \* what the callbacks have told the user interface: peers reported as
    \* joined and not left, channels reported as joined and not left
    shown, members,
    \* history variables: times each reader handled a key, overflows of the
    \* processed cache, our own messages the transport accepted; and the bounds
    handled, clears, sent, deliveries, commands

dataVars   == <<peers, messageHistory, currentChannel, processed>>
readerVars == <<pc, pkt, via, reg>>
uiVars     == <<uiPc, uiArg, members, sent, commands>>
vars == <<peers, messageHistory, currentChannel, processed, pc, pkt, via, reg,
          uiPc, uiArg, shown, members, handled, clears, sent, deliveries,
          commands>>

-----------------------------------------------------------------------------
(* Small helpers.                                                          *)

\* A BitchatPeer as its constructor leaves it.
NewPeer(id, nick) ==
    [peerID |-> id, nickname |-> nick, channel |-> NoChannel,
     peripheralID |-> NoPeripheral, hasAnnounced |-> FALSE]

\* The key of duplicate detection: sender and timestamp, nothing else.
Key(p) == <<p.src, p.ts>>

IsValid(p) == p.valid

\* Variant: the lookup is left out.
ShouldProcessAlways(p) == TRUE

ShouldProcessPacket(p) == ~WasMessageProcessed(processed, Key(p))

\* The outcomes of an unlocked read of currentChannel: it may overlap an
\* assignment the user interface thread has under way.
CurrentChannelReads ==
    IF uiPc \in {"idle", "filing"} THEN {currentChannel}
                                   ELSE {currentChannel, Garbled}

\* A message is for us if its channel is the current one (both empty in the
\* default chat), or it is private and names our nickname.
ShouldAddToHistory(p) ==
    \/ p.chan = currentChannel
    \/ p.private /\ p.flag

\* The log it is filed in, before an empty name is resolved.
FilingChannel(p) ==
    IF p.chan = NoChannel /\ p.private THEN PrivateBucket ELSE p.chan

Goto(r, label) == pc' = [pc EXCEPT ![r] = label]

Load(r, peer) == reg' = [reg EXCEPT ![r] = peer]

-----------------------------------------------------------------------------
Init ==
    /\ peers = {}
    /\ messageHistory = [c \in Buckets |-> <<>>]
    /\ currentChannel = NoChannel
    /\ processed = {}
    /\ pc = [r \in Readers |-> "idle"]
    /\ pkt = [r \in Readers |-> CHOOSE p \in Packets : TRUE]
    /\ via = [r \in Readers |-> NoPeripheral]
    /\ reg = [r \in Readers |-> NewPeer(Local, ClientVersion)]
    /\ uiPc = "idle"
    /\ uiArg = NoChannel
    /\ shown = {}
    /\ members = {}
    /\ handled = [r \in Readers |-> [k \in Keys |-> 0]]
    /\ clears = 0
    /\ sent = {}
    /\ deliveries = 0
    /\ commands = 0

-----------------------------------------------------------------------------
(* Reader threads: processPacket.                                          *)

\* Only packets we really sent can be echoed back to us.
Deliverable(p) == p.src = Local => p.ts \in sent

\* isValid and shouldProcessPacket: an invalid or known packet goes no further.
Receive(r, p, per) ==
    /\ pc[r] = "idle"
    /\ deliveries < MaxDeliveries
    /\ Deliverable(p)
    /\ deliveries' = deliveries + 1
    /\ IF IsValid(p) /\ ShouldProcessPacket(p)
       THEN /\ Goto(r, "mark")
            /\ pkt' = [pkt EXCEPT ![r] = p]
            /\ via' = [via EXCEPT ![r] = per]
       ELSE UNCHANGED <<pc, pkt, via>>
    /\ UNCHANGED <<dataVars, reg, uiVars, shown, handled, clears>>

\* markPacketProcessed, a critical section of its own; then the dispatch.
Mark(r) ==
    /\ pc[r] = "mark"
    /\ processed' = MarkMessageProcessed(processed, Key(pkt[r]))
    /\ clears' = IF Overflows(processed, Key(pkt[r])) THEN clears + 1 ELSE clears
    /\ handled' = [handled EXCEPT ![r][Key(pkt[r])] = @ + 1]
    /\ Goto(r, "dispatch")
    /\ UNCHANGED <<peers, messageHistory, currentChannel, pkt, via, reg,
                   uiVars, shown, deliveries>>

Dispatch(r, kind) == pc[r] = "dispatch" /\ pkt[r].kind = kind

\* What a handler's first critical section leaves alone.
HandlerUnchanged ==
    UNCHANGED <<messageHistory, currentChannel, processed, pkt, via, uiVars,
                shown, handled, clears, deliveries>>

\* handleVersionHello: with a common version the acknowledgement goes out and
\* an unknown peer is recorded under its client version; otherwise only a
\* rejection goes out.
ProcessVersionHello(r) ==
    /\ Dispatch(r, "hello")
    /\ IF pkt[r].flag /\ GetPeerInfo(peers, pkt[r].src) = {}
       THEN /\ Load(r, NewPeer(pkt[r].src, ClientVersion))
            /\ Goto(r, "add")
       ELSE Goto(r, "idle") /\ UNCHANGED reg
    /\ UNCHANGED peers
    /\ HandlerUnchanged

\* handleVersionAck: a rejection removes the peer that sent it and reports a
\* disconnection, not a departure.
ProcessVersionAck(r) ==
    /\ Dispatch(r, "ack")
    /\ peers' = IF pkt[r].flag THEN RemovePeer(peers, pkt[r].src) ELSE peers
    /\ Goto(r, "idle")
    /\ UNCHANGED reg
    /\ HandlerUnchanged

\* Variant: our own messages are not recognised.
ProcessMessageFromAnyone(r) ==
    /\ Dispatch(r, "message") \/ Dispatch(r, "encrypted")
    /\ Goto(r, IF ShouldAddToHistory(pkt[r]) THEN "file" ELSE "idle")
    /\ UNCHANGED <<peers, reg>>
    /\ HandlerUnchanged

\* processMessagePacket up to the decision, which reads the current channel.
\* Our own messages are ignored.  An encrypted packet is decrypted first;
\* without an established session decrypt throws and the packet is dropped.
ProcessMessage(r) ==
    /\ Dispatch(r, "message") \/ Dispatch(r, "encrypted")
    /\ \/ /\ pkt[r].src # Local
          /\ ShouldAddToHistory(pkt[r])
          /\ Goto(r, "file")
       \/ /\ \/ pkt[r].src = Local
             \/ ~ShouldAddToHistory(pkt[r])
             \/ pkt[r].kind = "encrypted"
          /\ Goto(r, "idle")
    /\ UNCHANGED <<peers, reg>>
    /\ HandlerUnchanged

\* addMessageToHistory, which reads the current channel again, without its
\* mutex, when the message names none; then the message callback.
FileMessage(r) ==
    /\ pc[r] = "file"
    /\ \E current \in CurrentChannelReads :
          messageHistory' = AddMessageToHistory(messageHistory, Key(pkt[r]),
                                                FilingChannel(pkt[r]), current)
    /\ Goto(r, "idle")
    /\ UNCHANGED <<peers, currentChannel, processed, pkt, via, reg, uiVars,
                   shown, handled, clears, deliveries>>

\* processChannelAnnouncePacket: copy the peer, change the copy, write it back.
ProcessChannelAnnounce(r) ==
    /\ Dispatch(r, "channelAnnounce")
    /\ \/ /\ GetPeerInfo(peers, pkt[r].src) = {}
          /\ Goto(r, "idle") /\ UNCHANGED reg
       \/ \E q \in GetPeerInfo(peers, pkt[r].src) :
          /\ Load(r, [q EXCEPT !.channel =
                        IF pkt[r].flag THEN pkt[r].chan ELSE NoChannel])
          /\ Goto(r, "update")
    /\ UNCHANGED peers
    /\ HandlerUnchanged

\* processAnnouncePacket: a known peer keeps its record but for the
\* peripheral; an unknown one is added as announced.
ProcessAnnounce(r) ==
    /\ Dispatch(r, "announce")
    /\ \/ /\ GetPeerInfo(peers, pkt[r].src) = {}
          /\ Load(r, [NewPeer(pkt[r].src, pkt[r].nick) EXCEPT
                        !.peripheralID = via[r], !.hasAnnounced = TRUE])
          /\ Goto(r, "add")
       \/ \E q \in GetPeerInfo(peers, pkt[r].src) :
          /\ Load(r, [q EXCEPT !.peripheralID =
                        IF via[r] # NoPeripheral THEN via[r] ELSE @])
          /\ Goto(r, "update")
    /\ UNCHANGED peers
    /\ HandlerUnchanged

ProcessLeave(r) ==
    /\ Dispatch(r, "leave")
    /\ \/ /\ GetPeerInfo(peers, pkt[r].src) = {}
          /\ Goto(r, "idle") /\ UNCHANGED reg
       \/ \E q \in GetPeerInfo(peers, pkt[r].src) :
          Load(r, q) /\ Goto(r, "remove")
    /\ UNCHANGED peers
    /\ HandlerUnchanged

\* Handshake packets, which only concern the Noise service, and packet types
\* without a handler.
ProcessOther(r) ==
    /\ Dispatch(r, "other")
    /\ Goto(r, "idle")
    /\ UNCHANGED <<peers, reg>>
    /\ HandlerUnchanged

\* peerDisconnected: look for a peer with this peripheral in a copy of the
\* list (a disconnection of nobody we know changes nothing).
PeerDisconnected(r, per) ==
    /\ pc[r] = "idle"
    /\ deliveries < MaxDeliveries
    /\ deliveries' = deliveries + 1
    /\ \E q \in peers :
          /\ q.peripheralID = per
          /\ Load(r, q)
    /\ Goto(r, "remove")
    /\ UNCHANGED <<dataVars, pkt, via, uiVars, shown, handled, clears>>

-----------------------------------------------------------------------------
(* Reader threads: the critical sections that write a record back, and the  *)
(* callbacks that follow them.                                              *)

WriterUnchanged ==
    UNCHANGED <<messageHistory, currentChannel, processed, pkt, via, reg,
                uiVars, handled, clears, deliveries>>

StoreAdded(r) ==
    /\ pc[r] = "add"
    /\ peers' = AddPeer(peers, reg[r])
    /\ Goto(r, IF pkt[r].kind = "announce" THEN "joined" ELSE "idle")
    /\ UNCHANGED shown
    /\ WriterUnchanged

StoreUpdated(r) ==
    /\ pc[r] = "update"
    /\ peers' = UpdatePeer(peers, reg[r])
    /\ Goto(r, "idle")
    /\ UNCHANGED shown
    /\ WriterUnchanged

StoreRemoved(r) ==
    /\ pc[r] = "remove"
    /\ peers' = RemovePeer(peers, reg[r].peerID)
    /\ Goto(r, "left")
    /\ UNCHANGED shown
    /\ WriterUnchanged

PeerJoined(r) ==
    /\ pc[r] = "joined"
    /\ shown' = shown \cup {reg[r].peerID}
    /\ Goto(r, "idle")
    /\ UNCHANGED peers
    /\ WriterUnchanged

PeerLeft(r) ==
    /\ pc[r] = "left"
    /\ shown' = shown \ {reg[r].peerID}
    /\ Goto(r, "idle")
    /\ UNCHANGED peers
    /\ WriterUnchanged

-----------------------------------------------------------------------------
(* The user interface thread.                                              *)

UIUnchanged ==
    UNCHANGED <<peers, processed, readerVars, shown, handled, clears,
                deliveries>>

NewCommand ==
    /\ uiPc = "idle"
    /\ commands < MaxCommands
    /\ commands' = commands + 1

\* sendMessage up to sendPacket: the current channel is the message's.  A
\* message the transport does not accept goes no further.
SendMessage ==
    /\ NewCommand
    /\ \/ /\ sent' = sent \cup {commands + 1}
          /\ uiPc' = "filing"
          /\ uiArg' = currentChannel
       \/ UNCHANGED <<sent, uiPc, uiArg>>
    /\ UNCHANGED <<messageHistory, currentChannel, members>>
    /\ UIUnchanged

\* The rest of sendMessage: an accepted message is filed only now, when copies
\* of it may already be on their way back.
FileSent ==
    /\ uiPc = "filing"
    /\ messageHistory' = AddMessageToHistory(messageHistory,
                            <<Local, commands>>, uiArg, currentChannel)
    /\ uiPc' = "idle"
    /\ UNCHANGED <<currentChannel, uiArg, members, sent, commands>>
    /\ UIUnchanged

\* sendPrivateMessage: the message names no channel and is not filed.
SendPrivateMessage ==
    /\ NewCommand
    /\ sent' \in {sent, sent \cup {commands + 1}}
    /\ UNCHANGED <<messageHistory, currentChannel, uiPc, uiArg, members>>
    /\ UIUnchanged

\* joinChannel(name) and leaveChannel() are called; their assignments to the
\* current channel are the next steps.
JoinChannel(name) ==
    /\ NewCommand
    /\ uiPc' = "set"
    /\ uiArg' = name
    /\ UNCHANGED <<messageHistory, currentChannel, members, sent>>
    /\ UIUnchanged

LeaveChannel ==
    /\ NewCommand
    /\ currentChannel # NoChannel
    /\ uiPc' = "quit"
    /\ UNCHANGED <<messageHistory, currentChannel, uiArg, members, sent>>
    /\ UIUnchanged

\* Variant: no early return for an empty name.
SetTypedChannelUnchecked ==
    /\ uiPc = "set"
    /\ currentChannel' = uiArg
    /\ uiPc' = "leave"
    /\ UNCHANGED <<messageHistory, uiArg, members, sent, commands>>
    /\ UIUnchanged

\* joinChannel stores the name as typed before anything else; an empty name
\* ends there.
SetTypedChannel ==
    /\ uiPc = "set"
    /\ currentChannel' = uiArg
    /\ uiPc' = IF uiArg = NoChannel THEN "idle" ELSE "leave"
    /\ UNCHANGED <<messageHistory, uiArg, members, sent, commands>>
    /\ UIUnchanged

\* leaveChannel, on its own or from joinChannel: the channel reported as left
\* is the current one.
ClearChannel ==
    /\ uiPc \in {"leave", "quit"}
    /\ currentChannel' = NoChannel
    /\ members' = members \ {currentChannel}
    /\ uiPc' = IF uiPc = "leave" THEN "enter" ELSE "idle"
    /\ UNCHANGED <<messageHistory, uiArg, sent, commands>>
    /\ UIUnchanged

\* Variant: the channel reported as joined is the name as typed.
EnterChannelTyped ==
    /\ uiPc = "enter"
    /\ currentChannel' = Canonical[uiArg]
    /\ members' = members \cup {uiArg}
    /\ uiPc' = "idle"
    /\ UNCHANGED <<messageHistory, uiArg, sent, commands>>
    /\ UIUnchanged

EnterChannel ==
    /\ uiPc = "enter"
    /\ currentChannel' = Canonical[uiArg]
    /\ members' = members \cup {Canonical[uiArg]}
    /\ uiPc' = "idle"
    /\ UNCHANGED <<messageHistory, uiArg, sent, commands>>
    /\ UIUnchanged

-----------------------------------------------------------------------------
ReaderStep(r) ==
    \/ Mark(r)
    \/ ProcessVersionHello(r)
    \/ ProcessVersionAck(r)
    \/ ProcessMessage(r)
    \/ FileMessage(r)
    \/ ProcessChannelAnnounce(r)
    \/ ProcessAnnounce(r)
    \/ ProcessLeave(r)
    \/ ProcessOther(r)
    \/ StoreAdded(r)
    \/ StoreUpdated(r)
    \/ StoreRemoved(r)
    \/ PeerJoined(r)
    \/ PeerLeft(r)

Arrival(r) ==
    \/ \E p \in Packets, per \in Peripherals \cup {NoPeripheral} :
          Receive(r, p, per)
    \/ \E per \in Peripherals : PeerDisconnected(r, per)

\* The manager hands each command on to the message service.
UICommand ==
    \/ SendMessage
    \/ SendPrivateMessage
    \/ \E name \in Channels : JoinChannel(name)
    \/ LeaveChannel

UIStep == FileSent \/ SetTypedChannel \/ ClearChannel \/ EnterChannel

Next ==
    \/ \E r \in Readers : Arrival(r) \/ ReaderStep(r)
    \/ UICommand
    \/ UIStep

Spec == Init /\ [][Next]_vars

-----------------------------------------------------------------------------
(* Properties.                                                             *)

Labels == {"idle", "mark", "dispatch", "file", "add", "update", "remove",
           "joined", "left"}

\* Every variable keeps its type: the store, the threads and what the user
\* interface was told.
TypeOK ==
    /\ peers \subseteq Peer
    /\ messageHistory \in [Buckets -> Seq(Keys)]
    /\ currentChannel \in Channels
    /\ processed \subseteq Keys
    /\ pc \in [Readers -> Labels]
    /\ pkt \in [Readers -> Packets]
    /\ via \in [Readers -> Peripherals \cup {NoPeripheral}]
    /\ reg \in [Readers -> Peer]
    /\ uiPc \in {"idle", "filing", "set", "leave", "quit", "enter"}
    /\ uiArg \in Channels
    /\ uiPc \in {"leave", "enter"} => uiArg \in ChannelNames
    /\ uiPc = "filing" => commands \in sent
    /\ shown \subseteq PeerIDs
    /\ members \subseteq Channels
    /\ handled \in [Readers -> [Keys -> Nat]]
    /\ clears \in Nat
    /\ sent \subseteq 1..commands
    /\ deliveries \in 0..MaxDeliveries
    /\ commands \in 0..MaxCommands

\* BitchatData never holds two records for one peer, however the lookups and
\* the writes of several readers interleave (addPeer and updatePeer look the
\* peer up again inside their critical section).
PeersUnique ==
    \A p, q \in peers : p.peerID = q.peerID => p = q

\* What duplicate detection guarantees with any number of reader threads:
\* each of them handles a packet at most once per generation of the processed
\* cache.  More is not guaranteed: shouldProcessPacket and
\* markPacketProcessed are two critical sections, and an overflow forgets
\* every key.
DuplicateBound ==
    \A r \in Readers, k \in Keys : handled[r][k] <= clears + 1

\* The inductive form: a key that is not in the cache, or that a reader has
\* checked and not yet marked, was handled only in earlier generations.
DuplicateInv ==
    \A r \in Readers, k \in Keys :
        /\ handled[r][k] <= clears + 1
        /\ k \notin processed => handled[r][k] <= clears
        /\ pc[r] = "mark" /\ Key(pkt[r]) = k => handled[r][k] <= clears

\* The store stays within its limits (resource bound of addMessageToHistory
\* and markMessageProcessed), at every step and not only after a cleanup.
StoreBounded ==
    /\ \A c \in Buckets : Len(messageHistory[c]) <= MaxHistorySize
    /\ Cardinality(processed) <= MaxProcessedMessages

\* All the places a message has in the history.
Occurrences(k) ==
    UNION {{<<c, i>> : i \in {j \in DOMAIN messageHistory[c] :
                                messageHistory[c][j] = k}} : c \in Buckets}

\* While the processed cache does not overflow and one reader runs, a message
\* is in the history at most once: a redelivered packet is not filed again,
\* and neither is an echo of our own message, whether it comes back before or
\* after sendMessage has filed it.
NoDuplicateInHistory ==
    \A k \in Keys : Cardinality(Occurrences(k)) <= 1

\* Between commands, the channel we are in is one the user interface was told
\* we joined and not told we left (joinChannel reports a departure and then an
\* arrival, in this order, on every join).
CurrentIsMember ==
    uiPc \in {"idle", "filing"} /\ currentChannel # NoChannel
        => currentChannel \in members

\* With one reader and a cache that never overflows, the pipeline implements
\* the promise of duplicate detection.
TheReader == CHOOSE r \in Readers : TRUE

Once == INSTANCE AtMostOnce WITH count <- handled[TheReader]

OnceSpec == Once!Spec

=============================================================================
