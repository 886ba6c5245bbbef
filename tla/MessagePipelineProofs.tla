----------------------- MODULE MessagePipelineProofs -----------------------
(***************************************************************************)
(* Proofs about MessagePipeline, for every set of readers, packets and     *)
(* peers and every limit of the store.                                     *)
(***************************************************************************)
EXTENDS MessagePipeline, FiniteSetTheorems, TLAPS

-----------------------------------------------------------------------------
(* Lemmas about the store's operators.                                     *)

\* The history log stays a sequence of keys within its limit when a message is
\* pushed (push_back, then erase the first entry).
LEMMA PushBoundedType ==
    ASSUME NEW log \in Seq(Keys), NEW k \in Keys
    PROVE  /\ PushBounded(log, k) \in Seq(Keys)
           /\ Len(log) <= MaxHistorySize => Len(PushBounded(log, k)) <= MaxHistorySize
<1> DEFINE longer == Append(log, k)
<1>1. longer \in Seq(Keys) /\ Len(longer) = Len(log) + 1 /\ Len(log) \in Nat
  OBVIOUS
<1>2. Tail(longer) \in Seq(Keys) /\ Len(Tail(longer)) = Len(log)
  BY <1>1
<1> QED
  BY <1>1, <1>2, StoreAssumption DEF PushBounded

\* Filing a key in any log keeps the whole history well typed and bounded.
LEMMA AddMessageToHistoryType ==
    ASSUME NEW history \in [Buckets -> Seq(Keys)], NEW k \in Keys,
           NEW channel \in Buckets, NEW current \in Buckets
    PROVE  LET after == AddMessageToHistory(history, k, channel, current)
           IN  /\ after \in [Buckets -> Seq(Keys)]
               /\ (\A c \in Buckets : Len(history[c]) <= MaxHistorySize)
                    => \A c \in Buckets : Len(after[c]) <= MaxHistorySize
<1> DEFINE t == TargetChannel(channel, current)
           after == AddMessageToHistory(history, k, channel, current)
<1>1. t \in Buckets
  BY DEF TargetChannel
<1>2. after = [history EXCEPT ![t] = PushBounded(history[t], k)]
  BY DEF AddMessageToHistory
<1>3. /\ PushBounded(history[t], k) \in Seq(Keys)
      /\ Len(history[t]) <= MaxHistorySize
            => Len(PushBounded(history[t], k)) <= MaxHistorySize
  BY <1>1, PushBoundedType
<1> HIDE DEF t, after
<1> QED
  BY <1>1, <1>2, <1>3 DEF after

\* A new or changed peer record is a peer record.
LEMMA NewPeerType ==
    ASSUME NEW id \in PeerIDs, NEW nick \in Nicknames
    PROVE  NewPeer(id, nick) \in Peer
  BY DEF NewPeer, Peer, Channels

\* The fields of a packet in a reader's hands have their types.
LEMMA PacketFields ==
    ASSUME NEW p \in Packets
    PROVE  /\ p.src \in PeerIDs /\ p.ts \in Timestamps /\ p.kind \in Kinds
           /\ p.chan \in Channels /\ p.nick \in Nicknames
           /\ p.valid \in BOOLEAN /\ p.private \in BOOLEAN /\ p.flag \in BOOLEAN
           /\ Key(p) \in Keys
  BY PipelineAssumption DEF PacketType, Key, Keys

-----------------------------------------------------------------------------
(* Type correctness.                                                       *)

\* The empty store and the idle threads have their types.
LEMMA InitType == Init => TypeOK
<1> SUFFICES ASSUME Init PROVE TypeOK
  OBVIOUS
<1>1. (CHOOSE p \in Packets : TRUE) \in Packets
  BY PipelineAssumption
<1>2. NewPeer(Local, ClientVersion) \in Peer
  BY NewPeerType, PipelineAssumption
<1> QED
  BY <1>1, <1>2, PipelineAssumption
     DEF Init, TypeOK, Labels, Channels, Buckets

\* A step of a reader keeps every type.
LEMMA ReaderStepType ==
    ASSUME TypeOK, NEW r \in Readers, ReaderStep(r)
    PROVE  TypeOK'
<1> USE DEF Goto, Load, Labels, Dispatch, HandlerUnchanged, WriterUnchanged,
            uiVars
<1>1. /\ pkt[r] \in Packets /\ reg[r] \in Peer
      /\ via[r] \in Peripherals \cup {NoPeripheral}
      /\ pc[r] \in Labels
  BY DEF TypeOK
<1>2. /\ pkt[r].src \in PeerIDs /\ pkt[r].nick \in Nicknames
      /\ pkt[r].chan \in Channels /\ Key(pkt[r]) \in Keys
      /\ reg[r].peerID \in PeerIDs
  BY <1>1, PacketFields DEF Peer
<1>3. CASE Mark(r)
  <2>1. processed' \subseteq Keys
    BY <1>2, <1>3 DEF Mark, MarkMessageProcessed, TypeOK
  <2>2. handled' \in [Readers -> [Keys -> Nat]]
    BY <1>2, <1>3 DEF Mark, TypeOK
  <2>3. clears' \in Nat
    BY <1>3 DEF Mark, TypeOK
  <2> QED
    BY <2>1, <2>2, <2>3, <1>3 DEF Mark, TypeOK
<1>4. CASE ProcessVersionHello(r)
  <2>1. NewPeer(pkt[r].src, ClientVersion) \in Peer
    BY <1>2, NewPeerType, PipelineAssumption
  <2> QED
    BY <2>1, <1>4 DEF ProcessVersionHello, TypeOK
<1>5. CASE ProcessVersionAck(r)
  BY <1>5 DEF ProcessVersionAck, RemovePeer, TypeOK
<1>6. CASE ProcessMessage(r)
  BY <1>6 DEF ProcessMessage, TypeOK
<1>7. CASE FileMessage(r)
  <2>1. FilingChannel(pkt[r]) \in Buckets
    BY <1>2 DEF FilingChannel, Buckets
  <2>2. PICK current \in CurrentChannelReads :
           messageHistory' = AddMessageToHistory(messageHistory, Key(pkt[r]),
                                                 FilingChannel(pkt[r]), current)
    BY <1>7 DEF FileMessage
  <2>3. current \in Buckets
    BY DEF CurrentChannelReads, Buckets, TypeOK
  <2>4. messageHistory' \in [Buckets -> Seq(Keys)]
    BY <1>2, <2>1, <2>2, <2>3, AddMessageToHistoryType DEF TypeOK
  <2> QED
    BY <2>4, <1>7 DEF FileMessage, TypeOK
<1>8. CASE ProcessChannelAnnounce(r)
  <2>1. CASE pc' = [pc EXCEPT ![r] = "idle"] /\ UNCHANGED reg
    BY <2>1, <1>8 DEF ProcessChannelAnnounce, TypeOK
  <2>2. ASSUME NEW q \in GetPeerInfo(peers, pkt[r].src),
               Load(r, [q EXCEPT !.channel =
                          IF pkt[r].flag THEN pkt[r].chan ELSE NoChannel]),
               Goto(r, "update")
        PROVE  TypeOK'
    <3>1. q \in Peer
      BY DEF GetPeerInfo, TypeOK
    <3>2. [q EXCEPT !.channel =
             IF pkt[r].flag THEN pkt[r].chan ELSE NoChannel] \in Peer
      BY <3>1, <1>2 DEF Peer, Channels
    <3> QED
      BY <3>2, <2>2, <1>8 DEF ProcessChannelAnnounce, TypeOK
  <2> QED
    BY <2>1, <2>2, <1>8 DEF ProcessChannelAnnounce
<1>9. CASE ProcessAnnounce(r)
  <2>1. ASSUME Load(r, [NewPeer(pkt[r].src, pkt[r].nick) EXCEPT
                          !.peripheralID = via[r], !.hasAnnounced = TRUE]),
               Goto(r, "add")
        PROVE  TypeOK'
    <3>1. NewPeer(pkt[r].src, pkt[r].nick) \in Peer
      BY <1>2, NewPeerType
    <3>2. [NewPeer(pkt[r].src, pkt[r].nick) EXCEPT
             !.peripheralID = via[r], !.hasAnnounced = TRUE] \in Peer
      BY <3>1, <1>1 DEF Peer
    <3> QED
      BY <3>2, <2>1, <1>9 DEF ProcessAnnounce, TypeOK
  <2>2. ASSUME NEW q \in GetPeerInfo(peers, pkt[r].src),
               Load(r, [q EXCEPT !.peripheralID =
                          IF via[r] # NoPeripheral THEN via[r] ELSE @]),
               Goto(r, "update")
        PROVE  TypeOK'
    <3>1. q \in Peer
      BY DEF GetPeerInfo, TypeOK
    <3>2. [q EXCEPT !.peripheralID =
             IF via[r] # NoPeripheral THEN via[r] ELSE @] \in Peer
      BY <3>1, <1>1 DEF Peer
    <3> QED
      BY <3>2, <2>2, <1>9 DEF ProcessAnnounce, TypeOK
  <2> QED
    BY <2>1, <2>2, <1>9 DEF ProcessAnnounce
<1>10. CASE ProcessLeave(r)
  BY <1>10 DEF ProcessLeave, GetPeerInfo, TypeOK
<1>11. CASE ProcessOther(r)
  BY <1>11 DEF ProcessOther, TypeOK
<1>12. CASE StoreAdded(r)
  BY <1>1, <1>12 DEF StoreAdded, AddPeer, TypeOK
<1>13. CASE StoreUpdated(r)
  BY <1>1, <1>13 DEF StoreUpdated, UpdatePeer, TypeOK
<1>14. CASE StoreRemoved(r)
  BY <1>14 DEF StoreRemoved, RemovePeer, TypeOK
<1>15. CASE PeerJoined(r)
  BY <1>2, <1>15 DEF PeerJoined, TypeOK
<1>16. CASE PeerLeft(r)
  BY <1>16 DEF PeerLeft, TypeOK
<1> QED
  BY <1>3, <1>4, <1>5, <1>6, <1>7, <1>8, <1>9, <1>10, <1>11, <1>12, <1>13,
     <1>14, <1>15, <1>16 DEF ReaderStep

\* A packet or a disconnection that arrives keeps every type.
LEMMA ArrivalType ==
    ASSUME TypeOK, NEW r \in Readers, Arrival(r)
    PROVE  TypeOK'
<1> USE PipelineAssumption DEF Goto, Load, Labels, dataVars, uiVars
<1>1. ASSUME NEW p \in Packets, NEW per \in Peripherals \cup {NoPeripheral},
             Receive(r, p, per)
      PROVE  TypeOK'
  <2>1. /\ deliveries' \in 0..MaxDeliveries
        /\ UNCHANGED <<peers, messageHistory, currentChannel, processed, reg, uiPc,
                       uiArg, members, sent, commands, shown, handled, clears>>
    BY <1>1 DEF Receive, TypeOK
  <2>2. CASE IsValid(p) /\ ShouldProcessPacket(p)
    <3>1. /\ pc' = [pc EXCEPT ![r] = "mark"]
          /\ pkt' = [pkt EXCEPT ![r] = p]
          /\ via' = [via EXCEPT ![r] = per]
      BY <2>2, <1>1 DEF Receive
    <3> QED
      BY <2>1, <3>1 DEF TypeOK
  <2>3. CASE ~(IsValid(p) /\ ShouldProcessPacket(p))
    <3>1. pc' = pc /\ pkt' = pkt /\ via' = via
      BY <2>3, <1>1 DEF Receive
    <3> QED
      BY <2>1, <3>1 DEF TypeOK
  <2> QED
    BY <2>2, <2>3
<1>2. ASSUME NEW per \in Peripherals, PeerDisconnected(r, per)
      PROVE  TypeOK'
  BY <1>2 DEF PeerDisconnected, TypeOK
<1> QED
  BY <1>1, <1>2 DEF Arrival

\* The message sendMessage is about to file has a key of our own.
LEMMA OwnKeyType ==
    ASSUME TypeOK, uiPc = "filing"
    PROVE  <<Local, commands>> \in Keys
  BY PipelineAssumption DEF TypeOK, Keys

\* A step of the user interface thread keeps every type.
LEMMA UIType ==
    ASSUME TypeOK, UICommand \/ UIStep
    PROVE  TypeOK'
<1> USE PipelineAssumption DEF UIUnchanged, readerVars, NewCommand
<1>1. CASE SendMessage
  <2>1. sent' \subseteq 1..commands' /\ commands' \in 0..MaxCommands
    <3>1. /\ commands' = commands + 1 /\ commands \in Nat
          /\ sent \subseteq 1..commands
          /\ sent' \subseteq sent \cup {commands + 1}
          /\ commands < MaxCommands
      BY <1>1 DEF SendMessage, TypeOK
    <3> QED
      BY <3>1
  <2>2. CASE /\ sent' = sent \cup {commands + 1}
             /\ uiPc' = "filing" /\ uiArg' = currentChannel
    <3>1. commands' \in sent'
      BY <1>1, <2>2 DEF SendMessage
    <3> QED
      BY <2>1, <2>2, <3>1, <1>1 DEF SendMessage, TypeOK
  <2>3. CASE UNCHANGED <<sent, uiPc, uiArg>>
    BY <2>1, <2>3, <1>1 DEF SendMessage, TypeOK
  <2> QED
    BY <2>2, <2>3, <1>1 DEF SendMessage
<1>2. ASSUME NEW name \in Channels, JoinChannel(name)
      PROVE  TypeOK'
  BY <1>2 DEF JoinChannel, TypeOK
<1>3. CASE LeaveChannel
  BY <1>3 DEF LeaveChannel, TypeOK
<1>4. CASE SetTypedChannel
  BY <1>4 DEF SetTypedChannel, TypeOK, Channels
<1>5. CASE ClearChannel
  BY <1>5 DEF ClearChannel, TypeOK, Channels
<1>6. CASE EnterChannel
  BY <1>6 DEF EnterChannel, TypeOK, Channels
<1>7. CASE SendPrivateMessage
  <2>1. sent' \subseteq 1..commands' /\ commands' \in 0..MaxCommands
    <3>1. /\ commands' = commands + 1 /\ commands \in Nat
          /\ sent \subseteq 1..commands
          /\ sent' \subseteq sent \cup {commands + 1}
          /\ commands < MaxCommands
      BY <1>7 DEF SendPrivateMessage, TypeOK
    <3> QED
      BY <3>1
  <2> QED
    BY <2>1, <1>7 DEF SendPrivateMessage, TypeOK
<1>8. CASE FileSent
  <2>1. <<Local, commands>> \in Keys
    BY <1>8, OwnKeyType DEF FileSent
  <2>2. uiArg \in Buckets /\ currentChannel \in Buckets
    BY DEF TypeOK, Buckets
  <2>3. messageHistory' \in [Buckets -> Seq(Keys)]
    BY <1>8, <2>1, <2>2, AddMessageToHistoryType DEF FileSent, TypeOK
  <2> QED
    BY <2>3, <1>8 DEF FileSent, TypeOK
<1> QED
  BY <1>1, <1>2, <1>3, <1>4, <1>5, <1>6, <1>7, <1>8 DEF UICommand, UIStep

\* Type correctness of the pipeline: no interleaving of readers and commands
\* takes the store, the threads or the callbacks' view out of their types.
THEOREM TypeCorrect == Spec => []TypeOK
<1>1. TypeOK /\ [Next]_vars => TypeOK'
  <2> SUFFICES ASSUME TypeOK, [Next]_vars PROVE TypeOK'
    OBVIOUS
  <2>1. CASE UNCHANGED vars
    BY <2>1 DEF vars, TypeOK
  <2>2. CASE Next
    BY <2>2, ReaderStepType, ArrivalType, UIType DEF Next
  <2> QED
    BY <2>1, <2>2
<1> QED
  BY <1>1, InitType, PTL DEF Spec

-----------------------------------------------------------------------------
(* The peer list.                                                          *)

\* The list changes only by an upsert or by a removal, whichever thread moves.
LEMMA ListSteps ==
    ASSUME [Next]_vars
    PROVE  \/ peers' = peers
           \/ \E r \in Readers : peers' = AddPeer(peers, reg[r])
           \/ \E r \in Readers : peers' = RemovePeer(peers, reg[r].peerID)
           \/ \E r \in Readers : peers' = RemovePeer(peers, pkt[r].src)
<1>1. CASE UNCHANGED vars
  BY <1>1 DEF vars
<1>2. ASSUME NEW r \in Readers, Arrival(r)
      PROVE  peers' = peers
  BY <1>2 DEF Arrival, Receive, PeerDisconnected, dataVars
<1>3. CASE UICommand \/ UIStep
  BY <1>3 DEF UICommand, UIStep, SendMessage, SendPrivateMessage, JoinChannel, LeaveChannel,
              FileSent, SetTypedChannel, ClearChannel, EnterChannel,
              UIUnchanged
<1>4. ASSUME NEW r \in Readers, ReaderStep(r)
      PROVE  \/ peers' = peers
             \/ peers' = AddPeer(peers, reg[r])
             \/ peers' = RemovePeer(peers, reg[r].peerID)
             \/ peers' = RemovePeer(peers, pkt[r].src)
  <2>1. CASE Mark(r) \/ FileMessage(r) \/ PeerJoined(r) \/ PeerLeft(r)
    BY <2>1 DEF Mark, FileMessage, PeerJoined, PeerLeft
  <2>2. CASE \/ ProcessVersionHello(r) \/ ProcessMessage(r)
             \/ ProcessChannelAnnounce(r) \/ ProcessAnnounce(r)
             \/ ProcessLeave(r) \/ ProcessOther(r)
    BY <2>2 DEF ProcessVersionHello, ProcessMessage, ProcessChannelAnnounce,
                ProcessAnnounce, ProcessLeave, ProcessOther
  <2>3. CASE ProcessVersionAck(r)
    BY <2>3 DEF ProcessVersionAck
  <2>4. CASE StoreAdded(r)
    BY <2>4 DEF StoreAdded
  <2>5. CASE StoreUpdated(r)
    BY <2>5 DEF StoreUpdated, UpdatePeer, AddPeer
  <2>6. CASE StoreRemoved(r)
    BY <2>6 DEF StoreRemoved
  <2> QED
    BY <1>4, <2>1, <2>2, <2>3, <2>4, <2>5, <2>6 DEF ReaderStep
<1> QED
  BY <1>1, <1>2, <1>3, <1>4 DEF Next

\* However many reader threads look up, decide and write, the peer list never
\* holds two records of one peer (addPeer, updatePeer, removePeer).
THEOREM PeersStayUnique == Spec => []PeersUnique
<1>1. Init => PeersUnique
  BY DEF Init, PeersUnique
<1>2. PeersUnique /\ [Next]_vars => PeersUnique'
  <2> SUFFICES ASSUME PeersUnique, [Next]_vars PROVE PeersUnique'
    OBVIOUS
  <2>1. ASSUME NEW peer, peers' = AddPeer(peers, peer)
        PROVE  PeersUnique'
    BY <2>1 DEF PeersUnique, AddPeer
  <2>2. ASSUME NEW id, peers' = RemovePeer(peers, id)
        PROVE  PeersUnique'
    BY <2>2 DEF PeersUnique, RemovePeer
  <2>3. CASE peers' = peers
    BY <2>3 DEF PeersUnique
  <2> QED
    BY <2>1, <2>2, <2>3, ListSteps
<1> QED
  BY <1>1, <1>2, PTL DEF Spec

-----------------------------------------------------------------------------
(* Duplicate detection and the limits of the store.                        *)

\* Only Mark touches the processed keys and the counts; another step moves a
\* reader to "mark" only with a key that is not in the cache.
LEMMA CacheSteps ==
    ASSUME TypeOK, [Next]_vars, ~\E r \in Readers : Mark(r)
    PROVE  /\ UNCHANGED <<processed, handled, clears>>
           /\ \A r \in Readers :
                 pc'[r] = "mark" =>
                    \/ Key(pkt'[r]) \notin processed
                    \/ pc[r] = "mark" /\ pkt'[r] = pkt[r]
<1> USE DEF Goto, Load, uiVars, dataVars, readerVars
<1>1. CASE UNCHANGED vars
  BY <1>1 DEF vars
<1>2. ASSUME NEW r \in Readers, NEW p \in Packets,
             NEW per \in Peripherals \cup {NoPeripheral}, Receive(r, p, per)
      PROVE  /\ UNCHANGED <<processed, handled, clears>>
             /\ \A s \in Readers :
                   pc'[s] = "mark" =>
                      \/ Key(pkt'[s]) \notin processed
                      \/ pc[s] = "mark" /\ pkt'[s] = pkt[s]
  <2>1. UNCHANGED <<processed, handled, clears>>
    BY <1>2 DEF Receive
  <2>2. CASE IsValid(p) /\ ShouldProcessPacket(p)
    <3>1. pc' = [pc EXCEPT ![r] = "mark"] /\ pkt' = [pkt EXCEPT ![r] = p]
      BY <2>2, <1>2 DEF Receive
    <3>2. Key(p) \notin processed
      BY <2>2 DEF ShouldProcessPacket, WasMessageProcessed
    <3> QED
      BY <2>1, <3>1, <3>2 DEF TypeOK
  <2>3. CASE ~(IsValid(p) /\ ShouldProcessPacket(p))
    BY <2>1, <2>3, <1>2 DEF Receive
  <2> QED
    BY <2>2, <2>3
<1>3. ASSUME NEW r \in Readers, NEW per \in Peripherals, PeerDisconnected(r, per)
      PROVE  /\ UNCHANGED <<processed, handled, clears, pkt>>
             /\ \A s \in Readers : pc'[s] = "mark" => pc[s] = "mark"
  BY <1>3 DEF PeerDisconnected, TypeOK
<1>4. ASSUME NEW r \in Readers, ReaderStep(r), ~Mark(r)
      PROVE  /\ UNCHANGED <<processed, handled, clears, pkt>>
             /\ \A s \in Readers : pc'[s] = "mark" => pc[s] = "mark"
  <2> USE DEF TypeOK, HandlerUnchanged, WriterUnchanged
  <2>1. CASE ProcessVersionHello(r)
    BY <2>1 DEF ProcessVersionHello
  <2>2. CASE ProcessVersionAck(r) \/ ProcessMessage(r) \/ ProcessOther(r)
    BY <2>2 DEF ProcessVersionAck, ProcessMessage, ProcessOther
  <2>3. CASE FileMessage(r)
    BY <2>3 DEF FileMessage
  <2>4. CASE ProcessChannelAnnounce(r)
    BY <2>4 DEF ProcessChannelAnnounce
  <2>5. CASE ProcessAnnounce(r)
    BY <2>5 DEF ProcessAnnounce
  <2>6. CASE ProcessLeave(r)
    BY <2>6 DEF ProcessLeave
  <2>7. CASE StoreAdded(r)
    BY <2>7 DEF StoreAdded
  <2>8. CASE StoreUpdated(r) \/ StoreRemoved(r)
    BY <2>8 DEF StoreUpdated, StoreRemoved
  <2>9. CASE PeerJoined(r) \/ PeerLeft(r)
    BY <2>9 DEF PeerJoined, PeerLeft
  <2> QED
    BY <1>4, <2>1, <2>2, <2>3, <2>4, <2>5, <2>6, <2>7, <2>8, <2>9 DEF ReaderStep
<1>5. CASE UICommand \/ UIStep
  BY <1>5 DEF UICommand, UIStep, SendMessage, SendPrivateMessage, JoinChannel, LeaveChannel,
              FileSent, SetTypedChannel, ClearChannel, EnterChannel,
              UIUnchanged
<1> QED
  BY <1>1, <1>2, <1>3, <1>4, <1>5 DEF Next, Arrival

\* Every step of the pipeline keeps the inductive invariant about the
\* processed cache.
LEMMA DuplicateStep ==
    ASSUME TypeOK, DuplicateInv, [Next]_vars
    PROVE  DuplicateInv'
<1>1. CASE ~\E r \in Readers : Mark(r)
  <2>1. /\ UNCHANGED <<processed, handled, clears>>
        /\ \A r \in Readers :
              pc'[r] = "mark" =>
                 \/ Key(pkt'[r]) \notin processed
                 \/ pc[r] = "mark" /\ pkt'[r] = pkt[r]
    BY <1>1, CacheSteps
  <2> QED
    BY <2>1 DEF DuplicateInv, Key
<1>2. ASSUME NEW m \in Readers, Mark(m)
      PROVE  DuplicateInv'
  <2> DEFINE key == Key(pkt[m])
  <2>1. key \in Keys /\ clears \in Nat /\ handled[m][key] <= clears
    BY <1>2, PacketFields DEF TypeOK, DuplicateInv, Mark
  <2>2. /\ handled' = [handled EXCEPT ![m][key] = @ + 1]
        /\ pkt' = pkt /\ pc' = [pc EXCEPT ![m] = "dispatch"]
    BY <1>2 DEF Mark, Goto
  <2>3. \A s \in Readers, k \in Keys :
           /\ handled[s][k] \in Nat /\ handled'[s][k] \in Nat
           /\ ~(s = m /\ k = key) => handled'[s][k] = handled[s][k]
           /\ s = m /\ k = key => handled'[s][k] = handled[s][k] + 1
    BY <2>1, <2>2 DEF TypeOK
  <2>4. \A s \in Readers : pc'[s] = "mark" => s # m /\ pc[s] = "mark"
    BY <2>2 DEF TypeOK
  <2>5. CASE Overflows(processed, key)
    <3>1. clears' = clears + 1
      BY <1>2, <2>5 DEF Mark
    <3> QED
      BY <2>1, <2>2, <2>3, <2>4, <3>1 DEF DuplicateInv
  <2>6. CASE ~Overflows(processed, key)
    <3>1. clears' = clears /\ processed' = processed \cup {key}
      BY <1>2, <2>6 DEF Mark, MarkMessageProcessed
    <3> QED
      BY <2>1, <2>2, <2>3, <2>4, <3>1 DEF DuplicateInv, Key
  <2> QED
    BY <2>5, <2>6
<1> QED
  BY <1>1, <1>2

\* Each reader thread handles a packet at most once per generation of the
\* processed cache, whatever the network redelivers and however the checks
\* and marks of the readers interleave.
THEOREM DuplicatesBounded == Spec => []DuplicateBound
<1>1. Init => DuplicateInv
  BY DEF Init, DuplicateInv
<1>2. TypeOK /\ DuplicateInv /\ [Next]_vars => DuplicateInv'
  BY DuplicateStep
<1>3. DuplicateInv => DuplicateBound
  BY DEF DuplicateInv, DuplicateBound
<1> QED
  BY <1>1, <1>2, <1>3, TypeCorrect, PTL DEF Spec

\* Only filing and sending touch the history, and both push within the limit.
LEMMA HistorySteps ==
    ASSUME TypeOK, [Next]_vars, \A c \in Buckets : Len(messageHistory[c]) <= MaxHistorySize
    PROVE  \A c \in Buckets : Len(messageHistory'[c]) <= MaxHistorySize
<1>1. CASE messageHistory' = messageHistory
  BY <1>1
<1>2. ASSUME NEW k \in Keys, NEW channel \in Buckets, NEW current \in Buckets,
             messageHistory' = AddMessageToHistory(messageHistory, k, channel, current)
      PROVE  \A c \in Buckets : Len(messageHistory'[c]) <= MaxHistorySize
  BY <1>2, AddMessageToHistoryType DEF TypeOK
<1>3. ASSUME NEW r \in Readers, FileMessage(r)
      PROVE  \E k \in Keys, channel \in Buckets, current \in Buckets :
                messageHistory' = AddMessageToHistory(messageHistory, k, channel, current)
  <2>1. Key(pkt[r]) \in Keys /\ pkt[r].chan \in Channels
    BY PacketFields DEF TypeOK
  <2>2. FilingChannel(pkt[r]) \in Buckets
    BY <2>1 DEF FilingChannel, Buckets
  <2>3. CurrentChannelReads \subseteq Buckets
    BY DEF CurrentChannelReads, Buckets, TypeOK
  <2> QED
    BY <1>3, <2>1, <2>2, <2>3 DEF FileMessage
<1>4. ASSUME FileSent
      PROVE  \E k \in Keys, channel \in Buckets, current \in Buckets :
                messageHistory' = AddMessageToHistory(messageHistory, k, channel, current)
  <2>1. <<Local, commands>> \in Keys
    BY <1>4, OwnKeyType DEF FileSent
  <2>2. uiArg \in Buckets /\ currentChannel \in Buckets
    BY DEF TypeOK, Buckets
  <2> QED
    BY <1>4, <2>1, <2>2 DEF FileSent
<1>5. ASSUME NEW r \in Readers, ReaderStep(r), ~FileMessage(r)
      PROVE  messageHistory' = messageHistory
  BY <1>5 DEF ReaderStep, Mark, ProcessVersionHello, ProcessVersionAck,
     ProcessMessage, ProcessChannelAnnounce, ProcessAnnounce, ProcessLeave,
     ProcessOther, StoreAdded, StoreUpdated, StoreRemoved, PeerJoined, PeerLeft,
     HandlerUnchanged, WriterUnchanged
<1>6. ASSUME NEW r \in Readers, Arrival(r)
      PROVE  messageHistory' = messageHistory
  BY <1>6 DEF Arrival, Receive, PeerDisconnected, dataVars
<1>7. ASSUME UICommand \/ UIStep, ~FileSent
      PROVE  messageHistory' = messageHistory
  BY <1>7 DEF UICommand, UIStep, SendMessage, SendPrivateMessage, JoinChannel, LeaveChannel, SetTypedChannel,
              ClearChannel, EnterChannel
<1>8. CASE UNCHANGED vars
  BY <1>1, <1>8 DEF vars
<1> QED
  BY <1>1, <1>2, <1>3, <1>4, <1>5, <1>6, <1>7, <1>8 DEF Next, UIStep

\* Marking a key keeps the cache finite and within its limit.
LEMMA MarkBounded ==
    ASSUME NEW cache, NEW k, IsFiniteSet(cache)
    PROVE  /\ IsFiniteSet(MarkMessageProcessed(cache, k))
           /\ Cardinality(MarkMessageProcessed(cache, k)) <= MaxProcessedMessages
<1>1. IsFiniteSet(cache \cup {k}) /\ Cardinality(cache \cup {k}) \in Nat
  BY FS_AddElement, FS_CardinalityType
<1>2. IsFiniteSet({}) /\ Cardinality({}) = 0
  BY FS_EmptySet
<1> QED
  BY <1>1, <1>2, StoreAssumption DEF MarkMessageProcessed, Overflows

\* No sequence of deliveries and commands takes a history log or the processed
\* cache over its limit, for all values of the two limits.
THEOREM StoreStaysBounded == Spec => []StoreBounded
<1> DEFINE Inv == IsFiniteSet(processed) /\ StoreBounded
<1>1. Init => Inv
  <2> SUFFICES ASSUME Init PROVE Inv
    OBVIOUS
  <2>1. processed = {} /\ \A c \in Buckets : messageHistory[c] = <<>>
    BY DEF Init
  <2>2. IsFiniteSet({}) /\ Cardinality({}) = 0
    BY FS_EmptySet
  <2> QED
    BY <2>1, <2>2, StoreAssumption DEF StoreBounded
<1>2. TypeOK /\ Inv /\ [Next]_vars => Inv'
  <2> SUFFICES ASSUME TypeOK, Inv, [Next]_vars PROVE Inv'
    OBVIOUS
  <2>1. \A c \in Buckets : Len(messageHistory'[c]) <= MaxHistorySize
    BY HistorySteps DEF StoreBounded
  <2>2. /\ IsFiniteSet(processed')
        /\ Cardinality(processed') <= MaxProcessedMessages
    <3>1. CASE \E r \in Readers : Mark(r)
      BY <3>1, MarkBounded DEF Mark
    <3>2. CASE ~\E r \in Readers : Mark(r)
      BY <3>2, CacheSteps DEF StoreBounded
    <3> QED
      BY <3>1, <3>2
  <2> QED
    BY <2>1, <2>2 DEF StoreBounded
<1>3. Inv => StoreBounded
  OBVIOUS
<1> QED
  BY <1>1, <1>2, <1>3, TypeCorrect, PTL DEF Spec

-----------------------------------------------------------------------------
(* The channel we are in.                                                  *)

\* A reader neither moves the user interface thread nor changes its channel.
LEMMA ReadersLeaveUI ==
    ASSUME NEW r \in Readers, Arrival(r) \/ ReaderStep(r)
    PROVE  UNCHANGED <<currentChannel, uiPc, uiArg, members, sent, commands>>
<1>1. CASE Arrival(r)
  BY <1>1 DEF Arrival, Receive, PeerDisconnected, dataVars, uiVars
<1>2. CASE ReaderStep(r)
  BY <1>2 DEF ReaderStep, Mark, ProcessVersionHello, ProcessVersionAck,
     ProcessMessage, FileMessage, ProcessChannelAnnounce, ProcessAnnounce,
     ProcessLeave, ProcessOther, StoreAdded, StoreUpdated, StoreRemoved,
     PeerJoined, PeerLeft, HandlerUnchanged, WriterUnchanged, uiVars
<1> QED
  BY <1>1, <1>2

\* The user interface thread leaves the peer list, the cache and the readers
\* alone.
LEMMA UILeavesReaders ==
    ASSUME UICommand \/ UIStep
    PROVE  UNCHANGED <<peers, processed, pc, pkt, via, reg, shown, handled, clears>>
  BY DEF UICommand, UIStep, SendMessage, SendPrivateMessage, JoinChannel,
         LeaveChannel, FileSent, SetTypedChannel, ClearChannel, EnterChannel,
         UIUnchanged,
         readerVars

\* Between commands, the current channel is one the user interface was told we
\* joined and not told we left: joinChannel stores the name as typed, leaves and
\* enters, and none of its early returns leaves a channel behind unannounced.
THEOREM CurrentAlwaysMember == Spec => []CurrentIsMember
<1>1. Init => CurrentIsMember
  BY DEF Init, CurrentIsMember
<1>2. CurrentIsMember /\ [Next]_vars => CurrentIsMember'
  <2> SUFFICES ASSUME CurrentIsMember, [Next]_vars PROVE CurrentIsMember'
    OBVIOUS
  <2>1. CASE UNCHANGED vars
    BY <2>1 DEF vars, CurrentIsMember
  <2>2. ASSUME NEW r \in Readers, Arrival(r) \/ ReaderStep(r)
        PROVE  CurrentIsMember'
    BY <2>2, ReadersLeaveUI DEF CurrentIsMember
  <2>3. CASE SendMessage \/ SendPrivateMessage \/ FileSent
    BY <2>3 DEF SendMessage, SendPrivateMessage, FileSent, NewCommand, CurrentIsMember
  <2>4. CASE (\E name \in Channels : JoinChannel(name)) \/ LeaveChannel
    BY <2>4 DEF JoinChannel, LeaveChannel, CurrentIsMember
  <2>5. CASE SetTypedChannel
    BY <2>5 DEF SetTypedChannel, CurrentIsMember
  <2>6. CASE ClearChannel
    BY <2>6 DEF ClearChannel, CurrentIsMember
  <2>7. CASE EnterChannel
    BY <2>7 DEF EnterChannel, CurrentIsMember
  <2> QED
    BY <2>1, <2>2, <2>3, <2>4, <2>5, <2>6, <2>7 DEF Next, UICommand, UIStep
<1> QED
  BY <1>1, <1>2, PTL DEF Spec

-----------------------------------------------------------------------------
(* One reader and a cache that does not overflow: the history.              *)

\* While the cache can hold every key, marking one never empties it.
LEMMA NeverOverflows ==
    ASSUME IsFiniteSet(Keys), Cardinality(Keys) <= MaxProcessedMessages,
           NEW cache \in SUBSET Keys, NEW k \in Keys
    PROVE  ~Overflows(cache, k)
<1>1. Cardinality(cache \cup {k}) <= Cardinality(Keys)
  BY FS_Subset
<1>2. Cardinality(cache \cup {k}) \in Nat /\ Cardinality(Keys) \in Nat
  BY FS_Subset, FS_CardinalityType
<1> QED
  BY <1>1, <1>2, StoreAssumption DEF Overflows

\* No two places of a history hold the same message.
Distinct(history) ==
    \A c, d \in Buckets : \A i \in DOMAIN history[c], j \in DOMAIN history[d] :
        history[c][i] = history[d][j] => c = d /\ i = j

\* The messages a history holds.
Filed(history) == UNION {{history[c][i] : i \in DOMAIN history[c]} : c \in Buckets}

\* An entry of a log after a push is the pushed key, at the end, or an entry
\* the log had, moved by the same distance as all the others.
LEMMA PushedEntries ==
    ASSUME NEW log \in Seq(Keys), NEW k \in Keys
    PROVE  \E s \in {0, 1} :
              /\ Len(PushBounded(log, k)) = Len(log) + 1 - s
              /\ \A i \in DOMAIN PushBounded(log, k) :
                    /\ i + s \in 1..(Len(log) + 1)
                    /\ i + s = Len(log) + 1 => PushBounded(log, k)[i] = k
                    /\ i + s # Len(log) + 1 =>
                          i + s \in DOMAIN log /\ PushBounded(log, k)[i] = log[i + s]
<1> DEFINE longer == Append(log, k)
<1>1. /\ longer \in Seq(Keys) /\ Len(longer) = Len(log) + 1 /\ Len(log) \in Nat
      /\ \A i \in 1..Len(log) : longer[i] = log[i]
      /\ longer[Len(log) + 1] = k
      /\ DOMAIN log = 1..Len(log)
  OBVIOUS
<1>2. /\ Tail(longer) \in Seq(Keys) /\ Len(Tail(longer)) = Len(log)
      /\ \A i \in 1..Len(log) : Tail(longer)[i] = longer[i + 1]
      /\ DOMAIN Tail(longer) = 1..Len(log) /\ DOMAIN longer = 1..(Len(log) + 1)
  BY <1>1
<1> HIDE DEF longer
<1>3. CASE Len(longer) > MaxHistorySize
  <2>1. PushBounded(log, k) = Tail(longer)
    BY <1>3 DEF PushBounded, longer
  <2>2. WITNESS 1 \in {0, 1}
  <2> QED
    BY <1>1, <1>2, <2>1
<1>4. CASE ~(Len(longer) > MaxHistorySize)
  <2>1. PushBounded(log, k) = longer
    BY <1>4 DEF PushBounded, longer
  <2>2. WITNESS 0 \in {0, 1}
  <2> QED
    BY <1>1, <1>2, <2>1
<1> QED
  BY <1>3, <1>4

\* Filing a message that a history does not hold keeps its entries distinct and
\* adds nothing else.
LEMMA FilingKeepsDistinct ==
    ASSUME NEW history \in [Buckets -> Seq(Keys)], NEW k \in Keys,
           NEW channel \in Buckets, NEW current \in Buckets,
           Distinct(history), k \notin Filed(history)
    PROVE  LET after == AddMessageToHistory(history, k, channel, current)
           IN  Distinct(after) /\ Filed(after) \subseteq Filed(history) \cup {k}
<1> DEFINE t == TargetChannel(channel, current)
           after == AddMessageToHistory(history, k, channel, current)
           pushed == PushBounded(history[t], k)
           n == Len(history[t])
<1>1. t \in Buckets /\ history[t] \in Seq(Keys) /\ n \in Nat
      /\ DOMAIN history[t] = 1..n
  BY DEF TargetChannel
<1>2. after = [history EXCEPT ![t] = pushed]
  BY DEF AddMessageToHistory
<1>3. PICK s \in {0, 1} :
         /\ Len(pushed) = n + 1 - s
         /\ \A i \in DOMAIN pushed :
               /\ i + s \in 1..(n + 1)
               /\ i + s = n + 1 => pushed[i] = k
               /\ i + s # n + 1 =>
                     i + s \in DOMAIN history[t] /\ pushed[i] = history[t][i + s]
  BY <1>1, PushedEntries
<1>4. DOMAIN pushed \subseteq Nat
  <2>1. pushed \in Seq(Keys)
    BY <1>1, PushBoundedType
  <2> HIDE DEF pushed
  <2> QED
    BY <2>1
<1> HIDE DEF t, after, pushed, n
<1>5. /\ after[t] = pushed
      /\ \A c \in Buckets \ {t} : after[c] = history[c]
  BY <1>1, <1>2
<1>6. \A c \in Buckets : \A i \in DOMAIN history[c] : history[c][i] # k
  BY DEF Filed
<1>7. \A i \in DOMAIN pushed :
         \/ pushed[i] = k /\ i + s = n + 1
         \/ pushed[i] # k /\ i + s \in DOMAIN history[t] /\ pushed[i] = history[t][i + s]
  BY <1>1, <1>3, <1>6
<1>8. \A i, j \in DOMAIN pushed : pushed[i] = pushed[j] => i = j
  <2> SUFFICES ASSUME NEW i \in DOMAIN pushed, NEW j \in DOMAIN pushed,
                      pushed[i] = pushed[j]
               PROVE  i = j
    OBVIOUS
  <2>1. i + s = j + s
    <3>1. CASE pushed[i] = k
      BY <1>7, <3>1
    <3>2. CASE pushed[i] # k
      BY <1>1, <1>7, <3>2 DEF Distinct
    <3> QED
      BY <3>1, <3>2
  <2> QED
    BY <1>4, <2>1
<1>9. \A i \in DOMAIN pushed : \A d \in Buckets \ {t} : \A j \in DOMAIN history[d] :
         pushed[i] # history[d][j]
  BY <1>1, <1>6, <1>7 DEF Distinct
<1>10. Distinct(after)
  <2> SUFFICES ASSUME NEW c \in Buckets, NEW d \in Buckets,
                      NEW i \in DOMAIN after[c], NEW j \in DOMAIN after[d],
                      after[c][i] = after[d][j]
               PROVE  c = d /\ i = j
    BY DEF Distinct
  <2>1. CASE c = t /\ d = t
    BY <1>5, <1>8, <2>1
  <2>2. CASE c = t /\ d # t
    BY <1>5, <1>9, <2>2
  <2>3. CASE c # t /\ d = t
    BY <1>5, <1>9, <2>3
  <2>4. CASE c # t /\ d # t
    BY <1>5, <2>4 DEF Distinct
  <2> QED
    BY <2>1, <2>2, <2>3, <2>4
<1>11. Filed(after) \subseteq Filed(history) \cup {k}
  <2> SUFFICES ASSUME NEW c \in Buckets, NEW i \in DOMAIN after[c]
               PROVE  after[c][i] \in Filed(history) \cup {k}
    BY DEF Filed
  <2>1. CASE c = t
    <3>1. CASE pushed[i] = k
      BY <1>5, <2>1, <3>1
    <3>2. CASE pushed[i] # k
      BY <1>1, <1>5, <1>7, <2>1, <3>2 DEF Filed
    <3> QED
      BY <3>1, <3>2
  <2>2. CASE c # t
    BY <1>5, <2>2 DEF Filed
  <2> QED
    BY <2>1, <2>2
<1> QED
  BY <1>10, <1>11 DEF after

\* The inductive form of NoDuplicateInHistory.  A filed message is either one of
\* our own, numbered by the command that sent it, or its key is in the cache; the
\* one sendMessage has sent and not yet filed is not in the history; a reader on its way to file a message of somebody else holds a key that is in
\* the cache and not in the history.
FilingInv ==
    /\ Distinct(messageHistory)
    /\ \A k \in Filed(messageHistory) :
          IF k[1] = Local THEN k[2] \in 1..commands ELSE k \in processed
    /\ uiPc = "filing" => <<Local, commands>> \notin Filed(messageHistory)
    /\ \A r \in Readers :
          /\ pc[r] = "mark" => Key(pkt[r]) \notin processed
          /\ pc[r] = "file" => pkt[r].src # Local
          /\ pc[r] \in {"dispatch", "file"} =>
                /\ Key(pkt[r]) \in processed
                /\ pkt[r].src # Local => Key(pkt[r]) \notin Filed(messageHistory)

\* A step that touches neither the history nor the cache keeps the invariant if
\* it takes the reader nowhere near the filing.
LEMMA FilingUndisturbed ==
    ASSUME FilingInv, UNCHANGED <<messageHistory, processed, commands, uiPc, pkt>>,
           \A r \in Readers :
              \/ pc'[r] \in {"idle", "add", "update", "remove", "joined", "left"}
              \/ pc'[r] = pc[r]
              \/ pc'[r] = "file" /\ pc[r] = "dispatch" /\ pkt[r].src # Local
    PROVE  FilingInv'
  BY DEF FilingInv, Key

\* Every step of the only reader keeps the invariant.
LEMMA ReaderFiling ==
    ASSUME NEW r0, Readers = {r0}, IsFiniteSet(Keys),
           Cardinality(Keys) <= MaxProcessedMessages,
           TypeOK, FilingInv, Arrival(r0) \/ ReaderStep(r0)
    PROVE  FilingInv'
<1> USE DEF Goto, Load, Dispatch
<1>0. /\ pc \in [{r0} -> Labels] /\ pkt \in [{r0} -> Packets]
      /\ processed \subseteq Keys
      /\ messageHistory \in [Buckets -> Seq(Keys)]
      /\ commands' = commands /\ uiPc' = uiPc
  BY ReadersLeaveUI DEF TypeOK
<1>1. ASSUME NEW p \in Packets, NEW per \in Peripherals \cup {NoPeripheral},
             Receive(r0, p, per)
      PROVE  FilingInv'
  <2>1. UNCHANGED <<messageHistory, processed>>
    BY <1>1 DEF Receive, dataVars
  <2>2. CASE IsValid(p) /\ ShouldProcessPacket(p)
    <3>1. pc'[r0] = "mark" /\ pkt'[r0] = p
      BY <1>0, <1>1, <2>2 DEF Receive
    <3>2. Key(p) \notin processed
      BY <2>2 DEF ShouldProcessPacket, WasMessageProcessed
    <3> QED
      BY <1>0, <2>1, <3>1, <3>2 DEF FilingInv
  <2>3. CASE ~(IsValid(p) /\ ShouldProcessPacket(p))
    <3>1. pc' = pc /\ pkt' = pkt
      BY <1>1, <2>3 DEF Receive
    <3> QED
      BY <1>0, <2>1, <3>1, FilingUndisturbed
  <2> QED
    BY <2>2, <2>3
<1>2. ASSUME NEW per \in Peripherals, PeerDisconnected(r0, per)
      PROVE  FilingInv'
  <2>1. UNCHANGED <<messageHistory, processed, pkt>> /\ pc'[r0] = "remove"
    BY <1>0, <1>2 DEF PeerDisconnected, dataVars
  <2> QED
    BY <1>0, <2>1, FilingUndisturbed
<1>3. CASE Mark(r0)
  <2> DEFINE key == Key(pkt[r0])
  <2>1. key \in Keys
    BY <1>0, PacketFields
  <2>2. processed' = processed \cup {key}
    BY <1>0, <1>3, <2>1, NeverOverflows DEF Mark, MarkMessageProcessed
  <2>3. UNCHANGED <<messageHistory, pkt>> /\ pc'[r0] = "dispatch" /\ pc[r0] = "mark"
    BY <1>0, <1>3 DEF Mark
  <2>4. pkt[r0].src # Local => key \notin Filed(messageHistory)
    BY <1>0, <2>3 DEF FilingInv, Key
  <2> QED
    BY <1>0, <2>2, <2>3, <2>4 DEF FilingInv
<1>4. CASE ProcessMessage(r0)
  <2>1. UNCHANGED <<messageHistory, processed, pkt>> /\ pc[r0] = "dispatch"
    BY <1>4 DEF ProcessMessage, HandlerUnchanged
  <2>2. pc'[r0] = "idle" \/ (pc'[r0] = "file" /\ pkt[r0].src # Local)
    BY <1>0, <1>4 DEF ProcessMessage
  <2> QED
    BY <1>0, <2>1, <2>2, FilingUndisturbed
<1>5. CASE FileMessage(r0)
  <2> DEFINE key == Key(pkt[r0])
  <2>1. key \in Keys /\ pkt[r0].chan \in Channels
    BY <1>0, PacketFields
  <2>2. FilingChannel(pkt[r0]) \in Buckets
    BY <2>1 DEF FilingChannel, Buckets
  <2>3. PICK current \in CurrentChannelReads :
           messageHistory' = AddMessageToHistory(messageHistory, key,
                                                 FilingChannel(pkt[r0]), current)
    BY <1>5 DEF FileMessage
  <2>4. current \in Buckets
    BY DEF CurrentChannelReads, Buckets, TypeOK
  <2>5. UNCHANGED <<processed, pkt>> /\ pc[r0] = "file" /\ pc'[r0] = "idle"
    BY <1>0, <1>5 DEF FileMessage
  <2>6. key \in processed /\ pkt[r0].src # Local /\ key \notin Filed(messageHistory)
    BY <2>5 DEF FilingInv
  <2>7. /\ Distinct(messageHistory')
        /\ Filed(messageHistory') \subseteq Filed(messageHistory) \cup {key}
    BY <1>0, <2>1, <2>2, <2>3, <2>4, <2>6, FilingKeepsDistinct DEF FilingInv
  <2>8. key[1] # Local
    BY <2>6 DEF Key
  <2> QED
    BY <1>0, <2>5, <2>6, <2>7, <2>8 DEF FilingInv
<1>6. CASE \/ ProcessVersionHello(r0) \/ ProcessVersionAck(r0)
           \/ ProcessChannelAnnounce(r0) \/ ProcessAnnounce(r0)
           \/ ProcessLeave(r0) \/ ProcessOther(r0)
  <2>1. UNCHANGED <<messageHistory, processed, pkt>>
    BY <1>6 DEF ProcessVersionHello, ProcessVersionAck, ProcessChannelAnnounce,
                ProcessAnnounce, ProcessLeave, ProcessOther, HandlerUnchanged
  <2>2. pc'[r0] \in {"idle", "add", "update", "remove"}
    BY <1>0, <1>6 DEF ProcessVersionHello, ProcessVersionAck,
       ProcessChannelAnnounce, ProcessAnnounce, ProcessLeave, ProcessOther
  <2> QED
    BY <1>0, <2>1, <2>2, FilingUndisturbed
<1>7. CASE \/ StoreAdded(r0) \/ StoreUpdated(r0) \/ StoreRemoved(r0)
           \/ PeerJoined(r0) \/ PeerLeft(r0)
  <2>1. UNCHANGED <<messageHistory, processed, pkt>>
    BY <1>7 DEF StoreAdded, StoreUpdated, StoreRemoved, PeerJoined, PeerLeft,
                WriterUnchanged
  <2>2. pc'[r0] \in {"idle", "joined", "left"}
    BY <1>0, <1>7 DEF StoreAdded, StoreUpdated, StoreRemoved, PeerJoined, PeerLeft
  <2> QED
    BY <1>0, <2>1, <2>2, FilingUndisturbed
<1> QED
  BY <1>1, <1>2, <1>3, <1>4, <1>5, <1>6, <1>7 DEF Arrival, ReaderStep

\* So does every command: sendMessage files a key no message has had.
LEMMA CommandFiling ==
    ASSUME TypeOK, FilingInv, UICommand \/ UIStep
    PROVE  FilingInv'
<1>0. /\ UNCHANGED <<processed, pc, pkt>> /\ commands \in Nat
      /\ messageHistory \in [Buckets -> Seq(Keys)]
  BY UILeavesReaders DEF TypeOK
<1>1. CASE /\ UNCHANGED messageHistory
           /\ commands' \in {commands, commands + 1}
           /\ uiPc' = "filing" => commands' = commands + 1
  <2>1. \A n : n \in 1..commands => n \in 1..commands'
    BY <1>0, <1>1
  <2>2. uiPc' = "filing" => <<Local, commands'>> \notin Filed(messageHistory)
    <3>1. ~(commands + 1 \in 1..commands)
      BY <1>0
    <3>2. /\ <<Local, commands + 1>>[1] = Local
          /\ <<Local, commands + 1>>[2] = commands + 1
      OBVIOUS
    <3> QED
      BY <1>1, <3>1, <3>2 DEF FilingInv
  <2> QED
    BY <1>0, <1>1, <2>1, <2>2 DEF FilingInv, Key
<1>2. CASE FileSent
  <2> DEFINE key == <<Local, commands>>
  <2>1. /\ commands' = commands /\ uiPc = "filing" /\ uiPc' = "idle"
        /\ messageHistory' = AddMessageToHistory(messageHistory, key,
                                                 uiArg, currentChannel)
    BY <1>2 DEF FileSent
  <2>2. key \in Keys /\ uiArg \in Buckets /\ currentChannel \in Buckets
    BY <2>1, OwnKeyType DEF TypeOK, Buckets
  <2>3. key \notin Filed(messageHistory)
    BY <2>1 DEF FilingInv
  <2>4. /\ Distinct(messageHistory')
        /\ Filed(messageHistory') \subseteq Filed(messageHistory) \cup {key}
    BY <1>0, <2>1, <2>2, <2>3, FilingKeepsDistinct DEF FilingInv
  <2>5. key[1] = Local /\ key[2] \in 1..commands'
    BY <1>0, <2>1 DEF TypeOK
  <2>6. \A k \in Filed(messageHistory') :
           IF k[1] = Local THEN k[2] \in 1..commands' ELSE k \in processed'
    BY <1>0, <2>1, <2>4, <2>5 DEF FilingInv
  <2>7. \A r \in Readers :
           pc[r] \in {"dispatch", "file"} /\ pkt[r].src # Local
              => Key(pkt[r]) \notin Filed(messageHistory')
    <3>1. \A r \in Readers : pkt[r].src # Local => Key(pkt[r]) # key
      BY DEF Key
    <3> QED
      BY <2>4, <3>1 DEF FilingInv
  <2> QED
    BY <1>0, <2>1, <2>4, <2>6, <2>7 DEF FilingInv
<1>3. ASSUME ~FileSent
      PROVE  /\ UNCHANGED messageHistory
             /\ commands' \in {commands, commands + 1}
             /\ uiPc' = "filing" => commands' = commands + 1
  BY <1>3 DEF UICommand, UIStep, SendMessage, SendPrivateMessage, JoinChannel,
     LeaveChannel, SetTypedChannel, ClearChannel, EnterChannel, NewCommand
<1> QED
  BY <1>1, <1>2, <1>3

\* On a serial transport, while the processed cache can hold every key, no
\* message is in the history twice: redelivered packets and echoes of our own
\* messages are not filed again, in whichever log they would go.
THEOREM HistoryNeverDuplicated ==
    ASSUME NEW r0, Readers = {r0},
           IsFiniteSet(Keys), Cardinality(Keys) <= MaxProcessedMessages
    PROVE  Spec => []NoDuplicateInHistory
<1>1. Init => FilingInv
  BY DEF Init, FilingInv, Distinct, Filed
<1>2. TypeOK /\ FilingInv /\ [Next]_vars => FilingInv'
  <2> SUFFICES ASSUME TypeOK, FilingInv, [Next]_vars PROVE FilingInv'
    OBVIOUS
  <2>1. CASE UNCHANGED vars
    BY <2>1, FilingUndisturbed DEF vars
  <2>2. CASE UICommand \/ UIStep
    BY <2>2, CommandFiling
  <2>3. CASE Arrival(r0) \/ ReaderStep(r0)
    BY <2>3, ReaderFiling
  <2> QED
    BY <2>1, <2>2, <2>3 DEF Next
<1>3. FilingInv => NoDuplicateInHistory
  <2> SUFFICES ASSUME FilingInv, NEW k \in Keys
               PROVE  Cardinality(Occurrences(k)) <= 1
    BY DEF NoDuplicateInHistory
  <2>1. CASE Occurrences(k) = {}
    BY <2>1, FS_EmptySet
  <2>2. ASSUME NEW o \in Occurrences(k)
        PROVE  Cardinality(Occurrences(k)) <= 1
    <3>1. \A x \in Occurrences(k) : x = o
      BY DEF Occurrences, FilingInv, Distinct
    <3>2. Occurrences(k) = {o}
      BY <3>1
    <3> QED
      BY <3>2, FS_Singleton
  <2> QED
    BY <2>1, <2>2
<1> QED
  BY <1>1, <1>2, <1>3, TypeCorrect, PTL DEF Spec

-----------------------------------------------------------------------------
(* Refinement.                                                             *)

\* On a serial transport (one reader) whose packets have no more keys than the
\* cache holds, the pipeline implements AtMostOnce: every delivered packet is
\* handled at most once.
THEOREM OnceRefinement ==
    ASSUME NEW r0, Readers = {r0},
           IsFiniteSet(Keys), Cardinality(Keys) <= MaxProcessedMessages
    PROVE  Spec => OnceSpec
<1>1. TheReader = r0
  BY DEF TheReader
<1>2. \A cache \in SUBSET Keys, k \in Keys : ~Overflows(cache, k)
  BY NeverOverflows
<1> DEFINE Inv == DuplicateInv /\ clears = 0
<1>3. Init => Inv /\ Once!Init
  BY <1>1 DEF Init, DuplicateInv, Once!Init
<1>4. TypeOK /\ Inv /\ [Next]_vars => Inv' /\ [Once!Next]_(handled[TheReader])
  <2> SUFFICES ASSUME TypeOK, Inv, [Next]_vars
               PROVE  Inv' /\ [Once!Next]_(handled[TheReader])
    OBVIOUS
  <2>1. DuplicateInv'
    BY DuplicateStep
  <2>2. CASE ~\E r \in Readers : Mark(r)
    BY <2>1, <2>2, CacheSteps
  <2>3. CASE Mark(r0)
    <3> DEFINE key == Key(pkt[r0])
    <3>1. key \in Keys /\ handled[r0] \in [Keys -> Nat]
      BY PacketFields DEF TypeOK
    <3>2. clears' = 0
      BY <1>2, <2>3, <3>1 DEF Mark, TypeOK
    <3>3. handled[r0][key] = 0
      BY <2>3, <3>1 DEF Mark, DuplicateInv
    <3>4. handled'[r0] = [handled[r0] EXCEPT ![key] = 1]
      BY <2>3, <3>1, <3>3 DEF Mark, TypeOK
    <3>5. Once!Process(key)
      BY <1>1, <3>3, <3>4 DEF Once!Process
    <3> QED
      BY <2>1, <3>1, <3>2, <3>5 DEF Once!Next
  <2> QED
    BY <2>2, <2>3
<1> QED
  BY <1>3, <1>4, TypeCorrect, PTL DEF Spec, OnceSpec, Once!Spec

=============================================================================
