# bitchatz-cpp in TLA+

bitchatz-cpp is a chat program without servers. Nodes find each other over
Bluetooth, exchange binary packets over the connections, relay them further,
and keep a list of peers, a message history and Noise sessions. This directory
holds TLA+ models of its core logic, the TLC configurations that check them on
small instances, and TLAPS proofs of the results that hold for every instance.

Paths below are relative to the repository (`src/...` is its root's `src`
directory; documents are under `extras/docs`). MS stands for
`services/message_service.cpp`, BD for `core/bitchat_data.cpp`, NS for
`services/network_service.cpp`, NO for `services/noise_service.cpp`, PS for
`protocol/packet_serializer.cpp`, LX for `platforms/linux/bluetooth.cpp` and AP for
`platforms/apple/bluetooth.mm`.

## 1. The system

### Components

| component | state | operations | properties that make it correct |
|---|---|---|---|
| BitchatData (BD) | peer list, history logs per channel, current channel, processed cache, nickname | add/update/remove peer, add message, was/mark processed, each under its own mutex | one record per peer; logs and cache within their limits |
| MessageService, receiving (MS) | none of its own: everything is in BitchatData | `processPacket` and a handler per packet type; `peerDisconnected` | a packet is handled once; a peer is listed once; no message is filed twice |
| MessageService, commands (MS) | none of its own | `sendMessage`, `sendPrivateMessage`, `joinChannel`, `leaveChannel`, `startIdentityAnnounce` | own messages filed once; the channel we are in is one we joined |
| NetworkService (NS) | running flag, callbacks | start, stop, send, receive, relay, discovery callback | a flood reaches what it should, dies out, does not go to the sender it names; a peer is removed only for a reason |
| Linux transport (LX) | map device to descriptor, scan/accept/reader threads, stop flag | scan, accept, read, send, stop | the map names live connections; each descriptor is closed once; what is written goes where it was meant to; every connection is read and, once broken, closed |
| Apple transport (AP) | both managers, discovered and connected peripherals, subscribed centrals, a serial queue and the main queue | delegate callbacks, initialize, send, stop | the radio starts and stops with the program; nothing is written on the wrong connection; everyone in range is reached |
| NoiseService, NoiseSessionDefault (NO) | map peer to session, established flag per session | handshake, encrypt, decrypt, removal, rekeying | handshakes end, are answered once, and sending does not fail |
| PacketSerializer (PS), padding, compression | none of their own; the Linux reader keeps a buffer for them | serialize, deserialize, pad, unpad, compress | what is accepted is what was written; no read past the end; no packet twice; the reader comes back to read |
| IdentityService | social identities, nickname index, pending actions | setters, index lookups | index and identities agree; favourite excludes blocked |
| Runners | thread, running flag | announce every few seconds; remove stale peers | they run while the program does, and stop ends |
| BitchatManager, main, console | services, running flag | initialize, start, stop, commands | start and stop in an order that leaves nothing running |
| ProtocolHelper | none | version negotiation | the result is supported by both sides |
| Noise migration, key exchanges | keys | choice of patterns | not modelled |
| CryptoService, helpers, test user interface, vendored noise-c, ESP32 sketch | keys | calls into OpenSSL, formatting | not modelled |

### How they interact

A transport delivers a packet by a callback into `NetworkService::onPacketReceived`,
which calls `MessageService::processPacket` (through another callback) and then
relays. Handlers call BitchatData and NoiseService, call back into the user
interface, and send replies through NetworkService, all on the thread on which
the packet came in: the one serial queue of CoreBluetooth, or one thread per
connection on Linux. The user interface calls MessageService on its own thread,
the announce runner sends on a third, and on Linux the scan and accept threads
call the discovery callback, which sends a version hello.

### What is hard

* Handlers are not atomic: every access to BitchatData or to the session map is
  a critical section of its own, and what was read in one is used in the next.
* On Linux several reader threads run handlers at the same time.
* A callback is made with `socketsMutex` held and comes back for it; a `write()` that blocks
  keeps it from everybody else.
* Duplicates are dropped by MessageService but relayed by NetworkService; only
  the TTL ends a flood.
* Responses are broadcast, and the recipient they are meant for is not looked at.
* File descriptors are reused as soon as they are closed.
* Caches and logs reach their limits.
* A connection is a stream of bytes: a read may end anywhere in a packet, and where
  a packet ends is computed from its header while compression (twice) and padding
  have changed its size.
* On Apple, scanning and advertising are started by blocks on the main queue, which
  only `initialize` serves, while power and connections change at any time.
* An announcement is sent 200 ms after a discovery by a detached thread, whatever
  has happened meanwhile; stopping has to end a thread that mostly sleeps.

`PROJECT.json` lists these as hazards, each at the line where it bites, with
the properties that cover it.

## 2. Modules

| module | models | composes |
|---|---|---|
| `BitchatData` | the store's critical sections, as operators | |
| `AtMostOnce` | abstract specification: what duplicate detection promises | |
| `MessagePipeline` | receive path of a node and the user's commands | extends `BitchatData`; refines `AtMostOnce` |
| `MeshRelay` | several nodes, connections and relaying | extends `BitchatData` |
| `LinuxTransport` | threads, map and descriptors of the Linux transport | |
| `NoiseSessions` | session maps and handshakes of several nodes | |
| `PayloadFormats` | writers and parsers of the payloads, as operators on sizes | |
| `PacketCodec` | creating, serializing, reading and deserializing packets on one connection | extends `PayloadFormats` |
| `AppleTransport` | the delegate, tables and queues of the Apple transport | |
| `NodeLifecycle` | a node from `main()` to its end, its announcements | extends `AppleTransport` |
| `MessagePipelineProofs`, `MeshRelayProofs`, `LinuxTransportProofs`, `NoiseSessionsProofs`, `PacketCodecProofs`, `NodeLifecycleProofs` | theorems | extend their component |
| `NodeConnectionProofs` | theorems about the connections of a node | extends `NodeLifecycle` |
| `PayloadFormatsProofs` | lemmas about the writers and parsers of payloads | extends `PayloadFormats`; extended by `PacketCodecProofs` |
| `MCPipeline`, `MCMesh`, `MCLinux`, `MCNoise`, `MCCodec`, `MCNode` | instances for TLC | extend their component |

Definitions named as variants ("Variant: ...") are not part of a specification:
each is a plausible bug in the definition that follows it and shows that the
property it is paired with in `PROJECT.json` can fail.

### MessagePipeline

State: `peers`, `messageHistory`, `currentChannel`, `processed` are those of
BitchatData; `pc`, `pkt`, `via`, `reg` are where each reader is, its packet, the
connection it came in on and the `BitchatPeer` it copied; `uiPc`, `uiArg` are the
command being executed; `shown` and `members` are what the callbacks have told
the user; `handled`, `clears` count for the properties only.

A reader takes a packet (`Receive`, with `isValid` and `shouldProcessPacket`),
marks it (`Mark`) and runs a handler (`Process...`). A handler that copies a
peer record, decides, and writes later is cut there: `StoreAdded`,
`StoreUpdated`, `StoreRemoved` are the second critical section and `PeerJoined`,
`PeerLeft` the callbacks after it. A message handler decides in `ProcessMessage`
and files in `FileMessage`, where `addMessageToHistory` reads the current channel
again without its mutex: a read that races with a write returns the old value,
the new one or a string of neither (`CurrentChannelReads`, `Garbled`).
`joinChannel` and `leaveChannel` are cut at each change of the current channel.
`sendMessage` sends first (`SendMessage`) and files the message only if the transport
accepted it (`FileSent`); a copy of it may come back in between and is ignored as our
own. `sendPrivateMessage` sends and files nothing.

A packet is what its handler tests: sender, timestamp, kind, channel, whether it
is private, and one bit of payload. The duplicate key is sender and timestamp,
as in the code. A channel announcement that names a peer is one of another client; those
of this program name no sender (MS:841) and find no peer to change.

### MeshRelay

One step per packet a node handles, connections that keep their order and may
break. `Receive` is `onPacketReceived` in full: handling (list of peers, version
acknowledgement), then the relay of every copy that arrived with TTL left,
duplicates included, with the TTL decremented as a `uint8_t`, to every listed
peer but the sender the packet names (`Sender`; a channel announcement names none, so
nobody is left out). `TransportKey` is what the transport keeps
its connections under: `sendPacketToPeer` finds a peer only if that is the peer
identifier (`KeyAssumption`: such a key is that of its own peer). The interface of the
transports takes a peer identifier (`platform/bluetooth_interface.h`:41); both transports keep device
addresses. The theorems hold for either; of the runs, mesh has the keys of the
interface, so that there is a flood to bound, and mesh_shipped those of the transports. `Within(n, k)`, the
nodes at most k connections from n, is stated by the existence of a walk. `Handle` is what
the handlers do to the list: `Greet` for a hello, a removal for a leave and for a rejection
(`Rejected`), whomever it is for. This program sends no leave packets, but handles those of
other clients. A hello is accepted if `NegotiateVersion` finds a version in common; this
program knows version 1 only, other clients may know others. The peripheral a packet is reported with is the sender's on Apple (a notification) or
empty (a write request, and always on Linux); either may happen. Broken
connections are not made again.

### LinuxTransport

The scan thread, the accept thread, one reader per connection, senders and
`stop()`, around `connectedSockets`. `fdConn` and `hungUp` are the kernel's: what a
descriptor stands for and whether the other end is gone. A critical section that
neither waits nor calls anybody is one step while the mutex is free. A sender takes the mutex
and the entries it is for (`SendLocks`), and keeps it over one `write()` after the other
(`SendWrites`), each of which may block. With a discovery callback
registered, the section that enters a connection stops halfway, in state
"hello": the callback sends, sending locks the `std::mutex` its own thread
holds, and no step leads out. After `stop()` has closed the descriptors it found,
the detached readers close theirs a second time; that is outside the model.

### NoiseSessions

A session is an object found through the map under `sessionsMutex` and used
after the mutex is released, so a thread holds a handle (`held`, `uiHeld`) to an
object the map may no longer name. One action is one critical section or one
access to the object; the test of the established flag and its assignment are
two steps, because the session's own mutex is never locked. Packets are
broadcast and taken in any order; the recipient they are meant for is not looked
at. Clients that are not this program appear through the handshakes they send.
An exception a reader's handler throws is caught by the Linux reader and ends
the handler; one that `sendMessage` throws is caught by nobody and ends the
process ("terminated"). Keys, roles and message counts decide nothing and are
left out.

### PayloadFormats and PacketCodec

A payload is a sequence of items, each a prefix of some bytes that says how many
bytes follow, and the bytes that were written: sizes only, no text. The writers
differ in whether they limit a length to what its prefix can say or convert it
without a limit; the parsers differ in whether they test that a prefix and its
bytes are there. `ReadPrefixUntested`, `ReadOrStop` and `ReadOptional` are the three
ways the code reads an item.

`PacketCodec` follows a packet over one Linux connection. `sent` is what was
written, with the bytes each packet occupies; the reader's `accumulatedData` is the
interval from `pos` to `readTo` of all bytes. Where the code looks at a byte the
model knows nothing of (text, a signature, random padding), it may have any value of
`Bytes`; a size computed from such bytes is any of `Garbage`. LZ4 is external: it
makes of a payload one of some size, or fails. `Hand` is one pass of the reader's
loop over a packet: it deserializes the whole buffer, calls back, and erases the
bytes it counted, or one byte if the callback threw. Packets are written before the
first read: a read may return any part of what is there, so a later write makes no
difference to the reader.

### AppleTransport and NodeLifecycle

`AppleTransport` has one action per delegate method, all on one serial queue.
CoreBluetooth is external: for each peripheral it queues its reports in the order
they happen (`events`), and the delegate lags behind them; reports of the power are
in `updates`, blocks for the main queue in `mainQueue`. `RunLoop` is a pass of the
loop in `initialize`, the only place where that queue is served; it runs every block
it finds. `Writable` and `Audience` are the tests `sendPacket` makes.

`NodeLifecycle` adds the main thread (`pc`: `initialize`, the waiting loop "check"
and "loop", "start", the console loop "ui", then the steps of `stop()`), the announce
runner (`runner`, `shouldExit`) and the detached threads (`delayed`). `connections`,
`announced` and `lost` are for the properties only. The cleanup runner takes no step:
nothing calls its `initialize`, so `start` refuses. The process ends in "done" or
"failed", with whatever threads it has. Until then `this` in the detached thread is
valid: the manager and the user interface keep each other, and with them the
services, alive.

## 3. Runs

State counts are of distinct states.

| run | instance | checks | shows |
|---|---|---|---|
| pipeline_serial | one reader, nine packets covering every handler, redelivery, own echo; 4 deliveries, 2 commands (1.51 M) | TypeOK, NoDuplicateInHistory, CurrentIsMember, OnceSpec | with a serial queue, although the user's thread interleaves: no message is filed twice, also when it comes back before we have filed it, the channel we are in is one the user was told of, and the pipeline implements `AtMostOnce` |
| pipeline_threads | two readers, cache of 2, log of 1; 4 deliveries (219 k) | PeersUnique, DuplicateBound, StoreBounded | with threads per connection what is left: one record per peer, at most one handling per reader and generation of the cache, limits kept |
| mesh | five nodes, a triangle and a tail, TTL 1, connections kept by peer identifier; a hello that one node rejects and another accepts, an announcement, a leave, a channel announcement; one failure (148 k) | TypeOK, NeverToSource, RangeBound, PeersSpoke, RemovalsJustified, Quiescence | no copy goes to the sender it names and no node lists itself; nothing gets further than TTL + 1 hops, and the flood ends although duplicates are relayed around a loop; lists name only those who announced themselves or agreed on a version; nobody goes from a list but by its own leave or rejection, when the node handles it for the first time, or by the loss of a connection recorded for it |
| mesh_shipped | six nodes, a triangle and a tail, TTL 2, a message from either end, connections kept by device address | Coverage (violated) | nothing is relayed, because no relay finds its connection |
| linux_threads | two devices, two descriptors, one sender, no callback (19 k) | TypeOK, SocketsMatch, OneCloser, WritesMatch, HungUpClosed | map and descriptors agree under reuse, no leak and no double close, a sender writes to the device it looked up however long a write blocks, and broken connections are closed if no write blocks for ever. NetworkService always registers the callback that is left out here (NS:69): with it, see linux_hello |
| linux_hello | one device, with the callback | ConnectedIsRead (violated) | the thread that made the first connection locks itself out |
| noise_serial | nodes 1 and 3, another client 2 that greets twice, one reader each, one message (151 k) | TypeOK, EncryptNeverThrows, AnsweredOnce, FreshEstablished | with a serial queue sending never fails, handshakes are answered once and none is left half done |
| noise_identity | two nodes | SessionsEstablished (violated) | two nodes of this program never start a handshake |
| codec_stream | two packets out of five (a short private message, a long one, a cut hello, an acknowledgement with an overlong string, half a channel announcement), read in portions of 200 or 256 bytes (632 k) | TypeOK, AcceptedIntact, ShortReadable, CutParsed, HandedInOrder, ReaderReads | what is accepted is what was sent, short messages read as a whole arrive with every field, cut payloads are parsed up to the cut, packets are handed over in order and none twice although the reader loses the boundaries, and it comes back to read |
| codec_long | one message of more than 100 bytes | MessagesReadable (violated) | a compressed message cannot be read |
| node_life | one peripheral, one central, Bluetooth switched off and on once (110 k) | TypeOK, QuietAfterStop, OwnConnection, ExitEnds, EveryoneAnnounced | the node stops quietly and always ends after `/exit`, late announcements go where they were meant to, and everyone in range is announced to although connecting fails |
| node_radio | one peripheral, Bluetooth on all the time | RadioStarts (violated) | a node may enter its console loop with a block that starts scanning or advertising on a queue nobody serves any more |

**Bounds.** Four deliveries are two packets of a peer delivered twice, or a hello,
an announcement, a leave and one more: enough for a peer two readers
add at once, a late write and a redelivery. A cache of two overflows at the third packet. Two descriptors allow
two connections of one device, a descriptor reused for another device, and none
left. Both meshes have a loop, a node at exactly TTL + 1 hops and one beyond. One
message a user sends is enough to race with the handshake of any client. Two packets
are enough for the second to be read with the first, cut by it, or begun in the middle;
the sizes of blocks, headers and thresholds are those of the code, but the largest packet is
300 bytes instead of 65536, so that a size read out of text can be too large. Peripherals
share nothing but the radio, so one is enough; up to two connections of a peripheral may be
made, and the proof of `AlwaysOwnConnection` shows that a second never is; one switch-off can
come before, between and after the steps of `initialize` and `stop`.

**Fairness.** Weak fairness for a thread that is inside a call: the operating system
schedules it. In `MeshRelay` some connection delivers what is on it while there is
anything on one. In `LinuxTransport` strong fairness for the steps that take
`socketsMutex` (scan, accept, cleanup, senders, `stop()`): the mutex is free again and
again, and a thread that waits for it gets it in the end; nothing is assumed of
`write()`, which is why `HungUpClosed` has the hypothesis that every sender is again and
again not writing. In `ConnectedSpec` of `NoiseSessions` programs start and packets
are delivered, which is what "when peers connect" presupposes. Nothing else is
assumed: packets, commands, connects, hang-ups and stops need not come, and the runs of
`MessagePipeline` check no liveness. In `PacketCodec` the reader goes on parsing what it has read.
In `NodeLifecycle` threads go on (a sleep ends), the delegate's queue is served and
advertisements keep coming (weak fairness), and of repeated attempts to connect one
succeeds (strong fairness of `Established`, because an attempt may fail and be
repeated); nothing is assumed of the user, of the power, or of breaking connections.

**Deadlock** is not checked: deliveries, commands and originations are bounded, and
after them, or after `stop()` or the end of the process, the system rests.

## 4. Proofs

For every value of the constants, checked by TLAPS:

* `MessagePipelineProofs`, any number of readers, peers and packets:
  `TypeCorrect`; `PeersStayUnique` (every step that changes the list is an
  `AddPeer`, `UpdatePeer` or `RemovePeer`, and these look the peer up again);
  `DuplicatesBounded`; `StoreStaysBounded`; and `OnceRefinement`, that one reader
  and no more keys than the cache holds make the pipeline implement `AtMostOnce`.
  `DuplicateBound` is not inductive: a reader that has checked a packet and not
  yet marked it is about to count it. `DuplicateInv` adds that a key which is not
  in the cache, or which a reader is about to mark, was handled only in earlier
  generations. `CurrentAlwaysMember`: between commands the current channel is one the
  user was told of joining.
  With one reader and no more keys than the cache holds, `HistoryNeverDuplicated`:
  `FilingInv` says that the logs have no two equal entries (`Distinct`), that a filed
  message is one of our own commands' or its key is in the cache, that the message
  `sendMessage` has sent and not yet filed is not in the logs, and that a reader about
  to file holds a key that is in the cache and not in the logs. The lemma `PushedEntries`
  is what a push to a bounded log does to its entries.
* `MeshRelayProofs`, any nodes, connections and packets: `TypeCorrect`,
  `NeverBackToSource`, `RangeBounded`. The two properties talk of copies on their way, and
  a relay makes them from a copy just received; `MeshInv` therefore says of every copy on a
  connection that it does not go to the sender it names and that its TTL has been decremented for
  every hop it has come (`GoodCopy`), and that a broken connection carries none. The
  lemmas `WithinStep` and `WithinMore` extend a walk by a hop and by waiting;
  `RelayTTLDecrements` is that `uint8_t` arithmetic does not wrap for a copy that is relayed.
  `ListedHaveSpoken` and the action property `RemovalsAlwaysJustified` rest on `SpokenInv`:
  every copy on a connection, however often it was relayed, is one its source originated or
  the answer its source made to a hello that was sent (`Genuine`). `HandleCases` is what
  a handler can do to a list. Neither result says that a node lists those it is connected
  to: relayed packets list others, and a rejection of one node removes its sender everywhere.
  `OneVersionKeepsPeers` says where that cannot happen: if all nodes have a version in
  common, as those of this program have, there are no rejections, and `CompatibleKept` holds.
* `LinuxTransportProofs`, any number of devices, descriptors and senders, with and
  without the callback: `TypeCorrect`, `SocketsStayMatched`, `OneCloserEach`, `WritesAlwaysMatch`. The
  inductive invariant `Inv` says who owns a descriptor: the connecting thread until
  the connection is entered (`ScanOwns`, `AcceptOwns`, never both, `TwoOwners`), the
  reader from then on, for the device the descriptor still stands for
  (`ReaderOwns`); that an open descriptor always has an owner (`Owned`); and that
  `stop()` closes only after the threads that open are done (`StopOrder`). `WriteInv` adds
  that a sender with entries left to write holds the mutex and that the map still has them.
* `NoiseSessionsProofs`, any number of nodes, clients and packets: `TypeCorrect`;
  and, with one reader per node, `SendingNeverThrows` and `PeersAnsweredOnce`. The
  invariant `SerialInv` says that a reader's handle is still the one in the map
  (`HandleCurrent`), that a peer which was answered has an established session
  (`AnswerMeansSession`), and that the session the user's thread chose is established
  (`UserHasSession`), which holds because no step takes an established session out of
  the map (`SessionsPersist`). Without the assumption of one reader both results are
  false: see below.
* `PacketCodecProofs`, any packets, sizes of reads, limits and values of unknown bytes:
  `TypeCorrect`, `AlwaysHandedInOrder`, `ShortAlwaysReadable`, and,
  under the hypotheses below, `AcceptedAlwaysIntact` and `CutAlwaysParsed`. `CodecInv` adds to
  the types that every packet handed over begins before the reader's position: each pass
  erases at least one byte, so the packet at the position is a later one than all before
  it; `Chained` says that the packets lie one behind the other on the stream, which makes
  "begins before" an order. `AcceptedAlwaysIntact` compares
  sizes: the header is counted one byte short, so a buffer that passes the test of its
  size may lack one byte. A payload that was not compressed is then not set, which
  `isValid` refuses; of a signed packet it is the signature that lacks it.
  `ShortAlwaysReadable` follows a message from its fields through the serializer, the padding
  and the reader's buffer to the parser: a message below the
  threshold always fits a block, so its padding is found and removed exactly.
* `PayloadFormatsProofs`, payloads of any number of items: `TestedParser` (a parser that
  tests takes exactly the items that are whole), `WholeMessageParsed` (one that does not test
  the first five takes all of a payload that is there), and which writers write prefixes
  that say their sizes: `ShortSaysSizes` (a message of up to 255 bytes, which cannot have
  more mentions than their count says), `AckSaysSizes` (always), `HelloSaysSizes` (fewer than
  256 versions and capabilities), `ChannelAnnounceSaysSizes` (exactly for names of fewer than
  256 bytes). These are inductions over the items. The library's induction theorems take an
  operator as parameter, which the provers cannot instantiate; each induction is therefore
  an argument about the least item at which the claim fails, and `LeastOf`, that there is
  one, follows from the well-foundedness of the numbers. `SizeOfStep` shows in this way that
  the recursive function `SizeOf` satisfies its own equations.
* `NodeLifecycleProofs`, any peripherals and centrals and any number of times
  Bluetooth is switched off: `StopsQuiet`. `QuietAfterStop`
  alone is not inductive: `StopInv` adds that the runner was joined before the radio is
  stopped; that no report starts it again (`TransportQuiet`) is because a report only
  queues a block.
* `NodeConnectionProofs`, for the same instances: `TypeCorrect` and
  `AlwaysOwnConnection`. The inductive `ConnectionInv` lists the reports that may be
  outstanding for a peripheral before its connection (`Fresh`, `Failed`) and after it
  (`Plain`, `Ended`), and says that one that was connected stays among the discovered
  ones. So it is never connected again, which is why a late announcement cannot meet
  another connection: the guarantee rests on the missing reconnection listed below, and a
  change that adds reconnecting has to add a test to the delayed announcement.

Only model-checked: the liveness properties (Quiescence, HungUpClosed, FreshEstablished,
ReaderReads, ExitEnds, EveryoneAnnounced, and those the violation runs refute), which are
beyond the prover. Every invariant of the passing runs, the action property and the
refinement are statements of theorems.

The hypotheses of the theorems that have any: one reader is the Apple transport, whose
delegate has one serial queue, and with two readers TLC finds counterexamples; no more
keys than the cache holds is a node that has heard at most `MaxProcessedMessages`
packets, and the properties fail when the cache is emptied; payloads that fit their
length field are those of up to 65534 bytes; payloads whose prefixes say their sizes, for
`CutAlwaysParsed`, are those listed under `PayloadFormatsProofs`: a longer channel name is
written in full behind a length that has lost its high bits, and is then cut when it is parsed.

## 5. Findings

Five runs are expected to fail; `PROJECT.json` quotes what the code or its
documents say instead.

1. codec_long: `createMessagePacket` compresses a payload of more than 100 bytes
   (MS:775), sets the flag from the size of the result (MS:807), and the serializer may
   compress it again; the receiver undoes one compression at most, and takes the first
   two bytes for a size that may never have been written.
2. mesh_shipped: `relayPacket` passes a peer identifier to a lookup by device
   address (LX:148, AP:284), so "messages are automatically relayed" does not hold.
3. linux_hello: the discovery callback runs under `socketsMutex` (LX:267).
4. noise_identity: `initiateHandshake` throws without a session (NO:78) and nothing
   but an incoming handshake makes one.
5. node_radio: `initialize` returns as soon as both managers are on, possibly before the
   blocks that start them have run (AP:149), and nothing serves the main queue
   afterwards, although "the system will automatically start scanning" (AP:166): such a
   node never scans or never advertises.

Other observations made with these models and not kept as runs:

* The processed cache is emptied when it overflows (BD:255); a packet that is
  still circulating is then handled twice, even by one reader. `DuplicateBound` is
  what remains.
* A private message for somebody else is filed in the private log while we are in
  the default chat, because its empty channel equals ours (MS:363).
* `joinChannel` overwrites the current channel (MS:116) before it leaves it
  (MS:124): the channel it reports as left is the new one.
* A peer first met through its hello keeps the client version as nickname (MS:984),
  since an announcement updates everything but the nickname (MS:439), and is never
  reported to the user as joined: the callback is in the other branch (MS:452). A peer
  that a rejection removes is reported as disconnected, not as left.
* With two readers a departed peer may come back: a handler that copied its record before
  the leave writes it back afterwards, and `updatePeer` adds what it does not find (BD:122).
  A late "left" callback likewise takes back a newer "joined" one.
* A channel announcement is created without a sender (MS:841). The relay then leaves
  nobody out, copies come back to the node that made it, and the nodes that hear it find no
  peer to record the channel for (MS:417).
* A version acknowledgement has TTL 1, "no relay" (MS:1132), and is relayed (NS:247).
* A rejection is broadcast and acted on by every node that hears it (MS:1070), although
  the comment there says "Clean up state for incompatible peer": b, which has no version in
  common with c, rejects its hello, and a, which agrees with both, drops b. `CompatibleKept`
  states the comment; it fails in the mesh of the run, and holds where all nodes share a
  version.
* A relayed announcement is recorded with the last hop's peripheral; when that
  connection breaks, the relayed peer may be the one removed (MS:232).
* The reader of a replaced Linux connection erases the entry of the one that
  replaced it (LX:459).
* `write()` is called with `socketsMutex` held (LX:129, LX:152). While it blocks, no other
  thread connects, sends or cleans up, and a reader whose handler answers waits as well; two
  nodes that write to each other and do not read may wait for ever.
* `stop()` joins a thread blocked in `accept()` (LX:100) and returns only if a
  device happens to connect.
* With two readers, two handshake packets of one peer can create two sessions
  (NO:92); the second replaces an established one, and a `sendMessage` in between
  throws (MS:784) although architecture.md says public methods are exception-safe.
* Handshake responses are broadcast (MS:528): a bystander establishes a session
  its peer does not have.
* The current channel is read again when a message is filed (BD:192): a join in
  between files a message of the default chat in the joined channel.

About the wire format:

* The header has 14 bytes; the reader (LX:384) and `deserializePacket` count 13, and
  neither counts the padding. After most packets the reader goes on inside the packet
  and finds the next one only if a read ends where a packet does, or by chance.
* Packets of 241 to 256, 497 to 768, 1009 to 1792 and more than 2032 bytes are not
  padded, because a padding length is one byte; `unpad` then takes their last byte for
  a padding length. `AcceptedIntact` says that this loses packets and does not alter them.
* The compression threshold is 100 bytes; protocol.md:121 says 64.
* An acknowledgement has a recipient, but no flag says so, and it is not written.
* `parseMessagePayload` reads the lengths of sender and content without a test that
  they are there (PS:344, PS:357). The other parsers test (`CutParsed`).
* The length of an announced channel and the counts in a hello are converted to one
  byte without a limit.
* Encrypting and decrypting with `NoiseSessionDefault` returns the argument.

About the node on Apple:

* After a power cycle in the console loop a node never scans or advertises again, because
  the blocks that would start it are on the main queue too.
* A hello for a peripheral that is discovered before `initialize` has returned is not
  sent (AP:257), and the runner's announcement may precede a hello (NS:216 says "first").
* A peripheral whose connection is lost, or whose discovery fails, stays among the
  discovered ones and is never connected again (AP:449).
* `sendPacket` returns success with nobody connected.
* A delayed announcement may be sent after `stop()`, because `ready` stays set.
* The delegate's tables are read by three other threads without the lock that was made
  for them (AP:223).
* The cleanup runner is never initialised, so stale peers are never removed
  (`runners/cleanup_runner.cpp`:33), and the console loop does not end at the end
  of its input (`ui/console_ui.cpp`:247).

## 6. Not modelled

* CryptoService, the migration of Noise patterns and the hybrid and post-quantum key
  exchanges: arithmetic on keys, and all but the first unused by the program.
* IdentityService: a store of maps that the program never creates or calls.
* Helpers (strings, dates, logging, tests of names), the texts of the user interface,
  the test user interface, the ESP32 sketch and the vendored noise-c.
* Of the modelled parts: maintenance calls of BitchatData nobody makes, `removeSession`
  and rekeying, `makePacket` and the loop of the cleanup runner, which nothing calls or
  starts.
* Receiving on Apple passes each packet straight to the callback; what follows is
  MessagePipeline's. On Apple nobody catches what a handler throws; the models follow the Linux
  reader, which does.
* `AppleTransport` takes each delegate method and each look at the tables as one step.
  The data races on the tables themselves are outside the model.

## 7. Plan

Done, in this order: MessagePipeline (the most important behaviour: what the node
does with what it hears), MeshRelay, LinuxTransport, NoiseSessions and their first
theorems; then the wire format and the Linux reader (PayloadFormats, PacketCodec), the
Apple transport and the life of a node (AppleTransport, NodeLifecycle) with two
theorems, and version negotiation; then the proofs of every invariant the runs check,
the two that need an induction over the fields of a payload last, together with the
properties of the peer lists of a mesh and of writes that block. Left:

1. With several readers the serial theorem about the history is false. A bound on how often
   a message can be filed, in the way of `DuplicateBound`, is open.
2. The same for the session map of NoiseSessions: how many sessions two readers can make for
   one peer.
3. IdentityService and rekeying, once the program uses them.
