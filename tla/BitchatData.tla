---------------------------- MODULE BitchatData ----------------------------
(***************************************************************************)
(* The shared store of a node (core/bitchat_data.cpp): the peer list, the  *)
(* message history, the set of processed packet keys.  Every method of the *)
(* class takes the mutex of the part it touches for its whole body, so     *)
(* each is one atomic operator here; what two calls in a row do is up to   *)
(* the module that makes them.                                             *)
(*                                                                         *)
(* The peer vector is a set of peer records: its order is seen only by the *)
(* "first peer with this peripheral" search of peerDisconnected, which     *)
(* therefore becomes "any peer with this peripheral".                      *)
(***************************************************************************)
EXTENDS Naturals, Sequences, FiniteSets

CONSTANTS
    MaxHistorySize,         \* constants::MAX_HISTORY_SIZE
    MaxProcessedMessages,   \* constants::MAX_PROCESSED_MESSAGES
    NoChannel               \* the empty channel name, the default chat

ASSUME StoreAssumption ==
    /\ MaxHistorySize \in Nat \ {0}
    /\ MaxProcessedMessages \in Nat \ {0}

-----------------------------------------------------------------------------
(* Peers.  std::optional<BitchatPeer> is a set of at most one record as     *)
(* long as identifiers are unique.                                          *)

GetPeerInfo(peers, id) == {q \in peers : q.peerID = id}

\* Variant: push_back without the lookup.
AddPeerUnconditionally(peers, peer) == peers \cup {peer}

\* Upsert: replace the entry with the same peerID, or add one.
AddPeer(peers, peer) == {q \in peers : q.peerID # peer.peerID} \cup {peer}

\* Same upsert: updatePeer adds the peer when it is no longer in the list.
UpdatePeer(peers, peer) == {q \in peers : q.peerID # peer.peerID} \cup {peer}

RemovePeer(peers, id) == {q \in peers : q.peerID # id}

-----------------------------------------------------------------------------
(* History: one bounded log per channel.  An empty channel means "the       *)
(* channel that is current now", whatever it was when the caller decided.   *)

TargetChannel(channel, currentChannel) ==
    IF channel = NoChannel THEN currentChannel ELSE channel

\* push_back, then drop the oldest entry when the log is over its limit.
PushBounded(log, message) ==
    LET longer == Append(log, message)
    IN  IF Len(longer) > MaxHistorySize THEN Tail(longer) ELSE longer

AddMessageToHistory(history, message, channel, currentChannel) ==
    [history EXCEPT ![TargetChannel(channel, currentChannel)] =
        PushBounded(@, message)]

-----------------------------------------------------------------------------
(* Processed packet keys: a cache that is emptied when it overflows, the    *)
(* key just inserted included.                                              *)

WasMessageProcessed(processed, id) == id \in processed

\* Variant: the size is tested before the insertion.
OverflowsBeforeInsert(processed, id) ==
    Cardinality(processed) > MaxProcessedMessages

Overflows(processed, id) ==
    Cardinality(processed \cup {id}) > MaxProcessedMessages

MarkMessageProcessed(processed, id) ==
    IF Overflows(processed, id) THEN {} ELSE processed \cup {id}

=============================================================================
