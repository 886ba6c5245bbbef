----------------------------- MODULE MCPipeline -----------------------------
(***************************************************************************)
(* Small instances of MessagePipeline: one remote peer "p", our own        *)
(* identifier "me", one device, the channel names "a" and "#a", and the    *)
(* packets that exercise every handler.  A channel announcement that names *)
(* its sender comes from another client.                                   *)
(***************************************************************************)
EXTENDS MessagePipeline, TLC

Packet(src, ts, kind, chan, private, flag) ==
    [src |-> src, ts |-> ts, kind |-> kind, valid |-> TRUE, chan |-> chan,
     nick |-> "Ann", private |-> private, flag |-> flag]

MCPeerIDs      == {"p", "me"}
MCPeripherals  == {"d"}
MCChannelNames == {"a", "#a"}
MCCanonical    == [c \in MCChannelNames |-> "#a"]
MCNicknames    == {"Ann", "1.0"}
MCTimestamps   == 1..7

Hello    == Packet("p", 1, "hello", "", FALSE, TRUE)
Announce == Packet("p", 2, "announce", "", FALSE, FALSE)
Leave    == Packet("p", 3, "leave", "", FALSE, FALSE)
Reject   == Packet("p", 4, "ack", "", FALSE, TRUE)
Enter    == Packet("p", 5, "channelAnnounce", "#a", FALSE, TRUE)
Default  == Packet("p", 6, "message", "", FALSE, FALSE)
Named    == Packet("p", 7, "message", "#a", FALSE, FALSE)
Secret   == Packet("p", 6, "encrypted", "", TRUE, TRUE)
Echo     == Packet("me", 1, "message", "", FALSE, FALSE)
Noise    == Packet("p", 7, "other", "", FALSE, FALSE)
Broken   == [Packet("p", 7, "message", "", FALSE, FALSE) EXCEPT !.valid = FALSE]

\* Everything the serial run delivers.
SerialPackets ==
    {Hello, Announce, Leave, Reject, Enter, Default, Named, Secret, Echo}

\* Two readers on the peer list, and a cache that three of these overflow.
ThreadPackets == {Announce, Leave, Enter, Default, Noise, Broken}

=============================================================================
