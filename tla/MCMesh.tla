------------------------------- MODULE MCMesh -------------------------------
(***************************************************************************)
(* Small instances of MeshRelay: triangles of nodes with a tail.           *)
(***************************************************************************)
EXTENDS MeshRelay, TLC

Sym(pairs) == pairs \cup {<<l[2], l[1]>> : l \in pairs}

Nodes5 == {"a", "b", "c", "d", "e"}
Nodes6 == Nodes5 \cup {"f"}

\* Triangles with a tail: copies loop, and the end of the tail is further away
\* than the TTL reaches.
Triangle  == Sym({<<"a", "b">>, <<"b", "c">>, <<"a", "c">>})
ShortKite == Triangle \cup Sym({<<"c", "d">>, <<"d", "e">>})
Kite      == ShortKite \cup Sym({<<"e", "f">>})

\* The transport's keys as the relay expects them ...
ByPeerID5 == [n \in Nodes5 |-> n]
\* ... and as the two transports keep them: device addresses.
ByAddress6 ==
    [n \in Nodes6 |-> CASE n = "a" -> "00:0A" [] n = "b" -> "00:0B"
                        [] n = "c" -> "00:0C" [] n = "d" -> "00:0D"
                        [] n = "e" -> "00:0E" [] n = "f" -> "00:0F"]

\* This program's versions, and a mesh with other clients in it: b and c have
\* no version in common.
Only1  == [n \in Nodes6 |-> <<1>>]
Split5 == [n \in Nodes5 |-> CASE n = "b" -> <<1>> [] n = "c" -> <<2>> [] OTHER -> <<1, 2>>]

\* After a round of announcements, over direct connections, on a transport
\* that names the peripheral.
Listed(nodes, ls) ==
    [n \in nodes |-> {[peerID |-> m, peripheralID |-> m] :
                         m \in {x \in nodes : <<n, x>> \in ls}}]
ListedKite == Listed(Nodes6, Kite)

Pkt(src, kind, num, to) == [src |-> src, kind |-> kind, num |-> num, to |-> to]

\* Before b and c have met.
Half == [n \in Nodes5 |->
            {[peerID |-> m, peripheralID |-> m] :
                m \in CASE n = "a" -> {"b", "c"} [] n = "b" -> {"a"} [] n = "c" -> {"d"}
                        [] n = "d" -> {"c", "e"} [] n = "e" -> {"d"}}]

\* Messages from both ends of the kite.
ChatKite == {Pkt("a", "message", 1, "a"), Pkt("f", "message", 1, "f")}
\* A mesh that forms: a hello that b rejects and a accepts, and the packets of e,
\* which may also come back after it has left.
Forming  == {Pkt("c", "hello", 1, "b"), Pkt("e", "announce", 1, "e"),
             Pkt("e", "leave", 2, "e"), Pkt("e", "channelAnnounce", 3, "e")}

=============================================================================
