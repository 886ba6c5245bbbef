------------------------------ MODULE MCNoise ------------------------------
(***************************************************************************)
(* Small instances of NoiseSessions: nodes 1 and 3, and a client 2 of      *)
(* another make that starts handshakes.                                    *)
(***************************************************************************)
EXTENDS NoiseSessions, TLC

TwoNodes   == {1, 3}
ThreePeers == {1, 2, 3}

\* Node 1's user sends a message.
OneSends == [n \in TwoNodes |-> IF n = 1 THEN 1 ELSE 0]

\* The other client greets, and greets again.
Greetings ==
    {[src |-> 2, kind |-> "init", to |-> 1, num |-> 0],
     [src |-> 2, kind |-> "init", to |-> 3, num |-> 1]}

=============================================================================
