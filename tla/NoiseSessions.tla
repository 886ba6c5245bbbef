--------------------------- MODULE NoiseSessions ---------------------------
(***************************************************************************)
(* Noise sessions: NoiseService and NoiseSessionDefault as the handlers of *)
(* MessageService use them, on several nodes that hear each other.         *)
(*                                                                         *)
(* A session object is created once, found through the map that            *)
(* sessionsMutex protects, and used after the mutex is released: a thread  *)
(* holds a handle (a shared_ptr) to an object that the map may no longer   *)
(* name.  An action is one critical section, or one access to the object.  *)
(* The session's own mutex is never locked, so the test of the established *)
(* flag and the assignment that follows it are two steps.                  *)
(*                                                                         *)
(* Key material, roles and message counts decide nothing in this code and  *)
(* are left out; NoiseSessionDefault hands payloads through.  Clients that *)
(* do not run this code ("foreign") only ever appear through the handshake *)
(* packets they send.                                                      *)
(***************************************************************************)
EXTENDS Naturals, FiniteSets

CONSTANTS
    Nodes,          \* nodes that run this code; identifiers are compared
    ForeignPackets, \* packets that other clients send
    Peers,          \* every identifier, of nodes and of other clients
    Readers,        \* reader threads of a node
    MaxSends        \* bound: node -> messages its user sends

PacketType ==
    [src : Peers, kind : {"identity", "init", "resp", "encrypted"}, to : Peers,
     num : Nat]

ASSUME NoiseAssumption ==
    /\ Peers \subseteq Nat /\ Nodes \subseteq Peers
    /\ ForeignPackets \subseteq PacketType
    /\ \A p \in ForeignPackets : p.src \notin Nodes
    /\ MaxSends \in [Nodes -> Nat]

VARIABLES
    sessions,       \* node -> peer -> handle of its session, 0 if there is none
    created,        \* node -> number of session objects created
    established,    \* node -> handles whose sessionEstablished flag is set
    pc, pkt, held,  \* node -> reader -> where it is, its packet, its handle
    taken,          \* node -> packets its readers have taken
    uiPc, uiPeer, uiHeld,   \* node -> its user's sendMessage, likewise
    started,        \* nodes that have sent their identity
    net,            \* packets sent so far
    answers,        \* node -> peer -> handshake responses sent (history)
    sends           \* node -> messages sent

vars == <<sessions, created, established, pc, pkt, held, taken, uiPc, uiPeer,
          uiHeld, started, net, answers, sends>>
uiVars == <<uiPc, uiPeer, uiHeld, sends>>

Packet(n, kind, p, k) == [src |-> n, kind |-> kind, to |-> p, num |-> k]

\* The packet variable of a reader that has none.
NoPacket(n) == Packet(n, "identity", n, 0)

\* hasEstablishedSession, on one look at the map.
HasEstablishedSession(n, p) ==
    sessions[n][p] # 0 /\ sessions[n][p] \in established[n]

\* Nobody catches what sendMessage throws: the process ends.
Running(n) == uiPc[n] # "terminated"

Init ==
    /\ sessions = [n \in Nodes |-> [p \in Peers |-> 0]]
    /\ created = [n \in Nodes |-> 0]
    /\ established = [n \in Nodes |-> {}]
    /\ pc = [n \in Nodes |-> [r \in Readers |-> "idle"]]
    /\ pkt = [n \in Nodes |-> [r \in Readers |-> NoPacket(n)]]
    /\ held = [n \in Nodes |-> [r \in Readers |-> 0]]
    /\ taken = [n \in Nodes |-> {}]
    /\ uiPc = [n \in Nodes |-> "idle"]
    /\ uiPeer = [n \in Nodes |-> n]
    /\ uiHeld = [n \in Nodes |-> 0]
    /\ started = {}
    /\ net = ForeignPackets
    /\ answers = [n \in Nodes |-> [p \in Peers |-> 0]]
    /\ sends = [n \in Nodes |-> 0]

-----------------------------------------------------------------------------
(* Reader threads.                                                         *)

Goto(n, r, label) == pc' = [pc EXCEPT ![n][r] = label]

\* The handler returns or throws, and its locals are gone.
Return(n, r) ==
    /\ Goto(n, r, "idle")
    /\ pkt' = [pkt EXCEPT ![n][r] = NoPacket(n)]
    /\ held' = [held EXCEPT ![n][r] = 0]

\* startIdentityAnnounce, once, from BitchatManager::start.
StartIdentityAnnounce(n) ==
    /\ n \notin started
    /\ started' = started \cup {n}
    /\ net' = net \cup {Packet(n, "identity", n, 0)}
    /\ UNCHANGED <<sessions, created, established, pc, pkt, held, taken, uiVars,
                   answers>>

\* The first thing the handler of p does.
FirstCall(p) ==
    CASE p.kind = "identity" -> "initiate"
      [] p.kind \in {"init", "resp"} -> "hasEstablished"
      [] p.kind = "encrypted" -> "decrypt"

\* A packet of somebody else arrives; the recipient it names is not looked at.
\* The larger of two identifiers waits to be greeted.
Take(n, r, p) ==
    /\ Running(n)
    /\ pc[n][r] = "idle"
    /\ p \in net \ taken[n]
    /\ p.src # n
    /\ taken' = [taken EXCEPT ![n] = @ \cup {p}]
    /\ IF p.kind = "identity" /\ n > p.src
       THEN UNCHANGED <<pc, pkt>>
       ELSE Goto(n, r, FirstCall(p)) /\ pkt' = [pkt EXCEPT ![n][r] = p]
    /\ UNCHANGED <<sessions, created, established, held, uiVars, started, net,
                   answers>>

\* getSession, with which every call into NoiseService begins.
GetSession(n, r) ==
    /\ Running(n)
    /\ pc[n][r] \in {"hasEstablished", "handleIncoming", "initiate", "decrypt"}
    /\ held' = [held EXCEPT ![n][r] = sessions[n][pkt[n][r].src]]
    /\ Goto(n, r, CASE pc[n][r] = "hasEstablished" -> "tested"
                    [] pc[n][r] = "handleIncoming" -> "incoming"
                    [] pc[n][r] = "initiate"       -> "start"
                    [] pc[n][r] = "decrypt"        -> "open")
    /\ UNCHANGED <<sessions, created, established, pkt, taken, uiVars, started,
                   net, answers>>

\* A handshake packet of a peer with an established session is ignored.
TestEstablished(n, r) ==
    /\ Running(n)
    /\ pc[n][r] = "tested"
    /\ IF held[n][r] # 0 /\ held[n][r] \in established[n]
       THEN Return(n, r)
       ELSE Goto(n, r, "handleIncoming") /\ UNCHANGED <<pkt, held>>
    /\ UNCHANGED <<sessions, created, established, taken, uiVars, started, net,
                   answers>>

\* handleIncomingHandshake found no session: createSession makes one and
\* enters it in the map, whatever the map holds by now.
CreateSession(n, r) ==
    /\ Running(n)
    /\ pc[n][r] = "incoming" /\ held[n][r] = 0
    /\ created' = [created EXCEPT ![n] = @ + 1]
    /\ sessions' = [sessions EXCEPT ![n][pkt[n][r].src] = created[n] + 1]
    /\ held' = [held EXCEPT ![n][r] = created[n] + 1]
    /\ Goto(n, r, "process")
    /\ UNCHANGED <<established, pkt, taken, uiVars, started, net, answers>>

\* Variant: initiateHandshake does not test what getSession returned.
TestFlagUnchecked(n, r) ==
    /\ Running(n)
    /\ \/ pc[n][r] = "incoming" /\ held[n][r] # 0
       \/ pc[n][r] \in {"process", "start"}
    /\ IF held[n][r] \in established[n]
       THEN Return(n, r)
       ELSE Goto(n, r, "establish") /\ UNCHANGED <<pkt, held>>
    /\ UNCHANGED <<sessions, created, established, taken, uiVars, started, net,
                   answers>>

\* initiateHandshake throws without a session, and so does a handshake on a
\* session that is established.
HandshakeThrows(n, h) == h = 0 \/ h \in established[n]

\* processHandshakeMessage or startHandshake: the flag is tested.
TestFlag(n, r) ==
    /\ Running(n)
    /\ \/ pc[n][r] = "incoming" /\ held[n][r] # 0
       \/ pc[n][r] \in {"process", "start"}
    /\ IF HandshakeThrows(n, held[n][r])
       THEN Return(n, r)
       ELSE Goto(n, r, "establish") /\ UNCHANGED <<pkt, held>>
    /\ UNCHANGED <<sessions, created, established, taken, uiVars, started, net,
                   answers>>

\* Variants: the flag is not set; it is not set by a response.
EstablishForgotten(n, r) ==
    /\ Running(n)
    /\ pc[n][r] = "establish"
    /\ answers' = IF pkt[n][r].kind = "init"
                  THEN [answers EXCEPT ![n][pkt[n][r].src] = @ + 1] ELSE answers
    /\ Return(n, r)
    /\ UNCHANGED <<sessions, created, established, taken, uiVars, started, net>>

EstablishInitOnly(n, r) ==
    /\ Running(n)
    /\ pc[n][r] = "establish"
    /\ LET p == pkt[n][r] IN
          IF p.kind = "init"
          THEN /\ established' = [established EXCEPT ![n] = @ \cup {held[n][r]}]
               /\ net' = net \cup {Packet(n, "resp", p.src, answers[n][p.src])}
               /\ answers' = [answers EXCEPT ![n][p.src] = @ + 1]
          ELSE UNCHANGED <<established, net, answers>>
    /\ Return(n, r)
    /\ UNCHANGED <<sessions, created, taken, uiVars, started>>

SetEstablished(n, h) == established' = [established EXCEPT ![n] = @ \cup {h}]

\* What the handler of p broadcasts: an init is answered with a resp, an
\* identity with an init.  What a resp makes of the session is not sent on: it
\* has neither 96 nor 48 bytes.
HandshakeReply(n, p) ==
    CASE p.kind = "init"     -> {Packet(n, "resp", p.src, answers[n][p.src])}
      [] p.kind = "identity" -> {Packet(n, "init", p.src, 0)}
      [] OTHER               -> {}

\* The flag is set and the reply goes out.
Establish(n, r) ==
    /\ Running(n)
    /\ pc[n][r] = "establish"
    /\ SetEstablished(n, held[n][r])
    /\ LET p == pkt[n][r] IN
          /\ net' = net \cup HandshakeReply(n, p)
          /\ answers' = IF p.kind = "init"
                        THEN [answers EXCEPT ![n][p.src] = @ + 1] ELSE answers
    /\ Return(n, r)
    /\ UNCHANGED <<sessions, created, taken, uiVars, started>>

\* decrypt: a session that is missing or not established throws, and the
\* packet is dropped.
Decrypt(n, r) ==
    /\ Running(n)
    /\ pc[n][r] = "open"
    /\ Return(n, r)
    /\ UNCHANGED <<sessions, created, established, taken, uiVars, started, net,
                   answers>>

-----------------------------------------------------------------------------
(* The user's thread: createMessagePacket.                                 *)

UIUnchanged ==
    UNCHANGED <<sessions, created, established, pc, pkt, held, taken, started,
                answers>>

\* Variant: every session counts, established or not.
SendMessageAny(n) ==
    /\ uiPc[n] = "idle"
    /\ sends[n] < MaxSends[n]
    /\ sends' = [sends EXCEPT ![n] = @ + 1]
    /\ \E p \in Peers :
          /\ sessions[n][p] # 0
          /\ uiPeer' = [uiPeer EXCEPT ![n] = p]
          /\ uiPc' = [uiPc EXCEPT ![n] = "encrypt"]
    /\ UNCHANGED <<uiHeld, net>>
    /\ UIUnchanged

\* getEstablishedSessionIDs; with none, the message goes out in clear text
\* (see MessagePipeline).
SendMessage(n) ==
    /\ uiPc[n] = "idle"
    /\ sends[n] < MaxSends[n]
    /\ sends' = [sends EXCEPT ![n] = @ + 1]
    /\ \/ /\ \A p \in Peers : ~HasEstablishedSession(n, p)
          /\ UNCHANGED <<uiPc, uiPeer>>
       \/ \E p \in Peers :
          /\ HasEstablishedSession(n, p)
          /\ uiPeer' = [uiPeer EXCEPT ![n] = p]
          /\ uiPc' = [uiPc EXCEPT ![n] = "encrypt"]
    /\ UNCHANGED <<uiHeld, net>>
    /\ UIUnchanged

\* encrypt looks the first of them up again ...
LookupAgain(n) ==
    /\ uiPc[n] = "encrypt"
    /\ uiHeld' = [uiHeld EXCEPT ![n] = sessions[n][uiPeer[n]]]
    /\ uiPc' = [uiPc EXCEPT ![n] = "seal"]
    /\ UNCHANGED <<uiPeer, sends, net>>
    /\ UIUnchanged

\* ... and throws if there is none or it is not established.
Encrypt(n) ==
    /\ uiPc[n] = "seal"
    /\ IF uiHeld[n] # 0 /\ uiHeld[n] \in established[n]
       THEN /\ net' = net \cup {Packet(n, "encrypted", uiPeer[n], sends[n])}
            /\ uiPc' = [uiPc EXCEPT ![n] = "idle"]
       ELSE /\ uiPc' = [uiPc EXCEPT ![n] = "terminated"]
            /\ UNCHANGED net
    /\ uiPeer' = [uiPeer EXCEPT ![n] = n]
    /\ uiHeld' = [uiHeld EXCEPT ![n] = 0]
    /\ UNCHANGED sends
    /\ UIUnchanged

-----------------------------------------------------------------------------
ReaderStep(n, r) ==
    \/ GetSession(n, r)
    \/ TestEstablished(n, r)
    \/ CreateSession(n, r)
    \/ TestFlag(n, r)
    \/ Establish(n, r)
    \/ Decrypt(n, r)

UIStep(n) == LookupAgain(n) \/ Encrypt(n)

Deliver(n) == \E r \in Readers : \E p \in net : Take(n, r, p)

Next ==
    \E n \in Nodes :
        \/ StartIdentityAnnounce(n)
        \/ Deliver(n)
        \/ \E r \in Readers : ReaderStep(n, r)
        \/ SendMessage(n)
        \/ UIStep(n)

Spec == Init /\ [][Next]_vars

\* A thread that is inside a call is scheduled again.
FairSpec ==
    /\ Spec
    /\ \A n \in Nodes :
          WF_vars(UIStep(n)) /\ \A r \in Readers : WF_vars(ReaderStep(n, r))

\* Besides, programs start and connections deliver what they carry; nobody has
\* to send a message.
ConnectedSpec ==
    /\ FairSpec
    /\ \A n \in Nodes : WF_vars(StartIdentityAnnounce(n)) /\ WF_vars(Deliver(n))

-----------------------------------------------------------------------------
(* Properties.                                                             *)

Labels == {"idle", "hasEstablished", "handleIncoming", "initiate", "decrypt",
           "tested", "incoming", "start", "open", "process", "establish"}

\* Types; a handle is 0 or names an object that was created.
TypeOK ==
    /\ sessions \in [Nodes -> [Peers -> Nat]]
    /\ \A n \in Nodes : \A p \in Peers : sessions[n][p] <= created[n]
    /\ created \in [Nodes -> Nat]
    /\ established \in [Nodes -> SUBSET Nat]
    /\ \A n \in Nodes : \A h \in established[n] : h \in 1 .. created[n]
    /\ pc \in [Nodes -> [Readers -> Labels]]
    /\ pkt \in [Nodes -> [Readers -> PacketType]]
    /\ held \in [Nodes -> [Readers -> Nat]]
    /\ \A n \in Nodes : \A r \in Readers :
          held[n][r] <= created[n] /\ (pc[n][r] = "establish" => held[n][r] # 0)
    /\ taken \in [Nodes -> SUBSET PacketType]
    /\ uiPc \in [Nodes -> {"idle", "encrypt", "seal", "terminated"}]
    /\ uiPeer \in [Nodes -> Peers]
    /\ uiHeld \in [Nodes -> Nat]
    /\ started \subseteq Nodes
    /\ net \subseteq PacketType
    /\ answers \in [Nodes -> [Peers -> Nat]]
    /\ sends \in [Nodes -> Nat]

\* With one reader, sendMessage never throws: between the list of established
\* sessions and the second lookup no reader takes away or replaces one
\* (createMessagePacket reads the two under separate locks).
EncryptNeverThrows == \A n \in Nodes : uiPc[n] # "terminated"

\* With one reader, a node answers at most one handshake of each peer, however
\* often the peer repeats its init and whoever else's responses it hears:
\* broadcast responses do not multiply.
AnsweredOnce == \A n \in Nodes : \A p \in Peers : answers[n][p] <= 1

\* A session that is in the map becomes established: no handshake is left
\* half done.
FreshEstablished ==
    \A n \in Nodes : \A p \in Peers \ {n} :
        sessions[n][p] # 0 ~> HasEstablishedSession(n, p)

-----------------------------------------------------------------------------
(* What a document says and the code does not do.                          *)

\* "Secure sessions are automatically established when peers connect"
\* (usage.md): two nodes that hear each other's identity get a session.
SessionsEstablished ==
    \A n \in Nodes : <>(\A p \in Nodes \ {n} : HasEstablishedSession(n, p))

=============================================================================
