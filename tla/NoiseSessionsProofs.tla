------------------------- MODULE NoiseSessionsProofs -------------------------
(***************************************************************************)
(* NoiseSessions for every set of nodes, clients and packets: types with   *)
(* any number of readers, and what one reader (the serial queue of the     *)
(* Apple transport) guarantees to the user's thread and to the network.    *)
(***************************************************************************)
EXTENDS NoiseSessions, TLAPS

-----------------------------------------------------------------------------
(* Types.                                                                  *)

\* A packet made by a node has the type of packets.
LEMMA PacketIsTyped ==
    ASSUME NEW n \in Nodes, NEW p \in Peers, NEW k \in Nat,
           NEW kind \in {"identity", "init", "resp", "encrypted"}
    PROVE  Packet(n, kind, p, k) \in PacketType
  BY NoiseAssumption DEF Packet, PacketType

\* The fresh NoiseService of every node has its types.
LEMMA InitType == Init => TypeOK
<1> SUFFICES ASSUME Init PROVE TypeOK
  OBVIOUS
<1>1. \A n \in Nodes : n \in Peers /\ NoPacket(n) \in PacketType
  BY PacketIsTyped, NoiseAssumption DEF NoPacket
<1> QED
  BY <1>1, NoiseAssumption DEF Init, TypeOK, Labels

\* Every step of every reader and user thread keeps the types.
LEMMA StepType == TypeOK /\ [Next]_vars => TypeOK'
<1> SUFFICES ASSUME TypeOK, [Next]_vars PROVE TypeOK'
  OBVIOUS
<1>0. \A n \in Nodes : n \in Peers /\ NoPacket(n) \in PacketType
  BY PacketIsTyped, NoiseAssumption DEF NoPacket
<1>1. ASSUME NEW n \in Nodes, StartIdentityAnnounce(n) PROVE TypeOK'
  <2>1. Packet(n, "identity", n, 0) \in PacketType
    BY <1>0, PacketIsTyped
  <2> QED
    BY <1>1, <2>1 DEF TypeOK, StartIdentityAnnounce, uiVars
<1>2. ASSUME NEW n \in Nodes, NEW r \in Readers, NEW p \in net, Take(n, r, p) PROVE TypeOK'
  <2>1. p \in PacketType /\ FirstCall(p) \in Labels \ {"establish"}
    BY DEF TypeOK, PacketType, FirstCall, Labels
  <2>2. \/ pc' = pc /\ pkt' = pkt
        \/ Goto(n, r, FirstCall(p)) /\ pkt' = [pkt EXCEPT ![n][r] = p]
    BY <1>2 DEF Take
  <2>3. /\ taken' = [taken EXCEPT ![n] = @ \cup {p}]
        /\ UNCHANGED <<sessions, created, established, held, uiPc, uiPeer, uiHeld,
                       sends, started, net, answers>>
    BY <1>2 DEF Take, uiVars
  <2>4. /\ pc' \in [Nodes -> [Readers -> Labels]]
        /\ pkt' \in [Nodes -> [Readers -> PacketType]]
        /\ \A m \in Nodes : \A t \in Readers :
              pc'[m][t] = "establish" => pc[m][t] = "establish"
    <3>1. CASE pc' = pc /\ pkt' = pkt
      BY <3>1 DEF TypeOK
    <3>2. CASE Goto(n, r, FirstCall(p)) /\ pkt' = [pkt EXCEPT ![n][r] = p]
      <4> DEFINE label == FirstCall(p)
      <4>1. label \in Labels /\ label # "establish" /\ pc' = [pc EXCEPT ![n][r] = label]
        BY <2>1, <3>2 DEF Goto
      <4> HIDE DEF label
      <4> QED
        BY <2>1, <3>2, <4>1 DEF TypeOK
    <3> QED
      BY <2>2, <3>1, <3>2
  <2>5. taken' \in [Nodes -> SUBSET PacketType]
    BY <2>1, <2>3 DEF TypeOK
  <2> QED
    BY <2>3, <2>4, <2>5 DEF TypeOK
<1>3. ASSUME NEW n \in Nodes, NEW r \in Readers, GetSession(n, r) PROVE TypeOK'
  <2>1. pkt[n][r].src \in Peers
    BY DEF TypeOK, PacketType
  <2> QED
    BY <1>3, <2>1 DEF TypeOK, GetSession, Goto, Labels, uiVars
<1>4. ASSUME NEW n \in Nodes, NEW r \in Readers, TestEstablished(n, r) PROVE TypeOK'
  <2>1. CASE held[n][r] # 0 /\ held[n][r] \in established[n]
    <3>1. Return(n, r)
      BY <1>4, <2>1 DEF TestEstablished
    <3> QED
      BY <1>0, <1>4, <3>1 DEF TypeOK, TestEstablished, Goto, Return, Labels, uiVars
  <2>2. CASE ~(held[n][r] # 0 /\ held[n][r] \in established[n])
    <3>1. Goto(n, r, "handleIncoming") /\ pkt' = pkt /\ held' = held
      BY <1>4, <2>2 DEF TestEstablished
    <3> QED
      BY <1>4, <2>2, <3>1 DEF TypeOK, TestEstablished, Goto, Labels, uiVars
  <2> QED
    BY <2>1, <2>2
<1>5. ASSUME NEW n \in Nodes, NEW r \in Readers, CreateSession(n, r) PROVE TypeOK'
  <2>1. pkt[n][r].src \in Peers
    BY DEF TypeOK, PacketType
  <2> QED
    BY <1>5, <2>1 DEF TypeOK, CreateSession, Goto, Labels, uiVars
<1>6. ASSUME NEW n \in Nodes, NEW r \in Readers, TestFlag(n, r) PROVE TypeOK'
  <2>1. CASE held[n][r] = 0 \/ held[n][r] \in established[n]
    <3>1. Return(n, r)
      BY <1>6, <2>1 DEF TestFlag, HandshakeThrows
    <3> QED
      BY <1>0, <1>6, <3>1 DEF TypeOK, TestFlag, HandshakeThrows, Goto, Return, Labels, uiVars
  <2>2. CASE ~(held[n][r] = 0 \/ held[n][r] \in established[n])
    <3>1. Goto(n, r, "establish") /\ pkt' = pkt /\ held' = held
      BY <1>6, <2>2 DEF TestFlag, HandshakeThrows
    <3> QED
      BY <1>6, <2>2, <3>1 DEF TypeOK, TestFlag, HandshakeThrows, Goto, Labels, uiVars
  <2> QED
    BY <2>1, <2>2
<1>7. ASSUME NEW n \in Nodes, NEW r \in Readers, Establish(n, r) PROVE TypeOK'
  <2>1. pkt[n][r].src \in Peers
    BY DEF TypeOK, PacketType
  <2>2. answers[n][pkt[n][r].src] \in Nat
    BY <2>1 DEF TypeOK
  <2>3. /\ Packet(n, "resp", pkt[n][r].src, answers[n][pkt[n][r].src]) \in PacketType
        /\ Packet(n, "init", pkt[n][r].src, 0) \in PacketType
    BY <2>1, <2>2, PacketIsTyped
  <2>4. net' \subseteq PacketType /\ answers' \in [Nodes -> [Peers -> Nat]]
    BY <1>7, <2>1, <2>2, <2>3 DEF TypeOK, Establish, HandshakeReply
  <2>5. held[n][r] \in 1 .. created[n]
    BY <1>7 DEF TypeOK, Establish
  <2> QED
    BY <1>0, <1>7, <2>4, <2>5 DEF TypeOK, Establish, SetEstablished, Return, Goto, Labels, uiVars
<1>8. ASSUME NEW n \in Nodes, NEW r \in Readers, Decrypt(n, r) PROVE TypeOK'
  BY <1>0, <1>8 DEF TypeOK, Decrypt, Goto, Return, Labels, uiVars
<1>9. ASSUME NEW n \in Nodes, SendMessage(n) PROVE TypeOK'
  <2>1. \/ uiPc' = uiPc /\ uiPeer' = uiPeer
        \/ \E p \in Peers : /\ uiPeer' = [uiPeer EXCEPT ![n] = p]
                             /\ uiPc' = [uiPc EXCEPT ![n] = "encrypt"]
    BY <1>9 DEF SendMessage
  <2>2. /\ sends' = [sends EXCEPT ![n] = @ + 1]
        /\ UNCHANGED <<sessions, created, established, pc, pkt, held, taken, uiHeld,
                       started, net, answers>>
    BY <1>9 DEF SendMessage, UIUnchanged
  <2>3. uiPeer' \in [Nodes -> Peers]
    BY <2>1 DEF TypeOK
  <2>4. uiPc' \in [Nodes -> {"idle", "encrypt", "seal", "terminated"}]
    BY <2>1 DEF TypeOK
  <2>5. sends' \in [Nodes -> Nat]
    BY <2>2 DEF TypeOK
  <2> QED
    BY <2>2, <2>3, <2>4, <2>5 DEF TypeOK
<1>10. ASSUME NEW n \in Nodes, LookupAgain(n) PROVE TypeOK'
  BY <1>10 DEF TypeOK, LookupAgain, UIUnchanged
<1>11. ASSUME NEW n \in Nodes, Encrypt(n) PROVE TypeOK'
  <2>1. Packet(n, "encrypted", uiPeer[n], sends[n]) \in PacketType
    BY PacketIsTyped DEF TypeOK
  <2> QED
    BY <1>0, <1>11, <2>1 DEF TypeOK, Encrypt, UIUnchanged
<1>12. CASE UNCHANGED vars
  BY <1>12 DEF TypeOK, vars
<1> QED
  BY <1>1, <1>2, <1>3, <1>4, <1>5, <1>6, <1>7, <1>8, <1>9, <1>10, <1>11, <1>12
  DEF Next, Deliver, ReaderStep, UIStep

\* No interleaving of readers and users takes the session map, the handles or
\* the packets out of their types: no handler uses a session it did not get.
THEOREM TypeCorrect == Spec => []TypeOK
<1> QED
  BY InitType, StepType, PTL DEF Spec

-----------------------------------------------------------------------------
(* One reader.  EncryptNeverThrows and AnsweredOnce hold because an        *)
(* established session stays in the map, and that because the reader's     *)
(* handle is what the map names for as long as it uses it.                 *)

\* Where a reader uses the handle it got.
Using == {"tested", "incoming", "start", "open", "process", "establish"}

HandleCurrent ==
    \A n \in Nodes : \A r \in Readers :
        /\ pc[n][r] \in Using => held[n][r] = sessions[n][pkt[n][r].src]
        /\ pc[n][r] = "establish" => held[n][r] \notin established[n]

AnswerMeansSession ==
    \A n \in Nodes : \A p \in Peers :
        /\ answers[n][p] <= 1
        /\ answers[n][p] # 0 => HasEstablishedSession(n, p)

UserHolds(n) ==
    /\ uiPc[n] # "terminated"
    /\ uiPc[n] = "encrypt" => HasEstablishedSession(n, uiPeer[n])
    /\ uiPc[n] = "seal" => uiHeld[n] # 0 /\ uiHeld[n] \in established[n]

UserHasSession == \A n \in Nodes : UserHolds(n)

SerialInv == TypeOK /\ HandleCurrent /\ AnswerMeansSession /\ UserHasSession

\* An established session stays in the map, and established.
LEMMA SessionsPersist ==
    ASSUME SerialInv, [Next]_vars, NEW m \in Nodes, NEW q \in Peers,
           HasEstablishedSession(m, q)
    PROVE  HasEstablishedSession(m, q)'
<1> USE DEF HasEstablishedSession
<1>1. ASSUME NEW n \in Nodes, NEW r \in Readers, CreateSession(n, r)
      PROVE  HasEstablishedSession(m, q)'
  <2>1. sessions[n][pkt[n][r].src] = 0
    BY <1>1 DEF SerialInv, HandleCurrent, Using, CreateSession
  <2>2. sessions'[m][q] = sessions[m][q]
    BY <1>1, <2>1 DEF CreateSession, SerialInv, TypeOK
  <2> QED
    BY <1>1, <2>2 DEF CreateSession
<1>2. ASSUME NEW n \in Nodes, NEW r \in Readers, Establish(n, r)
      PROVE  HasEstablishedSession(m, q)'
  BY <1>2 DEF Establish, SetEstablished, SerialInv, TypeOK
<1>3. ASSUME NEW n \in Nodes, NEW r \in Readers,
             GetSession(n, r) \/ TestEstablished(n, r) \/ TestFlag(n, r)
             \/ Decrypt(n, r)
      PROVE  HasEstablishedSession(m, q)'
  BY <1>3 DEF GetSession, TestEstablished, TestFlag, Decrypt
<1>4. ASSUME NEW n \in Nodes,
             StartIdentityAnnounce(n) \/ Deliver(n) \/ SendMessage(n)
             \/ LookupAgain(n) \/ Encrypt(n)
      PROVE  HasEstablishedSession(m, q)'
  BY <1>4 DEF StartIdentityAnnounce, Deliver, Take, SendMessage, LookupAgain, Encrypt,
              UIUnchanged
<1>5. CASE UNCHANGED vars
  BY <1>5 DEF vars
<1> QED
  BY <1>1, <1>2, <1>3, <1>4, <1>5 DEF Next, ReaderStep, UIStep

\* With one reader, its handle stays the one the map names while it uses it.
LEMMA HandleStep ==
    ASSUME NEW r0, Readers = {r0}, SerialInv, [Next]_vars
    PROVE  HandleCurrent'
<1> USE DEF SerialInv, HandleCurrent, Using
<1>0. TypeOK /\ TypeOK'
  BY StepType
<1>1. ASSUME NEW n \in Nodes, NEW r \in Readers, NEW p \in net, Take(n, r, p)
      PROVE  HandleCurrent'
  <2>1. FirstCall(p) \notin Using
    BY <1>0 DEF FirstCall, TypeOK, PacketType
  <2>2. \/ pc' = pc /\ pkt' = pkt
        \/ Goto(n, r, FirstCall(p)) /\ pkt' = [pkt EXCEPT ![n][r] = p]
    BY <1>1 DEF Take
  <2>3. UNCHANGED <<sessions, established, held>>
    BY <1>1 DEF Take
  <2>4. CASE pc' = pc /\ pkt' = pkt
    BY <2>3, <2>4
  <2>5. CASE Goto(n, r, FirstCall(p)) /\ pkt' = [pkt EXCEPT ![n][r] = p]
    <3> DEFINE label == FirstCall(p)
    <3>1. label \notin Using /\ pc' = [pc EXCEPT ![n][r] = label]
      BY <2>1, <2>5 DEF Goto
    <3> HIDE DEF label
    <3> QED
      BY <1>0, <2>3, <2>5, <3>1 DEF TypeOK
  <2> QED
    BY <2>2, <2>4, <2>5
<1>2. ASSUME NEW n \in Nodes, NEW r \in Readers, GetSession(n, r)
      PROVE  HandleCurrent'
  BY <1>0, <1>2 DEF GetSession, Goto, TypeOK
<1>3. ASSUME NEW n \in Nodes, NEW r \in Readers, Return(n, r),
             UNCHANGED sessions, \A m \in Nodes \ {n} : established'[m] = established[m]
      PROVE  HandleCurrent'
  <2> SUFFICES ASSUME NEW m \in Nodes \ {n}
               PROVE  UNCHANGED <<pc[m], pkt[m], held[m], established[m]>>
    BY <1>0, <1>3 DEF Return, Goto, TypeOK
  <2> QED
    BY <1>0, <1>3 DEF Return, Goto, TypeOK
<1>4. ASSUME NEW n \in Nodes, NEW r \in Readers, TestEstablished(n, r)
      PROVE  HandleCurrent'
  <2>1. CASE held[n][r] # 0 /\ held[n][r] \in established[n]
    BY <1>3, <1>4, <2>1 DEF TestEstablished
  <2>2. CASE ~(held[n][r] # 0 /\ held[n][r] \in established[n])
    <3>1. Goto(n, r, "handleIncoming") /\ pkt' = pkt /\ held' = held
      BY <1>4, <2>2 DEF TestEstablished
    <3> QED
      BY <1>0, <1>4, <3>1 DEF TestEstablished, Goto, TypeOK
  <2> QED
    BY <2>1, <2>2
<1>5. ASSUME NEW n \in Nodes, NEW r \in Readers, CreateSession(n, r)
      PROVE  HandleCurrent'
  <2>1. pkt[n][r].src \in Peers
    BY <1>0 DEF TypeOK, PacketType
  <2> QED
    BY <1>0, <1>5, <2>1 DEF CreateSession, Goto, TypeOK
<1>6. ASSUME NEW n \in Nodes, NEW r \in Readers, TestFlag(n, r)
      PROVE  HandleCurrent'
  <2>1. CASE held[n][r] = 0 \/ held[n][r] \in established[n]
    BY <1>3, <1>6, <2>1 DEF TestFlag, HandshakeThrows
  <2>2. CASE ~(held[n][r] = 0 \/ held[n][r] \in established[n])
    <3>1. Goto(n, r, "establish") /\ pkt' = pkt /\ held' = held
      BY <1>6, <2>2 DEF TestFlag, HandshakeThrows
    <3> QED
      BY <1>0, <1>6, <2>2, <3>1 DEF TestFlag, HandshakeThrows, Goto, TypeOK
  <2> QED
    BY <2>1, <2>2
<1>7. ASSUME NEW n \in Nodes, NEW r \in Readers, Establish(n, r) \/ Decrypt(n, r)
      PROVE  HandleCurrent'
  BY <1>0, <1>3, <1>7 DEF Establish, SetEstablished, Decrypt, TypeOK
<1>8. ASSUME NEW n \in Nodes,
             StartIdentityAnnounce(n) \/ SendMessage(n) \/ LookupAgain(n) \/ Encrypt(n)
      PROVE  HandleCurrent'
  BY <1>8 DEF StartIdentityAnnounce, SendMessage, LookupAgain, Encrypt, UIUnchanged
<1>9. CASE UNCHANGED vars
  BY <1>9 DEF vars
<1> QED
  BY <1>1, <1>2, <1>4, <1>5, <1>6, <1>7, <1>8, <1>9
  DEF Next, Deliver, ReaderStep, UIStep

\* A node answers a peer only while it has no session with it, and has one
\* from then on.
LEMMA AnswerStep ==
    ASSUME SerialInv, [Next]_vars
    PROVE  AnswerMeansSession'
<1>0. TypeOK /\ TypeOK' /\ AnswerMeansSession
  BY StepType DEF SerialInv
<1>1. ASSUME answers' = answers PROVE AnswerMeansSession'
  BY <1>0, <1>1, SessionsPersist DEF AnswerMeansSession
<1>2. ASSUME NEW n \in Nodes, NEW r \in Readers, Establish(n, r)
      PROVE  AnswerMeansSession'
  <2> PICK p \in Peers : p = pkt[n][r].src
    BY <1>0 DEF TypeOK, PacketType
  <2>1. held[n][r] = sessions[n][p] /\ held[n][r] # 0
    BY <1>0, <1>2 DEF Establish, TypeOK, PacketType, SerialInv, HandleCurrent, Using
  <2>2. answers[n][p] = 0
    <3>1. ~HasEstablishedSession(n, p)
      BY <1>2, <2>1 DEF HasEstablishedSession, Establish, SerialInv, HandleCurrent
    <3> QED
      BY <2>1, <3>1, <1>0 DEF AnswerMeansSession
  <2>3. HasEstablishedSession(n, p)'
    BY <1>0, <1>2, <2>1 DEF HasEstablishedSession, Establish, SetEstablished, TypeOK
  <2>4. CASE pkt[n][r].kind = "init"
    <3>1. answers' = [answers EXCEPT ![n][p] = 1]
      BY <1>0, <1>2, <2>1, <2>2, <2>4 DEF Establish, TypeOK
    <3> QED
      BY <1>0, <2>1, <2>3, <3>1, SessionsPersist DEF AnswerMeansSession, TypeOK
  <2>5. CASE pkt[n][r].kind # "init"
    BY <1>1, <1>2, <2>5 DEF Establish
  <2> QED
    BY <2>4, <2>5
<1>3. ASSUME NEW n \in Nodes, NEW r \in Readers,
             Deliver(n) \/ GetSession(n, r) \/ TestEstablished(n, r)
             \/ CreateSession(n, r) \/ TestFlag(n, r) \/ Decrypt(n, r)
      PROVE  answers' = answers
  BY <1>3 DEF Deliver, Take, GetSession, TestEstablished, CreateSession, TestFlag, Decrypt
<1>4. ASSUME NEW n \in Nodes,
             StartIdentityAnnounce(n) \/ Deliver(n) \/ SendMessage(n) \/ LookupAgain(n)
             \/ Encrypt(n)
      PROVE  answers' = answers
  BY <1>4 DEF StartIdentityAnnounce, Deliver, Take, SendMessage, LookupAgain, Encrypt,
              UIUnchanged
<1>5. CASE UNCHANGED vars
  BY <1>1, <1>5 DEF vars
<1> QED
  BY <1>1, <1>2, <1>3, <1>4, <1>5 DEF Next, ReaderStep, UIStep

\* Between its two lookups the user's thread keeps its session.
LEMMA UserStep ==
    ASSUME SerialInv, [Next]_vars
    PROVE  UserHasSession'
<1>0. TypeOK /\ TypeOK' /\ UserHasSession
  BY StepType DEF SerialInv
<1>1. \A n \in Nodes : established[n] \subseteq established'[n]
  <2>1. ASSUME NEW n \in Nodes, NEW r \in Readers, ReaderStep(n, r)
        PROVE  \A m \in Nodes : established[m] \subseteq established'[m]
    <3>1. CASE Establish(n, r)
      BY <1>0, <3>1 DEF Establish, SetEstablished, TypeOK
    <3>2. CASE ~Establish(n, r)
      BY <2>1, <3>2 DEF ReaderStep, GetSession, TestEstablished, CreateSession, TestFlag,
                        Decrypt
    <3> QED
      BY <3>1, <3>2
  <2>2. ASSUME NEW n \in Nodes,
               StartIdentityAnnounce(n) \/ Deliver(n) \/ SendMessage(n) \/ UIStep(n)
        PROVE  established' = established
    BY <2>2 DEF StartIdentityAnnounce, Deliver, Take, SendMessage, UIStep,
                LookupAgain, Encrypt, UIUnchanged
  <2> QED
    BY <2>1, <2>2 DEF Next, vars
<1>2. ASSUME NEW m \in Nodes, uiPc'[m] = uiPc[m], uiPeer'[m] = uiPeer[m],
             uiHeld'[m] = uiHeld[m]
      PROVE  UserHolds(m)'
  <2>1. uiPeer[m] \in Peers /\ UserHolds(m)
    BY <1>0 DEF TypeOK, UserHasSession
  <2>2. CASE uiPc[m] = "encrypt"
    <3>1. PICK q \in Peers : q = uiPeer[m] /\ HasEstablishedSession(m, q)
      BY <2>1, <2>2 DEF UserHolds
    <3>2. HasEstablishedSession(m, q)'
      BY <3>1, SessionsPersist
    <3> QED
      BY <1>2, <2>2, <3>1, <3>2 DEF UserHolds, HasEstablishedSession
  <2>3. CASE uiPc[m] # "encrypt"
    BY <1>1, <1>2, <2>1, <2>3 DEF UserHolds
  <2> QED
    BY <2>2, <2>3
<1>3. ASSUME UNCHANGED <<uiPc, uiPeer, uiHeld>> PROVE UserHasSession'
  BY <1>2, <1>3 DEF UserHasSession
<1>4. ASSUME NEW n \in Nodes, SendMessage(n) PROVE UserHasSession'
  <2>1. UserHolds(n)'
    BY <1>0, <1>2, <1>4 DEF SendMessage, UIUnchanged, UserHolds, HasEstablishedSession, TypeOK
  <2>2. ASSUME NEW m \in Nodes \ {n} PROVE UserHolds(m)'
    BY <1>0, <1>2, <1>4 DEF SendMessage, TypeOK
  <2> QED
    BY <2>1, <2>2 DEF UserHasSession
<1>5. ASSUME NEW n \in Nodes, LookupAgain(n) PROVE UserHasSession'
  <2>1. UserHolds(n)'
    BY <1>0, <1>5 DEF LookupAgain, UIUnchanged, UserHasSession, UserHolds,
                      HasEstablishedSession, TypeOK
  <2>2. ASSUME NEW m \in Nodes \ {n} PROVE UserHolds(m)'
    BY <1>0, <1>2, <1>5 DEF LookupAgain, TypeOK
  <2> QED
    BY <2>1, <2>2 DEF UserHasSession
<1>6. ASSUME NEW n \in Nodes, Encrypt(n) PROVE UserHasSession'
  <2>1. uiPc' = [uiPc EXCEPT ![n] = "idle"]
    BY <1>0, <1>6 DEF Encrypt, UserHasSession, UserHolds
  <2>2. UserHolds(n)'
    BY <1>0, <2>1 DEF UserHolds, TypeOK
  <2>3. ASSUME NEW m \in Nodes \ {n} PROVE UserHolds(m)'
    BY <1>0, <1>2, <1>6, <2>1 DEF Encrypt, TypeOK
  <2> QED
    BY <2>2, <2>3 DEF UserHasSession
<1>7. ASSUME NEW n \in Nodes, NEW r \in Readers, ReaderStep(n, r) PROVE UserHasSession'
  BY <1>3, <1>7 DEF ReaderStep, GetSession, TestEstablished, CreateSession, TestFlag,
                    Establish, Decrypt, uiVars
<1>8. ASSUME NEW n \in Nodes, StartIdentityAnnounce(n) \/ Deliver(n) PROVE UserHasSession'
  BY <1>3, <1>8 DEF StartIdentityAnnounce, Deliver, Take, uiVars
<1>9. CASE UNCHANGED vars
  BY <1>3, <1>9 DEF vars
<1> QED
  BY <1>4, <1>5, <1>6, <1>7, <1>8, <1>9 DEF Next, UIStep

\* Without sessions, handles and answers the invariant holds trivially.
LEMMA SerialInit == Init => SerialInv
  BY InitType
  DEF Init, SerialInv, HandleCurrent, Using, AnswerMeansSession, UserHasSession, UserHolds

\* With one reader per node every step keeps the invariant.
LEMMA SerialStep ==
    ASSUME NEW r0, Readers = {r0}
    PROVE  SerialInv /\ [Next]_vars => SerialInv'
<1> SUFFICES ASSUME SerialInv, [Next]_vars PROVE SerialInv'
  OBVIOUS
<1>1. TypeOK'
  BY StepType DEF SerialInv
<1> QED
  BY <1>1, HandleStep, AnswerStep, UserStep DEF SerialInv

\* With one reader, sendMessage never throws: no session that was listed as
\* established is taken away or replaced before encrypt looks it up again.
THEOREM SendingNeverThrows ==
    ASSUME NEW CONSTANT r0, Readers = {r0}
    PROVE  Spec => []EncryptNeverThrows
<1>1. SerialInv => EncryptNeverThrows
  BY DEF SerialInv, UserHasSession, UserHolds, EncryptNeverThrows
<1>2. SerialInv /\ [Next]_vars => SerialInv'
  BY SerialStep
<1> QED
  BY <1>1, <1>2, SerialInit, PTL DEF Spec

\* With one reader, a node answers at most one handshake of each peer, whatever
\* the other nodes and clients broadcast.
THEOREM PeersAnsweredOnce ==
    ASSUME NEW CONSTANT r0, Readers = {r0}
    PROVE  Spec => []AnsweredOnce
<1>1. SerialInv => AnsweredOnce
  BY DEF SerialInv, AnswerMeansSession, AnsweredOnce
<1>2. SerialInv /\ [Next]_vars => SerialInv'
  BY SerialStep
<1> QED
  BY <1>1, <1>2, SerialInit, PTL DEF Spec

=============================================================================
