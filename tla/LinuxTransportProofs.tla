------------------------ MODULE LinuxTransportProofs ------------------------
(***************************************************************************)
(* The map and the descriptors of LinuxTransport, for any number of        *)
(* devices and descriptors, with and without a discovery callback.         *)
(***************************************************************************)
EXTENDS LinuxTransport, FiniteSetTheorems, TLAPS

-----------------------------------------------------------------------------
(* The inductive invariant.  SocketsMatch alone is not inductive: a reader *)
(* closes its descriptor and erases the entry of its device, which is the  *)
(* entry that names the descriptor only if the reader still belongs to the *)
(* connection the descriptor stands for.                                   *)

\* stop() closes what is in the map only after the threads that fill it.
StopOrder ==
    /\ stopPc \in {"joinAccept", "close", "stopped"} => scanPc = "done"
    /\ stopPc \in {"close", "stopped"} => acceptPc = "done"
    /\ stopPc = "stopped" => \A d \in Devices : connectedSockets[d] = None

\* A connection being entered in the map is open, and nobody reads it yet.
ScanOwns ==
    scanPc \in {"insert", "hello"} =>
        fdConn[scanFd] = scanDev /\ reader[scanFd] = "none"

AcceptOwns ==
    acceptPc \in {"insert", "hello"} =>
        fdConn[acceptFd] = acceptDev /\ reader[acceptFd] = "none"

\* The two threads that connect never hold the same descriptor.
TwoOwners ==
    scanPc \in {"insert", "hello"} /\ acceptPc \in {"insert", "hello"} =>
        scanFd # acceptFd

\* A reader's descriptor stands for the device it was started for.
ReaderOwns ==
    stopPc # "stopped" =>
        \A f \in Fds : reader[f] # "none" => fdConn[f] = readerDev[f]

\* No descriptor leaks.
Owned ==
    stopPc # "stopped" =>
        \A f \in Fds : fdConn[f] # None =>
            \/ scanPc \in {"insert", "hello"} /\ scanFd = f
            \/ acceptPc \in {"insert", "hello"} /\ acceptFd = f
            \/ reader[f] # "none"

Inv ==
    /\ TypeOK
    /\ SocketsMatch
    /\ StopOrder
    /\ ScanOwns
    /\ AcceptOwns
    /\ TwoOwners
    /\ ReaderOwns
    /\ Owned

-----------------------------------------------------------------------------
(* Types.                                                                  *)

\* start() leaves everything in its type.
LEMMA InitType == Init => TypeOK
  BY TransportAssumption DEF Init, TypeOK

\* Every step of every thread of the transport keeps the types.
LEMMA StepType == TypeOK /\ [Next]_vars => TypeOK'
<1> SUFFICES ASSUME TypeOK, [Next]_vars PROVE TypeOK'
  OBVIOUS
<1> USE TransportAssumption DEF scanVars, acceptVars, readerVars, sendVars, kernelVars
<1>1. CASE ScanLoop
  BY <1>1 DEF TypeOK, ScanLoop
<1>2. CASE ScanCheck
  BY <1>2 DEF TypeOK, ScanCheck
<1>3. CASE ScanConnect
  BY <1>3 DEF TypeOK, ScanConnect, Free
<1>4. CASE ScanInsert
  BY <1>4 DEF TypeOK, ScanInsert, StartReader
<1>5. CASE \E d \in Devices : AcceptReturns(d)
  BY <1>5 DEF TypeOK, AcceptReturns, Free
<1>6. CASE AcceptInsert
  BY <1>6 DEF TypeOK, AcceptInsert, StartReader, AfterAccept
<1>7. CASE AcceptFails
  BY <1>7 DEF TypeOK, AcceptFails
<1>8. CASE \E f \in Fds : HangUp(f)
  BY <1>8 DEF TypeOK, HangUp
<1>9. CASE \E f \in Fds : ReaderEnds(f)
  BY <1>9 DEF TypeOK, ReaderEnds
<1>10. CASE \E f \in Fds : ReaderCleanup(f)
  BY <1>10 DEF TypeOK, ReaderCleanup, EndReader
<1>11. CASE \E t \in Senders : SendCalled(t)
  BY <1>11 DEF TypeOK, SendCalled
<1>12. CASE \E t \in Senders : SendLocks(t)
  BY <1>12 DEF TypeOK, SendLocks, Targets, Listed
<1>17. CASE \E t \in Senders : SendWrites(t)
  BY <1>17 DEF TypeOK, SendWrites
<1>13. CASE StopCalled
  BY <1>13 DEF TypeOK, StopCalled
<1>14. CASE StopJoins
  BY <1>14 DEF TypeOK, StopJoins
<1>15. CASE StopCloses
  BY <1>15 DEF TypeOK, StopCloses
<1>16. CASE UNCHANGED vars
  BY <1>16 DEF TypeOK, vars
<1> QED
  BY <1>1, <1>2, <1>3, <1>4, <1>5, <1>6, <1>7, <1>8, <1>9, <1>10, <1>11, <1>12, <1>13, <1>14, <1>15, <1>16, <1>17
  DEF Next, ScanStep, StopStep

\* No interleaving of scan, accept, reader, sender and stop threads takes the
\* map, the descriptors or a thread's locals out of their types.
THEOREM TypeCorrect == Spec => []TypeOK
<1>1. Init => TypeOK
  BY InitType
<1>2. TypeOK /\ [Next]_vars => TypeOK'
  BY StepType
<1> QED
  BY <1>1, <1>2, PTL DEF Spec

-----------------------------------------------------------------------------
(* The map and the descriptors.                                            *)

\* Before the threads run nobody owns a descriptor.
LEMMA InitInv == Init => Inv
  BY InitType, TransportAssumption
  DEF Init, Inv, SocketsMatch, StopOrder, ScanOwns, AcceptOwns, TwoOwners,
      ReaderOwns, Owned

\* Ownership passes from the connecting thread to the reader and is kept by
\* every other step, of scanThreadFunc, acceptThreadFunc, readerThreadFunc,
\* the senders and stop().
LEMMA StepInv == Inv /\ [Next]_vars => Inv'
<1> SUFFICES ASSUME Inv, [Next]_vars PROVE Inv'
  OBVIOUS
<1>0. TypeOK'
  BY StepType DEF Inv
<1>e. TypeOK
  BY DEF Inv
<1> DEFINE Rest == SocketsMatch /\ StopOrder /\ ScanOwns /\ AcceptOwns /\ TwoOwners
                   /\ ReaderOwns /\ Owned
<1> SUFFICES Rest'
  BY <1>0 DEF Inv
<1> USE TransportAssumption
    DEF scanVars, acceptVars, readerVars, sendVars, kernelVars, Inv, SocketsMatch, StopOrder,
        ScanOwns, AcceptOwns, TwoOwners, ReaderOwns, Owned
<1>1. CASE ScanLoop
  BY <1>e, <1>1 DEF TypeOK, ScanLoop
<1>2. CASE ScanCheck
  BY <1>e, <1>2 DEF TypeOK, ScanCheck
<1>3. CASE ScanConnect
  BY <1>e, <1>3 DEF TypeOK, ScanConnect, Free
<1>4. CASE ScanInsert
  BY <1>e, <1>4 DEF TypeOK, ScanInsert, StartReader
<1>5. CASE \E d \in Devices : AcceptReturns(d)
  BY <1>e, <1>5 DEF TypeOK, AcceptReturns, Free
<1>6. CASE AcceptInsert
  BY <1>e, <1>6 DEF TypeOK, AcceptInsert, StartReader, AfterAccept
<1>7. CASE AcceptFails
  BY <1>e, <1>7 DEF TypeOK, AcceptFails
<1>8. CASE \E f \in Fds : HangUp(f)
  BY <1>e, <1>8 DEF TypeOK, HangUp
<1>9. CASE \E f \in Fds : ReaderEnds(f)
  BY <1>e, <1>9 DEF TypeOK, ReaderEnds
<1>10. CASE \E f \in Fds : ReaderCleanup(f)
  <2> PICK f \in Fds : ReaderCleanup(f)
    BY <1>10
  \* The entry that is erased is the one that names f, if any does.
  <2>1. \A d \in Devices : connectedSockets[d] = f => d = readerDev[f]
    BY <1>e DEF TypeOK, ReaderCleanup, EndReader
  <2>2. SocketsMatch'
    BY <1>e, <2>1 DEF TypeOK, ReaderCleanup, EndReader
  \* Nobody but its reader holds f, so closing it hurts nobody.
  <2>3. /\ scanPc \in {"insert", "hello"} => scanFd # f
        /\ acceptPc \in {"insert", "hello"} => acceptFd # f
    BY DEF ReaderCleanup
  <2>4. ScanOwns' /\ AcceptOwns' /\ TwoOwners'
    BY <1>e, <2>3 DEF TypeOK, ReaderCleanup, EndReader
  <2>5. StopOrder' /\ ReaderOwns' /\ Owned'
    BY <1>e DEF TypeOK, ReaderCleanup, EndReader
  <2> QED
    BY <2>2, <2>4, <2>5
<1>11. CASE \E t \in Senders : SendCalled(t)
  BY <1>e, <1>11 DEF TypeOK, SendCalled
<1>12. CASE \E t \in Senders : SendLocks(t)
  BY <1>e, <1>12 DEF TypeOK, SendLocks, Targets, Listed
<1>17. CASE \E t \in Senders : SendWrites(t)
  BY <1>e, <1>17 DEF TypeOK, SendWrites
<1>13. CASE StopCalled
  BY <1>e, <1>13 DEF TypeOK, StopCalled
<1>14. CASE StopJoins
  BY <1>e, <1>14 DEF TypeOK, StopJoins
<1>15. CASE StopCloses
  BY <1>e, <1>15 DEF TypeOK, StopCloses
<1>16. CASE UNCHANGED vars
  BY <1>16 DEF vars
<1> QED
  BY <1>1, <1>2, <1>3, <1>4, <1>5, <1>6, <1>7, <1>8, <1>9, <1>10, <1>11, <1>12, <1>13, <1>14, <1>15, <1>16, <1>17
  DEF Next, ScanStep, StopStep

\* The map never names a closed descriptor, nor one that was reused for another
\* device: connect, accept, a reader's cleanup and stop() race on both.
THEOREM SocketsStayMatched == Spec => []SocketsMatch
<1>1. Inv => SocketsMatch
  BY DEF Inv
<1> QED
  BY <1>1, InitInv, StepInv, PTL DEF Spec

\* What the invariant says of the threads that will close a descriptor.
LEMMA InvOwners ==
    ASSUME Inv, stopPc # "stopped", NEW f \in Fds
    PROVE  IF fdConn[f] = None THEN Owners(f) = {} ELSE \E t : Owners(f) = {t}
<1> USE DEF Inv, TypeOK
<1>1. scanPc \in {"insert", "hello"} /\ scanFd = f =>
          fdConn[f] # None /\ reader[f] = "none"
  BY TransportAssumption DEF ScanOwns
<1>2. acceptPc \in {"insert", "hello"} /\ acceptFd = f =>
          fdConn[f] # None /\ reader[f] = "none"
  BY TransportAssumption DEF AcceptOwns
<1>3. reader[f] # "none" => fdConn[f] # None
  BY TransportAssumption DEF ReaderOwns
<1>4. CASE fdConn[f] = None
  BY <1>1, <1>2, <1>3, <1>4 DEF Owners
<1>5. CASE fdConn[f] # None
  <2>1. CASE scanPc \in {"insert", "hello"} /\ scanFd = f
    <3>1. Owners(f) = {"scan"}
      BY <1>1, <2>1 DEF Owners, TwoOwners
    <3> QED
      BY <1>5, <3>1
  <2>2. CASE acceptPc \in {"insert", "hello"} /\ acceptFd = f
    <3>1. Owners(f) = {"accept"}
      BY <1>2, <2>2 DEF Owners, TwoOwners
    <3> QED
      BY <1>5, <3>1
  <2>3. CASE reader[f] # "none"
    <3>1. Owners(f) = {"reader"}
      BY <1>1, <1>2, <2>3 DEF Owners
    <3> QED
      BY <1>5, <3>1
  <2> QED
    BY <1>5, <2>1, <2>2, <2>3 DEF Owned
<1> QED
  BY <1>4, <1>5

\* Until stop() closes what it finds, every open descriptor has exactly one
\* thread that will close it: no descriptor leaks and none is closed twice.
THEOREM OneCloserEach == Spec => []OneCloser
<1>1. Inv => OneCloser
  <2> SUFFICES ASSUME Inv, stopPc # "stopped", NEW f \in Fds
               PROVE  Cardinality(Owners(f)) = IF fdConn[f] = None THEN 0 ELSE 1
    BY DEF OneCloser
  <2>1. CASE fdConn[f] = None
    BY <2>1, InvOwners, FS_EmptySet
  <2>2. CASE fdConn[f] # None
    <3>1. PICK t : Owners(f) = {t}
      BY <2>2, InvOwners
    <3> QED
      BY <2>2, <3>1, FS_Singleton
  <2> QED
    BY <2>1, <2>2
<1> QED
  BY <1>1, InitInv, StepInv, PTL DEF Spec

-----------------------------------------------------------------------------
(* What senders write to.                                                  *)

\* A sender that has entries left to write to holds the mutex, and they are
\* still in the map.
WriteInv ==
    \A s \in Senders : \A e \in sendLeft[s] : mutex = s /\ connectedSockets[e[1]] = e[2]

\* Only a thread that finds the mutex free changes the map, and only its holder
\* gives it back (the lock_guards on socketsMutex).
LEMMA WriteStep == TypeOK /\ WriteInv /\ [Next]_vars => WriteInv'
<1> SUFFICES ASSUME TypeOK, WriteInv, [Next]_vars PROVE WriteInv'
  OBVIOUS
<1> USE DEF scanVars, acceptVars, readerVars, sendVars, kernelVars
<1>a. \A s \in Senders : s # None
  BY TransportAssumption
<1>1. ASSUME mutex = None, UNCHANGED sendVars PROVE WriteInv'
  BY <1>a, <1>1 DEF WriteInv
<1>2. ASSUME UNCHANGED <<mutex, connectedSockets, sendLeft>> PROVE WriteInv'
  BY <1>2 DEF WriteInv
<1>3. CASE ScanStep
  <2>1. CASE ScanInsert
    BY <1>1, <2>1 DEF ScanInsert
  <2> QED
    BY <1>2, <1>3, <2>1 DEF ScanStep, ScanLoop, ScanCheck, ScanConnect
<1>4. CASE \E d \in Devices : AcceptReturns(d)
  BY <1>2, <1>4 DEF AcceptReturns
<1>5. CASE AcceptInsert
  BY <1>1, <1>5 DEF AcceptInsert
<1>6. CASE AcceptFails \/ StopCalled
  BY <1>2, <1>6 DEF AcceptFails, StopCalled
<1>7. CASE \E f \in Fds : HangUp(f) \/ ReaderEnds(f)
  BY <1>2, <1>7 DEF HangUp, ReaderEnds
<1>8. CASE \E f \in Fds : ReaderCleanup(f)
  BY <1>1, <1>8 DEF ReaderCleanup
<1>9. CASE \E s \in Senders : SendCalled(s)
  BY <1>2, <1>9 DEF SendCalled
<1>10. ASSUME NEW s \in Senders, SendLocks(s) PROVE WriteInv'
  <2>1. PICK to \in Targets : /\ sendLeft' = [sendLeft EXCEPT ![s] = to]
                              /\ mutex' = IF to = {} THEN None ELSE s
    BY <1>10 DEF SendLocks
  <2>2. mutex = None /\ UNCHANGED connectedSockets
    BY <1>10 DEF SendLocks
  <2>3. \A e \in to : connectedSockets[e[1]] = e[2]
    BY DEF Targets, Listed
  <2>4. \A t \in Senders \ {s} : sendLeft'[t] = {}
    BY <1>a, <2>1, <2>2 DEF TypeOK, WriteInv
  <2>5. sendLeft'[s] = to
    BY <2>1 DEF TypeOK
  <2> QED
    BY <2>1, <2>2, <2>3, <2>4, <2>5 DEF WriteInv
<1>11. ASSUME NEW s \in Senders, SendWrites(s) PROVE WriteInv'
  <2>1. PICK e \in sendLeft[s] :
           /\ sendLeft' = [sendLeft EXCEPT ![s] = sendLeft[s] \ {e}]
           /\ mutex' = IF sendLeft[s] \ {e} = {} THEN None ELSE s
    BY <1>11 DEF SendWrites
  <2>2. mutex = s /\ UNCHANGED connectedSockets
    BY <1>11, <2>1 DEF SendWrites, WriteInv
  <2>3. \A t \in Senders \ {s} : sendLeft'[t] = {}
    BY <2>1, <2>2 DEF TypeOK, WriteInv
  <2>4. sendLeft'[s] = sendLeft[s] \ {e}
    BY <2>1 DEF TypeOK
  <2> QED
    BY <2>1, <2>2, <2>3, <2>4 DEF WriteInv
<1>12. CASE StopStep
  <2>1. CASE StopJoins
    BY <1>2, <2>1 DEF StopJoins
  <2>2. CASE StopCloses
    BY <1>1, <2>2 DEF StopCloses
  <2> QED
    BY <1>12, <2>1, <2>2 DEF StopStep
<1>13. CASE UNCHANGED vars
  BY <1>2, <1>13 DEF vars
<1> QED
  BY <1>3, <1>4, <1>5, <1>6, <1>7, <1>8, <1>9, <1>10, <1>11, <1>12, <1>13 DEF Next

\* Whatever threads and devices do while a write() blocks, no sender writes to a
\* descriptor that was closed, or reused for another device, after it was looked
\* up (sendPacket, sendPacketToPeer).
THEOREM WritesAlwaysMatch == Spec => []WritesMatch
<1>1. Init => WriteInv
  BY DEF Init, WriteInv
<1>2. Inv => TypeOK
  BY DEF Inv
<1>3. Inv /\ WriteInv => WritesMatch
  <2> SUFFICES ASSUME Inv, WriteInv, NEW s \in Senders, NEW e \in sendLeft[s]
               PROVE  fdConn[e[2]] = e[1]
    BY DEF WritesMatch
  <2>1. e[1] \in Devices /\ e[2] \in Fds
    BY DEF Inv, TypeOK
  <2>2. connectedSockets[e[1]] = e[2]
    BY DEF WriteInv
  <2>3. e[2] # None
    BY <2>1, TransportAssumption
  <2> QED
    BY <2>1, <2>2, <2>3 DEF Inv, SocketsMatch
<1> QED
  BY <1>1, <1>2, <1>3, InitInv, StepInv, WriteStep, PTL DEF Spec

=============================================================================
