--------------------------- MODULE LinuxTransport ---------------------------
(***************************************************************************)
(* The Linux transport (platforms/linux/bluetooth.cpp): a scan thread that *)
(* connects to devices, an accept thread, one detached reader thread per   *)
(* connection, callers of sendPacket, and stop(), around one map from      *)
(* device address to file descriptor that socketsMutex protects.           *)
(*                                                                         *)
(* A critical section that neither waits nor calls anybody is one step,    *)
(* enabled while the mutex is free.  A sender holds the mutex over its     *)
(* write()s, each of which may block.  The section that calls back while   *)
(* it holds the mutex (a new connection, when a discovery callback is      *)
(* registered) stops halfway: the callback sends a version hello, sending  *)
(* locks the mutex its own thread holds, and no step leads out of that     *)
(* ("hello").                                                              *)
(* What travels on a connection is left out: see MeshRelay.                *)
(***************************************************************************)
EXTENDS Naturals, FiniteSets

CONSTANTS
    Devices,            \* addresses of devices in range
    Fds,                \* file descriptors of the process
    None,               \* no descriptor, no device, nobody
    Senders,            \* threads that call sendPacket
    DiscoveryCallback   \* is a callback that sends registered?

ASSUME TransportAssumption ==
    /\ None \notin Devices \cup Fds \cup {"scan", "accept"}
    /\ Senders \cap {None, "scan", "accept"} = {}
    /\ DiscoveryCallback \in BOOLEAN

VARIABLES
    connectedSockets,   \* device -> its descriptor, None if not in the map
    mutex,              \* the thread that holds socketsMutex, or None
    stopThreads,
    scanPc, scanFound, scanDev, scanFd, \* the scan thread, the devices left to try
    acceptPc, acceptDev, acceptFd,  \* the accept thread
    reader,             \* descriptor -> state of the reader thread started for it
    readerDev,          \* descriptor -> the device that reader was started for
    sendPc,             \* sender -> is it inside sendPacket?
    sendLeft,           \* sender -> the entries it has yet to write to
    stopPc,             \* progress of stop()
    fdConn,             \* kernel: descriptor -> device at the other end, None if closed
    hungUp              \* kernel: descriptors whose other end is gone

scanVars   == <<scanPc, scanFound, scanDev, scanFd>>
acceptVars == <<acceptPc, acceptDev, acceptFd>>
readerVars == <<reader, readerDev>>
sendVars   == <<sendPc, sendLeft>>
kernelVars == <<fdConn, hungUp>>
vars == <<connectedSockets, mutex, stopThreads, scanPc, scanFound, scanDev, scanFd,
          acceptPc, acceptDev, acceptFd, reader, readerDev, sendPc, sendLeft, stopPc,
          fdConn, hungUp>>

Free == {f \in Fds : fdConn[f] = None}

Init ==
    /\ connectedSockets = [d \in Devices |-> None]
    /\ mutex = None
    /\ stopThreads = FALSE
    /\ scanPc = "loop" /\ scanFound = {} /\ scanDev = None /\ scanFd = None
    /\ acceptPc = "accept" /\ acceptDev = None /\ acceptFd = None
    /\ reader = [f \in Fds |-> "none"]
    /\ readerDev = [f \in Fds |-> None]
    /\ sendPc = [s \in Senders |-> "idle"]
    /\ sendLeft = [s \in Senders |-> {}]
    /\ stopPc = "running"
    /\ fdConn = [f \in Fds |-> None]
    /\ hungUp = {}

-----------------------------------------------------------------------------
(* The scan thread.                                                        *)

\* The loop condition and the inquiry: the loop ends when it is told to or
\* when the inquiry fails; otherwise some devices answered.
ScanLoop ==
    /\ scanPc = "loop"
    /\ \/ scanPc' = "done" /\ UNCHANGED scanFound
       \/ /\ ~stopThreads
          /\ scanPc' = "next"
          /\ scanFound' \in SUBSET Devices
    /\ UNCHANGED <<connectedSockets, mutex, stopThreads, scanDev, scanFd,
                   acceptVars, readerVars, sendVars, stopPc, kernelVars>>

\* Under the lock: is the next device in the map already?
ScanCheck ==
    /\ scanPc = "next"
    /\ \/ /\ scanFound = {}
          /\ scanPc' = "loop" /\ UNCHANGED <<scanFound, scanDev>>
       \/ \E d \in scanFound :
          /\ mutex = None
          /\ scanFound' = scanFound \ {d}
          /\ \/ connectedSockets[d] # None /\ scanPc' = "next" /\ UNCHANGED scanDev
             \/ connectedSockets[d] = None /\ scanPc' = "connect" /\ scanDev' = d
    /\ UNCHANGED <<connectedSockets, mutex, stopThreads, scanFd, acceptVars,
                   readerVars, sendVars, stopPc, kernelVars>>

\* Variant: the descriptor of a failed connect is not closed.
ScanConnectLeaky ==
    /\ scanPc = "connect"
    /\ \E f \in Free :
          /\ scanFd' = f /\ scanPc' \in {"insert", "next"}
          /\ fdConn' = [fdConn EXCEPT ![f] = scanDev]
    /\ UNCHANGED <<connectedSockets, mutex, stopThreads, scanFound, scanDev,
                   acceptVars, readerVars, sendVars, stopPc, hungUp>>

\* Variant: the result of socket() is not tested.
ScanConnectUnchecked ==
    /\ scanPc = "connect"
    /\ scanPc' = "insert"
    /\ \/ \E f \in Free :
          scanFd' = f /\ fdConn' = [fdConn EXCEPT ![f] = scanDev]
       \/ Free = {} /\ scanFd' = None /\ UNCHANGED fdConn
    /\ UNCHANGED <<connectedSockets, mutex, stopThreads, scanFound, scanDev,
                   acceptVars, readerVars, sendVars, stopPc, hungUp>>

\* socket() and connect(), without the lock; a failure of either leaves no
\* descriptor open.
ScanConnect ==
    /\ scanPc = "connect"
    /\ \/ /\ scanPc' = "next" /\ scanDev' = None
          /\ UNCHANGED <<scanFd, fdConn>>
       \/ \E f \in Free :
          /\ scanFd' = f /\ scanPc' = "insert"
          /\ fdConn' = [fdConn EXCEPT ![f] = scanDev]
          /\ UNCHANGED scanDev
    /\ UNCHANGED <<connectedSockets, mutex, stopThreads, scanFound, acceptVars,
                   readerVars, sendVars, stopPc, hungUp>>

StartReader(d, f) ==
    /\ reader' = [reader EXCEPT ![f] = "reading"]
    /\ readerDev' = [readerDev EXCEPT ![f] = d]

\* Lock, enter the connection in the map, call back, start its reader.
ScanInsert ==
    /\ scanPc = "insert"
    /\ mutex = None
    /\ connectedSockets' = [connectedSockets EXCEPT ![scanDev] = scanFd]
    /\ IF DiscoveryCallback
       THEN mutex' = "scan" /\ scanPc' = "hello" /\ UNCHANGED <<scanDev, scanFd, readerVars>>
       ELSE /\ StartReader(scanDev, scanFd)
            /\ scanPc' = "next" /\ scanDev' = None /\ scanFd' = None
            /\ UNCHANGED mutex
    /\ UNCHANGED <<stopThreads, scanFound, acceptVars, sendVars, stopPc, kernelVars>>

-----------------------------------------------------------------------------
(* The accept thread.                                                      *)

\* accept() returns: a device has connected to us, whether or not we are
\* connected to it already, and whether or not we are stopping.
AcceptReturns(d) ==
    /\ acceptPc = "accept"
    /\ \E f \in Free :
          /\ acceptFd' = f
          /\ fdConn' = [fdConn EXCEPT ![f] = d]
    /\ acceptPc' = "insert" /\ acceptDev' = d
    /\ UNCHANGED <<connectedSockets, mutex, stopThreads, scanVars, readerVars,
                   sendVars, stopPc, hungUp>>

AfterAccept == IF stopThreads THEN "done" ELSE "accept"

\* As ScanInsert, but an entry for the device is overwritten.
AcceptInsert ==
    /\ acceptPc = "insert"
    /\ mutex = None
    /\ connectedSockets' = [connectedSockets EXCEPT ![acceptDev] = acceptFd]
    /\ IF DiscoveryCallback
       THEN /\ mutex' = "accept" /\ acceptPc' = "hello"
            /\ UNCHANGED <<acceptDev, acceptFd, readerVars>>
       ELSE /\ StartReader(acceptDev, acceptFd)
            /\ acceptPc' = AfterAccept /\ acceptDev' = None /\ acceptFd' = None
            /\ UNCHANGED mutex
    /\ UNCHANGED <<stopThreads, scanVars, sendVars, stopPc, kernelVars>>

\* accept() fails, and the loop condition is tested again.
AcceptFails ==
    /\ acceptPc = "accept" /\ stopThreads
    /\ acceptPc' = "done"
    /\ UNCHANGED <<connectedSockets, mutex, stopThreads, acceptDev, acceptFd,
                   scanVars, readerVars, sendVars, stopPc, kernelVars>>

-----------------------------------------------------------------------------
(* Reader threads and senders.                                             *)

\* The other end closes the connection.
HangUp(f) ==
    /\ fdConn[f] # None /\ f \notin hungUp
    /\ hungUp' = hungUp \cup {f}
    /\ UNCHANGED <<connectedSockets, mutex, stopThreads, scanVars, acceptVars,
                   readerVars, sendVars, stopPc, fdConn>>

\* read() returns 0 or an error; the disconnection callback is called.
ReaderEnds(f) ==
    /\ reader[f] = "reading"
    /\ f \in hungUp \/ fdConn[f] = None
    /\ reader' = [reader EXCEPT ![f] = "cleanup"]
    /\ UNCHANGED <<connectedSockets, mutex, stopThreads, scanVars, acceptVars,
                   readerDev, sendVars, stopPc, kernelVars>>

EndReader(f) ==
    /\ reader' = [reader EXCEPT ![f] = "none"]
    /\ readerDev' = [readerDev EXCEPT ![f] = None]

\* Variants: the entry is left in the map; only the reader of the listed
\* connection cleans up; the descriptor is closed before the lock is taken.
ReaderCleanupKeepsEntry(f) ==
    /\ reader[f] = "cleanup"
    /\ mutex = None
    /\ fdConn' = [fdConn EXCEPT ![f] = None]
    /\ hungUp' = hungUp \ {f}
    /\ EndReader(f)
    /\ UNCHANGED <<connectedSockets, mutex, stopThreads, scanVars, acceptVars,
                   sendVars, stopPc>>

ReaderCleanupIfListed(f) ==
    /\ reader[f] = "cleanup"
    /\ mutex = None
    /\ connectedSockets[readerDev[f]] = f
    /\ connectedSockets' = [connectedSockets EXCEPT ![readerDev[f]] = None]
    /\ fdConn' = [fdConn EXCEPT ![f] = None]
    /\ hungUp' = hungUp \ {f}
    /\ EndReader(f)
    /\ UNCHANGED <<mutex, stopThreads, scanVars, acceptVars, sendVars, stopPc>>

ReaderCleanupUnlocked(f) ==
    /\ reader[f] = "cleanup"
    /\ connectedSockets' = [connectedSockets EXCEPT ![readerDev[f]] = None]
    /\ fdConn' = [fdConn EXCEPT ![f] = None]
    /\ hungUp' = hungUp \ {f}
    /\ EndReader(f)
    /\ UNCHANGED <<mutex, stopThreads, scanVars, acceptVars, sendVars, stopPc>>

\* Lock, erase the device's entry, whichever connection it names, and close
\* the descriptor.
ReaderCleanup(f) ==
    /\ reader[f] = "cleanup"
    /\ mutex = None
    /\ connectedSockets' = [connectedSockets EXCEPT ![readerDev[f]] = None]
    /\ fdConn' = [fdConn EXCEPT ![f] = None]
    /\ hungUp' = hungUp \ {f}
    /\ EndReader(f)
    /\ UNCHANGED <<mutex, stopThreads, scanVars, acceptVars, sendVars, stopPc>>

\* A thread calls sendPacket or sendPacketToPeer.
SendCalled(s) ==
    /\ sendPc[s] = "idle"
    /\ sendPc' = [sendPc EXCEPT ![s] = "waiting"]
    /\ UNCHANGED <<connectedSockets, mutex, stopThreads, scanVars, acceptVars,
                   readerVars, sendLeft, stopPc, kernelVars>>

\* The entries a packet is for: all of the map, or that of one device, if it is
\* there.
Listed == {<<d, connectedSockets[d]>> : d \in {x \in Devices : connectedSockets[x] # None}}
Targets == {{}, Listed} \cup {{e} : e \in Listed}

\* It gets the lock, and keeps it while it writes; without an entry it returns.
SendLocks(s) ==
    /\ sendPc[s] = "waiting"
    /\ mutex = None
    /\ \E to \in Targets :
          /\ sendLeft' = [sendLeft EXCEPT ![s] = to]
          /\ mutex' = IF to = {} THEN None ELSE s
          /\ sendPc' = [sendPc EXCEPT ![s] = IF to = {} THEN "idle" ELSE "writing"]
    /\ UNCHANGED <<connectedSockets, stopThreads, scanVars, acceptVars, readerVars,
                   stopPc, kernelVars>>

\* A write() returns, with or without an error; after the last the lock is
\* released.  Until the other end reads or goes away a write() may block: no
\* fairness is assumed of this step.
SendWrites(s) ==
    /\ sendPc[s] = "writing"
    /\ \E e \in sendLeft[s] :
          LET left == sendLeft[s] \ {e}
          IN  /\ sendLeft' = [sendLeft EXCEPT ![s] = left]
              /\ mutex' = IF left = {} THEN None ELSE s
              /\ sendPc' = [sendPc EXCEPT ![s] = IF left = {} THEN "idle" ELSE "writing"]
    /\ UNCHANGED <<connectedSockets, stopThreads, scanVars, acceptVars, readerVars,
                   stopPc, kernelVars>>

-----------------------------------------------------------------------------
(* stop(): set the flag, join the two threads, close what is in the map.   *)

StopCalled ==
    /\ stopPc = "running"
    /\ stopThreads' = TRUE
    /\ stopPc' = "joinScan"
    /\ UNCHANGED <<connectedSockets, mutex, scanVars, acceptVars, readerVars,
                   sendVars, kernelVars>>

StopJoins ==
    /\ \/ stopPc = "joinScan" /\ scanPc = "done" /\ stopPc' = "joinAccept"
       \/ stopPc = "joinAccept" /\ acceptPc = "done" /\ stopPc' = "close"
    /\ UNCHANGED <<connectedSockets, mutex, stopThreads, scanVars, acceptVars,
                   readerVars, sendVars, kernelVars>>

StopCloses ==
    /\ stopPc = "close"
    /\ mutex = None
    /\ LET listed == {connectedSockets[d] : d \in Devices}
       IN  /\ fdConn' = [f \in Fds |-> IF f \in listed THEN None ELSE fdConn[f]]
           /\ hungUp' = hungUp \ listed
    /\ connectedSockets' = [d \in Devices |-> None]
    /\ stopPc' = "stopped"
    /\ UNCHANGED <<mutex, stopThreads, scanVars, acceptVars, readerVars, sendVars>>

-----------------------------------------------------------------------------
\* Steps a running thread takes by itself.
ScanStep   == ScanLoop \/ ScanCheck \/ ScanConnect \/ ScanInsert
StopStep   == StopJoins \/ StopCloses

Next ==
    \/ ScanStep
    \/ \E d \in Devices : AcceptReturns(d)
    \/ AcceptInsert
    \/ AcceptFails
    \/ \E f \in Fds : HangUp(f) \/ ReaderEnds(f) \/ ReaderCleanup(f)
    \/ \E s \in Senders : SendCalled(s) \/ SendLocks(s) \/ SendWrites(s)
    \/ StopCalled
    \/ StopStep

Spec == Init /\ [][Next]_vars

\* Every thread that can take a step by itself is scheduled, and one that waits
\* for a mutex that is free again and again gets it; nobody has to connect, to
\* hang up, to send or to call stop, and no write() has to return.
FairSpec ==
    /\ Spec
    /\ SF_vars(ScanStep) /\ SF_vars(AcceptInsert) /\ SF_vars(StopStep)
    /\ \A f \in Fds : WF_vars(ReaderEnds(f)) /\ SF_vars(ReaderCleanup(f))
    /\ \A s \in Senders : SF_vars(SendLocks(s))

-----------------------------------------------------------------------------
(* Properties.                                                             *)

\* Types, and no thread inserts a descriptor it does not have.
TypeOK ==
    /\ connectedSockets \in [Devices -> Fds \cup {None}]
    /\ mutex \in {None, "scan", "accept"} \cup Senders
    /\ stopThreads \in BOOLEAN
    /\ scanPc \in {"loop", "next", "connect", "insert", "hello", "done"}
    /\ scanFound \subseteq Devices
    /\ scanDev \in Devices \cup {None} /\ scanFd \in Fds \cup {None}
    /\ scanPc \in {"insert", "hello"} => scanFd \in Fds
    /\ scanPc \in {"connect", "insert", "hello"} => scanDev \in Devices
    /\ acceptPc \in {"accept", "insert", "hello", "done"}
    /\ acceptDev \in Devices \cup {None} /\ acceptFd \in Fds \cup {None}
    /\ acceptPc \in {"insert", "hello"} => acceptFd \in Fds /\ acceptDev \in Devices
    /\ reader \in [Fds -> {"none", "reading", "cleanup"}]
    /\ readerDev \in [Fds -> Devices \cup {None}]
    /\ \A f \in Fds : reader[f] # "none" => readerDev[f] \in Devices
    /\ sendPc \in [Senders -> {"idle", "waiting", "writing"}]
    /\ sendLeft \in [Senders -> SUBSET (Devices \X Fds)]
    /\ stopPc \in {"running", "joinScan", "joinAccept", "close", "stopped"}
    /\ fdConn \in [Fds -> Devices \cup {None}]
    /\ hungUp \subseteq Fds

\* The map never names a closed descriptor, nor one that was closed and
\* reused for another device: what is sent to a device goes to that device
\* (connect, accept, cleanup and stop race on map and descriptors).
SocketsMatch ==
    \A d \in Devices :
        connectedSockets[d] # None => fdConn[connectedSockets[d]] = d

\* Until stop() closes what it finds, every open descriptor has exactly one
\* thread that will close it, and a thread closes only a descriptor that is
\* open: no leak and no double close.
Owners(f) ==
    {t \in {"scan", "accept", "reader"} :
        \/ t = "scan" /\ scanPc \in {"insert", "hello"} /\ scanFd = f
        \/ t = "accept" /\ acceptPc \in {"insert", "hello"} /\ acceptFd = f
        \/ t = "reader" /\ reader[f] # "none"}

OneCloser ==
    stopPc # "stopped" =>
        \A f \in Fds : Cardinality(Owners(f)) = IF fdConn[f] = None THEN 0 ELSE 1

\* What a sender writes goes to the device it was meant for, on a descriptor that
\* is still open: although a write() may block while readers find connections
\* broken, stop() closes and devices connect again, nobody closes or reuses a
\* descriptor that a sender has looked up (sendPacket, sendPacketToPeer).
WritesMatch ==
    \A s \in Senders : \A e \in sendLeft[s] : fdConn[e[2]] = e[1]

\* A connection whose other end is gone is closed in the end, whatever other
\* connections the same device has made meanwhile, if no write() blocks for ever
\* with the mutex held (readerThreadFunc).
HungUpClosed ==
    (\A s \in Senders : []<>(sendPc[s] # "writing")) =>
        \A f \in Fds : f \in hungUp ~> f \notin hungUp

-----------------------------------------------------------------------------
(* What comments say and the code does not do.                             *)

\* "Notify about peripheral discovery (ready for communication)"
\* (scanThreadFunc): a connection that was entered in the map gets its reader.
ConnectedIsRead ==
    \A d \in Devices :
        connectedSockets[d] # None ~>
            connectedSockets[d] = None \/ reader[connectedSockets[d]] # "none"

=============================================================================
