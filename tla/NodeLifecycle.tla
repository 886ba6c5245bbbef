--------------------------- MODULE NodeLifecycle ----------------------------
(***************************************************************************)
(* A node from main() to its end, on the Apple transport: the main thread  *)
(* (main.cpp, BitchatManager, NetworkService::start and stop, the console  *)
(* loop), the announce runner's thread, the detached threads that announce *)
(* us to a peripheral 200 ms after it was discovered, and the transport.   *)
(* The cleanup runner takes no step: its start() refuses, because nobody   *)
(* has called its initialize().                                            *)
(***************************************************************************)
EXTENDS AppleTransport

VARIABLES
    pc,             \* where the main thread is
    runner,         \* the announce runner's thread
    shouldExit,     \* its flag
    delayed,        \* detached threads: <<peripheral, its connection then>>
    connections,    \* peripheral -> connections made so far
    announced,      \* who was written an announcement on this connection
    lost            \* peripherals whose connection or discovery broke off

lifeVars == <<pc, runner, shouldExit>>
vars == <<transportVars, pc, runner, shouldExit, delayed, connections, announced, lost>>

\* Bound: connections counted per peripheral.
MaxConnections == 2

Alive == pc \notin {"done", "failed"}
Up == pc = "ui"     \* in the console loop

Init ==
    /\ TransportInit
    /\ pc = "initialize" /\ runner = "none" /\ shouldExit = FALSE
    /\ delayed = {} /\ announced = {} /\ lost = {}
    /\ connections = [p \in Peripherals |-> 0]

-----------------------------------------------------------------------------
(* The main thread.                                                        *)

\* BitchatManager::initialize; only the key pair can fail it.
Initialize ==
    /\ pc = "initialize" /\ pc' \in {"check", "failed"}
    /\ UNCHANGED <<transportVars, runner, shouldExit, delayed, connections,
                   announced, lost>>

\* The condition of the transport's waiting loop, and a pass of the run loop.
Wait ==
    /\ \/ /\ pc = "check" /\ ~On /\ pc' = "loop"
          /\ UNCHANGED transportVars
       \/ pc = "loop" /\ RunLoop /\ pc' = "check"
    /\ UNCHANGED <<runner, shouldExit, delayed, connections, announced, lost>>

BluetoothReady ==
    /\ pc = "check" /\ MarkReady /\ pc' = "start"
    /\ UNCHANGED <<runner, shouldExit, delayed, connections, announced, lost>>

\* BluetoothAnnounceRunner::start.
StartRunner == shouldExit' = FALSE /\ runner' = "test"

\* The rest of NetworkService::start and of BitchatManager::start.
StartRunners ==
    /\ pc = "start" /\ pc' = "ui"
    /\ StartRunner
    /\ UNCHANGED <<transportVars, delayed, connections, announced, lost>>

\* The user types /exit.  The other commands are MessagePipeline's, and at the
\* end of the input getline fails and the loop goes on: a step that changes nothing.
Exit ==
    /\ pc = "ui" /\ pc' = "stop"
    /\ UNCHANGED <<transportVars, runner, shouldExit, delayed, connections,
                   announced, lost>>

\* Variant: the runner is not told.
StopRunnerSilently ==
    /\ pc = "stop" /\ pc' = "join"
    /\ UNCHANGED <<transportVars, runner, shouldExit, delayed, connections,
                   announced, lost>>

\* BluetoothAnnounceRunner::stop, up to the join.
StopRunner ==
    /\ pc = "stop" /\ pc' = "join"
    /\ shouldExit' = TRUE
    /\ UNCHANGED <<transportVars, runner, delayed, connections, announced, lost>>

\* The join returns; the cleanup runner has no thread to join.
JoinRunner ==
    /\ pc = "join" /\ runner = "done"
    /\ pc' = "bluetooth" /\ runner' = "none"
    /\ UNCHANGED <<transportVars, shouldExit, delayed, connections, announced, lost>>

StopBluetooth ==
    /\ pc = "bluetooth" /\ StopRadio /\ pc' = "stopped"
    /\ UNCHANGED <<runner, shouldExit, delayed, connections, announced, lost>>

\* The user interface says goodbye, main returns and the process ends, with the
\* detached threads it still has.
Return ==
    /\ pc = "stopped" /\ pc' = "done"
    /\ UNCHANGED <<transportVars, runner, shouldExit, delayed, connections,
                   announced, lost>>

MainStep == \/ Initialize \/ Wait \/ BluetoothReady \/ StartRunners
            \/ StopRunner \/ JoinRunner \/ StopBluetooth \/ Return

-----------------------------------------------------------------------------
(* The announce runner and the detached threads.                           *)

RunnerTest ==
    /\ Alive /\ runner = "test"
    /\ runner' = IF shouldExit THEN "done" ELSE "send"
    /\ UNCHANGED <<transportVars, pc, shouldExit, delayed, connections, announced,
                   lost>>

RunnerSend ==
    /\ Alive /\ runner = "send" /\ runner' = "sleep"
    /\ announced' = announced \cup Audience
    /\ UNCHANGED <<transportVars, pc, shouldExit, delayed, connections, lost>>

RunnerWake ==
    /\ Alive /\ runner = "sleep" /\ runner' = "test"
    /\ UNCHANGED <<transportVars, pc, shouldExit, delayed, connections, announced,
                   lost>>

RunnerStep == RunnerTest \/ RunnerSend \/ RunnerWake

\* The detached thread wakes up and sends, whatever has happened meanwhile.
DelayedAnnounce(t) ==
    /\ Alive /\ t \in delayed
    /\ delayed' = delayed \ {t}
    /\ announced' = announced \cup {p \in {t[1]} : Writable(p)}
    /\ UNCHANGED <<transportVars, lifeVars, connections, lost>>

-----------------------------------------------------------------------------
(* The transport's steps, with what the node does in them.                 *)

\* onPeripheralDiscovered: the hello (see MeshRelay), then a detached thread.
Discovered(p) ==
    /\ DidDiscoverCharacteristics(p)
    /\ delayed' = delayed \cup {<<p, connections[p]>>}
    /\ UNCHANGED <<lifeVars, connections, announced, lost>>

Established(p) ==
    /\ connections[p] < MaxConnections
    /\ Connected(p)
    /\ connections' = [connections EXCEPT ![p] = @ + 1]
    /\ announced' = announced \ {p}
    /\ UNCHANGED <<lifeVars, delayed, lost>>

\* The peripheral is lost to us: its connection broke, or a discovery did.
Broken(p) ==
    /\ ConnectionLost(p) \/ DidDiscoverNothing(p)
    /\ lost' = lost \cup {p}
    /\ UNCHANGED <<lifeVars, delayed, connections, announced>>

\* So is everyone known or just sighted when Bluetooth is switched off.
SwitchedOff ==
    /\ PowerOff
    /\ lost' = lost \cup discoveredPeripherals \cup {p \in Peripherals : events[p] # <<>>}
    /\ UNCHANGED <<lifeVars, delayed, connections, announced>>

DelegateStep(p) ==
    /\ \/ DidDiscover(p) \/ DidConnect(p) \/ DidFailToConnect(p)
       \/ DidDisconnect(p) \/ DidDiscoverServices(p)
    /\ UNCHANGED <<lifeVars, delayed, connections, announced, lost>>

RadioStep ==
    /\ \/ \E m \in Managers : PowerOn(m)
       \/ \E p \in Peripherals : ConnectFailed(p)
       \/ \E c \in Centrals : DidSubscribe(c)
    /\ UNCHANGED <<lifeVars, delayed, connections, announced, lost>>

Unsubscribed(c) ==
    /\ DidUnsubscribe(c)
    /\ announced' = announced \ {c}
    /\ UNCHANGED <<lifeVars, delayed, connections, lost>>

Sighted(p) == Sighting(p) /\ UNCHANGED <<lifeVars, delayed, connections, announced, lost>>

StateUpdate(m) ==
    DidUpdateState(m) /\ UNCHANGED <<lifeVars, delayed, connections, announced, lost>>

TransportStep ==
    /\ Alive
    /\ \/ RadioStep \/ SwitchedOff
       \/ \E c \in Centrals : Unsubscribed(c)
       \/ \E m \in Managers : StateUpdate(m)
       \/ \E p \in Peripherals : \/ Sighted(p) \/ Established(p) \/ Broken(p)
                                 \/ DelegateStep(p) \/ Discovered(p)

Next == \/ MainStep \/ Exit \/ RunnerStep \/ TransportStep
        \/ \E t \in delayed : DelayedAnnounce(t)

Spec == Init /\ [][Next]_vars

\* Threads go on (sleeps end), the delegate's queue is served, advertisements
\* keep coming, and of repeated attempts to connect one succeeds.  Nothing is
\* assumed of the user and of who switches Bluetooth on or breaks connections.
Fairness ==
    /\ WF_vars(MainStep)
    /\ WF_vars(RunnerStep)
    /\ \A p \in Peripherals :
          /\ WF_vars(Alive /\ (DelegateStep(p) \/ Discovered(p)))
          /\ WF_vars(Alive /\ DidDiscoverNothing(p) /\ Broken(p))
          /\ WF_vars(Alive /\ Sighted(p))
          /\ SF_vars(Alive /\ Established(p))
    /\ \A m \in Managers : WF_vars(Alive /\ StateUpdate(m))

FairSpec == Spec /\ Fairness

-----------------------------------------------------------------------------

\* Every variable of the node and its transport stays within its type.
TypeOK ==
    /\ TransportTypeOK
    /\ pc \in {"initialize", "check", "loop", "start", "ui", "stop", "join",
               "bluetooth", "stopped", "done", "failed"}
    /\ runner \in {"none", "test", "send", "sleep", "done"}
    /\ shouldExit \in BOOLEAN
    /\ delayed \subseteq Peripherals \X (1..MaxConnections)
    /\ connections \in [Peripherals -> 0..MaxConnections]
    /\ announced \subseteq Peripherals \cup Centrals
    /\ lost \subseteq Peripherals

\* After manager->stop() the announce runner has no thread and the radio neither
\* scans nor advertises, whatever the delegate is still told: the blocks that
\* would start it again need the main thread, which serves its queue no more.
QuietAfterStop ==
    pc \in {"stopped", "done"} => runner = "none" /\ active = {}

\* The announcement sent 200 ms after a discovery is only ever written on the
\* connection it was meant for, and nothing is written to a peripheral whose
\* connection the delegate has seen end.
OwnConnection ==
    /\ peripheralCharacteristics \subseteq connectedPeripherals
    /\ \A t \in delayed : Writable(t[1]) => connections[t[1]] = t[2]

\* After /exit the process ends: the runner's sleep is over at some time and
\* stop() joins it.
ExitEnds == pc = "stop" ~> pc = "done"

\* While a node scans, every peripheral in range is announced to, however often
\* connecting to it fails first, unless its connection or a discovery breaks.
\* So is every central that stays subscribed.
EveryoneAnnounced ==
    /\ \A p \in Peripherals :
          Up /\ "central" \in active
             ~> ~Up \/ "central" \notin active \/ p \in announced \cup lost
    /\ \A c \in Centrals :
          Up /\ c \in subscribedCentrals
             ~> ~Up \/ c \notin subscribedCentrals \/ c \in announced

\* A manager that is on while the node is in its console loop comes to scan or to
\* advertise, as start() says of itself: "Once called, the system will
\* automatically start scanning for other devices and advertising its own
\* presence based on delegate callbacks".
RadioStarts ==
    \A m \in Managers :
        Up /\ power[m] = "on" ~> m \in active \/ ~Up \/ power[m] # "on"

=============================================================================
