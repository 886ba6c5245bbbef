--------------------------- MODULE AppleTransport ---------------------------
(***************************************************************************)
(* The Apple transport (platforms/apple/bluetooth.mm): a central manager   *)
(* that scans and connects and a peripheral manager that advertises, with  *)
(* all delegate methods on one serial queue, and with scanning and         *)
(* advertising started by blocks that are sent to the main queue.  Each    *)
(* delegate method is one step.                                            *)
(*                                                                         *)
(* CoreBluetooth is external: for every peripheral it queues what it       *)
(* reports, in the order it happens, while the delegate lags behind.  What *)
(* is written and received is left to MeshRelay and MessagePipeline; here  *)
(* only who can be written to matters.                                     *)
(***************************************************************************)
EXTENDS Naturals, Sequences, FiniteSets

CONSTANTS
    Peripherals,    \* devices in range that advertise the service
    Centrals,       \* devices that may subscribe to our characteristic
    MaxPowerOffs    \* bound: how often Bluetooth is switched off

ASSUME AppleAssumption == MaxPowerOffs \in Nat /\ Peripherals \cap Centrals = {}

VARIABLES
    power,          \* manager -> "none" (not created), "off" or "on"
    powerOffs,
    updates,        \* managers with a didUpdateState to deliver
    mainQueue,      \* blocks sent to the main queue and not run yet
    active,         \* "central" when scanning, "peripheral" when advertising
    service,        \* has setupPeripheral made the characteristic?
    ready,
    link,           \* peripheral -> CBPeripheral.state
    events,         \* peripheral -> reports about it not delivered yet
    discoveredPeripherals, connectedPeripherals, peripheralCharacteristics,
    subscribedCentrals

radioVars == <<power, powerOffs, updates, mainQueue, active, service, ready>>
tableVars == <<discoveredPeripherals, connectedPeripherals, peripheralCharacteristics>>
transportVars == <<radioVars, link, events, tableVars, subscribedCentrals>>

Managers == {"central", "peripheral"}
On == \A m \in Managers : power[m] = "on"

\* init: the managers are made by a block on the main queue.
TransportInit ==
    /\ power = [m \in Managers |-> "none"] /\ powerOffs = 0
    /\ updates = {} /\ mainQueue = {"create"}
    /\ active = {} /\ service = FALSE /\ ready = FALSE
    /\ link = [p \in Peripherals |-> "idle"]
    /\ events = [p \in Peripherals |-> <<>>]
    /\ discoveredPeripherals = {} /\ connectedPeripherals = {}
    /\ peripheralCharacteristics = {} /\ subscribedCentrals = {}

-----------------------------------------------------------------------------
(* CoreBluetooth (external).                                               *)

Report(p, e) == events' = [events EXCEPT ![p] = Append(@, e)]

\* What a connected peripheral answers to a discovery request: the thing asked
\* for, or an error.  One whose connection is gone does not answer.
Answers(p, e) == IF link[p] = "connected" THEN {<<e>>, <<"error">>} ELSE {<<>>}

PowerOn(m) ==
    /\ power[m] = "off"
    /\ power' = [power EXCEPT ![m] = "on"]
    /\ updates' = updates \cup {m}
    /\ UNCHANGED <<powerOffs, mainQueue, active, service, ready, link, events,
                   tableVars, subscribedCentrals>>

\* Bluetooth is switched off: scanning, advertising and every connection end,
\* and the delegate may or may not be told of the connections.
PowerOff ==
    /\ On /\ powerOffs < MaxPowerOffs
    /\ powerOffs' = powerOffs + 1
    /\ power' = [m \in Managers |-> "off"]
    /\ updates' = Managers /\ active' = {}
    /\ link' = [p \in Peripherals |-> "idle"]
    /\ \E told \in BOOLEAN :
          events' = [p \in Peripherals |->
                        IF told /\ link[p] = "connected"
                        THEN Append(events[p], "disconnect") ELSE events[p]]
    /\ UNCHANGED <<mainQueue, service, ready, tableVars, subscribedCentrals>>

\* An advertisement is received; duplicates are asked for, so again and again.
Sighting(p) ==
    /\ "central" \in active /\ events[p] = <<>>
    /\ Report(p, "discover")
    /\ UNCHANGED <<radioVars, link, tableVars, subscribedCentrals>>

Connected(p) ==
    /\ link[p] = "connecting"
    /\ link' = [link EXCEPT ![p] = "connected"]
    /\ Report(p, "connect")
    /\ UNCHANGED <<radioVars, tableVars, subscribedCentrals>>

ConnectFailed(p) ==
    /\ link[p] = "connecting"
    /\ link' = [link EXCEPT ![p] = "idle"]
    /\ Report(p, "fail")
    /\ UNCHANGED <<radioVars, tableVars, subscribedCentrals>>

ConnectionLost(p) ==
    /\ link[p] = "connected"
    /\ link' = [link EXCEPT ![p] = "idle"]
    /\ Report(p, "disconnect")
    /\ UNCHANGED <<radioVars, tableVars, subscribedCentrals>>

-----------------------------------------------------------------------------
(* The delegate, on its serial queue.                                      *)

\* Take the next report about p, which must be e, and queue what it leads to.
Deliver(p, e, more) ==
    /\ events[p] # <<>> /\ Head(events[p]) = e
    /\ events' = [events EXCEPT ![p] = Tail(@) \o more]

\* Variant: scanning and advertising are started where the report arrives.
DidUpdateStateDirect(m) ==
    /\ m \in updates
    /\ updates' = updates \ {m}
    /\ active' = active \cup {n \in {m} : power[n] = "on"}
    /\ service' = (service \/ m = "peripheral")
    /\ UNCHANGED <<power, powerOffs, mainQueue, ready, link, events, tableVars,
                   subscribedCentrals>>

\* centralManagerDidUpdateState, peripheralManagerDidUpdateState.
DidUpdateState(m) ==
    /\ m \in updates
    /\ updates' = updates \ {m}
    /\ mainQueue' = mainQueue \cup {n \in {m} : power[n] = "on"}
    /\ UNCHANGED <<power, powerOffs, active, service, ready, link, events, tableVars,
                   subscribedCentrals>>

\* Known peripherals are passed over; a new one is connected to.
DidDiscover(p) ==
    /\ Deliver(p, "discover", <<>>)
    /\ discoveredPeripherals' = discoveredPeripherals \cup {p}
    /\ link' = IF p \in discoveredPeripherals \/ power["central"] # "on" THEN link
               ELSE [link EXCEPT ![p] = "connecting"]
    /\ UNCHANGED <<radioVars, connectedPeripherals, peripheralCharacteristics,
                   subscribedCentrals>>

\* Variant: the services are asked for twice.
DidConnectTwice(p) ==
    /\ \E more \in Answers(p, "services") : Deliver(p, "connect", more \o more)
    /\ connectedPeripherals' = connectedPeripherals \cup {p}
    /\ UNCHANGED <<radioVars, link, discoveredPeripherals, peripheralCharacteristics,
                   subscribedCentrals>>

DidConnect(p) ==
    /\ \E more \in Answers(p, "services") : Deliver(p, "connect", more)
    /\ connectedPeripherals' = connectedPeripherals \cup {p}
    /\ UNCHANGED <<radioVars, link, discoveredPeripherals, peripheralCharacteristics,
                   subscribedCentrals>>

\* Variant: a peripheral that failed stays among the discovered ones.
DidFailToConnectKeeping(p) ==
    /\ Deliver(p, "fail", <<>>)
    /\ UNCHANGED <<radioVars, link, tableVars, subscribedCentrals>>

DidFailToConnect(p) ==
    /\ Deliver(p, "fail", <<>>)
    /\ discoveredPeripherals' = discoveredPeripherals \ {p}
    /\ UNCHANGED <<radioVars, link, connectedPeripherals, peripheralCharacteristics,
                   subscribedCentrals>>

\* Variant: a lost peripheral is forgotten, so that it is connected to again.
DidDisconnectForgetting(p) ==
    /\ Deliver(p, "disconnect", <<>>)
    /\ discoveredPeripherals' = discoveredPeripherals \ {p}
    /\ connectedPeripherals' = connectedPeripherals \ {p}
    /\ peripheralCharacteristics' = peripheralCharacteristics \ {p}
    /\ UNCHANGED <<radioVars, link, subscribedCentrals>>

\* The peripheral stays among the discovered ones.
DidDisconnect(p) ==
    /\ Deliver(p, "disconnect", <<>>)
    /\ connectedPeripherals' = connectedPeripherals \ {p}
    /\ peripheralCharacteristics' = peripheralCharacteristics \ {p}
    /\ UNCHANGED <<radioVars, link, discoveredPeripherals, subscribedCentrals>>

DidDiscoverServices(p) ==
    /\ \E more \in Answers(p, "characteristics") : Deliver(p, "services", more)
    /\ UNCHANGED <<radioVars, link, tableVars, subscribedCentrals>>

\* Either discovery failed: there is nothing to loop over and nothing is done.
DidDiscoverNothing(p) ==
    /\ Deliver(p, "error", <<>>)
    /\ UNCHANGED <<radioVars, link, tableVars, subscribedCentrals>>

\* The caller adds what the discovery callback does.
DidDiscoverCharacteristics(p) ==
    /\ Deliver(p, "characteristics", <<>>)
    /\ peripheralCharacteristics' = peripheralCharacteristics \cup {p}
    /\ UNCHANGED <<radioVars, link, discoveredPeripherals, connectedPeripherals,
                   subscribedCentrals>>

DidSubscribe(c) ==
    /\ service /\ power["peripheral"] = "on" /\ c \notin subscribedCentrals
    /\ subscribedCentrals' = subscribedCentrals \cup {c}
    /\ UNCHANGED <<radioVars, link, events, tableVars>>

DidUnsubscribe(c) ==
    /\ c \in subscribedCentrals
    /\ subscribedCentrals' = subscribedCentrals \ {c}
    /\ UNCHANGED <<radioVars, link, events, tableVars>>

-----------------------------------------------------------------------------
(* What the bridge calls.                                                  *)

\* One pass of the run loop in initialize, the only place where the main queue
\* is served: the managers are made, startScanning and setupPeripheral with
\* startAdvertising are run.
RunLoop ==
    /\ mainQueue' = {}
    /\ IF "create" \in mainQueue
       THEN power' = [m \in Managers |-> "off"] ELSE UNCHANGED power
    /\ active' = active \cup {m \in Managers \cap mainQueue : power[m] = "on"}
    /\ service' = (service \/ "peripheral" \in mainQueue)
    /\ UNCHANGED <<powerOffs, updates, ready, link, events, tableVars,
                   subscribedCentrals>>

\* initialize has found both managers powered on.
MarkReady ==
    /\ On
    /\ ready' = TRUE
    /\ UNCHANGED <<power, powerOffs, updates, mainQueue, active, service, link, events,
                   tableVars, subscribedCentrals>>

\* stop: neither the connections nor ready are touched.
StopRadio ==
    /\ active' = {}
    /\ UNCHANGED <<power, powerOffs, updates, mainQueue, service, ready, link, events,
                   tableVars, subscribedCentrals>>

\* sendPacket toPeripheralID: will a packet for p be written?
Writable(p) ==
    /\ ready
    /\ p \in connectedPeripherals \cap peripheralCharacteristics
    /\ link[p] = "connected"

\* sendPacket: everyone a packet for all is written to.
Audience == {p \in Peripherals : Writable(p)} \cup
            {c \in subscribedCentrals : ready /\ service}

\* No report about a peripheral is outstanding twice.
TransportTypeOK ==
    /\ power \in [Managers -> {"none", "off", "on"}] /\ powerOffs \in 0..MaxPowerOffs
    /\ updates \subseteq Managers /\ mainQueue \subseteq Managers \cup {"create"}
    /\ active \subseteq Managers /\ service \in BOOLEAN /\ ready \in BOOLEAN
    /\ link \in [Peripherals -> {"idle", "connecting", "connected"}]
    /\ events \in [Peripherals -> Seq({"discover", "connect", "fail", "disconnect",
                                       "services", "characteristics", "error"})]
    /\ \A p \in Peripherals : \A i, j \in DOMAIN events[p] :
          events[p][i] = events[p][j] => i = j
    /\ discoveredPeripherals \subseteq Peripherals
    /\ connectedPeripherals \subseteq Peripherals
    /\ peripheralCharacteristics \subseteq Peripherals
    /\ subscribedCentrals \subseteq Centrals

=============================================================================
