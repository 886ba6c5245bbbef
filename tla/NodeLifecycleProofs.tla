------------------------ MODULE NodeLifecycleProofs -------------------------
(***************************************************************************)
(* Proofs about NodeLifecycle for any sets of peripherals and centrals and *)
(* any number of times Bluetooth is switched off.                          *)
(***************************************************************************)
EXTENDS NodeLifecycle, TLAPS

\* The join comes before the radio is stopped, and the radio is only started
\* from inside initialize.
StopInv ==
    /\ pc \in {"bluetooth", "stopped", "done"} => runner = "none"
    /\ pc \in {"stopped", "done"} => active = {}

\* Initially nothing has been stopped (main).
LEMMA StopInit == Init => StopInv
  BY DEF Init, StopInv

\* The steps of the transport that happen in any phase start nothing: a report
\* of the power only queues a block (didUpdateState).
LEMMA TransportQuiet ==
  ASSUME TransportStep
  PROVE  UNCHANGED lifeVars /\ active' \in {active, {}}
<1>1. CASE RadioStep
  BY <1>1 DEF RadioStep, PowerOn, ConnectFailed, DidSubscribe, radioVars, lifeVars
<1>2. CASE SwitchedOff
  BY <1>2 DEF SwitchedOff, PowerOff, lifeVars
<1>3. ASSUME NEW c \in Centrals, Unsubscribed(c)
      PROVE  UNCHANGED lifeVars /\ active' \in {active, {}}
  BY <1>3 DEF Unsubscribed, DidUnsubscribe, radioVars, lifeVars
<1>4. ASSUME NEW m \in Managers, StateUpdate(m)
      PROVE  UNCHANGED lifeVars /\ active' \in {active, {}}
  BY <1>4 DEF StateUpdate, DidUpdateState, lifeVars
<1>5. ASSUME NEW p \in Peripherals,
             Sighted(p) \/ Established(p) \/ Broken(p) \/ DelegateStep(p) \/ Discovered(p)
      PROVE  UNCHANGED lifeVars /\ active' \in {active, {}}
  <2>1. CASE Sighted(p)
    BY <2>1 DEF Sighted, Sighting, radioVars, lifeVars
  <2>2. CASE Established(p)
    BY <2>2 DEF Established, Connected, radioVars, lifeVars
  <2>3. CASE Broken(p)
    BY <2>3 DEF Broken, ConnectionLost, DidDiscoverNothing, radioVars, lifeVars
  <2>4. CASE DelegateStep(p)
    BY <2>4 DEF DelegateStep, DidDiscover, DidConnect, DidFailToConnect, DidDisconnect,
                DidDiscoverServices, radioVars, lifeVars
  <2>5. CASE Discovered(p)
    BY <2>5 DEF Discovered, DidDiscoverCharacteristics, radioVars, lifeVars
  <2> QED BY <1>5, <2>1, <2>2, <2>3, <2>4, <2>5
<1> QED BY <1>1, <1>2, <1>3, <1>4, <1>5 DEF TransportStep

\* No step of the main thread, the runner, a detached thread or the transport
\* breaks the order of stopping (NetworkService::stop).
LEMMA StopStep == StopInv /\ [Next]_vars => StopInv'
<1> SUFFICES ASSUME StopInv, [Next]_vars PROVE StopInv'
  OBVIOUS
<1> USE DEF StopInv
<1>1. CASE MainStep
  <2>1. CASE Initialize
    BY <2>1 DEF Initialize, transportVars, radioVars
  <2>2. CASE Wait
    BY <2>2 DEF Wait, transportVars, radioVars
  <2>3. CASE BluetoothReady
    BY <2>3 DEF BluetoothReady
  <2>4. CASE StartRunners
    BY <2>4 DEF StartRunners, StartRunner
  <2>5. CASE StopRunner
    BY <2>5 DEF StopRunner
  <2>6. CASE JoinRunner
    BY <2>6 DEF JoinRunner
  <2>7. CASE StopBluetooth
    BY <2>7 DEF StopBluetooth, StopRadio
  <2>8. CASE Return
    BY <2>8 DEF Return, transportVars, radioVars
  <2> QED BY <1>1, <2>1, <2>2, <2>3, <2>4, <2>5, <2>6, <2>7, <2>8 DEF MainStep
<1>2. CASE Exit
  BY <1>2 DEF Exit
<1>3. CASE RunnerStep
  BY <1>3 DEF RunnerStep, RunnerTest, RunnerSend, RunnerWake, transportVars, radioVars
<1>4. CASE TransportStep
  BY <1>4, TransportQuiet DEF lifeVars
<1>5. ASSUME NEW t \in delayed, DelayedAnnounce(t) PROVE StopInv'
  BY <1>5 DEF DelayedAnnounce, transportVars, radioVars, lifeVars
<1>6. CASE UNCHANGED vars
  BY <1>6 DEF vars, transportVars, radioVars
<1> QED BY <1>1, <1>2, <1>3, <1>4, <1>5, <1>6 DEF Next

\* After manager->stop() no announce thread is left and the radio stays off,
\* whatever CoreBluetooth still reports (NetworkService::stop, bluetooth.mm).
THEOREM StopsQuiet == Spec => []QuietAfterStop
<1>1. StopInv => QuietAfterStop
  BY DEF StopInv, QuietAfterStop
<1> QED BY StopInit, StopStep, <1>1, PTL DEF Spec

=============================================================================
