------------------------------- MODULE MCNode -------------------------------
(***************************************************************************)
(* A small instance of NodeLifecycle.  Bluetooth is switched off and on    *)
(* again once, which is enough for reports that arrive before, between and *)
(* after the steps of initialize and of stop.                              *)
(***************************************************************************)
EXTENDS NodeLifecycle, TLC

OnePeripheral == {"p1"}
OneCentral    == {"c1"}
NoCentral     == {}

=============================================================================
