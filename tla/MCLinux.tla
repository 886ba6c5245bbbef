------------------------------ MODULE MCLinux ------------------------------
(***************************************************************************)
(* Small instances of LinuxTransport.  Two descriptors are enough for two  *)
(* connections with one device at a time, for a descriptor that is closed  *)
(* and reused for the other device, and for a process that has none left.  *)
(***************************************************************************)
EXTENDS LinuxTransport, TLC

OneDevice  == {"d1"}
TwoDevices == {"d1", "d2"}
TwoFds     == {"fd3", "fd4"}
OneSender  == {"s"}

=============================================================================
