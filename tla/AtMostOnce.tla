----------------------------- MODULE AtMostOnce -----------------------------
(***************************************************************************)
(* What duplicate detection promises ("Prevent duplicate message           *)
(* processing", extras/docs/protocol.md): a packet, known by its key, is   *)
(* handed to its handler at most once, however often it is delivered.      *)
(***************************************************************************)
EXTENDS Naturals

CONSTANT Keys

VARIABLE count      \* how often each packet has been handled

Init == count = [k \in Keys |-> 0]

Process(k) ==
    /\ count[k] = 0
    /\ count' = [count EXCEPT ![k] = 1]

Next == \E k \in Keys : Process(k)

Spec == Init /\ [][Next]_count

=============================================================================
