----------------------------- MODULE MCRouting -----------------------------
(* Small instances of Routing for TLC.                                     *)
EXTENDS Routing

TwoOneOne == [i \in 0 .. 2 |-> 2 - i]  \* the weight 0 counts as 1
============================================================================
