---------------------------- MODULE MCTunnelEnds -----------------------------
(* Two instances of Tunnel under fairness: one where only the server may     *)
(* lose its connection, and one where anything else may happen.              *)
EXTENDS Tunnel

ClientOnly == [e \in End |-> IF e = "client" THEN 1 ELSE 0]
MostFaults == FaultKinds \ {"serverDrop", "flush"}

Abandoned == INSTANCE Tunnel WITH Faults <- {"serverDrop"}

VARIABLE abandoned   \* which of the two it is

MCInit == Init /\ abandoned \in BOOLEAN
MCNext ==
    \/ ~abandoned /\ Next /\ UNCHANGED abandoned
    \/ abandoned /\ Abandoned!Next /\ UNCHANGED abandoned

MCSpec == MCInit /\ [][MCNext]_<<vars, abandoned>> /\ Fairness
=============================================================================
