------------------------------ MODULE MCServer ------------------------------
(* Server on small instances. *)
EXTENDS ServerInv, TLC

CONSTANTS v1, v2

TwoViewers == {v1, v2}
OneViewer == {v1}
Viewers == Permutations(TwoViewers)

BothOrders == {PacketFirst, ChatFirst}

Setup(end, losses, orders, faults) ==
    [last |-> end, drops |-> losses, orders |-> orders, faults |-> faults]

\* Four messages each and every fault that leaves the connection alone; three
\* messages, in either order, when nothing but the connection is lost.
Streams  == Setup(3, 0, {PacketFirst}, FaultKinds \ {"drop", "unreachable"})
Healthy  == Setup(2, 1, BothOrders, {"drop"})
Sessions == {Streams, Healthy}

EveryFault == {Setup(2, 2, BothOrders, FaultKinds)}
Resets     == {Setup(3, 0, {PacketFirst}, {"reset"})}
=============================================================================
