------------------------------ MODULE MCTunnel ------------------------------
(* Tunnel on a small instance. *)
EXTENDS Tunnel

ClientSends == [e \in End |-> IF e = "client" THEN 2 ELSE 1]

NoFaults == {}
=============================================================================
