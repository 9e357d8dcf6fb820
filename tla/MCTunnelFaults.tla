--------------------------- MODULE MCTunnelFaults ---------------------------
(* Four instances of Tunnel in one run: one chunk in either direction, to    *)
(* which everything may happen, and three chunks in either direction, where  *)
(* only the client's connection may be lost.                                 *)
EXTENDS TunnelInv

Chunks(n, from) == [e \in End |-> IF e = from THEN n ELSE 0]

MCChunk == Chunks(1, "client")
Drops   == {"clientDrop"}

Down == INSTANCE Tunnel WITH MaxChunks <- Chunks(1, "server")

Uploads == INSTANCE Tunnel WITH
    MaxChunks <- Chunks(3, "client"), Faults <- Drops

Downloads == INSTANCE Tunnel WITH
    MaxChunks <- Chunks(3, "server"), Faults <- Drops

VARIABLE kind   \* which of the four it is

MCInit == Init /\ kind \in {"up", "down", "uploads", "downloads"}
MCNext ==
    \/ kind = "up" /\ Next /\ UNCHANGED kind
    \/ kind = "down" /\ Down!Next /\ UNCHANGED kind
    \/ kind = "uploads" /\ Uploads!Next /\ UNCHANGED kind
    \/ kind = "downloads" /\ Downloads!Next /\ UNCHANGED kind

MCSpec == MCInit /\ [][MCNext]_<<vars, kind>>
=============================================================================
