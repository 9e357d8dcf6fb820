-------------------------------- MODULE Pipe --------------------------------
(***************************************************************************)
(* What one direction of a tunnel promises: the far socket is given a run  *)
(* of consecutive chunks of the near socket's stream, and is shut only at  *)
(* the end of the stream, or before it was given anything.  The head of    *)
(* the stream may be missing, its middle may not, and the run may stop     *)
(* anywhere.                                                               *)
(***************************************************************************)
EXTENDS Integers, Sequences

VARIABLES
    produced,   \* chunks read from the near socket so far
    finished,   \* the end of the near socket's stream has been read
    delivered,  \* chunks given to the far socket
    ended       \* the far socket's output has been shut

vars == <<produced, finished, delivered, ended>>

Init ==
    /\ produced = 0
    /\ finished = FALSE
    /\ delivered = <<>>
    /\ ended = FALSE

Produce ==
    /\ ~finished
    /\ produced' = produced + 1
    /\ UNCHANGED <<finished, delivered, ended>>

Finish ==
    /\ finished' = TRUE
    /\ UNCHANGED <<produced, delivered, ended>>

Deliver ==
    /\ ~ended
    /\ \E c \in 1..produced :
         /\ delivered # <<>> => c = delivered[Len(delivered)] + 1
         /\ delivered' = Append(delivered, c)
    /\ UNCHANGED <<produced, finished, ended>>

Shut ==
    /\ ~ended
    /\ delivered # <<>> => finished /\ delivered[Len(delivered)] = produced
    /\ ended' = TRUE
    /\ UNCHANGED <<produced, finished, delivered>>

Next == Produce \/ Finish \/ Deliver \/ Shut

Spec == Init /\ [][Next]_vars
=============================================================================
