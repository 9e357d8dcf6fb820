--------------------------- MODULE SequenceNumbers ---------------------------
(***************************************************************************)
(* The "<sequence>:<text>" framing every tunnel message carries, and the   *)
(* check a receiving pump makes of it.                                     *)
(*                                                                         *)
(* A message body is a sequence number, a colon and a text: "_start",      *)
(* "_end", or base64 of what one read of the socket returned.  "_" is not  *)
(* in the base64 alphabet, so the three kinds of text never collide; a     *)
(* body is kept as a record that says which kind it is.  One read's worth  *)
(* of bytes is a chunk, numbered from 1 in the order of the stream.  The   *)
(* counters are Java longs and are taken as unbounded integers.            *)
(***************************************************************************)
EXTENDS Integers

Message == [seq : Nat, kind : {"_start", "_end", "data"}, chunk : Nat]

StartMsg(n)   == [seq |-> n, kind |-> "_start", chunk |-> 0]
EndMsg(n)     == [seq |-> n, kind |-> "_end",   chunk |-> 0]
DataMsg(n, c) == [seq |-> n, kind |-> "data",   chunk |-> c]

\* lastSequence before any message has been accepted
NoSequence == -1

\* The messages a receiver takes after lastSequence.  A receiver that has
\* accepted nothing takes any number, and 0 is taken at any time: the server
\* numbers its refusal of a tunnel 0 whatever came before it.
Accepts(lastSequence, thisSeq) ==
    \/ lastSequence = NoSequence
    \/ thisSeq = 0
    \/ lastSequence + 1 = thisSeq

\* Mutant of CheckSequence: a number that is refused becomes the last one.
CheckSequenceMoves(lastSequence, thisSeq) == thisSeq

\* lastSequence after the check; a number that is refused does not move it.
CheckSequence(lastSequence, thisSeq) ==
    IF Accepts(lastSequence, thisSeq) THEN thisSeq ELSE lastSequence
=============================================================================
