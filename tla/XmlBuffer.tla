------------------------------ MODULE XmlBuffer ------------------------------
(***************************************************************************)
(* The buffer between the application and the processors of expat         *)
(* (lib/xmlparse.c): XML_GetBuffer, XML_ParseBuffer, XML_Parse,           *)
(* XML_StopParser and XML_ResumeParser, built with XML_CONTEXT_BYTES.     *)
(*                                                                         *)
(* A byte is its number in the entity; 0 is a byte nobody has written.    *)
(* bufferPtr, bufferEnd and bufferLim are offsets from buffer.  What a    *)
(* processor does is to consume some of the bytes; XmlContent, XmlProlog  *)
(* and XmlChunks say how.                                                 *)
(***************************************************************************)
EXTENDS Naturals

CONSTANTS
    CONTEXT_BYTES,    \* XML_CONTEXT_BYTES
    INIT_SIZE,        \* INIT_BUFFER_SIZE
    Doublings,        \* bound: how often a size is doubled
    MaxLen,           \* bound: bytes of one piece
    MaxBytes          \* bound: bytes in all

ASSUME BufferAssumption ==
    /\ CONTEXT_BYTES \in Nat /\ INIT_SIZE \in Nat \ {0}
    /\ Doublings \in Nat /\ MaxLen \in Nat /\ MaxBytes \in Nat

VARIABLES
    buffer,           \* the bytes from buffer to bufferLim
    bufferPtr, bufferEnd, bufferLim,
    parseEnd,         \* parseEndPtr, an offset as long as the block is the same
    given,            \* parseEndByteIndex: bytes handed over
    eaten,            \* history: bytes the processors have consumed
    room,             \* what the last XML_GetBuffer was asked for, until used
    parsing,          \* ps_parsing
    finalBuffer,      \* ps_finalBuffer
    failed            \* processor = errorProcessor

bvars == <<buffer, bufferPtr, bufferEnd, bufferLim, parseEnd, given, eaten, room,
           parsing, finalBuffer, failed>>

Statuses == {"INITIALIZED", "PARSING", "SUSPENDED", "FINISHED"}

Init ==
    /\ buffer = [i \in {} |-> 0]
    /\ bufferPtr = 0 /\ bufferEnd = 0 /\ bufferLim = 0 /\ parseEnd = 0
    /\ given = 0 /\ eaten = 0 /\ room = 0
    /\ parsing = "INITIALIZED" /\ finalBuffer = FALSE /\ failed = FALSE

TakesData == parsing \in {"INITIALIZED", "PARSING"}

Least(a, b) == IF a <= b THEN a ELSE b

(* XML_GetBuffer *)

\* The consumed bytes that stay in front of bufferPtr.
Keep == Least(bufferPtr, CONTEXT_BYTES)
NeededSize(len) == len + (bufferEnd - bufferPtr) + Keep

ShiftKeepsEnd ==
    LET offset == bufferPtr - Keep
        count  == bufferEnd - bufferPtr + Keep
    IN  /\ buffer' = [i \in 0..(bufferLim - 1) |->
                        IF i < count THEN buffer[i + offset] ELSE buffer[i]]
        /\ bufferPtr' = Keep /\ UNCHANGED <<bufferEnd, bufferLim>>

\* memmove to the start of the buffer.
Shift ==
    LET offset == bufferPtr - Keep
        count  == bufferEnd - bufferPtr + Keep
    IN  /\ buffer' = [i \in 0..(bufferLim - 1) |->
                        IF i < count THEN buffer[i + offset] ELSE buffer[i]]
        /\ bufferPtr' = Keep /\ bufferEnd' = bufferEnd - offset
        /\ UNCHANGED bufferLim

\* bufferSize is doubled at least once, and until it is enough.
Start == IF bufferLim = bufferPtr THEN INIT_SIZE ELSE bufferLim - bufferPtr
Sizes(needed) ==
    {size \in {Start * 2^k : k \in 1..Doublings} :
        /\ size \in Nat /\ size >= needed
        /\ size > 2 * Start => size < 2 * needed}

\* memcpy to a new block.
Move(len) ==
    LET count == bufferEnd - bufferPtr + Keep
    IN  \E size \in Sizes(NeededSize(len)) :
          /\ buffer' = [i \in 0..(size - 1) |->
                          IF i < count THEN buffer[bufferPtr - Keep + i] ELSE 0]
          /\ bufferLim' = size /\ bufferPtr' = Keep /\ bufferEnd' = count

MakesRoom(len) ==
    \/ /\ len <= bufferLim - bufferEnd
       /\ UNCHANGED <<buffer, bufferPtr, bufferEnd, bufferLim>>
    \/ /\ len > bufferLim - bufferEnd /\ NeededSize(len) <= bufferLim
       /\ Shift
    \/ /\ len > bufferLim - bufferEnd /\ NeededSize(len) > bufferLim
       /\ Move(len)

XML_GetBuffer(len) ==
    /\ TakesData /\ MakesRoom(len) /\ room' = len
    /\ UNCHANGED <<parseEnd, given, eaten, parsing, finalBuffer, failed>>

(* What a processor makes of the bytes from bufferPtr to end *)

\* errorProcessor consumes nothing.  A processor that ends with an error may
\* have moved nextPtr.  With no error and nobody stopping, the last piece
\* finishes the parsing.
Processes(end, final) ==
    \/ /\ failed
       /\ parsing' = "PARSING"
       /\ UNCHANGED <<bufferPtr, eaten, failed>>
    \/ /\ ~failed
       /\ \E n \in 0..(end - bufferPtr) :
             bufferPtr' = bufferPtr + n /\ eaten' = eaten + n
       /\ \E st \in {"PARSING", "SUSPENDED", "FINISHED"} :
             \/ failed' = TRUE  /\ parsing' = st
             \/ failed' = FALSE /\ parsing' = IF st = "PARSING" /\ final THEN "FINISHED" ELSE st

\* len bytes have been written where XML_GetBuffer said.  XML_Parse with
\* bytes is XML_GetBuffer, a copy and this.
XML_ParseBuffer(len, isFinal) ==
    /\ TakesData /\ len <= room
    /\ buffer' = [i \in 0..(bufferLim - 1) |->
                    IF i >= bufferEnd /\ i < bufferEnd + len
                    THEN given + (i - bufferEnd) + 1 ELSE buffer[i]]
    /\ bufferEnd' = bufferEnd + len /\ parseEnd' = bufferEnd' /\ given' = given + len
    /\ finalBuffer' = isFinal /\ room' = 0
    /\ Processes(bufferEnd + len, isFinal)
    /\ UNCHANGED bufferLim

\* XML_Parse with no bytes: only the last piece is looked at again.
XML_ParseEmpty(isFinal) ==
    /\ TakesData
    /\ finalBuffer' = isFinal
    /\ IF isFinal
       THEN parseEnd' = bufferEnd /\ Processes(bufferEnd, TRUE)
       ELSE parsing' = "PARSING" /\ UNCHANGED <<bufferPtr, parseEnd, eaten, failed>>
    /\ UNCHANGED <<buffer, bufferEnd, bufferLim, given, room>>

XML_ResumeParser ==
    /\ parsing = "SUSPENDED"
    /\ Processes(parseEnd, finalBuffer)
    /\ UNCHANGED <<buffer, bufferEnd, bufferLim, parseEnd, given, room, finalBuffer>>

\* XML_StopParser between two calls: in a handler it is in Processes, and only
\* there may it suspend ("must be called from within a call-back handler,
\* except when aborting", expat.h).
XML_StopParser ==
    /\ parsing # "FINISHED" /\ parsing' = "FINISHED"
    /\ UNCHANGED <<buffer, bufferPtr, bufferEnd, bufferLim, parseEnd, given, eaten,
                   room, finalBuffer, failed>>

Next ==
    \/ \E len \in 0..MaxLen :
         \/ given + len <= MaxBytes /\ XML_GetBuffer(len)
         \/ \E isFinal \in BOOLEAN : XML_ParseBuffer(len, isFinal)
    \/ \E isFinal \in BOOLEAN : XML_ParseEmpty(isFinal)
    \/ XML_ResumeParser \/ XML_StopParser

BSpec == Init /\ [][Next]_bvars

-----------------------------------------------------------------------------
(* Properties *)

TypeOK ==
    /\ \A n \in {bufferPtr, bufferEnd, bufferLim, parseEnd, given, eaten, room} :
          n \in Nat
    /\ buffer \in [0..(bufferLim - 1) -> Nat]
    /\ bufferPtr <= bufferEnd /\ bufferEnd <= bufferLim
    /\ parsing \in Statuses /\ finalBuffer \in BOOLEAN /\ failed \in BOOLEAN

\* From bufferPtr to bufferEnd are the bytes given and not consumed, in their
\* order: whatever is moved, copied or resumed, none is lost or read twice.
BufferHolds ==
    /\ bufferEnd - bufferPtr = given - eaten
    /\ \A i \in bufferPtr..(bufferEnd - 1) : buffer[i] = eaten + (i - bufferPtr) + 1

\* In front of bufferPtr are the last CONTEXT_BYTES bytes consumed, or all
\* there were: the context XML_GetInputContext shows.
ContextKept ==
    \A j \in 1..Least(CONTEXT_BYTES, eaten) :
        j <= bufferPtr /\ buffer[bufferPtr - j] = eaten - j + 1

\* The application may write as many bytes as it asked for.
RoomGiven == room <= bufferLim - bufferEnd

\* XML_ResumeParser goes on to the end of what has come.
ResumesToTheEnd == parsing = "SUSPENDED" => parseEnd = bufferEnd

(***************************************************************************)
(* All of it together: the offsets stay in their order and in the block,  *)
(* and whatever is shifted, moved to a larger block, consumed in part,    *)
(* suspended or resumed, the processors are shown every byte once and in  *)
(* order, the context is there, and the application has its room.         *)
(***************************************************************************)
BufferSafe == TypeOK /\ BufferHolds /\ ContextKept /\ RoomGiven /\ ResumesToTheEnd
=============================================================================
