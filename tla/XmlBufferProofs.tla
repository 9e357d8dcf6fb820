--------------------------- MODULE XmlBufferProofs ---------------------------
(***************************************************************************)
(* The invariants of XmlBuffer for every size of the context, of the      *)
(* first block and of the pieces.  Together they are inductive: moving    *)
(* the bytes is right because the context in front of them is no longer   *)
(* than what is there (ContextKept), and a new block or the shift makes   *)
(* room because the size counts that context (NeededSize).                *)
(***************************************************************************)
EXTENDS XmlBuffer, TLAPS

\* The bytes of held from ptr to end follow the first e bytes of the entity;
\* those in front of ptr are the last ones of these.
Follow(held, ptr, end, e) == \A i \in ptr..(end - 1) : held[i] = e + (i - ptr) + 1
Precede(held, ptr, e) ==
    \A j \in 1..Least(CONTEXT_BYTES, e) : j <= ptr /\ held[ptr - j] = e - j + 1

IInv == TypeOK /\ BufferHolds /\ ContextKept /\ RoomGiven /\ ResumesToTheEnd

\* TypeOK with the quantifier over the numbers written out.
LEMMA TypeNumbers ==
    TypeOK <=> /\ bufferPtr \in Nat /\ bufferEnd \in Nat /\ bufferLim \in Nat
               /\ parseEnd \in Nat /\ given \in Nat /\ eaten \in Nat /\ room \in Nat
               /\ buffer \in [0..(bufferLim - 1) -> Nat]
               /\ bufferPtr <= bufferEnd /\ bufferEnd <= bufferLim
               /\ parsing \in Statuses /\ finalBuffer \in BOOLEAN /\ failed \in BOOLEAN
  BY DEF TypeOK

\* What the smaller of two numbers is.
LEMMA LeastNat ==
    ASSUME NEW a \in Nat, NEW b \in Nat
    PROVE  Least(a, b) \in Nat /\ Least(a, b) <= a /\ Least(a, b) <= b
           /\ (Least(a, b) = a \/ Least(a, b) = b)
  BY DEF Least

\* A new block has the size that is needed.
LEMMA SizeEnough ==
    ASSUME NEW needed, NEW size \in Sizes(needed)
    PROVE  size \in Nat /\ size >= needed
  BY DEF Sizes

LEMMA InitInvariant == Init => IInv
<1> SUFFICES ASSUME Init PROVE IInv
  OBVIOUS
<1>1. TypeOK
  <2>1. buffer \in [0..(bufferLim - 1) -> Nat]
    <3>1. 0..(bufferLim - 1) = {}
      BY DEF Init
    <3> QED
      BY <3>1 DEF Init
  <2>2. /\ bufferPtr \in Nat /\ bufferEnd \in Nat /\ bufferLim \in Nat
        /\ parseEnd \in Nat /\ given \in Nat /\ eaten \in Nat /\ room \in Nat
        /\ bufferPtr <= bufferEnd /\ bufferEnd <= bufferLim
    BY DEF Init
  <2>3. parsing \in Statuses /\ finalBuffer \in BOOLEAN /\ failed \in BOOLEAN
    BY DEF Init, Statuses
  <2> QED
    BY <2>1, <2>2, <2>3, TypeNumbers
<1>2. BufferHolds /\ RoomGiven /\ ResumesToTheEnd
  BY DEF Init, BufferHolds, RoomGiven, ResumesToTheEnd
<1>3. ContextKept
  BY BufferAssumption DEF Init, ContextKept, Least
<1> QED
  BY <1>1, <1>2, <1>3 DEF IInv

\* The processors move bufferPtr over bytes of the buffer only.
LEMMA ProcessesInvariant ==
    ASSUME NEW end \in Nat, NEW held, NEW final \in BOOLEAN,
           bufferPtr \in Nat, eaten \in Nat, bufferPtr <= end,
           parsing \in Statuses, failed \in BOOLEAN,
           Follow(held, bufferPtr, end, eaten), Precede(held, bufferPtr, eaten),
           Processes(end, final)
    PROVE  /\ bufferPtr' \in Nat /\ eaten' \in Nat /\ bufferPtr' <= end
           /\ bufferPtr' - bufferPtr = eaten' - eaten
           /\ parsing' \in Statuses /\ failed' \in BOOLEAN
           /\ Follow(held, bufferPtr', end, eaten') /\ Precede(held, bufferPtr', eaten')
<1>1. PICK n \in 0..(end - bufferPtr) :
          bufferPtr' = bufferPtr + n /\ eaten' = eaten + n
  BY DEF Processes
<1>2. parsing' \in Statuses /\ failed' \in BOOLEAN
  BY DEF Processes, Statuses
<1>3. /\ bufferPtr' \in Nat /\ eaten' \in Nat /\ bufferPtr' <= end
      /\ bufferPtr' - bufferPtr = eaten' - eaten
  BY <1>1
<1>4. ASSUME NEW i \in bufferPtr'..(end - 1)
      PROVE  held[i] = eaten' + (i - bufferPtr') + 1
  BY <1>1, <1>3 DEF Follow
<1>5. ASSUME NEW j \in 1..Least(CONTEXT_BYTES, eaten')
      PROVE  j <= bufferPtr' /\ held[bufferPtr' - j] = eaten' - j + 1
  <2>1. j \in Nat /\ 1 <= j /\ j <= CONTEXT_BYTES /\ j <= eaten'
    BY <1>3, LeastNat, BufferAssumption
  <2>2. CASE j <= n
    <3>1. bufferPtr + n - j \in bufferPtr..(end - 1)
      BY <1>1, <2>1, <2>2
    <3> QED
      BY <1>1, <2>1, <2>2, <3>1 DEF Follow
  <2>3. CASE j > n
    <3>1. j - n \in 1..Least(CONTEXT_BYTES, eaten)
      BY <1>1, <2>1, <2>3, BufferAssumption DEF Least
    <3>2. /\ j - n <= bufferPtr
          /\ held[bufferPtr - (j - n)] = eaten - (j - n) + 1
      BY <3>1 DEF Precede
    <3>3. bufferPtr - (j - n) = bufferPtr' - j /\ eaten - (j - n) + 1 = eaten' - j + 1
      BY <1>1, <2>1
    <3> QED
      BY <1>1, <2>1, <3>2, <3>3
  <2> QED
    BY <1>1, <2>1, <2>2, <2>3
<1> QED
  BY <1>2, <1>3, <1>4, <1>5 DEF Follow, Precede

\* Bytes moved to the front of a block that is large enough, with the
\* context in front of them, are where the invariant says.
LEMMA MovedInvariant ==
    ASSUME IInv, TakesData, NEW len \in Nat, NEW size \in Nat, NEW held,
           size >= NeededSize(len),
           held \in [0..(size - 1) -> Nat],
           \A i \in 0..(size - 1) : i < bufferEnd - bufferPtr + Keep
                                      => held[i] = buffer[bufferPtr - Keep + i],
           buffer' = held, bufferLim' = size, bufferPtr' = Keep,
           bufferEnd' = bufferEnd - bufferPtr + Keep,
           room' = len,
           UNCHANGED <<parseEnd, given, eaten, parsing, finalBuffer, failed>>
    PROVE  IInv'
<1> USE BufferAssumption
<1>1. /\ bufferPtr \in Nat /\ bufferEnd \in Nat /\ bufferLim \in Nat
      /\ given \in Nat /\ eaten \in Nat
      /\ bufferPtr <= bufferEnd /\ bufferEnd <= bufferLim
  BY TypeNumbers DEF IInv
<1>2. Keep \in Nat /\ Keep <= bufferPtr /\ Keep <= CONTEXT_BYTES
  BY <1>1, LeastNat DEF Keep
<1>3. size >= len + (bufferEnd - bufferPtr) + Keep
  BY DEF NeededSize
<1>4. TypeOK'
  BY <1>1, <1>2, <1>3 DEF IInv, TypeOK, Statuses
<1>5. BufferHolds'
  <2>1. bufferEnd' - bufferPtr' = given' - eaten'
    BY <1>1, <1>2 DEF IInv, BufferHolds
  <2>2. ASSUME NEW i \in bufferPtr'..(bufferEnd' - 1)
        PROVE  buffer'[i] = eaten' + (i - bufferPtr') + 1
    <3>1. i \in 0..(size - 1) /\ i < bufferEnd - bufferPtr + Keep
      BY <1>1, <1>2, <1>3
    <3>2. bufferPtr - Keep + i \in bufferPtr..(bufferEnd - 1)
      BY <1>1, <1>2, <3>1
    <3>3. buffer'[i] = buffer[bufferPtr - Keep + i]
      BY <3>1
    <3> QED
      BY <1>1, <1>2, <3>1, <3>2, <3>3 DEF IInv, BufferHolds
  <2> QED
    BY <2>1, <2>2 DEF BufferHolds
<1>6. ContextKept'
  <2>1. ASSUME NEW j \in 1..Least(CONTEXT_BYTES, eaten')
        PROVE  j <= bufferPtr' /\ buffer'[bufferPtr' - j] = eaten' - j + 1
    <3>1. j \in Nat /\ 1 <= j /\ j <= CONTEXT_BYTES
      <4>1. eaten' \in Nat
        BY <1>1
      <4>2. Least(CONTEXT_BYTES, eaten') \in Nat /\ Least(CONTEXT_BYTES, eaten') <= CONTEXT_BYTES
        BY <4>1, LeastNat
      <4> QED
        BY <4>2
    <3>2. j <= bufferPtr /\ buffer[bufferPtr - j] = eaten - j + 1
      BY DEF IInv, ContextKept
    <3>3. j <= Keep
      BY <1>1, <3>1, <3>2 DEF Keep, Least
    <3>4. Keep - j \in 0..(size - 1) /\ Keep - j < bufferEnd - bufferPtr + Keep
      BY <1>1, <1>2, <1>3, <3>1, <3>3
    <3>5. buffer'[Keep - j] = buffer[bufferPtr - Keep + (Keep - j)]
      BY <3>4
    <3>6. bufferPtr - Keep + (Keep - j) = bufferPtr - j
      BY <1>1, <1>2, <3>1
    <3> QED
      BY <3>2, <3>3, <3>5, <3>6
  <2> QED
    BY <2>1 DEF ContextKept
<1>7. RoomGiven'
  BY <1>1, <1>2, <1>3 DEF RoomGiven
<1>8. ResumesToTheEnd'
  BY DEF TakesData, ResumesToTheEnd
<1> QED
  BY <1>4, <1>5, <1>6, <1>7, <1>8 DEF IInv

LEMMA GetBufferInvariant ==
    ASSUME IInv, NEW len \in Nat, XML_GetBuffer(len)
    PROVE  IInv'
<1> USE BufferAssumption
<1>1. /\ room' = len /\ TakesData
      /\ UNCHANGED <<parseEnd, given, eaten, parsing, finalBuffer, failed>>
  BY DEF XML_GetBuffer
<1>2. /\ bufferPtr \in Nat /\ bufferEnd \in Nat /\ bufferLim \in Nat
      /\ bufferPtr <= bufferEnd /\ bufferEnd <= bufferLim
      /\ buffer \in [0..(bufferLim - 1) -> Nat]
  BY TypeNumbers DEF IInv
<1>3. Keep \in Nat /\ Keep <= bufferPtr
  BY <1>2, LeastNat DEF Keep
<1>4. CASE /\ len <= bufferLim - bufferEnd
           /\ UNCHANGED <<buffer, bufferPtr, bufferEnd, bufferLim>>
  BY <1>1, <1>4 DEF IInv, TypeOK, BufferHolds, ContextKept, RoomGiven, ResumesToTheEnd
<1>5. CASE NeededSize(len) <= bufferLim /\ Shift
  <2> DEFINE held == [i \in 0..(bufferLim - 1) |->
                        IF i < bufferEnd - bufferPtr + Keep
                        THEN buffer[i + (bufferPtr - Keep)] ELSE buffer[i]]
  <2>1. /\ buffer' = held /\ bufferLim' = bufferLim /\ bufferPtr' = Keep
        /\ bufferEnd' = bufferEnd - (bufferPtr - Keep)
    BY <1>5 DEF Shift
  <2>2. ASSUME NEW i \in 0..(bufferLim - 1), i < bufferEnd - bufferPtr + Keep
        PROVE  /\ i + (bufferPtr - Keep) \in 0..(bufferLim - 1)
               /\ i + (bufferPtr - Keep) = bufferPtr - Keep + i
    BY <1>2, <1>3, <2>2
  <2>3. held \in [0..(bufferLim - 1) -> Nat]
    BY <1>2, <2>2
  <2>4. \A i \in 0..(bufferLim - 1) : i < bufferEnd - bufferPtr + Keep
           => held[i] = buffer[bufferPtr - Keep + i]
    BY <2>2
  <2>5. bufferEnd' = bufferEnd - bufferPtr + Keep
    BY <1>2, <1>3, <2>1
  <2>6. NeededSize(len) \in Nat /\ bufferLim >= NeededSize(len)
    BY <1>2, <1>3, <1>5 DEF NeededSize
  <2> HIDE DEF held
  <2> QED
    BY <1>1, <1>2, <2>1, <2>3, <2>4, <2>5, <2>6, MovedInvariant
<1>6. CASE Move(len)
  <2> DEFINE held(size) == [i \in 0..(size - 1) |->
                              IF i < bufferEnd - bufferPtr + Keep
                              THEN buffer[bufferPtr - Keep + i] ELSE 0]
  <2>1. PICK size \in Sizes(NeededSize(len)) :
          /\ buffer' = held(size) /\ bufferLim' = size /\ bufferPtr' = Keep
          /\ bufferEnd' = bufferEnd - bufferPtr + Keep
    BY <1>6 DEF Move
  <2>2. size \in Nat /\ size >= NeededSize(len)
    BY <2>1, SizeEnough
  <2>3. ASSUME NEW i \in 0..(size - 1), i < bufferEnd - bufferPtr + Keep
        PROVE  bufferPtr - Keep + i \in 0..(bufferLim - 1)
    BY <1>2, <1>3, <2>2, <2>3
  <2>4. held(size) \in [0..(size - 1) -> Nat]
    BY <1>2, <2>3
  <2>5. \A i \in 0..(size - 1) : i < bufferEnd - bufferPtr + Keep
           => held(size)[i] = buffer[bufferPtr - Keep + i]
    OBVIOUS
  <2> HIDE DEF held
  <2> QED
    BY <1>1, <2>1, <2>2, <2>4, <2>5, MovedInvariant
<1> QED
  BY <1>4, <1>5, <1>6 DEF XML_GetBuffer, MakesRoom

LEMMA ParseBufferInvariant ==
    ASSUME IInv, NEW len \in Nat, NEW isFinal \in BOOLEAN, XML_ParseBuffer(len, isFinal)
    PROVE  IInv'
<1> USE BufferAssumption
<1>1. /\ bufferPtr \in Nat /\ bufferEnd \in Nat /\ bufferLim \in Nat
      /\ given \in Nat /\ eaten \in Nat /\ room \in Nat
      /\ bufferPtr <= bufferEnd /\ bufferEnd <= bufferLim
      /\ buffer \in [0..(bufferLim - 1) -> Nat]
      /\ parsing \in Statuses /\ failed \in BOOLEAN
  BY TypeNumbers DEF IInv
<1>2. /\ buffer' = [i \in 0..(bufferLim - 1) |->
                      IF i >= bufferEnd /\ i < bufferEnd + len
                      THEN given + (i - bufferEnd) + 1 ELSE buffer[i]]
      /\ bufferEnd' = bufferEnd + len /\ parseEnd' = bufferEnd' /\ given' = given + len
      /\ finalBuffer' = isFinal /\ room' = 0 /\ bufferLim' = bufferLim
      /\ len <= room /\ Processes(bufferEnd + len, isFinal)
  BY DEF XML_ParseBuffer
<1>3. bufferEnd + len <= bufferLim
  BY <1>1, <1>2 DEF IInv, RoomGiven
<1>4. buffer' \in [0..(bufferLim - 1) -> Nat]
  <2>1. ASSUME NEW i \in 0..(bufferLim - 1), i >= bufferEnd
        PROVE  given + (i - bufferEnd) + 1 \in Nat
    BY <1>1, <2>1
  <2> QED
    BY <1>1, <1>2, <2>1
<1>5. ASSUME NEW i \in bufferPtr..((bufferEnd + len) - 1)
      PROVE  buffer'[i] = eaten + (i - bufferPtr) + 1
  <2>1. i \in 0..(bufferLim - 1)
    BY <1>1, <1>3
  <2>2. CASE i < bufferEnd
    <3>1. buffer'[i] = buffer[i]
      BY <1>1, <1>2, <2>1, <2>2
    <3>2. i \in bufferPtr..(bufferEnd - 1)
      BY <1>1, <2>2
    <3> QED
      BY <3>1, <3>2 DEF IInv, BufferHolds
  <2>3. CASE i >= bufferEnd
    <3>1. buffer'[i] = given + (i - bufferEnd) + 1
      BY <1>1, <1>2, <2>1, <2>3
    <3>2. bufferEnd - bufferPtr = given - eaten
      BY DEF IInv, BufferHolds
    <3> QED
      BY <1>1, <2>1, <3>1, <3>2
  <2> QED
    BY <1>1, <2>1, <2>2, <2>3
<1>6. ASSUME NEW j \in 1..Least(CONTEXT_BYTES, eaten)
      PROVE  j <= bufferPtr /\ buffer'[bufferPtr - j] = eaten - j + 1
  <2>1. j \in Nat /\ 1 <= j
    BY <1>1, LeastNat
  <2>2. j <= bufferPtr /\ buffer[bufferPtr - j] = eaten - j + 1
    BY DEF IInv, ContextKept
  <2>3. bufferPtr - j \in 0..(bufferLim - 1) /\ bufferPtr - j < bufferEnd
    BY <1>1, <2>1, <2>2
  <2> QED
    BY <1>1, <1>2, <2>2, <2>3
<1>7. /\ bufferPtr' \in Nat /\ eaten' \in Nat /\ bufferPtr' <= bufferEnd + len
      /\ bufferPtr' - bufferPtr = eaten' - eaten
      /\ parsing' \in Statuses /\ failed' \in BOOLEAN
      /\ Follow(buffer', bufferPtr', bufferEnd + len, eaten')
      /\ Precede(buffer', bufferPtr', eaten')
  <2>1. bufferEnd + len \in Nat /\ bufferPtr <= bufferEnd + len
    BY <1>1
  <2>2. Follow(buffer', bufferPtr, bufferEnd + len, eaten)
    <3> SUFFICES ASSUME NEW i \in bufferPtr..((bufferEnd + len) - 1)
                 PROVE  buffer'[i] = eaten + (i - bufferPtr) + 1
      BY DEF Follow
    <3> QED
      BY <1>5
  <2>3. Precede(buffer', bufferPtr, eaten)
    BY <1>6, Zenon DEF Precede
  <2> QED
    BY <1>1, <1>2, <2>1, <2>2, <2>3, ProcessesInvariant
<1>8. TypeOK'
  BY <1>1, <1>2, <1>3, <1>4, <1>7 DEF TypeOK
<1>9. BufferHolds'
  <2>1. bufferEnd - bufferPtr = given - eaten
    BY DEF IInv, BufferHolds
  <2> QED
    <3>1. bufferEnd' - bufferPtr' = given' - eaten'
      BY SMTT(30), <1>1, <1>2, <1>7, <2>1
    <3>2. Follow(buffer', bufferPtr', bufferEnd', eaten')
      BY <1>2, <1>7
    <3> QED
      BY <3>1, <3>2, Zenon DEF BufferHolds, Follow
<1>10. ContextKept'
  BY <1>7, Zenon DEF ContextKept, Precede
<1>11. RoomGiven' /\ ResumesToTheEnd'
  BY <1>1, <1>2, <1>3 DEF RoomGiven, ResumesToTheEnd
<1> QED
  BY <1>8, <1>9, <1>10, <1>11 DEF IInv

\* A processor called on the bytes that are there.
LEMMA AgainInvariant ==
    ASSUME IInv, NEW final \in BOOLEAN, Processes(bufferEnd, final),
           UNCHANGED <<buffer, bufferEnd, bufferLim, given, room>>,
           parseEnd' = bufferEnd, finalBuffer' \in BOOLEAN
    PROVE  IInv'
<1>1. /\ bufferPtr \in Nat /\ bufferEnd \in Nat /\ bufferLim \in Nat
      /\ given \in Nat /\ eaten \in Nat /\ bufferPtr <= bufferEnd
      /\ parsing \in Statuses /\ failed \in BOOLEAN
      /\ buffer \in [0..(bufferLim - 1) -> Nat]
  BY TypeNumbers DEF IInv
<1>2. /\ bufferPtr' \in Nat /\ eaten' \in Nat /\ bufferPtr' <= bufferEnd
      /\ bufferPtr' - bufferPtr = eaten' - eaten
      /\ parsing' \in Statuses /\ failed' \in BOOLEAN
      /\ Follow(buffer, bufferPtr', bufferEnd, eaten') /\ Precede(buffer, bufferPtr', eaten')
  <2>1. Follow(buffer, bufferPtr, bufferEnd, eaten) /\ Precede(buffer, bufferPtr, eaten)
    BY DEF IInv, BufferHolds, ContextKept, Follow, Precede
  <2> QED
    BY <1>1, <2>1, ProcessesInvariant
<1>3. TypeOK'
  BY <1>1, <1>2 DEF IInv, TypeOK
<1>4. BufferHolds'
  <2>1. bufferEnd - bufferPtr = given - eaten
    BY DEF IInv, BufferHolds
  <2> QED
    BY SMTT(30), <1>1, <1>2, <2>1 DEF BufferHolds, Follow
<1>5. ContextKept' /\ RoomGiven' /\ ResumesToTheEnd'
  BY <1>2 DEF IInv, ContextKept, RoomGiven, ResumesToTheEnd, Precede
<1> QED
  BY <1>3, <1>4, <1>5 DEF IInv

LEMMA NextInvariant == IInv /\ [Next]_bvars => IInv'
<1> SUFFICES ASSUME IInv, [Next]_bvars PROVE IInv'
  OBVIOUS
<1> USE BufferAssumption
<1>1. ASSUME NEW len \in 0..MaxLen, XML_GetBuffer(len) PROVE IInv'
  BY <1>1, GetBufferInvariant
<1>2. ASSUME NEW len \in 0..MaxLen, NEW isFinal \in BOOLEAN, XML_ParseBuffer(len, isFinal)
      PROVE  IInv'
  BY <1>2, ParseBufferInvariant
<1>3. ASSUME NEW isFinal \in BOOLEAN, XML_ParseEmpty(isFinal) PROVE IInv'
  <2>1. CASE isFinal
    BY <1>3, <2>1, AgainInvariant DEF XML_ParseEmpty
  <2>2. CASE ~isFinal
    BY <1>3, <2>2 DEF XML_ParseEmpty, IInv, TypeOK, Statuses, BufferHolds, ContextKept,
                      RoomGiven, ResumesToTheEnd
  <2> QED
    BY <2>1, <2>2
<1>4. CASE XML_ResumeParser
  <2>1. finalBuffer \in BOOLEAN /\ parseEnd = bufferEnd
    BY <1>4, TypeNumbers DEF IInv, ResumesToTheEnd, XML_ResumeParser
  <2> QED
    BY <1>4, <2>1, AgainInvariant DEF XML_ResumeParser
<1>5. CASE XML_StopParser
  BY <1>5 DEF XML_StopParser, IInv, TypeOK, Statuses, BufferHolds, ContextKept, RoomGiven,
              ResumesToTheEnd
<1>6. CASE UNCHANGED bvars
  BY <1>6 DEF bvars, IInv, TypeOK, BufferHolds, ContextKept, RoomGiven, ResumesToTheEnd
<1> QED
  BY <1>1, <1>2, <1>3, <1>4, <1>5, <1>6 DEF Next

LEMMA Invariant == BSpec => []IInv
<1> QED
  BY InitInvariant, NextInvariant, PTL DEF BSpec

\* The buffer between the application and the processors is safe: the
\* invariant the model checker looks at is the inductive one.
THEOREM BufferIsSafe == BSpec => []BufferSafe
<1>1. IInv => BufferSafe
  BY DEF IInv, BufferSafe
<1> QED
  BY Invariant, <1>1, PTL

\* The offsets of the buffer stay in order and within the block, whatever is
\* given, consumed, moved or resumed.
THEOREM BufferTypeOK == BSpec => []TypeOK
<1>1. IInv => TypeOK
  BY DEF IInv
<1> QED
  BY Invariant, <1>1, PTL

\* No byte is lost, repeated or put out of order between XML_Parse and the
\* processors.
THEOREM BufferIsTheInput == BSpec => []BufferHolds
<1>1. IInv => BufferHolds
  BY DEF IInv
<1> QED
  BY Invariant, <1>1, PTL

\* The last XML_CONTEXT_BYTES bytes consumed survive every shift and growth.
THEOREM ContextIsKept == BSpec => []ContextKept
<1>1. IInv => ContextKept
  BY DEF IInv
<1> QED
  BY Invariant, <1>1, PTL

\* A parser that is resumed is shown all that has come: parseEndPtr is the end
\* of the buffer for as long as it is suspended.
THEOREM ResumedToTheEnd == BSpec => []ResumesToTheEnd
<1>1. IInv => ResumesToTheEnd
  BY DEF IInv
<1> QED
  BY Invariant, <1>1, PTL

\* XML_GetBuffer gives the room it was asked for.
THEOREM RoomIsGiven == BSpec => []RoomGiven
<1>1. IInv => RoomGiven
  BY DEF IInv
<1> QED
  BY Invariant, <1>1, PTL
=============================================================================
